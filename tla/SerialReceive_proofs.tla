----------------------- MODULE SerialReceive_proofs ------------------------
(***************************************************************************)
(* Proofs about SerialReceive, for every size of the queue, the mirror and *)
(* the drain slices, and any number of bytes, connections and leases: the  *)
(* frames and the queue hold what was received except what is counted as   *)
(* discarded, the evidence of a stop is true, the owner of a lease reads   *)
(* the stream without a gap, and nothing pending is forgotten.             *)
(*                                                                         *)
(* The operators of the model concatenate, cut and filter sequences, so    *)
(* the first half of the module is about those: Bytes, Kept, and what the  *)
(* queue, the drain and the mirror do to them.  Their lemmas are proved by *)
(* induction, over a set of numbers that has 0 and is closed under + 1     *)
(* (Induction) or a set of strings that has <<>> and is closed under       *)
(* Append (StrInduction); both follow from the least element of a set of   *)
(* naturals.                                                               *)
(*                                                                         *)
(* The invariant says where a byte is: in one place (OnePlace), in the     *)
(* line of the pipe unless it was discarded (Ledger), and, for the bytes a *)
(* stop owes, on this side of the boundary once it is drawn (Owed).        *)
(***************************************************************************)
EXTENDS SerialReceive, WellFoundedInduction, SequenceTheorems, FiniteSetTheorems, TLAPS

\* Bytes are numbered in the order the device sends them.
Str == Seq(Nat)
Chunks == Seq(Str)

-----------------------------------------------------------------------------
(* Induction over the natural numbers, with a set in place of a predicate. *)

LEMMA LeastNumber ==
  ASSUME NEW T, T \subseteq Nat, T # {}
  PROVE \E n \in T : \A m \in T : n <= m
<1>1. \E x \in T : \A y \in T : ~ (<<y, x>> \in OpToRel(<, Nat))
  BY NatLessThanWellFounded, WFMin
<1>2. PICK x \in T : \A y \in T : ~ (<<y, x>> \in OpToRel(<, Nat))
  BY <1>1
<1>3. ASSUME NEW y \in T PROVE x <= y
  <2>1. <<y, x>> \in Nat \X Nat
    OBVIOUS
  <2>2. ~(y < x)
    BY <1>2, <2>1 DEF OpToRel
  <2> QED BY <2>2
<1> QED BY <1>3

LEMMA Induction ==
  ASSUME NEW T, T \subseteq Nat, 0 \in T, \A n \in T : n + 1 \in T
  PROVE T = Nat
<1>1. SUFFICES ASSUME Nat \ T # {} PROVE FALSE
  OBVIOUS
<1>2. PICK n \in Nat \ T : \A m \in Nat \ T : n <= m
  BY <1>1, LeastNumber
<1>3. n # 0 /\ n - 1 \in Nat
  OBVIOUS
<1>4. n - 1 \in T
  BY <1>2, <1>3
<1> QED BY <1>3, <1>4

-----------------------------------------------------------------------------
(* FlattenSeq.                                                             *)

\* f holds the prefixes of s, flattened, up to the n-th.
PrefixTable(s, n, f) == f = [i \in 1..n |-> IF i = 1 THEN s[i] ELSE f[i-1] \o s[i]]

LEMMA PrefixesExist ==
  ASSUME NEW s, NEW N \in Nat
  PROVE \E f : PrefixTable(s, N, f)
<1> DEFINE T == {n \in Nat : \E f : PrefixTable(s, n, f)}
<1>1. 0 \in T
  <2> DEFINE f == [i \in 1..0 |-> s[i]]
  <2>1. PrefixTable(s, 0, f)
    BY DEF PrefixTable
  <2> QED BY <2>1
<1>2. ASSUME NEW n \in T PROVE n + 1 \in T
  <2>1. PICK f : PrefixTable(s, n, f)
    OBVIOUS
  <2> DEFINE g == [i \in 1..(n+1) |->
                     IF i = n + 1 THEN IF i = 1 THEN s[i] ELSE f[i-1] \o s[i] ELSE f[i]]
  <2>2. ASSUME NEW i \in 1..(n+1) PROVE g[i] = IF i = 1 THEN s[i] ELSE g[i-1] \o s[i]
    <3>1. CASE i = n + 1
      BY <3>1
    <3>2. CASE i # n + 1
      <4>1. i \in 1..n
        BY <3>2
      <4>2. f[i] = [j \in 1..n |-> IF j = 1 THEN s[j] ELSE f[j-1] \o s[j]][i]
        BY <2>1 DEF PrefixTable
      <4>3. f[i] = IF i = 1 THEN s[i] ELSE f[i-1] \o s[i]
        BY <4>1, <4>2
      <4>4. i # 1 => i - 1 \in 1..(n+1) /\ i - 1 # n + 1
        BY <4>1
      <4> QED BY <4>1, <4>3, <4>4, <3>2
    <3> QED BY <3>1, <3>2
  <2>3. g = [i \in 1..(n+1) |-> IF i = 1 THEN s[i] ELSE g[i-1] \o s[i]]
    BY <2>2
  <2>4. PrefixTable(s, n + 1, g)
    BY <2>3 DEF PrefixTable
  <2> QED BY <2>4
<1> HIDE DEF T
<1>3. T = Nat
  <2>1. T \subseteq Nat BY DEF T
  <2> QED BY <1>1, <1>2, <2>1, Induction
<1> QED BY <1>3 DEF T

LEMMA BytesArePrefix ==
  ASSUME NEW s \in Chunks, s # <<>>
  PROVE \E f : /\ PrefixTable(s, Len(s), f) /\ Bytes(s) = f[Len(s)]
               /\ \A i \in 1..Len(s) : f[i] = IF i = 1 THEN s[i] ELSE f[i-1] \o s[i]
<1>1. Len(s) \in Nat /\ Len(s) # 0
  BY DEF Chunks
<1>2. \E f : PrefixTable(s, Len(s), f)
  BY <1>1, PrefixesExist
<1> DEFINE h == CHOOSE f : f = [i \in 1..Len(s) |-> IF i = 1 THEN s[i] ELSE f[i-1] \o s[i]]
<1>3. PrefixTable(s, Len(s), h)
  BY <1>2 DEF PrefixTable
<1>4. Bytes(s) = h[Len(s)]
  BY <1>1 DEF Bytes, FlattenSeq
<1> HIDE DEF h
<1>5. ASSUME NEW i \in 1..Len(s) PROVE h[i] = IF i = 1 THEN s[i] ELSE h[i-1] \o s[i]
  <2>1. h[i] = [j \in 1..Len(s) |-> IF j = 1 THEN s[j] ELSE h[j-1] \o s[j]][i]
    BY <1>3 DEF PrefixTable
  <2> QED BY <2>1
<1> QED BY <1>3, <1>4, <1>5

LEMMA BytesEmpty == Bytes(<<>>) = <<>>
BY DEF Bytes, FlattenSeq

LEMMA BytesAppend ==
  ASSUME NEW s \in Chunks, NEW b \in Str
  PROVE /\ Bytes(s) \in Str
        /\ Append(s, b) \in Chunks
        /\ Bytes(Append(s, b)) = Bytes(s) \o b
<1> DEFINE t == Append(s, b)
<1>0. /\ t \in Chunks /\ Len(t) = Len(s) + 1 /\ t # <<>> /\ Len(s) \in Nat
      /\ \A i \in 1..Len(s) : t[i] = s[i] /\ s[i] \in Str
      /\ t[Len(s) + 1] = b
  BY DEF Chunks
<1> HIDE DEF t
<1>1. PICK g : /\ Bytes(t) = g[Len(t)]
               /\ \A i \in 1..Len(t) : g[i] = IF i = 1 THEN t[i] ELSE g[i-1] \o t[i]
  BY <1>0, BytesArePrefix
<1>2. CASE s = <<>>
  <2>1. Bytes(s) = <<>> /\ Len(s) = 0
    BY <1>2, BytesEmpty
  <2>2. Bytes(t) = b
    BY <1>0, <1>1, <2>1
  <2>3. <<>> \o b = b /\ <<>> \in Str
    BY DEF Str
  <2> QED BY <1>0, <2>1, <2>2, <2>3 DEF t
<1>3. CASE s # <<>>
  <2>1. PICK f : /\ Bytes(s) = f[Len(s)]
                 /\ \A i \in 1..Len(s) : f[i] = IF i = 1 THEN s[i] ELSE f[i-1] \o s[i]
    BY <1>3, BytesArePrefix
  <2> DEFINE T == {n \in Nat : n \in 1..Len(s) => f[n] = g[n] /\ f[n] \in Str}
  <2>2. 0 \in T
    OBVIOUS
  <2>3. ASSUME NEW n \in T PROVE n + 1 \in T
    <3>1. SUFFICES ASSUME n + 1 \in 1..Len(s) PROVE f[n+1] = g[n+1] /\ f[n+1] \in Str
      OBVIOUS
    <3>2. n + 1 \in 1..Len(t) /\ t[n+1] = s[n+1] /\ s[n+1] \in Str
      BY <3>1, <1>0
    <3>3. f[n+1] = IF n + 1 = 1 THEN s[n+1] ELSE f[n] \o s[n+1]
      BY <2>1, <3>1
    <3>4. g[n+1] = IF n + 1 = 1 THEN s[n+1] ELSE g[n] \o s[n+1]
      BY <1>1, <3>2
    <3>5. CASE n = 0
      BY <3>2, <3>3, <3>4, <3>5
    <3>6. CASE n # 0
      <4>1. f[n] = g[n] /\ f[n] \in Str
        BY <1>0, <3>1, <3>6
      <4>2. f[n] \o s[n+1] \in Str
        BY <4>1, <3>2, ConcatProperties DEF Str
      <4> QED BY <3>3, <3>4, <4>1, <4>2, <3>6
    <3> QED BY <3>5, <3>6
  <2> HIDE DEF T
  <2>4. T = Nat
    <3>1. T \subseteq Nat BY DEF T
    <3> QED BY <2>2, <2>3, <3>1, Induction
  <2>5. Len(s) \in 1..Len(s)
    BY <1>0, <1>3 DEF Chunks
  <2>6. f[Len(s)] = g[Len(s)] /\ f[Len(s)] \in Str
    BY <2>4, <2>5, <1>0 DEF T
  <2>7. g[Len(s) + 1] = g[Len(s)] \o b
    <3>1. Len(s) + 1 \in 1..Len(t) /\ Len(s) + 1 # 1 /\ (Len(s) + 1) - 1 = Len(s)
      BY <1>0, <2>5
    <3>2. g[Len(s) + 1] = g[(Len(s) + 1) - 1] \o t[Len(s) + 1]
      BY <1>1, <3>1
    <3> QED BY <1>0, <3>1, <3>2
  <2> QED BY <1>0, <1>1, <2>1, <2>6, <2>7 DEF t
<1> QED BY <1>2, <1>3

LEMMA BytesType == ASSUME NEW s \in Chunks PROVE Bytes(s) \in Str
BY BytesAppend, EmptySeq DEF Str

LEMMA BytesOne == ASSUME NEW b \in Str PROVE <<b>> \in Chunks /\ Bytes(<<b>>) = b
<1>1. <<>> \in Chunks /\ Append(<<>>, b) = <<b>>
  BY DEF Chunks
<1>2. <<>> \o b = b
  BY DEF Str
<1> QED BY <1>1, <1>2, BytesAppend, BytesEmpty

LEMMA BytesConcat ==
  ASSUME NEW s \in Chunks, NEW t \in Chunks
  PROVE Bytes(s \o t) = Bytes(s) \o Bytes(t)
<1> DEFINE T == {n \in Nat : \A r \in Chunks : Len(r) = n => Bytes(s \o r) = Bytes(s) \o Bytes(r)}
<1>1. 0 \in T
  <2>1. SUFFICES ASSUME NEW r \in Chunks, Len(r) = 0 PROVE Bytes(s \o r) = Bytes(s) \o Bytes(r)
    OBVIOUS
  <2>2. r = <<>>
    BY <2>1 DEF Chunks
  <2>3. s \o <<>> = s /\ Bytes(s) \o <<>> = Bytes(s)
    BY BytesType, ConcatEmptySeq DEF Chunks, Str
  <2> QED BY <2>2, <2>3, BytesEmpty
<1>2. ASSUME NEW n \in T PROVE n + 1 \in T
  <2>1. SUFFICES ASSUME NEW r \in Chunks, Len(r) = n + 1 PROVE Bytes(s \o r) = Bytes(s) \o Bytes(r)
    OBVIOUS
  <2>2. r # <<>>
    BY <2>1 DEF Chunks
  <2>3. PICK q \in Chunks, b \in Str : r = Append(q, b)
    BY <2>2, SequenceEmptyOrAppend DEF Chunks
  <2>4. Len(q) = n
    BY <2>1, <2>3 DEF Chunks
  <2>5. Bytes(s \o q) = Bytes(s) \o Bytes(q)
    BY <2>4
  <2>6. s \o q \in Chunks /\ s \o r = Append(s \o q, b)
    BY <2>3 DEF Chunks
  <2>7. Bytes(s \o r) = (Bytes(s) \o Bytes(q)) \o b
    BY <2>5, <2>6, BytesAppend
  <2>8. Bytes(r) = Bytes(q) \o b
    BY <2>3, BytesAppend
  <2>9. Bytes(s) \in Str /\ Bytes(q) \in Str
    BY BytesType
  <2> QED BY <2>7, <2>8, <2>9, ConcatAssociative DEF Str
<1> HIDE DEF T
<1>3. T = Nat
  <2>1. T \subseteq Nat BY DEF T
  <2> QED BY <1>1, <1>2, <2>1, Induction
<1>4. Len(t) \in Nat
  BY DEF Chunks
<1> QED BY <1>3, <1>4 DEF T

LEMMA BytesSplit ==
  ASSUME NEW s \in Chunks, NEW k \in 0..Len(s)
  PROVE /\ SubSeq(s, 1, k) \in Chunks /\ SubSeq(s, k + 1, Len(s)) \in Chunks
        /\ s = SubSeq(s, 1, k) \o SubSeq(s, k + 1, Len(s))
        /\ Bytes(s) = Bytes(SubSeq(s, 1, k)) \o Bytes(SubSeq(s, k + 1, Len(s)))
<1>1. SubSeq(s, 1, k) \in Chunks /\ SubSeq(s, k + 1, Len(s)) \in Chunks
  BY DEF Chunks
<1>2. s = SubSeq(s, 1, k) \o SubSeq(s, k + 1, Len(s))
  <2>1. 1 \in 1..Len(s)+1 /\ k \in 1-1..Len(s) /\ Len(s) \in k..Len(s)
    BY DEF Chunks
  <2>2. SubSeq(s, 1, k) \o SubSeq(s, k + 1, Len(s)) = SubSeq(s, 1, Len(s))
    BY <2>1, ConcatAdjacentSubSeq DEF Chunks
  <2> QED BY <2>2, SubSeqFull DEF Chunks
<1> QED BY <1>1, <1>2, BytesConcat

LEMMA BytesHead ==
  ASSUME NEW s \in Chunks, s # <<>>
  PROVE Head(s) \in Str /\ Tail(s) \in Chunks /\ Bytes(s) = Head(s) \o Bytes(Tail(s))
<1>1. Head(s) \in Str /\ Tail(s) \in Chunks /\ s = <<Head(s)>> \o Tail(s)
  BY DEF Chunks
<1>2. <<Head(s)>> \in Chunks /\ Bytes(<<Head(s)>>) = Head(s)
  BY <1>1, BytesOne
<1>3. Bytes(<<Head(s)>> \o Tail(s)) = Bytes(<<Head(s)>>) \o Bytes(Tail(s))
  BY <1>1, <1>2, BytesConcat
<1> QED BY <1>1, <1>2, <1>3

LEMMA BytesCons ==
  ASSUME NEW s \in Chunks, NEW b \in Str
  PROVE <<b>> \o s \in Chunks /\ Bytes(<<b>> \o s) = b \o Bytes(s)
<1>1. <<b>> \o s \in Chunks
  BY DEF Chunks
<1>2. <<b>> \in Chunks /\ Bytes(<<b>>) = b
  BY BytesOne
<1>3. Bytes(<<b>> \o s) = Bytes(<<b>>) \o Bytes(s)
  BY <1>2, BytesConcat
<1> QED BY <1>1, <1>2, <1>3

-----------------------------------------------------------------------------
(* Bytes that are cut, joined and counted.                                 *)

LEMMA CutInTwo ==
  ASSUME NEW s \in Str, NEW k \in 0..Len(s)
  PROVE /\ SubSeq(s, 1, k) \in Str /\ SubSeq(s, k + 1, Len(s)) \in Str
        /\ s = SubSeq(s, 1, k) \o SubSeq(s, k + 1, Len(s))
        /\ Len(SubSeq(s, 1, k)) = k /\ Len(SubSeq(s, k + 1, Len(s))) = Len(s) - k
<1>1. SubSeq(s, 1, k) \in Str /\ SubSeq(s, k + 1, Len(s)) \in Str
  BY DEF Str
<1>2. s = SubSeq(s, 1, k) \o SubSeq(s, k + 1, Len(s))
  <2>1. 1 \in 1..Len(s)+1 /\ k \in 1-1..Len(s) /\ Len(s) \in k..Len(s)
    BY DEF Str
  <2>2. SubSeq(s, 1, k) \o SubSeq(s, k + 1, Len(s)) = SubSeq(s, 1, Len(s))
    BY <2>1, ConcatAdjacentSubSeq DEF Str
  <2> QED BY <2>2, SubSeqFull DEF Str
<1>3. Len(SubSeq(s, 1, k)) = k /\ Len(SubSeq(s, k + 1, Len(s))) = Len(s) - k
  BY DEF Str
<1> QED BY <1>1, <1>2, <1>3

LEMMA Joined ==
  ASSUME NEW s \in Str, NEW t \in Str
  PROVE /\ s \o t \in Str /\ Len(s \o t) = Len(s) + Len(t) /\ Len(s) \in Nat /\ Len(t) \in Nat
        /\ ToSet(s \o t) = ToSet(s) \cup ToSet(t)
        /\ ToSet(s) \subseteq Nat
<1>1. /\ s \o t \in Str /\ Len(s \o t) = Len(s) + Len(t) /\ Len(s) \in Nat /\ Len(t) \in Nat
      /\ DOMAIN (s \o t) = 1..(Len(s) + Len(t)) /\ DOMAIN s = 1..Len(s) /\ DOMAIN t = 1..Len(t)
  BY DEF Str
<1>2. \A i \in 1..(Len(s) + Len(t)) : (s \o t)[i] = IF i <= Len(s) THEN s[i] ELSE t[i - Len(s)]
  BY DEF Str
<1>3. \A i \in 1..Len(s) : (s \o t)[i] = s[i] /\ i \in 1..(Len(s) + Len(t))
  BY <1>1, <1>2
<1>4. \A i \in 1..Len(t) : (s \o t)[i + Len(s)] = t[i] /\ i + Len(s) \in 1..(Len(s) + Len(t))
  BY <1>1, <1>2
<1>5. ToSet(s \o t) \subseteq ToSet(s) \cup ToSet(t)
  <2>1. ASSUME NEW i \in 1..(Len(s) + Len(t)) PROVE (s \o t)[i] \in ToSet(s) \cup ToSet(t)
    <3>1. CASE i <= Len(s)
      BY <1>1, <1>2, <3>1 DEF ToSet
    <3>2. CASE ~(i <= Len(s))
      <4>1. i - Len(s) \in 1..Len(t)
        BY <1>1, <3>2
      <4> QED BY <1>1, <1>2, <3>2, <4>1 DEF ToSet
    <3> QED BY <3>1, <3>2
  <2> QED BY <1>1, <2>1 DEF ToSet
<1>6. ToSet(s) \subseteq ToSet(s \o t)
  BY <1>1, <1>3 DEF ToSet
<1>7. ToSet(t) \subseteq ToSet(s \o t)
  BY <1>1, <1>4 DEF ToSet
<1>8. ToSet(s) \subseteq Nat
  BY <1>1 DEF ToSet, Str
<1> QED BY <1>1, <1>5, <1>6, <1>7, <1>8

LEMMA Associative ==
  ASSUME NEW s \in Str, NEW t \in Str, NEW u \in Str
  PROVE (s \o t) \o u = s \o (t \o u)
BY ConcatAssociative DEF Str

\* No byte occurs twice.
Distinct(s) == \A i, j \in 1..Len(s) : s[i] = s[j] => i = j

LEMMA DistinctParts ==
  ASSUME NEW s \in Str, NEW t \in Str
  PROVE Distinct(s \o t) <=> Distinct(s) /\ Distinct(t) /\ ToSet(s) \cap ToSet(t) = {}
<1>1. /\ Len(s \o t) = Len(s) + Len(t) /\ Len(s) \in Nat /\ Len(t) \in Nat
      /\ DOMAIN s = 1..Len(s) /\ DOMAIN t = 1..Len(t)
  BY DEF Str
<1>2. \A i \in 1..(Len(s) + Len(t)) : (s \o t)[i] = IF i <= Len(s) THEN s[i] ELSE t[i - Len(s)]
  BY DEF Str
<1>3. \A i \in 1..Len(s) : (s \o t)[i] = s[i] /\ i \in 1..(Len(s) + Len(t))
  BY <1>1, <1>2
<1>4. \A i \in 1..Len(t) : (s \o t)[i + Len(s)] = t[i] /\ i + Len(s) \in 1..(Len(s) + Len(t))
  BY <1>1, <1>2
<1>5. ASSUME Distinct(s \o t) PROVE Distinct(s) /\ Distinct(t) /\ ToSet(s) \cap ToSet(t) = {}
  <2>1. Distinct(s)
    BY <1>1, <1>3, <1>5 DEF Distinct
  <2>2. ASSUME NEW i \in 1..Len(t), NEW j \in 1..Len(t), t[i] = t[j] PROVE i = j
    <3>1. i + Len(s) = j + Len(s)
      BY <1>1, <1>4, <1>5, <2>2 DEF Distinct
    <3> QED BY <1>1, <3>1
  <2>3. ASSUME NEW i \in 1..Len(s), NEW j \in 1..Len(t), s[i] = t[j] PROVE FALSE
    <3>1. i = j + Len(s)
      BY <1>1, <1>3, <1>4, <1>5, <2>3 DEF Distinct
    <3> QED BY <1>1, <3>1
  <2>4. ToSet(s) \cap ToSet(t) = {}
    BY <1>1, <2>3 DEF ToSet
  <2> QED BY <2>1, <2>2, <2>4 DEF Distinct
<1>6. ASSUME Distinct(s), Distinct(t), ToSet(s) \cap ToSet(t) = {},
             NEW i \in 1..(Len(s) + Len(t)), NEW j \in 1..(Len(s) + Len(t)),
             (s \o t)[i] = (s \o t)[j]
      PROVE i = j
  <2>1. \A k \in 1..(Len(s) + Len(t)) : k <= Len(s) => k \in 1..Len(s) /\ (s \o t)[k] = s[k]
    BY <1>1, <1>2
  <2>2. \A k \in 1..(Len(s) + Len(t)) :
           ~(k <= Len(s)) => k - Len(s) \in 1..Len(t) /\ (s \o t)[k] = t[k - Len(s)]
    BY <1>1, <1>2
  <2>3. CASE i <= Len(s) /\ j <= Len(s)
    BY <1>6, <2>1, <2>3 DEF Distinct
  <2>4. CASE ~(i <= Len(s)) /\ ~(j <= Len(s))
    <3>1. i - Len(s) = j - Len(s)
      BY <1>6, <2>2, <2>4 DEF Distinct
    <3> QED BY <1>1, <3>1
  <2>5. CASE i <= Len(s) /\ ~(j <= Len(s))
    BY <1>1, <1>6, <2>1, <2>2, <2>5 DEF ToSet
  <2>6. CASE ~(i <= Len(s)) /\ j <= Len(s)
    BY <1>1, <1>6, <2>1, <2>2, <2>6 DEF ToSet
  <2> QED BY <2>3, <2>4, <2>5, <2>6
<1> QED BY <1>1, <1>5, <1>6 DEF Distinct

LEMMA CountDistinct ==
  ASSUME NEW s \in Str, Distinct(s)
  PROVE IsFiniteSet(ToSet(s)) /\ Cardinality(ToSet(s)) = Len(s)
<1>1. Len(s) \in Nat /\ s \in Bijection(1..Len(s), ToSet(s))
  <2>1. Len(s) \in Nat /\ DOMAIN s = 1..Len(s) /\ s \in [1..Len(s) -> ToSet(s)]
    BY DEF Str, ToSet
  <2>2. s \in Injection(1..Len(s), ToSet(s))
    BY <2>1 DEF Injection, IsInjective, Distinct
  <2>3. s \in Surjection(1..Len(s), ToSet(s))
    BY <2>1 DEF Surjection, ToSet
  <2> QED BY <2>1, <2>2, <2>3 DEF Bijection
<1>2. ExistsBijection(1..Len(s), ToSet(s))
  BY <1>1 DEF ExistsBijection
<1>3. IsFiniteSet(ToSet(s))
  BY <1>1, <1>2, FS_NatBijection
<1> QED BY <1>1, <1>2, <1>3, FS_CountingElements

-----------------------------------------------------------------------------
(* What is kept of a sequence.                                             *)

KeptStep(s, gone, f, i) ==
  IF i = 0 THEN <<>> ELSE IF s[i] \in gone THEN f[i - 1] ELSE Append(f[i - 1], s[i])

Selections(s, gone, n, f) == f = [i \in 0..n |-> KeptStep(s, gone, f, i)]

LEMMA SelectionsExist ==
  ASSUME NEW s, NEW gone, NEW N \in Nat
  PROVE \E f : Selections(s, gone, N, f)
<1> DEFINE T == {n \in Nat : \E f : Selections(s, gone, n, f)}
<1>1. 0 \in T
  <2> DEFINE f == [i \in 0..0 |-> <<>>]
  <2>1. Selections(s, gone, 0, f)
    BY DEF Selections, KeptStep
  <2> QED BY <2>1
<1>2. ASSUME NEW n \in T PROVE n + 1 \in T
  <2>1. PICK f : Selections(s, gone, n, f)
    OBVIOUS
  <2> DEFINE g == [i \in 0..(n+1) |-> IF i = n + 1 THEN KeptStep(s, gone, f, n + 1) ELSE f[i]]
  <2>2. ASSUME NEW i \in 0..(n+1) PROVE g[i] = KeptStep(s, gone, g, i)
    <3>1. i # 0 => i - 1 \in 0..(n+1) /\ i - 1 # n + 1 /\ g[i-1] = f[i-1]
      OBVIOUS
    <3>2. CASE i = n + 1
      BY <3>1, <3>2 DEF KeptStep
    <3>3. CASE i # n + 1
      <4>1. i \in 0..n
        BY <3>3
      <4>2. f[i] = [j \in 0..n |-> KeptStep(s, gone, f, j)][i]
        BY <2>1 DEF Selections
      <4>3. f[i] = KeptStep(s, gone, f, i)
        BY <4>1, <4>2
      <4> QED BY <4>3, <3>1, <3>3 DEF KeptStep
    <3> QED BY <3>2, <3>3
  <2>3. g = [i \in 0..(n+1) |-> KeptStep(s, gone, g, i)]
    BY <2>2
  <2>4. Selections(s, gone, n + 1, g)
    BY <2>3 DEF Selections
  <2> QED BY <2>4
<1> HIDE DEF T
<1>3. T = Nat
  <2>1. T \subseteq Nat BY DEF T
  <2> QED BY <1>1, <1>2, <2>1, Induction
<1> QED BY <1>3 DEF T

LEMMA KeptIsSelection ==
  ASSUME NEW s \in Str, NEW gone
  PROVE \E f : /\ Kept(s, gone) = f[Len(s)]
               /\ \A i \in 0..Len(s) : f[i] = KeptStep(s, gone, f, i)
<1>1. Len(s) \in Nat
  BY DEF Str
<1>2. \E f : Selections(s, gone, Len(s), f)
  BY <1>1, SelectionsExist
<1> DEFINE h == CHOOSE f : f = [i \in 0..Len(s) |->
                  IF i = 0 THEN <<>> ELSE IF s[i] \in gone THEN f[i - 1] ELSE Append(f[i - 1], s[i])]
<1>3. Selections(s, gone, Len(s), h)
  BY <1>2 DEF Selections, KeptStep
<1>4. Kept(s, gone) = h[Len(s)]
  BY DEF Kept
<1> HIDE DEF h
<1>5. ASSUME NEW i \in 0..Len(s) PROVE h[i] = KeptStep(s, gone, h, i)
  <2>1. h[i] = [j \in 0..Len(s) |-> KeptStep(s, gone, h, j)][i]
    BY <1>3 DEF Selections
  <2> QED BY <2>1
<1> QED BY <1>4, <1>5

LEMMA KeptEmpty == ASSUME NEW gone PROVE Kept(<<>>, gone) = <<>>
<1>1. <<>> \in Str /\ Len(<<>>) = 0
  BY DEF Str
<1>2. PICK f : /\ Kept(<<>>, gone) = f[0]
               /\ \A i \in 0..0 : f[i] = KeptStep(<<>>, gone, f, i)
  BY <1>1, KeptIsSelection
<1> QED BY <1>2 DEF KeptStep

LEMMA KeptAppend ==
  ASSUME NEW s \in Str, NEW b \in Nat, NEW gone
  PROVE /\ Append(s, b) \in Str /\ Kept(s, gone) \in Str
        /\ Kept(Append(s, b), gone) = IF b \in gone THEN Kept(s, gone) ELSE Append(Kept(s, gone), b)
<1> DEFINE t == Append(s, b)
<1>0. /\ t \in Str /\ Len(t) = Len(s) + 1 /\ Len(s) \in Nat
      /\ \A i \in 1..Len(s) : t[i] = s[i] /\ s[i] \in Nat
      /\ t[Len(s) + 1] = b
  BY DEF Str
<1> HIDE DEF t
<1>1. PICK g : /\ Kept(t, gone) = g[Len(t)]
               /\ \A i \in 0..Len(t) : g[i] = KeptStep(t, gone, g, i)
  BY <1>0, KeptIsSelection
<1>2. PICK f : /\ Kept(s, gone) = f[Len(s)]
               /\ \A i \in 0..Len(s) : f[i] = KeptStep(s, gone, f, i)
  BY KeptIsSelection
<1> DEFINE T == {n \in Nat : n \in 0..Len(s) => f[n] = g[n] /\ f[n] \in Str}
<1>3. 0 \in T
  <2>1. 0 \in 0..Len(s) /\ 0 \in 0..Len(t)
    BY <1>0
  <2>2. f[0] = <<>> /\ g[0] = <<>>
    BY <1>1, <1>2, <2>1 DEF KeptStep
  <2>3. <<>> \in Str
    BY DEF Str
  <2> QED BY <2>2, <2>3
<1>4. ASSUME NEW n \in T PROVE n + 1 \in T
  <2>1. SUFFICES ASSUME n + 1 \in 0..Len(s) PROVE f[n+1] = g[n+1] /\ f[n+1] \in Str
    OBVIOUS
  <2>2. /\ n + 1 \in 0..Len(t) /\ n + 1 # 0 /\ (n + 1) - 1 = n /\ n \in 0..Len(s)
        /\ t[n+1] = s[n+1] /\ s[n+1] \in Nat
    BY <2>1, <1>0
  <2>3. f[n+1] = IF s[n+1] \in gone THEN f[n] ELSE Append(f[n], s[n+1])
    <3>1. f[n+1] = KeptStep(s, gone, f, n+1)
      BY <1>2, <2>1
    <3> QED BY <3>1, <2>2 DEF KeptStep
  <2>4. g[n+1] = IF t[n+1] \in gone THEN g[n] ELSE Append(g[n], t[n+1])
    <3>1. g[n+1] = KeptStep(t, gone, g, n+1)
      BY <1>1, <2>2
    <3> QED BY <3>1, <2>2 DEF KeptStep
  <2>5. f[n] = g[n] /\ f[n] \in Str
    BY <2>2
  <2>6. Append(f[n], s[n+1]) \in Str
    BY <2>2, <2>5 DEF Str
  <2> QED BY <2>2, <2>3, <2>4, <2>5, <2>6
<1> HIDE DEF T
<1>5. T = Nat
  <2>1. T \subseteq Nat BY DEF T
  <2> QED BY <1>3, <1>4, <2>1, Induction
<1>6. f[Len(s)] = g[Len(s)] /\ f[Len(s)] \in Str
  BY <1>5, <1>0 DEF T
<1>7. g[Len(s) + 1] = IF b \in gone THEN g[Len(s)] ELSE Append(g[Len(s)], b)
  <2>1. Len(s) + 1 \in 0..Len(t) /\ Len(s) + 1 # 0 /\ (Len(s) + 1) - 1 = Len(s)
    BY <1>0
  <2>2. g[Len(s) + 1] = KeptStep(t, gone, g, Len(s) + 1)
    BY <1>1, <2>1
  <2> QED BY <1>0, <2>1, <2>2 DEF KeptStep
<1> QED BY <1>0, <1>1, <1>2, <1>6, <1>7 DEF t

LEMMA StrInduction ==
  ASSUME NEW T, <<>> \in T, \A s \in Str \cap T, b \in Nat : Append(s, b) \in T
  PROVE Str \subseteq T
<1> DEFINE N == {n \in Nat : \A s \in Str : Len(s) = n => s \in T}
<1>1. 0 \in N
  BY DEF Str
<1>2. ASSUME NEW n \in N PROVE n + 1 \in N
  <2>1. SUFFICES ASSUME NEW s \in Str, Len(s) = n + 1 PROVE s \in T
    OBVIOUS
  <2>2. s # <<>>
    BY <2>1 DEF Str
  <2>3. PICK q \in Str, b \in Nat : s = Append(q, b)
    BY <2>2, SequenceEmptyOrAppend DEF Str
  <2>4. Len(q) = n
    BY <2>1, <2>3 DEF Str
  <2>5. q \in T
    BY <2>4
  <2> QED BY <2>3, <2>5
<1> HIDE DEF N
<1>3. N = Nat
  <2>1. N \subseteq Nat BY DEF N
  <2> QED BY <1>1, <1>2, <2>1, Induction
<1>4. \A s \in Str : Len(s) \in Nat
  BY DEF Str
<1> QED BY <1>3, <1>4 DEF N

LEMMA OneByte ==
  ASSUME NEW s \in Str, NEW b \in Nat
  PROVE /\ Append(s, b) \in Str /\ Append(s, b) = s \o <<b>> /\ <<b>> \in Str
        /\ ToSet(<<b>>) = {b} /\ ToSet(Append(s, b)) = ToSet(s) \cup {b}
        /\ Distinct(Append(s, b)) <=> Distinct(s) /\ b \notin ToSet(s)
<1>1. Append(s, b) \in Str /\ Append(s, b) = s \o <<b>> /\ <<b>> \in Str
  BY DEF Str
<1>2. ToSet(<<b>>) = {b} /\ Distinct(<<b>>)
  BY DEF ToSet, Distinct
<1>3. ToSet(s \o <<b>>) = ToSet(s) \cup ToSet(<<b>>)
  BY <1>1, Joined
<1>4. Distinct(s \o <<b>>) <=> Distinct(s) /\ Distinct(<<b>>) /\ ToSet(s) \cap ToSet(<<b>>) = {}
  BY <1>1, DistinctParts
<1> QED BY <1>1, <1>2, <1>3, <1>4

LEMMA NoBytes == <<>> \in Str /\ ToSet(<<>>) = {} /\ Distinct(<<>>) /\ Len(<<>>) = 0
BY DEF Str, ToSet, Distinct

LEMMA KeptType == ASSUME NEW s \in Str, NEW gone PROVE Kept(s, gone) \in Str
<1>1. 0 \in Nat
  OBVIOUS
<1> QED BY <1>1, KeptAppend

LEMMA KeptRange == ASSUME NEW s \in Str, NEW gone PROVE ToSet(Kept(s, gone)) = ToSet(s) \ gone
<1> DEFINE T == {t \in Str : ToSet(Kept(t, gone)) = ToSet(t) \ gone}
<1>1. <<>> \in T
  BY NoBytes, KeptEmpty
<1>2. ASSUME NEW t \in Str \cap T, NEW b \in Nat PROVE Append(t, b) \in T
  <2>1. ToSet(Append(t, b)) = ToSet(t) \cup {b} /\ Append(t, b) \in Str
    BY OneByte
  <2>2. Kept(t, gone) \in Str
    BY KeptType
  <2>3. ToSet(Append(Kept(t, gone), b)) = ToSet(Kept(t, gone)) \cup {b}
    BY <2>2, OneByte
  <2>4. Kept(Append(t, b), gone) = IF b \in gone THEN Kept(t, gone) ELSE Append(Kept(t, gone), b)
    BY KeptAppend
  <2> QED BY <2>1, <2>3, <2>4
<1> HIDE DEF T
<1>3. Str \subseteq T
  BY <1>1, <1>2, StrInduction
<1> QED BY <1>3 DEF T

LEMMA KeptDistinct ==
  ASSUME NEW s \in Str, NEW gone, Distinct(s)
  PROVE Distinct(Kept(s, gone))
<1> DEFINE T == {t \in Str : Distinct(t) => Distinct(Kept(t, gone))}
<1>1. <<>> \in T
  BY NoBytes, KeptEmpty
<1>2. ASSUME NEW t \in Str \cap T, NEW b \in Nat PROVE Append(t, b) \in T
  <2>1. Append(t, b) \in Str /\ (Distinct(Append(t, b)) <=> Distinct(t) /\ b \notin ToSet(t))
    BY OneByte
  <2>2. Kept(t, gone) \in Str /\ ToSet(Kept(t, gone)) = ToSet(t) \ gone
    BY KeptType, KeptRange
  <2>3. Distinct(Append(Kept(t, gone), b)) <=> Distinct(Kept(t, gone)) /\ b \notin ToSet(Kept(t, gone))
    BY <2>2, OneByte
  <2>4. Kept(Append(t, b), gone) = IF b \in gone THEN Kept(t, gone) ELSE Append(Kept(t, gone), b)
    BY KeptAppend
  <2> QED BY <2>1, <2>2, <2>3, <2>4
<1> HIDE DEF T
<1>3. Str \subseteq T
  BY <1>1, <1>2, StrInduction
<1> QED BY <1>3 DEF T

LEMMA KeptConcat ==
  ASSUME NEW s \in Str, NEW r \in Str, NEW gone
  PROVE Kept(s \o r, gone) = Kept(s, gone) \o Kept(r, gone)
<1> DEFINE T == {t \in Str : Kept(s \o t, gone) = Kept(s, gone) \o Kept(t, gone)}
<1>1. <<>> \in T
  <2>1. s \o <<>> = s /\ Kept(s, gone) \o <<>> = Kept(s, gone)
    BY KeptType, ConcatEmptySeq DEF Str
  <2> QED BY <2>1, NoBytes, KeptEmpty
<1>2. ASSUME NEW t \in Str \cap T, NEW b \in Nat PROVE Append(t, b) \in T
  <2>1. Append(t, b) \in Str /\ s \o t \in Str /\ s \o Append(t, b) = Append(s \o t, b)
    BY DEF Str
  <2>2. Kept(s, gone) \in Str /\ Kept(t, gone) \in Str
    BY KeptType
  <2>3. Kept(s, gone) \o Append(Kept(t, gone), b) = Append(Kept(s, gone) \o Kept(t, gone), b)
    BY <2>2 DEF Str
  <2>4. Kept(Append(t, b), gone) = IF b \in gone THEN Kept(t, gone) ELSE Append(Kept(t, gone), b)
    BY KeptAppend
  <2>5. Kept(Append(s \o t, b), gone)
          = IF b \in gone THEN Kept(s \o t, gone) ELSE Append(Kept(s \o t, gone), b)
    <3>1. \A u \in Str : Kept(Append(u, b), gone)
                           = IF b \in gone THEN Kept(u, gone) ELSE Append(Kept(u, gone), b)
      BY KeptAppend
    <3> QED BY <2>1, <3>1
  <2> QED BY <2>1, <2>3, <2>4, <2>5
<1> HIDE DEF T
<1>3. Str \subseteq T
  BY <1>1, <1>2, StrInduction
<1> QED BY <1>3 DEF T

LEMMA KeptAll ==
  ASSUME NEW s \in Str, NEW gone, ToSet(s) \cap gone = {}
  PROVE Kept(s, gone) = s
<1> DEFINE T == {t \in Str : ToSet(t) \cap gone = {} => Kept(t, gone) = t}
<1>1. <<>> \in T
  BY NoBytes, KeptEmpty
<1>2. ASSUME NEW t \in Str \cap T, NEW b \in Nat PROVE Append(t, b) \in T
  <2>1. Append(t, b) \in Str /\ ToSet(Append(t, b)) = ToSet(t) \cup {b}
    BY OneByte
  <2>2. Kept(Append(t, b), gone) = IF b \in gone THEN Kept(t, gone) ELSE Append(Kept(t, gone), b)
    BY KeptAppend
  <2> QED BY <2>1, <2>2
<1> HIDE DEF T
<1>3. Str \subseteq T
  BY <1>1, <1>2, StrInduction
<1> QED BY <1>3 DEF T

LEMMA KeptNone ==
  ASSUME NEW s \in Str, NEW gone, ToSet(s) \subseteq gone
  PROVE Kept(s, gone) = <<>>
<1> DEFINE T == {t \in Str : ToSet(t) \subseteq gone => Kept(t, gone) = <<>>}
<1>1. <<>> \in T
  BY NoBytes, KeptEmpty
<1>2. ASSUME NEW t \in Str \cap T, NEW b \in Nat PROVE Append(t, b) \in T
  <2>1. Append(t, b) \in Str /\ ToSet(Append(t, b)) = ToSet(t) \cup {b}
    BY OneByte
  <2>2. Kept(Append(t, b), gone) = IF b \in gone THEN Kept(t, gone) ELSE Append(Kept(t, gone), b)
    BY KeptAppend
  <2> QED BY <2>1, <2>2
<1> HIDE DEF T
<1>3. Str \subseteq T
  BY <1>1, <1>2, StrInduction
<1> QED BY <1>3 DEF T

LEMMA KeptTwice ==
  ASSUME NEW s \in Str, NEW gone, NEW more
  PROVE Kept(s, gone \cup more) = Kept(Kept(s, gone), more)
<1> DEFINE T == {t \in Str : Kept(t, gone \cup more) = Kept(Kept(t, gone), more)}
<1>1. <<>> \in T
  BY NoBytes, KeptEmpty
<1>2. ASSUME NEW t \in Str \cap T, NEW b \in Nat PROVE Append(t, b) \in T
  <2>1. Kept(t, gone) \in Str /\ Append(t, b) \in Str
    BY KeptAppend
  <2>2. Kept(Append(t, b), gone) = IF b \in gone THEN Kept(t, gone) ELSE Append(Kept(t, gone), b)
    BY KeptAppend
  <2>3. Kept(Append(t, b), gone \cup more)
          = IF b \in gone \cup more THEN Kept(t, gone \cup more) ELSE Append(Kept(t, gone \cup more), b)
    BY KeptAppend
  <2>4. Kept(Append(Kept(t, gone), b), more)
          = IF b \in more THEN Kept(Kept(t, gone), more) ELSE Append(Kept(Kept(t, gone), more), b)
    <3>1. \A u \in Str : Kept(Append(u, b), more)
                           = IF b \in more THEN Kept(u, more) ELSE Append(Kept(u, more), b)
      BY KeptAppend
    <3> QED BY <2>1, <3>1
  <2> QED BY <2>1, <2>2, <2>3, <2>4
<1> HIDE DEF T
<1>3. Str \subseteq T
  BY <1>1, <1>2, StrInduction
<1> QED BY <1>3 DEF T

\* Taking the front out of what is left of a line leaves what was behind it.
LEMMA KeptWithoutFront ==
  ASSUME NEW captured \in Str, NEW front \in Str, NEW rest \in Str,
         Distinct(captured \o (front \o rest))
  PROVE Kept(captured \o (front \o rest), ToSet(front)) = captured \o rest
<1> DEFINE G == ToSet(front)
<1>1. front \o rest \in Str
  BY Joined
<1>2. /\ Distinct(front \o rest) /\ ToSet(captured) \cap ToSet(front \o rest) = {}
      /\ ToSet(front \o rest) = ToSet(front) \cup ToSet(rest)
  <2>1. \A u \in Str : Distinct(captured \o u) => Distinct(u) /\ ToSet(captured) \cap ToSet(u) = {}
    BY DistinctParts
  <2>2. ToSet(front \o rest) = ToSet(front) \cup ToSet(rest)
    BY Joined
  <2> QED BY <1>1, <2>1, <2>2
<1>3. ToSet(front) \cap ToSet(rest) = {}
  BY <1>2, DistinctParts
<1> HIDE DEF G
<1>5. Kept(captured \o (front \o rest), G) = Kept(captured, G) \o (Kept(front, G) \o Kept(rest, G))
  <2>1. \A u \in Str : Kept(captured \o u, G) = Kept(captured, G) \o Kept(u, G)
    BY KeptConcat
  <2>2. Kept(front \o rest, G) = Kept(front, G) \o Kept(rest, G)
    BY KeptConcat
  <2> QED BY <1>1, <2>1, <2>2
<1>6. Kept(captured, G) = captured
  BY <1>2, KeptAll DEF G
<1>7. Kept(front, G) = <<>>
  BY KeptNone DEF G
<1>8. Kept(rest, G) = rest
  BY <1>3, KeptAll DEF G
<1>9. <<>> \o rest = rest
  BY DEF Str
<1> QED BY <1>5, <1>6, <1>7, <1>8, <1>9 DEF G

-----------------------------------------------------------------------------
(* The mirror of a lease.                                                  *)

LEMMA LeastType ==
  ASSUME NEW a \in Nat, NEW b \in Nat
  PROVE Least(a, b) \in 0..a /\ Least(a, b) \in 0..b /\ (a # 0 /\ b # 0 => Least(a, b) # 0)
BY DEF Least

MirrorType ==
  [open : BOOLEAN, chunks : Seq(Str \ {<<>>}), reader : Nat, offered : Str, got : Str]

\* What the owner has read, followed by what is buffered, is what was offered.
MirrorSound(m) ==
  /\ m \in MirrorType
  /\ m.open => m.got \o Bytes(m.chunks) = m.offered
  /\ ~m.open => IsPrefix(m.got, m.offered) /\ m.chunks = <<>> /\ m.reader = 0
  /\ m.reader # 0 => m.chunks = <<>>

LEMMA FrontIsPrefix ==
  ASSUME NEW s \in Str, NEW t \in Str
  PROVE IsPrefix(s, s \o t)
<1>1. Len(s) <= Len(s \o t) /\ s \o t \in Str
  BY DEF Str
<1>2. SubSeq(s, 1, Len(s)) = SubSeq(s \o t, 1, Len(s))
  BY DEF Str
<1> QED BY <1>1, <1>2 DEF IsPrefix

LEMMA ChunksOfMirror ==
  ASSUME NEW c \in Seq(Str \ {<<>>})
  PROVE c \in Chunks /\ Bytes(c) \in Str /\ (Bytes(c) = <<>> <=> c = <<>>)
<1>1. c \in Chunks
  BY SeqMonotonic DEF Chunks
<1>2. Bytes(c) \in Str
  BY <1>1, BytesType
<1>3. ASSUME c # <<>> PROVE Bytes(c) # <<>>
  <2>1. Head(c) \in Str \ {<<>>} /\ Tail(c) \in Chunks /\ Bytes(c) = Head(c) \o Bytes(Tail(c))
    BY <1>1, <1>3, BytesHead, HeadTailProperties
  <2>2. Bytes(Tail(c)) \in Str
    BY <2>1, BytesType
  <2> QED BY <2>1, <2>2, ConcatEqualIffEmpty DEF Str
<1> QED BY <1>1, <1>2, <1>3, BytesEmpty

LEMMA OfferSound ==
  ASSUME NEW m, MirrorSound(m), NEW bytes \in Str
  PROVE MirrorSound(Offer(m, bytes))
<1> DEFINE now  == Least(m.reader, Len(bytes))
           front == SubSeq(bytes, 1, now)
           rest == SubSeq(bytes, now + 1, Len(bytes))
           size == Len(m.chunks) + (IF rest = <<>> THEN 0 ELSE 1)
           over == Len(Bytes(m.chunks)) + Len(rest) > MirrorBytes \/ size > MirrorChunks
           shut == [m EXCEPT !.open = FALSE, !.chunks = <<>>, !.reader = 0]
           took == [m EXCEPT !.offered = @ \o bytes, !.got = @ \o front, !.reader = 0,
                             !.chunks = IF rest = <<>> THEN @ ELSE Append(@, rest)]
<1>1. Offer(m, bytes) = IF ~m.open THEN m ELSE IF over THEN shut ELSE took
  BY DEF Offer
<1>2. /\ m \in MirrorType /\ m.chunks \in Chunks /\ Bytes(m.chunks) \in Str /\ m.got \in Str
      /\ m.offered \in Str /\ m.chunks \in Seq(Str \ {<<>>}) /\ m.reader \in Nat
  BY ChunksOfMirror DEF MirrorSound, MirrorType
<1>3. CASE ~m.open
  BY <1>1, <1>3
<1>4. CASE m.open /\ over
  <2>1. Offer(m, bytes) = shut
    BY <1>1, <1>4
  <2>2. shut \in MirrorType /\ shut.got = m.got /\ shut.offered = m.offered /\ ~shut.open
        /\ shut.chunks = <<>> /\ shut.reader = 0
    <3>1. <<>> \in Seq(Str \ {<<>>}) /\ 0 \in Nat
      BY EmptySeq
    <3> QED BY <1>2, <3>1 DEF MirrorType
  <2>3. IsPrefix(m.got, m.offered)
    BY <1>2, <1>4, FrontIsPrefix DEF MirrorSound
  <2> QED BY <2>1, <2>2, <2>3 DEF MirrorSound
<1>5. CASE m.open /\ ~over
  <2>1. Offer(m, bytes) = took
    BY <1>1, <1>5
  <2>2. now \in 0..Len(bytes) /\ (m.reader = 0 => now = 0)
    <3>1. Len(bytes) \in Nat
      BY DEF Str
    <3> QED BY <1>2, <3>1, LeastType DEF Least
  <2> HIDE DEF now
  <2>3. front \in Str /\ rest \in Str /\ bytes = front \o rest /\ Len(front) = now
    BY <2>2, CutInTwo
  <2> HIDE DEF front, rest, over
  <2>4. /\ took.open /\ took.offered = m.offered \o bytes /\ took.got = m.got \o front
        /\ took.reader = 0
        /\ took.chunks = IF rest = <<>> THEN m.chunks ELSE Append(m.chunks, rest)
    BY <1>2, <1>5 DEF MirrorType
  <2>5. took.chunks \in Seq(Str \ {<<>>})
    BY <1>2, <2>3, <2>4, AppendProperties
  <2>6. took \in MirrorType
    <3>1. m.offered \o bytes \in Str /\ m.got \o front \in Str
      BY <1>2, <2>3, Joined
    <3> QED BY <1>2, <2>4, <2>5, <3>1 DEF MirrorType
  <2>7. m.got \o Bytes(m.chunks) = m.offered
    BY <1>5 DEF MirrorSound
  <2>8. CASE m.reader = 0
    <3>1. front = <<>> /\ rest = bytes
      BY <2>2, <2>3, <2>8 DEF Str
    <3>2. Bytes(took.chunks) = Bytes(m.chunks) \o rest
      <4>1. CASE rest = <<>>
        BY <1>2, <2>4, <4>1, ConcatEmptySeq DEF Str
      <4>2. CASE rest # <<>>
        <5>1. \A c \in Chunks, b \in Str : Bytes(Append(c, b)) = Bytes(c) \o b
          BY BytesAppend
        <5> QED BY <1>2, <2>3, <2>4, <4>2, <5>1
      <4> QED BY <4>1, <4>2
    <3>3. m.got \o <<>> = m.got
      BY <1>2, ConcatEmptySeq DEF Str
    <3>4. m.got \o (Bytes(m.chunks) \o rest) = (m.got \o Bytes(m.chunks)) \o rest
      <4>1. m.got \in Str /\ Bytes(m.chunks) \in Str /\ front \in Str /\ rest \in Str /\ bytes = front \o rest
        BY <1>2, <2>3
      <4> QED BY <4>1, Associative
    <3>5. took.got \o Bytes(took.chunks) = took.offered
      BY <2>4, <2>7, <3>1, <3>2, <3>3, <3>4
    <3> QED BY <2>1, <2>4, <2>6, <3>5 DEF MirrorSound
  <2>9. CASE m.reader # 0
    <3>1. m.chunks = <<>> /\ Bytes(m.chunks) = <<>>
      BY <2>9, BytesEmpty DEF MirrorSound
    <3>2. Bytes(took.chunks) = rest
      <4>1. CASE rest = <<>>
        BY <2>4, <3>1, <4>1
      <4>2. CASE rest # <<>>
        <5>1. Bytes(Append(m.chunks, rest)) = Bytes(m.chunks) \o rest
          BY <1>2, <2>3, BytesAppend
        <5>2. <<>> \o rest = rest
          BY <2>3, ConcatEmptySeq DEF Str
        <5> QED BY <2>4, <3>1, <4>2, <5>1, <5>2
      <4> QED BY <4>1, <4>2
    <3>3. m.got = m.offered
      BY <1>2, <2>7, <3>1, ConcatEmptySeq DEF Str
    <3>4. m.got \o bytes = (m.got \o front) \o rest
      <4>1. m.got \in Str /\ front \in Str /\ rest \in Str
        BY <1>2, <2>3
      <4>2. (m.got \o front) \o rest = m.got \o (front \o rest)
        BY <4>1, Associative
      <4>3. bytes = front \o rest
        BY <2>3
      <4> QED BY <4>2, <4>3
    <3>5. took.got \o Bytes(took.chunks) = took.offered
      BY <2>4, <3>2, <3>3, <3>4
    <3> QED BY <2>1, <2>4, <2>6, <3>5 DEF MirrorSound
  <2> QED BY <2>8, <2>9
<1> QED BY <1>3, <1>4, <1>5

LEMMA CloseSound ==
  ASSUME NEW m, MirrorSound(m)
  PROVE MirrorSound(CloseMirror(m))
<1>1. m \in MirrorType /\ Bytes(m.chunks) \in Str /\ m.got \in Str
  BY ChunksOfMirror DEF MirrorSound, MirrorType
<1>2. IsPrefix(m.got, m.offered)
  BY <1>1, FrontIsPrefix DEF MirrorSound
<1>3. CloseMirror(m) \in MirrorType
  <2>1. <<>> \in Seq(Str \ {<<>>}) /\ 0 \in Nat
    BY EmptySeq
  <2> QED BY <1>1, <2>1 DEF CloseMirror, MirrorType
<1>4. /\ CloseMirror(m).got = m.got /\ CloseMirror(m).offered = m.offered /\ ~CloseMirror(m).open
      /\ CloseMirror(m).chunks = <<>> /\ CloseMirror(m).reader = 0
  BY <1>1 DEF CloseMirror, MirrorType
<1> QED BY <1>2, <1>3, <1>4 DEF MirrorSound

LEMMA TakeSplits ==
  ASSUME NEW c \in Seq(Str \ {<<>>}), NEW n \in 0..Len(Bytes(c))
  PROVE /\ Take(c, n) \in Seq(Str \ {<<>>})
        /\ Bytes(Take(c, n)) = SubSeq(Bytes(c), n + 1, Len(Bytes(c)))
<1> DEFINE Fits(k) == /\ Len(Bytes(SubSeq(c, 1, k))) <= n
                      /\ k < Len(c) => Len(Bytes(SubSeq(c, 1, k + 1))) > n
           gone == CHOOSE k \in 0..Len(c) : Fits(k)
           before == SubSeq(c, 1, gone)
           cut == n - Len(Bytes(before))
           left == SubSeq(c, gone + 1, Len(c))
<1>1. /\ c \in Chunks /\ Len(c) \in Nat /\ Bytes(c) \in Str /\ Len(Bytes(c)) \in Nat /\ n \in Nat
  BY ChunksOfMirror, LenProperties DEF Str
<1>2. \A k \in 0..Len(c) : SubSeq(c, 1, k) \in Chunks /\ Bytes(SubSeq(c, 1, k)) \in Str
                            /\ Len(Bytes(SubSeq(c, 1, k))) \in Nat
  <2>1. ASSUME NEW k \in 0..Len(c)
        PROVE SubSeq(c, 1, k) \in Chunks /\ Bytes(SubSeq(c, 1, k)) \in Str
              /\ Len(Bytes(SubSeq(c, 1, k))) \in Nat
    <3>1. SubSeq(c, 1, k) \in Chunks
      BY <1>1, BytesSplit
    <3>2. Bytes(SubSeq(c, 1, k)) \in Str
      BY <3>1, BytesType
    <3> QED BY <3>1, <3>2 DEF Str
  <2> QED BY <2>1
<1>3. \E k \in 0..Len(c) : Fits(k)
  <2> DEFINE T == {k \in 0..Len(c) : k < Len(c) => Len(Bytes(SubSeq(c, 1, k + 1))) > n}
  <2>1. T \subseteq Nat /\ T # {}
    <3>1. Len(c) \in T
      BY <1>1
    <3> QED BY <1>1, <3>1
  <2>2. PICK k \in T : \A m \in T : k <= m
    <3> HIDE DEF T
    <3> QED BY <2>1, LeastNumber
  <2>3. Len(Bytes(SubSeq(c, 1, k))) <= n
    <3>1. CASE k = 0
      <4>1. SubSeq(c, 1, 0) = <<>>
        BY SubSeqEmpty
      <4>2. Bytes(SubSeq(c, 1, 0)) = <<>>
        BY <4>1, BytesEmpty
      <4> QED BY <1>1, <3>1, <4>2, NoBytes
    <3>2. CASE k # 0
      <4>1. k - 1 \in 0..Len(c) /\ k - 1 < Len(c) /\ (k - 1) + 1 = k
        BY <1>1, <3>2
      <4>2. k - 1 \notin T
        BY <2>2, <4>1
      <4>3. ~(Len(Bytes(SubSeq(c, 1, (k - 1) + 1))) > n)
        BY <4>1, <4>2
      <4>4. ~(Len(Bytes(SubSeq(c, 1, k))) > n)
        BY <4>1, <4>3
      <4> QED BY <1>1, <1>2, <4>4
    <3> QED BY <3>1, <3>2
  <2> QED BY <2>2, <2>3
<1>4. gone \in 0..Len(c) /\ Fits(gone)
  <2> HIDE DEF Fits
  <2> QED BY <1>3
<1>5. Take(c, n) = IF left = <<>> THEN <<>>
                   ELSE <<SubSeq(Head(left), cut + 1, Len(Head(left)))>> \o Tail(left)
  BY DEF Take
<1>6. /\ before \in Chunks /\ left \in Chunks /\ Bytes(c) = Bytes(before) \o Bytes(left)
      /\ Len(Bytes(before)) <= n /\ Bytes(before) \in Str /\ Bytes(left) \in Str
  BY <1>1, <1>4, BytesSplit, BytesType
<1>7. left \in Seq(Str \ {<<>>})
  BY <1>1, <1>4, SubSeqProperties, ElementOfSeq
<1>8. CASE left = <<>>
  <2>1. Bytes(c) = Bytes(before)
    BY <1>6, <1>8, BytesEmpty, ConcatEmptySeq DEF Str
  <2>2. n = Len(Bytes(c))
    BY <1>1, <1>6, <2>1
  <2>3. SubSeq(Bytes(c), n + 1, Len(Bytes(c))) = <<>>
    BY <1>1, <2>2, SubSeqEmpty
  <2> QED BY <1>5, <1>8, <2>3, BytesEmpty, EmptySeq
<1>9. CASE left # <<>>
  <2> DEFINE h == Head(left)
             rest == SubSeq(h, cut + 1, Len(h))
  <2>1. /\ h \in Str /\ h # <<>> /\ Tail(left) \in Seq(Str \ {<<>>}) /\ Tail(left) \in Chunks
        /\ Bytes(left) = h \o Bytes(Tail(left))
    <3>1. h \in Str \ {<<>>} /\ Tail(left) \in Seq(Str \ {<<>>})
      BY <1>7, <1>9, HeadTailProperties
    <3> QED BY <1>6, <1>9, <3>1, BytesHead
  <2>2. gone < Len(c) /\ left = SubSeq(c, gone + 1, Len(c))
    <3>1. gone = Len(c) => left = <<>>
      <4> HIDE DEF gone
      <4> QED BY <1>1, SubSeqEmpty
    <3>2. gone \in 0..Len(c)
      BY <1>4
    <3> HIDE DEF gone
    <3> QED BY <1>1, <1>9, <3>1, <3>2
  <2>3. h = c[gone + 1] /\ SubSeq(c, 1, gone + 1) = Append(before, h)
    <3>1. gone \in 0..Len(c)
      BY <1>4
    <3> HIDE DEF gone
    <3>2. gone + 1 \in 1..Len(c) /\ 1 \in 1..Len(c) /\ Len(c) \in (gone + 1)..Len(c) /\ gone + 1 \in 1..(gone + 1)
      BY <1>1, <2>2, <3>1
    <3>3. h = c[gone + 1]
      BY <1>1, <3>2, HeadTailOfSubSeq DEF Chunks
    <3>4. SubSeq(c, 1, gone + 1) = Append(SubSeq(c, 1, gone), c[gone + 1])
      BY <1>1, <3>1, <3>2 DEF Chunks
    <3> QED BY <3>3, <3>4
  <2>4. Bytes(SubSeq(c, 1, gone + 1)) = Bytes(before) \o h
    <3> HIDE DEF before, left, h
    <3> QED BY <1>6, <2>1, <2>3, BytesAppend
  <2>5. Len(Bytes(before) \o h) > n
    BY <1>4, <2>2, <2>4
  <2>6. Len(Bytes(before)) \in Nat /\ Len(h) \in Nat /\ cut \in 0..(Len(h) - 1)
    <3>1. Len(Bytes(before) \o h) = Len(Bytes(before)) + Len(h) /\ Len(Bytes(before)) \in Nat /\ Len(h) \in Nat
      BY <1>6, <2>1, Joined
    <3> HIDE DEF before, left, h
    <3> QED BY <1>1, <1>6, <2>5, <3>1
  <2> HIDE DEF cut, before, gone, left, h
  <2>7. rest \in Str /\ rest # <<>> /\ h = SubSeq(h, 1, cut) \o rest /\ SubSeq(h, 1, cut) \in Str
        /\ Len(SubSeq(h, 1, cut)) = cut
    <3>1. cut \in 0..Len(h)
      BY <2>6
    <3>2. rest \in Str /\ h = SubSeq(h, 1, cut) \o rest /\ SubSeq(h, 1, cut) \in Str
          /\ Len(SubSeq(h, 1, cut)) = cut /\ Len(rest) = Len(h) - cut
      BY <2>1, <3>1, CutInTwo
    <3> HIDE DEF rest
    <3>3. Len(rest) # 0
      BY <2>6, <3>2
    <3>4. rest # <<>>
      BY <3>3, NoBytes
    <3> QED BY <3>2, <3>4
  <2> HIDE DEF rest
  <2>8. Take(c, n) = <<rest>> \o Tail(left)
    BY <1>5, <1>9 DEF rest, h
  <2>9. Take(c, n) \in Seq(Str \ {<<>>})
    <3>1. <<rest>> \in Seq(Str \ {<<>>})
      BY <2>7
    <3> QED BY <2>1, <2>8, <3>1, ConcatProperties
  <2>10. Bytes(Take(c, n)) = rest \o Bytes(Tail(left))
    BY <2>1, <2>7, <2>8, BytesCons
  <2> DEFINE a == Bytes(before)
             b == SubSeq(h, 1, cut)
             t == Bytes(Tail(left))
  <2>11. a \in Str /\ b \in Str /\ t \in Str /\ rest \in Str
    BY <1>6, <2>1, <2>7, BytesType
  <2>12. Bytes(c) = a \o ((b \o rest) \o t)
    BY <1>6, <2>1, <2>7
  <2>13. Len(a) + Len(b) = n
    BY <1>1, <2>6, <2>7 DEF cut
  <2> HIDE DEF a, b, t
  <2>14. (b \o rest) \o t = b \o (rest \o t)
    BY <2>11, Associative
  <2>15. rest \o t \in Str
    BY <2>11, Joined
  <2>16. a \o (b \o (rest \o t)) = (a \o b) \o (rest \o t)
    BY <2>11, <2>15, Associative
  <2>17. Bytes(c) = (a \o b) \o (rest \o t) /\ a \o b \in Str /\ Len(a \o b) = n
    BY <2>11, <2>12, <2>13, <2>14, <2>16, Joined
  <2>18. ASSUME NEW u \in Str, NEW v \in Str PROVE SubSeq(u \o v, Len(u) + 1, Len(u \o v)) = v
    BY DEF Str
  <2>19. SubSeq(Bytes(c), n + 1, Len(Bytes(c))) = rest \o t
    BY <2>15, <2>17, <2>18
  <2> QED BY <2>9, <2>10, <2>19 DEF t
<1> QED BY <1>8, <1>9

-----------------------------------------------------------------------------
(* The queue.                                                              *)

PipeType ==
  [queue : Chunks, total : Nat, notified : BOOLEAN, captured : Str, timer : BOOLEAN,
   microtask : BOOLEAN, dirty : BOOLEAN, uiTimer : BOOLEAN, behind : BOOLEAN, shown : Nat,
   stranded : BOOLEAN]

LEMMA DropCountFits ==
  ASSUME NEW queue \in Chunks, NEW n \in Nat
  PROVE /\ DropCount(queue, n) \in 0..Len(queue)
        /\ DropCount(queue, n) # Len(queue) => n <= MaxBytes
<1> DEFINE Fits(j) == \/ j = Len(queue)
                      \/ /\ Len(Bytes(SubSeq(queue, j + 1, Len(queue)))) + n <= MaxBytes
                         /\ Len(queue) - j < MaxChunks
           first == CHOOSE k \in 0..Len(queue) : Fits(k) /\ \A j \in 0..(k - 1) : ~Fits(j)
           T == {j \in 0..Len(queue) : Fits(j)}
<1>1. Len(queue) \in Nat /\ MaxBytes \in Nat
  BY LimitsAssumption DEF Chunks
<1>2. Len(queue) \in T
  BY <1>1
<1>3. \E k \in 0..Len(queue) : Fits(k) /\ \A j \in 0..(k - 1) : ~Fits(j)
  <2>1. PICK k \in T : \A m \in T : k <= m
    <3>1. T \subseteq Nat /\ T # {}
      BY <1>1, <1>2
    <3> HIDE DEF T
    <3> QED BY <3>1, LeastNumber
  <2>2. k \in 0..Len(queue) /\ Fits(k)
    OBVIOUS
  <2>3. ASSUME NEW j \in 0..(k - 1), Fits(j) PROVE FALSE
    <3>1. j \in 0..Len(queue) /\ j < k
      BY <1>1, <2>2
    <3>2. j \in T
      BY <2>3, <3>1
    <3>3. k <= j
      BY <2>1, <3>2
    <3> QED BY <2>2, <3>1, <3>3
  <2> HIDE DEF Fits
  <2> QED BY <2>2, <2>3
<1>4. first \in 0..Len(queue) /\ Fits(first)
  <2> HIDE DEF Fits, T
  <2> QED BY <1>3
<1>5. DropCount(queue, n) = first
  BY DEF DropCount
<1>6. ASSUME first # Len(queue) PROVE n <= MaxBytes
  <2>1. Len(Bytes(SubSeq(queue, first + 1, Len(queue)))) + n <= MaxBytes
    BY <1>4, <1>6
  <2>2. Bytes(SubSeq(queue, first + 1, Len(queue))) \in Str
    <3> HIDE DEF first
    <3> QED BY <1>4, BytesSplit, BytesType
  <2>3. Len(Bytes(SubSeq(queue, first + 1, Len(queue)))) \in Nat
    BY <2>2 DEF Str
  <2> HIDE DEF first
  <2> QED BY <1>1, <2>1, <2>3
<1> QED BY <1>4, <1>5, <1>6

\* Nothing is lost between the queue and what it discards.
LEMMA EnqueueSplits ==
  ASSUME NEW p \in PipeType, NEW bytes \in Str
  PROVE /\ EnqueueBytes(p, bytes)
              = [p EXCEPT !.queue = EnqueueBytes(p, bytes).queue,
                          !.total = p.total + Len(Discarded(p.queue, bytes)),
                          !.notified = p.notified \/ Discarded(p.queue, bytes) # <<>>]
        /\ EnqueueBytes(p, bytes).queue \in Chunks /\ EnqueueBytes(p, bytes).queue # <<>>
        /\ Discarded(p.queue, bytes) \in Str
        /\ Bytes(p.queue) \o bytes
              = Discarded(p.queue, bytes) \o Bytes(EnqueueBytes(p, bytes).queue)
<1> DEFINE k == DropCount(p.queue, Len(bytes))
           whole == SubSeq(p.queue, 1, k)
           kept == SubSeq(p.queue, k + 1, Len(p.queue))
           size == Least(Len(bytes), MaxBytes)
           head == SubSeq(bytes, 1, Len(bytes) - size)
           tail == LastBytes(bytes, size)
           gone == Discarded(p.queue, bytes)
           q == EnqueueBytes(p, bytes)
<1>1. p.queue \in Chunks /\ Len(bytes) \in Nat /\ MaxBytes \in Nat /\ Bytes(p.queue) \in Str
  BY LimitsAssumption, BytesType DEF PipeType, Str
<1>2. k \in 0..Len(p.queue) /\ (k # Len(p.queue) => Len(bytes) <= MaxBytes)
  BY <1>1, DropCountFits
<1> HIDE DEF k
<1>3. /\ whole \in Chunks /\ kept \in Chunks /\ Bytes(p.queue) = Bytes(whole) \o Bytes(kept)
      /\ Bytes(whole) \in Str /\ Bytes(kept) \in Str
  BY <1>1, <1>2, BytesSplit, BytesType
<1>4. /\ size \in 0..Len(bytes) /\ (Len(bytes) <= MaxBytes => size = Len(bytes))
  BY <1>1 DEF Least
<1> HIDE DEF size
<1>5. /\ head \in Str /\ tail \in Str /\ bytes = head \o tail
      /\ (Len(bytes) <= MaxBytes => head = <<>>)
  <2>1. Len(bytes) - size \in 0..Len(bytes)
    BY <1>1, <1>4
  <2>2. tail = SubSeq(bytes, (Len(bytes) - size) + 1, Len(bytes))
    BY DEF LastBytes
  <2>3. head \in Str /\ tail \in Str /\ bytes = head \o tail
    BY <2>1, <2>2, CutInTwo
  <2>4. Len(bytes) <= MaxBytes => Len(bytes) - size = 0
    BY <1>1, <1>4
  <2>5. Len(bytes) <= MaxBytes => head = <<>>
    BY <2>4, SubSeqEmpty
  <2> QED BY <2>3, <2>5
<1>6. gone = Bytes(whole) \o head
  BY DEF Discarded, k, size
<1>7. /\ q = [p EXCEPT !.queue = Append(kept, tail), !.total = p.total + Len(gone),
                       !.notified = p.notified \/ gone # <<>>]
      /\ q.queue = Append(kept, tail)
  <2>1. q = [p EXCEPT !.queue = Append(kept, tail), !.total = @ + Len(gone),
                      !.notified = @ \/ gone # <<>>]
    BY DEF EnqueueBytes, k, size
  <2> HIDE DEF q, gone, kept, tail
  <2>2. q = [p EXCEPT !.queue = Append(kept, tail), !.total = p.total + Len(gone),
                      !.notified = p.notified \/ gone # <<>>]
    BY <2>1 DEF PipeType
  <2> QED BY <2>2 DEF PipeType
<1> HIDE DEF whole, kept, head, tail
<1>8. /\ Append(kept, tail) \in Chunks /\ Append(kept, tail) # <<>>
      /\ Bytes(Append(kept, tail)) = Bytes(kept) \o tail
  BY <1>3, <1>5, BytesAppend, AppendProperties DEF Chunks
<1>9. gone \in Str
  BY <1>3, <1>5, <1>6, Joined
<1>10. Bytes(p.queue) \o bytes = gone \o (Bytes(kept) \o tail)
  <2> DEFINE a == Bytes(whole)
             b == Bytes(kept)
  <2>1. a \in Str /\ b \in Str /\ head \in Str /\ tail \in Str
    BY <1>3, <1>5
  <2> HIDE DEF a, b
  <2>2. (a \o b) \o (head \o tail) = (a \o head) \o (b \o tail)
    <3>1. CASE k = Len(p.queue)
      <4>1. kept = <<>>
        BY <1>1, <3>1, SubSeqEmpty DEF kept, Chunks
      <4>2. b = <<>>
        BY <4>1, BytesEmpty DEF b
      <4>3. a \o <<>> = a /\ <<>> \o tail = tail
        BY <2>1, ConcatEmptySeq DEF Str
      <4>4. (a \o head) \o tail = a \o (head \o tail)
        BY <2>1, Associative
      <4> QED BY <4>2, <4>3, <4>4
    <3>2. CASE k # Len(p.queue)
      <4>1. head = <<>>
        BY <1>2, <1>5, <3>2
      <4>2. a \o <<>> = a /\ <<>> \o tail = tail
        BY <2>1, ConcatEmptySeq DEF Str
      <4>3. (a \o b) \o tail = a \o (b \o tail)
        BY <2>1, Associative
      <4> QED BY <4>1, <4>2, <4>3
    <3> QED BY <3>1, <3>2
  <2> HIDE DEF gone
  <2> QED BY <1>3, <1>5, <1>6, <2>2 DEF a, b
<1> HIDE DEF q, gone
<1> QED BY <1>7, <1>8, <1>9, <1>10 DEF q, gone

-----------------------------------------------------------------------------
(* The schedulers.                                                         *)

\* The bytes in frames followed by those that are pending.
Line(p) == p.captured \o Bytes(p.queue)

\* Pending bytes have something that will frame them.
Pending(p) == p.queue # <<>> /\ ~p.stranded => p.timer \/ p.microtask

\* What is not on the screen has a publish timer, and an armed timer something to publish.
Screen(p) ==
  /\ p.behind => p.uiTimer
  /\ p.shown # p.total => p.uiTimer \/ p.queue # <<>>
  /\ p.uiTimer => p.dirty

\* Everything is framed and on the screen.
Quiet(p) == p.queue = <<>> /\ ~p.behind /\ p.shown = p.total

\* q holds the same bytes and counts as p.
SameBytes(p, q) == Line(q) = Line(p) /\ q.total = p.total /\ q.notified = p.notified

LEMMA NotifyArms ==
  ASSUME NEW p \in PipeType
  PROVE /\ Notify(p) \in PipeType
        /\ Notify(p) = [p EXCEPT !.timer = Notify(p).timer, !.microtask = Notify(p).microtask]
        /\ p.queue # <<>> => Notify(p).timer \/ Notify(p).microtask
<1>1. CASE p.queue = <<>>
  BY <1>1 DEF Notify, PipeType
<1> DEFINE now == Len(Bytes(p.queue)) >= DrainBytes \/ Len(p.queue) >= DrainChunks
<1>2. CASE p.queue # <<>> /\ now
  <2>1. Notify(p) = [p EXCEPT !.timer = FALSE, !.microtask = TRUE]
    BY <1>2 DEF Notify
  <2> QED BY <2>1 DEF PipeType
<1>3. CASE p.queue # <<>> /\ ~now
  <2>1. Notify(p) = [p EXCEPT !.timer = ~p.microtask]
    BY <1>3 DEF Notify
  <2> QED BY <2>1 DEF PipeType
<1> QED BY <1>1, <1>2, <1>3

LEMMA FlushQueueFrames ==
  ASSUME NEW p \in PipeType, Screen(p)
  PROVE /\ FlushQueue(p) \in PipeType /\ FlushQueue(p).queue = <<>> /\ Screen(FlushQueue(p))
        /\ SameBytes(p, FlushQueue(p)) /\ (Quiet(p) => Quiet(FlushQueue(p)))
<1>1. CASE p.queue = <<>>
  BY <1>1 DEF FlushQueue, SameBytes
<1>2. CASE p.queue # <<>>
  <2> DEFINE line == p.captured \o Bytes(p.queue)
             q == FlushQueue(p)
  <2>1. line \in Str /\ <<>> \in Chunks
    BY BytesType, Joined, EmptySeq DEF PipeType, Chunks
  <2>2. q = [p EXCEPT !.captured = line, !.queue = <<>>, !.behind = TRUE, !.stranded = FALSE,
                      !.dirty = TRUE, !.uiTimer = TRUE]
    BY <1>2 DEF FlushQueue, MarkDirty, PipeType
  <2> HIDE DEF line, q
  <2>3. q \in PipeType
    BY <2>1, <2>2 DEF PipeType
  <2>4. /\ q.captured = line /\ q.queue = <<>> /\ q.behind /\ q.dirty /\ q.uiTimer
        /\ q.total = p.total /\ q.notified = p.notified
    BY <2>2 DEF PipeType
  <2>5. line \o <<>> = line
    BY <2>1, ConcatEmptySeq DEF Str
  <2>6. Line(q) = line
    BY <2>4, <2>5, BytesEmpty DEF Line
  <2>7. Line(q) = Line(p)
    BY <2>6 DEF line, Line
  <2> QED BY <1>2, <2>3, <2>4, <2>7 DEF q, Screen, SameBytes, Quiet
<1> QED BY <1>1, <1>2

LEMMA DrainFrames ==
  ASSUME NEW p \in PipeType, Screen(p)
  PROVE /\ DrainPending(p) \in PipeType /\ DrainPending(p).queue = <<>> /\ Screen(DrainPending(p))
        /\ SameBytes(p, DrainPending(p)) /\ (Quiet(p) => Quiet(DrainPending(p)))
<1> DEFINE q == FlushQueue(p)
<1>1. q \in PipeType /\ q.queue = <<>> /\ Screen(q) /\ SameBytes(p, q) /\ (Quiet(p) => Quiet(q))
  BY FlushQueueFrames
<1>2. DrainPending(p) = q
  <2> HIDE DEF q
  <2>1. Notify(q) = q
    BY <1>1 DEF Notify
  <2> QED BY <2>1 DEF DrainPending, q
<1> QED BY <1>1, <1>2

\* flushRxAndPublish() leaves nothing behind.
LEMMA FlushPublishes ==
  ASSUME NEW p \in PipeType, Screen(p)
  PROVE /\ FlushRxAndPublish(p) \in PipeType /\ Quiet(FlushRxAndPublish(p))
        /\ Screen(FlushRxAndPublish(p)) /\ SameBytes(p, FlushRxAndPublish(p))
<1> DEFINE c == CancelDrain(p)
           d == DrainPending(c)
           q == FlushRxAndPublish(p)
<1>1. /\ c \in PipeType /\ Screen(c) /\ SameBytes(p, c)
  BY DEF CancelDrain, PipeType, Screen, SameBytes, Line
<1> HIDE DEF c
<1>2. d \in PipeType /\ d.queue = <<>> /\ Screen(d) /\ SameBytes(c, d)
  BY <1>1, DrainFrames
<1>3. q = PublishNow(d)
  BY DEF FlushRxAndPublish, c
<1> HIDE DEF d, q
<1>4. CASE d.dirty
  <2>1. q = [d EXCEPT !.dirty = FALSE, !.uiTimer = FALSE, !.behind = FALSE, !.shown = d.total]
    BY <1>3, <1>4 DEF PublishNow, Publish
  <2>2. q \in PipeType /\ Quiet(q) /\ Screen(q) /\ SameBytes(d, q)
    BY <1>2, <2>1 DEF PipeType, Quiet, Screen, SameBytes, Line
  <2> QED BY <1>1, <1>2, <2>2 DEF SameBytes, q
<1>5. CASE ~d.dirty
  <2>1. q = [d EXCEPT !.uiTimer = FALSE]
    BY <1>3, <1>5 DEF PublishNow
  <2>2. q \in PipeType /\ Quiet(q) /\ Screen(q) /\ SameBytes(d, q)
    BY <1>2, <1>5, <2>1 DEF PipeType, Quiet, Screen, SameBytes, Line
  <2> QED BY <1>1, <1>2, <2>2 DEF SameBytes, q
<1> QED BY <1>4, <1>5

LEMMA ResetDrainKeeps ==
  ASSUME NEW p \in PipeType, Screen(p)
  PROVE /\ ResetRxDrain(p) \in PipeType /\ Pending(ResetRxDrain(p)) /\ Screen(ResetRxDrain(p))
        /\ SameBytes(p, ResetRxDrain(p)) /\ (Quiet(p) => Quiet(ResetRxDrain(p)))
<1>1. ResetRxDrain(p) = [p EXCEPT !.timer = FALSE, !.microtask = FALSE,
                                  !.stranded = p.stranded \/ p.queue # <<>>]
  BY DEF ResetRxDrain, CancelDrain, PipeType
<1> QED BY <1>1 DEF PipeType, Pending, Screen, SameBytes, Line, Quiet

\* start() frames and shows what the last connection left, and counts from nothing.
LEMMA StartFrames ==
  ASSUME NEW p \in PipeType, Screen(p)
  PROVE /\ StartPipeline(p) \in PipeType /\ Quiet(StartPipeline(p)) /\ Screen(StartPipeline(p))
        /\ Pending(StartPipeline(p)) /\ Line(StartPipeline(p)) = Line(p)
        /\ StartPipeline(p).total = 0 /\ ~StartPipeline(p).notified
<1> DEFINE r == ResetRxDrain(p)
           f == FlushRxAndPublish(r)
           q == StartPipeline(p)
<1>1. r \in PipeType /\ Screen(r) /\ SameBytes(p, r)
  BY ResetDrainKeeps
<1> HIDE DEF r
<1>2. f \in PipeType /\ Quiet(f) /\ Screen(f) /\ SameBytes(r, f)
  BY <1>1, FlushPublishes
<1>3. q = [ResetQueue(CancelPublisher(CancelDrain(f))) EXCEPT !.shown = 0, !.stranded = FALSE]
  BY DEF StartPipeline, r
<1> HIDE DEF f, q
<1>4. q = [f EXCEPT !.timer = FALSE, !.microtask = FALSE, !.dirty = FALSE, !.uiTimer = FALSE,
                    !.queue = <<>>, !.total = 0, !.notified = FALSE, !.shown = 0, !.stranded = FALSE]
  BY <1>2, <1>3 DEF ResetQueue, CancelPublisher, CancelDrain, PipeType
<1>5. f.queue = <<>> /\ ~f.behind /\ <<>> \in Chunks
  BY <1>2, EmptySeq DEF Quiet, Chunks
<1>6. q \in PipeType
  BY <1>2, <1>4, <1>5 DEF PipeType
<1>7. /\ q.queue = <<>> /\ q.captured = f.captured /\ q.total = 0 /\ q.shown = 0 /\ ~q.notified
      /\ ~q.uiTimer /\ ~q.behind
  BY <1>2, <1>4, <1>5 DEF PipeType
<1>8. Line(q) = Line(p)
  BY <1>1, <1>2, <1>5, <1>7 DEF Line, SameBytes
<1> QED BY <1>6, <1>7, <1>8 DEF q, Quiet, Screen, Pending

\* The pipe once something will drain it again.
Unstranded(p) == [p EXCEPT !.stranded = FALSE]

\* enqueueReceivedBytes(): what arrives and what is discarded for it.
LEMMA EnqueueArms ==
  ASSUME NEW p \in PipeType, Screen(p), NEW bytes \in Str,
         NEW q, q = Notify(EnqueueBytes(Unstranded(p), bytes))
  PROVE /\ q \in PipeType /\ Pending(q) /\ Screen(q) /\ q.captured = p.captured
        /\ Discarded(p.queue, bytes) \in Str
        /\ Bytes(p.queue) \o bytes = Discarded(p.queue, bytes) \o Bytes(q.queue)
        /\ q.total = p.total + Len(Discarded(p.queue, bytes))
        /\ q.notified = (p.notified \/ Discarded(p.queue, bytes) # <<>>)
<1> DEFINE o == Unstranded(p)
           e == EnqueueBytes(o, bytes)
           gone == Discarded(p.queue, bytes)
<1>1. /\ o \in PipeType /\ o.queue = p.queue /\ o.total = p.total /\ o.notified = p.notified
      /\ o.captured = p.captured /\ Screen(o)
  BY DEF PipeType, Screen, Unstranded
<1> HIDE DEF o
<1>2. /\ e = [o EXCEPT !.queue = e.queue, !.total = o.total + Len(Discarded(o.queue, bytes)),
                       !.notified = o.notified \/ Discarded(o.queue, bytes) # <<>>]
      /\ e.queue \in Chunks /\ e.queue # <<>> /\ Discarded(o.queue, bytes) \in Str
      /\ Bytes(o.queue) \o bytes = Discarded(o.queue, bytes) \o Bytes(e.queue)
  BY <1>1, EnqueueSplits
<1>3. Discarded(o.queue, bytes) = gone
  BY <1>1
<1>4. q = Notify(e)
  BY DEF o
<1> HIDE DEF e, gone
<1>5. gone \in Str /\ Len(gone) \in Nat
  BY <1>2, <1>3 DEF Str
<1>6. /\ e \in PipeType /\ e.captured = p.captured /\ e.total = p.total + Len(gone)
      /\ e.notified = (p.notified \/ gone # <<>>) /\ Screen(e)
  <2>1. e = [o EXCEPT !.queue = e.queue, !.total = p.total + Len(gone),
                      !.notified = p.notified \/ gone # <<>>]
    BY <1>1, <1>2, <1>3
  <2>2. p.total + Len(gone) \in Nat
    BY <1>5 DEF PipeType
  <2>3. e \in PipeType
    BY <1>1, <1>2, <2>1, <2>2 DEF PipeType
  <2>4. e.captured = o.captured /\ e.total = p.total + Len(gone)
        /\ e.notified = (p.notified \/ gone # <<>>) /\ e.behind = o.behind
        /\ e.uiTimer = o.uiTimer /\ e.dirty = o.dirty
    BY <1>1, <2>1 DEF PipeType
  <2> QED BY <1>1, <1>2, <2>3, <2>4 DEF Screen
<1>7. q \in PipeType /\ q = [e EXCEPT !.timer = q.timer, !.microtask = q.microtask] /\ (q.timer \/ q.microtask)
  BY <1>2, <1>4, <1>6, NotifyArms
<1>8. /\ q.queue = e.queue /\ q.captured = e.captured /\ q.total = e.total /\ q.notified = e.notified
      /\ q.behind = e.behind /\ q.uiTimer = e.uiTimer /\ q.dirty = e.dirty /\ q.shown = e.shown
  BY <1>6, <1>7 DEF PipeType
<1>9. Pending(q) /\ Screen(q)
  BY <1>6, <1>7, <1>8 DEF Pending, Screen
<1> QED BY <1>1, <1>2, <1>3, <1>5, <1>6, <1>7, <1>8, <1>9 DEF gone

-----------------------------------------------------------------------------
(* The invariant.                                                          *)

AttemptType ==
  [phase : {"closed", "open", "unwatch", "drain", "yield", "stopped"}, watching : BOOLEAN,
   accepting : BOOLEAN, read : Str, before : Nat, idle : BOOLEAN,
   evidence : {"none", "guaranteed", "not-guaranteed"}]

TypeOK ==
  /\ sent \in Nat /\ hub \in Chunks /\ channel \in Chunks /\ attempt \in AttemptType
  /\ pipe \in PipeType /\ received \in Str /\ base \in Nat /\ MirrorSound(mirror)

\* What the progress of the attempt says: bytes are accepted until the boundary was drawn,
\* the native answer is collected while the native side drains, and a stopped attempt has
\* nothing pending.
Phases ==
  /\ attempt.accepting <=> attempt.phase \in {"open", "unwatch", "drain", "yield"}
  /\ attempt.phase # "drain" => attempt.read = <<>>
  /\ attempt.idle => attempt.phase \in {"yield", "stopped"}
  /\ attempt.evidence # "none" => attempt.phase = "stopped"
  /\ attempt.phase = "stopped" => Quiet(pipe)

\* A byte is in one place: received, in the Channel, in the native answer or in the hub.
OnePlace ==
  /\ Distinct(received) /\ Distinct(Bytes(channel)) /\ Distinct(attempt.read) /\ Distinct(Bytes(hub))
  /\ ToSet(received) \cup ToSet(Bytes(channel)) \cup ToSet(attempt.read) \cup ToSet(Bytes(hub)) \subseteq 1..sent
  /\ ToSet(received) \cap (ToSet(Bytes(channel)) \cup ToSet(attempt.read) \cup ToSet(Bytes(hub))) = {}
  /\ ToSet(Bytes(channel)) \cap (ToSet(attempt.read) \cup ToSet(Bytes(hub))) = {}
  /\ ToSet(attempt.read) \cap ToSet(Bytes(hub)) = {}

\* The line of the pipe and its counters are what was received and what was discarded.
Ledger ==
  /\ Line(pipe) = Kept(received, dropped) /\ dropped \subseteq ToSet(received)
  /\ base <= Cardinality(dropped) /\ pipe.total = Cardinality(dropped) - base
  /\ pipe.notified = (pipe.total > 0)

Delivered == ToSet(Line(pipe)) \cup dropped

\* Where the bytes of the connection are, as long as the boundary is not drawn, and those
\* before the boundary once the native side has found the line idle.
Owed ==
  /\ attempt.phase \in {"open", "unwatch", "drain"} =>
       owed \subseteq ToSet(Bytes(hub)) \cup ToSet(Bytes(channel)) \cup ToSet(attempt.read) \cup Delivered
  /\ attempt.phase = "yield" /\ attempt.idle => boundary \subseteq ToSet(Bytes(channel)) \cup Delivered
  /\ attempt.evidence = "guaranteed" => boundary \subseteq Delivered

IInv == TypeOK /\ Phases /\ OnePlace /\ Ledger /\ Owed /\ Pending(pipe) /\ Screen(pipe)

-----------------------------------------------------------------------------
(* Steps that neither receive nor discard a byte.                          *)

\* The pipe may frame, show and re-arm, but holds the same bytes and counts.
Calm ==
  /\ pipe' \in PipeType /\ Pending(pipe') /\ Screen(pipe') /\ SameBytes(pipe, pipe')
  /\ Quiet(pipe) => Quiet(pipe')
  /\ UNCHANGED <<received, dropped, base>>

LEMMA CalmLedger ==
  ASSUME IInv, Calm
  PROVE Ledger' /\ Delivered' = Delivered
BY DEF IInv, Calm, Ledger, Delivered, SameBytes

LEMMA StillCalm == IInv /\ UNCHANGED <<pipe, received, dropped, base>> => Calm
BY DEF IInv, TypeOK, Calm, SameBytes

LEMMA CalmStep ==
  ASSUME IInv, Calm, MirrorSound(mirror'), UNCHANGED <<sent, hub, channel, attempt, owed, boundary>>
  PROVE IInv'
<1>1. Ledger' /\ Delivered' = Delivered
  BY CalmLedger
<1>2. TypeOK'
  BY DEF IInv, Calm, TypeOK
<1>3. Phases'
  BY DEF IInv, Calm, Phases
<1>4. OnePlace'
  BY DEF IInv, Calm, OnePlace
<1>5. Owed'
  BY <1>1 DEF IInv, Owed
<1> QED BY <1>1, <1>2, <1>3, <1>4, <1>5 DEF IInv, Calm

LEMMA DrainInv ==
  ASSUME IInv, DrainMicrotask \/ DrainTimer
  PROVE IInv'
<1> USE DEF IInv, TypeOK
<1>1. PICK p : Becomes(DrainPending(p)) /\ p \in {[pipe EXCEPT !.microtask = FALSE], [pipe EXCEPT !.timer = FALSE]}
  BY DEF DrainMicrotask, DrainTimer
<1>2. p \in PipeType /\ Screen(p) /\ SameBytes(pipe, p) /\ (Quiet(pipe) => Quiet(p))
  BY <1>1 DEF PipeType, Screen, SameBytes, Line, Quiet
<1>3. /\ DrainPending(p) \in PipeType /\ DrainPending(p).queue = <<>> /\ Screen(DrainPending(p))
      /\ SameBytes(p, DrainPending(p)) /\ (Quiet(p) => Quiet(DrainPending(p)))
  BY <1>2, DrainFrames
<1>4. pipe' = DrainPending(p)
      /\ UNCHANGED <<sent, hub, channel, attempt, mirror, received, dropped, base, owed, boundary>>
  BY <1>1 DEF Becomes, history
<1>5. Calm
  BY <1>2, <1>3, <1>4 DEF Calm, SameBytes, Pending
<1> QED BY <1>4, <1>5, CalmStep

LEMMA PublishInv ==
  ASSUME IInv, PublishTimer \/ VisibilityChanged
  PROVE IInv'
<1> USE DEF IInv, TypeOK
<1>1. pipe' = Publish(pipe) \/ (pipe.dirty /\ pipe' = [pipe EXCEPT !.uiTimer = TRUE])
  BY DEF PublishTimer, VisibilityChanged, Becomes
<1>2. UNCHANGED <<sent, hub, channel, attempt, mirror, received, dropped, base, owed, boundary>>
  BY DEF PublishTimer, VisibilityChanged, Becomes, history
<1>3. CASE pipe' = Publish(pipe)
  <2>1. Calm
    BY <1>2, <1>3 DEF Publish, PipeType, Calm, Pending, Screen, SameBytes, Line, Quiet
  <2> QED BY <1>2, <2>1, CalmStep
<1>4. CASE pipe.dirty /\ pipe' = [pipe EXCEPT !.uiTimer = TRUE]
  <2>1. Calm
    BY <1>2, <1>4 DEF PipeType, Calm, Pending, Screen, SameBytes, Line, Quiet
  <2> QED BY <1>2, <2>1, CalmStep
<1> QED BY <1>1, <1>3, <1>4

LEMMA ResetCalm ==
  ASSUME IInv, pipe' = ResetRxDrain(pipe), UNCHANGED <<received, dropped, base>>
  PROVE Calm
BY ResetDrainKeeps DEF IInv, TypeOK, Calm

LEMMA ReconfiguredInv ==
  ASSUME IInv, Reconfigured
  PROVE IInv'
<1>1. /\ pipe' = ResetRxDrain(pipe)
      /\ UNCHANGED <<sent, hub, channel, attempt, mirror, received, dropped, base, owed, boundary>>
  BY DEF Reconfigured, Becomes, history
<1>2. Calm
  BY <1>1, ResetCalm
<1> QED BY <1>1, <1>2, CalmStep DEF IInv, TypeOK

LEMMA ReleaseLeaseInv ==
  ASSUME IInv, ReleaseLease
  PROVE IInv'
<1>1. /\ mirror' = CloseMirror(mirror) /\ (pipe' = ResetRxDrain(pipe) \/ pipe' = pipe)
      /\ UNCHANGED <<sent, hub, channel, attempt, received, dropped, base, owed, boundary>>
  BY DEF ReleaseLease, MirrorBecomes, history
<1>2. Calm
  BY <1>1, ResetCalm, StillCalm
<1>3. MirrorSound(mirror')
  BY <1>1, CloseSound DEF IInv, TypeOK
<1> QED BY <1>1, <1>2, <1>3, CalmStep

LEMMA EmptyMirror == MirrorSound([NoMirror EXCEPT !.open = TRUE]) /\ MirrorSound(NoMirror)
<1>1. <<>> \in Seq(Str \ {<<>>}) /\ <<>> \in Str /\ 0 \in Nat
  BY EmptySeq DEF Str
<1>2. <<>> \o Bytes(<<>>) = <<>>
  BY <1>1, BytesEmpty, ConcatEmptySeq DEF Str
<1>3. IsPrefix(<<>>, <<>>)
  BY <1>1, <1>2, BytesEmpty, FrontIsPrefix
<1> QED BY <1>1, <1>2, <1>3 DEF NoMirror, MirrorSound, MirrorType

LEMMA GrantInv ==
  ASSUME IInv, Grant
  PROVE IInv'
<1>1. /\ mirror' = [NoMirror EXCEPT !.open = TRUE]
      /\ UNCHANGED <<sent, hub, channel, attempt, pipe, received, dropped, base, owed, boundary>>
  BY DEF Grant, MirrorBecomes, history
<1> QED BY <1>1, EmptyMirror, StillCalm, CalmStep

LEMMA ReaderSound ==
  ASSUME NEW m, MirrorSound(m), NEW n \in Nat, n = 0 \/ (m.open /\ m.chunks = <<>>)
  PROVE MirrorSound([m EXCEPT !.reader = n])
<1>1. m \in MirrorType
  BY DEF MirrorSound
<1>2. [m EXCEPT !.reader = n] \in MirrorType
  BY <1>1 DEF MirrorType
<1> QED BY <1>1, <1>2 DEF MirrorSound, MirrorType

LEMMA ReadInv ==
  ASSUME IInv, NEW n \in Sizes, Read(n)
  PROVE IInv'
<1> DEFINE all == Bytes(mirror.chunks)
           k == Least(n, Len(all))
<1>1. /\ mirror.open /\ UNCHANGED <<sent, hub, channel, attempt, pipe, received, dropped, base, owed, boundary>>
      /\ \/ mirror' = [mirror EXCEPT !.got = @ \o SubSeq(all, 1, k), !.chunks = Take(@, k)] /\ all # <<>>
         \/ mirror' = [mirror EXCEPT !.reader = n] /\ all = <<>>
  BY DEF Read, MirrorBecomes, history
<1>2. /\ MirrorSound(mirror) /\ mirror \in MirrorType /\ mirror.chunks \in Seq(Str \ {<<>>}) /\ all \in Str
      /\ (all = <<>> <=> mirror.chunks = <<>>) /\ mirror.got \in Str /\ n \in Nat
  BY ChunksOfMirror, LimitsAssumption DEF IInv, TypeOK, MirrorSound, MirrorType
<1>3. CASE mirror' = [mirror EXCEPT !.reader = n] /\ all = <<>>
  BY <1>1, <1>2, <1>3, ReaderSound, StillCalm, CalmStep
<1>4. CASE mirror' = [mirror EXCEPT !.got = @ \o SubSeq(all, 1, k), !.chunks = Take(@, k)] /\ all # <<>>
  <2>1. k \in 0..Len(all)
    <3>1. Len(all) \in Nat
      BY <1>2 DEF Str
    <3> QED BY <1>2, <3>1, LeastType
  <2> HIDE DEF k
  <2> DEFINE front == SubSeq(all, 1, k)
             rest == SubSeq(all, k + 1, Len(all))
  <2>2. front \in Str /\ rest \in Str /\ all = front \o rest
    <3> HIDE DEF all
    <3> QED BY <1>2, <2>1, CutInTwo
  <2>3. Take(mirror.chunks, k) \in Seq(Str \ {<<>>}) /\ Bytes(Take(mirror.chunks, k)) = rest
    BY <1>2, <2>1, TakeSplits
  <2>4. /\ mirror' = [mirror EXCEPT !.got = mirror.got \o front, !.chunks = Take(mirror.chunks, k)]
        /\ mirror.got \o front \in Str
    BY <1>2, <1>4, <2>2, Joined
  <2> HIDE DEF front, rest
  <2>5. /\ mirror' \in MirrorType /\ mirror'.open = mirror.open /\ mirror'.reader = mirror.reader
        /\ mirror'.offered = mirror.offered /\ mirror'.got = mirror.got \o front
        /\ mirror'.chunks = Take(mirror.chunks, k)
    BY <1>2, <2>3, <2>4 DEF MirrorType
  <2>6. mirror.got \o (front \o rest) = mirror.offered
    BY <1>1, <1>2, <2>2 DEF MirrorSound
  <2>7. (mirror.got \o front) \o rest = mirror.got \o (front \o rest)
    <3>1. mirror.got \in Str
      BY <1>2
    <3> QED BY <2>2, <3>1, Associative
  <2>8. mirror'.got \o Bytes(mirror'.chunks) = mirror'.offered
    BY <2>3, <2>5, <2>6, <2>7
  <2>9. mirror.reader = 0
    BY <1>2, <1>4 DEF MirrorSound
  <2>10. MirrorSound(mirror')
    BY <1>1, <2>5, <2>8, <2>9 DEF MirrorSound
  <2> QED BY <1>1, <2>10, StillCalm, CalmStep
<1> QED BY <1>1, <1>3, <1>4

LEMMA ReadEndsInv ==
  ASSUME IInv, ReadEnds
  PROVE IInv'
<1>1. /\ mirror' = [mirror EXCEPT !.reader = 0]
      /\ UNCHANGED <<sent, hub, channel, attempt, pipe, received, dropped, base, owed, boundary>>
  BY DEF ReadEnds, MirrorBecomes, history
<1>2. MirrorSound(mirror')
  BY <1>1, ReaderSound DEF IInv, TypeOK
<1> QED BY <1>1, <1>2, StillCalm, CalmStep

-----------------------------------------------------------------------------
(* Steps of the attempt.                                                   *)

LEMMA StopBeginsInv ==
  ASSUME IInv, StopBegins
  PROVE IInv'
<1>1. /\ attempt.phase = "open" /\ attempt' = [attempt EXCEPT !.phase = "unwatch", !.before = pipe.total]
      /\ mirror' = CloseMirror(mirror)
      /\ UNCHANGED <<sent, hub, channel, pipe, received, dropped, base, owed, boundary>>
  BY DEF StopBegins, Attempt, history
<1>2. Calm /\ Ledger' /\ Delivered' = Delivered
  BY <1>1, StillCalm, CalmLedger
<1>3. /\ attempt' \in AttemptType /\ attempt'.phase = "unwatch" /\ attempt'.accepting = attempt.accepting
      /\ attempt'.read = attempt.read /\ attempt'.idle = attempt.idle /\ attempt'.evidence = attempt.evidence
  BY <1>1 DEF IInv, TypeOK, AttemptType, PipeType
<1>4. TypeOK'
  BY <1>1, <1>3, CloseSound DEF IInv, TypeOK
<1>5. Phases'
  BY <1>1, <1>3 DEF IInv, Phases
<1>6. OnePlace'
  BY <1>1, <1>3 DEF IInv, OnePlace
<1>7. Owed'
  BY <1>1, <1>2, <1>3 DEF IInv, Owed, Phases
<1> QED BY <1>1, <1>2, <1>4, <1>5, <1>6, <1>7 DEF IInv

LEMMA UnwatchedInv ==
  ASSUME IInv, NEW acknowledged \in BOOLEAN, Unwatched(acknowledged)
  PROVE IInv'
<1>1. /\ attempt.phase = "unwatch"
      /\ attempt' = [attempt EXCEPT !.phase = IF acknowledged THEN "drain" ELSE "yield",
                                    !.watching = @ /\ ~acknowledged]
      /\ UNCHANGED <<sent, hub, channel, pipe, mirror, received, dropped, base, owed, boundary>>
  BY DEF Unwatched, Attempt, history
<1>2. Calm /\ Ledger' /\ Delivered' = Delivered
  BY <1>1, StillCalm, CalmLedger
<1>3. /\ attempt' \in AttemptType /\ attempt'.phase \in {"drain", "yield"} /\ attempt'.accepting = attempt.accepting
      /\ attempt'.read = attempt.read /\ attempt'.idle = attempt.idle /\ attempt'.evidence = attempt.evidence
  BY <1>1 DEF IInv, TypeOK, AttemptType
<1>4. TypeOK'
  BY <1>1, <1>3 DEF IInv, TypeOK
<1>5. Phases'
  BY <1>1, <1>3 DEF IInv, Phases
<1>6. OnePlace'
  BY <1>1, <1>3 DEF IInv, OnePlace
<1>7. Owed'
  BY <1>1, <1>2, <1>3 DEF IInv, Owed, Phases
<1> QED BY <1>1, <1>2, <1>4, <1>5, <1>6, <1>7 DEF IInv

\* The renderer flushes: what the boundary covers is framed and shown before the attempt stops.
LEMMA YieldedInv ==
  ASSUME IInv, NEW ok \in BOOLEAN, Yielded(ok)
  PROVE IInv'
<1> DEFINE p == FlushRxAndPublish(pipe)
           good == ok /\ attempt.idle /\ p.total = attempt.before
<1>1. /\ attempt.phase = "yield" /\ (ok => channel = <<>>) /\ pipe' = p
      /\ attempt' = [attempt EXCEPT !.phase = "stopped", !.accepting = FALSE,
                                    !.evidence = IF good THEN "guaranteed" ELSE "not-guaranteed"]
      /\ UNCHANGED <<sent, hub, channel, mirror, received, dropped, base, owed, boundary>>
  BY DEF Yielded, Attempt, history
<1>2. p \in PipeType /\ Quiet(p) /\ Screen(p) /\ SameBytes(pipe, p)
  BY FlushPublishes DEF IInv, TypeOK
<1> HIDE DEF p
<1>3. Calm /\ Quiet(pipe')
  BY <1>1, <1>2 DEF Calm, Pending, Quiet
<1>4. Ledger' /\ Delivered' = Delivered
  BY <1>3, CalmLedger
<1>5. /\ attempt' \in AttemptType /\ attempt'.phase = "stopped" /\ ~attempt'.accepting
      /\ attempt'.read = attempt.read /\ attempt'.idle = attempt.idle
      /\ (attempt'.evidence = "guaranteed" => ok /\ attempt.idle)
  BY <1>1 DEF IInv, TypeOK, AttemptType
<1>6. TypeOK'
  BY <1>1, <1>2, <1>5 DEF IInv, TypeOK
<1>7. Phases'
  BY <1>1, <1>3, <1>5 DEF IInv, Phases
<1>8. OnePlace'
  BY <1>1, <1>5 DEF IInv, OnePlace
<1>9. Owed'
  <2>1. ok => ToSet(Bytes(channel)) = {}
    BY <1>1, BytesEmpty, NoBytes
  <2> QED BY <1>1, <1>4, <1>5, <2>1 DEF IInv, Owed, Phases
<1> QED BY <1>3, <1>4, <1>6, <1>7, <1>8, <1>9 DEF IInv, Calm

LEMMA StopEndsInv ==
  ASSUME IInv, StopEnds
  PROVE IInv'
<1>1. /\ attempt.phase = "stopped" /\ attempt' = NoAttempt /\ hub' = <<>> /\ channel' = <<>>
      /\ pipe' = ClearPendingQueue(CancelPublishers(pipe))
      /\ UNCHANGED <<sent, mirror, received, dropped, base, owed, boundary>>
  BY DEF StopEnds, history
<1>2. Quiet(pipe)
  BY <1>1 DEF IInv, Phases
<1>3. Calm
  <2>1. pipe' = [pipe EXCEPT !.timer = FALSE, !.microtask = FALSE, !.dirty = FALSE,
                             !.uiTimer = FALSE, !.queue = <<>>]
    BY <1>1 DEF ClearPendingQueue, CancelPublishers, CancelPublisher, CancelDrain, IInv, TypeOK, PipeType
  <2>2. <<>> \in Chunks
    BY EmptySeq DEF Chunks
  <2> QED BY <1>1, <1>2, <2>1, <2>2
          DEF IInv, TypeOK, PipeType, Calm, Pending, Screen, SameBytes, Line, Quiet
<1>4. Ledger' /\ Delivered' = Delivered
  BY <1>3, CalmLedger
<1>5. NoAttempt \in AttemptType /\ <<>> \in Chunks
  BY EmptySeq DEF NoAttempt, AttemptType, Str, Chunks
<1>6. TypeOK'
  BY <1>1, <1>3, <1>5 DEF IInv, TypeOK, Calm
<1>7. Phases'
  BY <1>1 DEF Phases, NoAttempt
<1>8. OnePlace'
  BY <1>1, BytesEmpty, NoBytes DEF IInv, OnePlace, NoAttempt
<1>9. Owed'
  BY <1>1 DEF Owed, NoAttempt
<1> QED BY <1>3, <1>4, <1>6, <1>7, <1>8, <1>9 DEF IInv, Calm

\* A new attempt owes nothing yet.
LEMMA NewAttemptInv ==
  ASSUME IInv, NewAttempt, pipe' \in PipeType, Pending(pipe'), Screen(pipe'), Ledger',
         base' \in Nat
  PROVE IInv'
<1>1. /\ attempt' = [NoAttempt EXCEPT !.phase = "open", !.watching = TRUE, !.accepting = TRUE]
      /\ hub' = <<>> /\ channel' = <<>> /\ owed' = {} /\ boundary' = {}
      /\ UNCHANGED <<sent, mirror, received, dropped>>
  BY DEF NewAttempt, history
<1>2. attempt' \in AttemptType /\ <<>> \in Chunks
  BY <1>1, EmptySeq DEF NoAttempt, AttemptType, Str, Chunks
<1>3. /\ attempt'.phase = "open" /\ attempt'.accepting /\ attempt'.read = <<>> /\ ~attempt'.idle
      /\ attempt'.evidence = "none"
  BY <1>1 DEF NoAttempt
<1>5. TypeOK'
  BY <1>1, <1>2 DEF IInv, TypeOK
<1>6. Phases'
  BY <1>3 DEF Phases
<1>7. OnePlace'
  BY <1>1, <1>3, BytesEmpty, NoBytes DEF IInv, OnePlace
<1>8. Owed'
  BY <1>1, <1>3 DEF Owed
<1> QED BY <1>5, <1>6, <1>7, <1>8 DEF IInv

LEMMA CountDropped ==
  ASSUME IInv
  PROVE IsFiniteSet(dropped) /\ Cardinality(dropped) \in Nat
<1>1. IsFiniteSet(ToSet(received))
  BY CountDistinct DEF IInv, TypeOK, OnePlace
<1> QED BY <1>1, FS_Subset, FS_CardinalityType DEF IInv, Ledger

LEMMA StartInv ==
  ASSUME IInv, Start
  PROVE IInv'
<1>1. NewAttempt /\ pipe' = StartPipeline(pipe) /\ base' = Cardinality(dropped) /\ UNCHANGED <<received, dropped>>
  BY DEF Start, NewAttempt, history
<1>2. /\ pipe' \in PipeType /\ Pending(pipe') /\ Screen(pipe') /\ Line(pipe') = Line(pipe)
      /\ pipe'.total = 0 /\ ~pipe'.notified
  BY <1>1, StartFrames DEF IInv, TypeOK
<1>3. Cardinality(dropped) \in Nat
  BY CountDropped
<1>4. Ledger'
  BY <1>1, <1>2, <1>3 DEF IInv, Ledger, PipeType
<1> QED BY <1>1, <1>2, <1>3, <1>4, NewAttemptInv

LEMMA ReconnectInv ==
  ASSUME IInv, Reconnect
  PROVE IInv'
<1>1. NewAttempt /\ pipe' = ResetRxDrain(pipe) /\ UNCHANGED <<received, dropped, base>>
  BY DEF Reconnect, NewAttempt, history
<1>2. Calm
  BY <1>1, ResetCalm
<1>3. Ledger'
  BY <1>2, CalmLedger
<1> QED BY <1>1, <1>2, <1>3, NewAttemptInv DEF Calm, IInv, TypeOK

-----------------------------------------------------------------------------
(* Steps that move bytes.                                                  *)

LEMMA NewBytes ==
  ASSUME NEW n \in Nat, NEW new, new = [i \in 1..n |-> sent + i], sent \in Nat
  PROVE new \in Str /\ Distinct(new) /\ ToSet(new) = (sent + 1)..(sent + n)
<1>1. new \in Str /\ Len(new) = n
  BY DEF Str
<1>2. Distinct(new)
  BY <1>1 DEF Distinct
<1>3. ToSet(new) = {sent + i : i \in 1..n}
  BY DEF ToSet
<1>4. {sent + i : i \in 1..n} = (sent + 1)..(sent + n)
  <2>1. ASSUME NEW b \in (sent + 1)..(sent + n) PROVE b \in {sent + i : i \in 1..n}
    <3>1. b - sent \in 1..n /\ b = sent + (b - sent)
      OBVIOUS
    <3> QED BY <3>1
  <2> QED BY <2>1
<1> QED BY <1>1, <1>2, <1>3, <1>4

\* The bytes of a longer sequence of chunks.
LEMMA Appended ==
  ASSUME NEW c \in Chunks, NEW b \in Str
  PROVE /\ Append(c, b) \in Chunks /\ Bytes(c) \in Str /\ Bytes(Append(c, b)) \in Str
        /\ ToSet(Bytes(Append(c, b))) = ToSet(Bytes(c)) \cup ToSet(b)
        /\ Distinct(Bytes(Append(c, b)))
             <=> Distinct(Bytes(c)) /\ Distinct(b) /\ ToSet(Bytes(c)) \cap ToSet(b) = {}
<1>1. Append(c, b) \in Chunks /\ Bytes(Append(c, b)) = Bytes(c) \o b
  BY BytesAppend
<1>2. Bytes(c) \in Str
  BY BytesType
<1>3. Bytes(c) \o b \in Str /\ ToSet(Bytes(c) \o b) = ToSet(Bytes(c)) \cup ToSet(b)
  BY <1>2, Joined
<1>4. Distinct(Bytes(c) \o b) <=> Distinct(Bytes(c)) /\ Distinct(b) /\ ToSet(Bytes(c)) \cap ToSet(b) = {}
  BY <1>2, DistinctParts
<1> QED BY <1>1, <1>2, <1>3, <1>4

\* The first chunk and the rest.
LEMMA FirstChunk ==
  ASSUME NEW c \in Chunks, c # <<>>
  PROVE /\ Head(c) \in Str /\ Tail(c) \in Chunks /\ Bytes(Tail(c)) \in Str
        /\ ToSet(Bytes(c)) = ToSet(Head(c)) \cup ToSet(Bytes(Tail(c)))
        /\ Distinct(Bytes(c))
             <=> Distinct(Head(c)) /\ Distinct(Bytes(Tail(c)))
                   /\ ToSet(Head(c)) \cap ToSet(Bytes(Tail(c))) = {}
<1> DEFINE h == Head(c)
           t == Tail(c)
<1>1. h \in Str /\ t \in Chunks /\ Bytes(c) = h \o Bytes(t)
  BY BytesHead
<1> HIDE DEF h, t
<1>2. Bytes(t) \in Str
  BY <1>1, BytesType
<1>3. ToSet(h \o Bytes(t)) = ToSet(h) \cup ToSet(Bytes(t))
  BY <1>1, <1>2, Joined
<1>4. Distinct(h \o Bytes(t)) <=> Distinct(h) /\ Distinct(Bytes(t)) /\ ToSet(h) \cap ToSet(Bytes(t)) = {}
  BY <1>1, <1>2, DistinctParts
<1> QED BY <1>1, <1>2, <1>3, <1>4 DEF h, t

LEMMA DeviceSendsInv ==
  ASSUME IInv, NEW n \in Sizes, DeviceSends(n)
  PROVE IInv'
<1> DEFINE new == [i \in 1..n |-> sent + i]
<1>1. /\ sent' = sent + n /\ hub' = Append(hub, new) /\ owed' = owed \cup (sent + 1)..(sent + n)
      /\ UNCHANGED <<channel, attempt, pipe, mirror, received, dropped, base, boundary>>
  BY DEF DeviceSends, history
<1>2. n \in Nat /\ sent \in Nat /\ hub \in Chunks
  BY LimitsAssumption DEF IInv, TypeOK
<1>3. new \in Str /\ Distinct(new) /\ ToSet(new) = (sent + 1)..(sent + n)
  BY <1>2, NewBytes
<1> HIDE DEF new
<1>4. /\ hub' \in Chunks /\ ToSet(Bytes(hub')) = ToSet(Bytes(hub)) \cup ToSet(new)
      /\ Distinct(Bytes(hub'))
           <=> Distinct(Bytes(hub)) /\ Distinct(new) /\ ToSet(Bytes(hub)) \cap ToSet(new) = {}
  BY <1>1, <1>2, <1>3, Appended
<1>5. Calm /\ Ledger' /\ Delivered' = Delivered
  BY <1>1, StillCalm, CalmLedger
<1>6. TypeOK'
  BY <1>1, <1>2, <1>4 DEF IInv, TypeOK
<1>7. Phases'
  BY <1>1 DEF IInv, Phases
<1>8. OnePlace'
  <2>1. (1..sent) \cap ToSet(new) = {} /\ 1..sent \subseteq 1..(sent + n) /\ ToSet(new) \subseteq 1..(sent + n)
    BY <1>2, <1>3
  <2> QED BY <1>1, <1>3, <1>4, <2>1 DEF IInv, OnePlace
<1>9. Owed'
  BY <1>1, <1>3, <1>4, <1>5 DEF IInv, Owed
<1> QED BY <1>5, <1>6, <1>7, <1>8, <1>9 DEF IInv, Calm

LEMMA WatchReadsInv ==
  ASSUME IInv, WatchReads
  PROVE IInv'
<1>1. /\ hub # <<>> /\ channel' = Append(channel, Head(hub)) /\ hub' = Tail(hub)
      /\ UNCHANGED <<sent, attempt, pipe, mirror, received, dropped, base, owed, boundary>>
  BY DEF WatchReads, history
<1>2. hub \in Chunks /\ channel \in Chunks
  BY DEF IInv, TypeOK
<1> DEFINE first == Head(hub)
<1>3. /\ first \in Str /\ hub' \in Chunks /\ ToSet(Bytes(hub)) = ToSet(first) \cup ToSet(Bytes(hub'))
      /\ Distinct(Bytes(hub)) <=> Distinct(first) /\ Distinct(Bytes(hub')) /\ ToSet(first) \cap ToSet(Bytes(hub')) = {}
  BY <1>1, <1>2, FirstChunk
<1> HIDE DEF first
<1>4. /\ channel' \in Chunks /\ ToSet(Bytes(channel')) = ToSet(Bytes(channel)) \cup ToSet(first)
      /\ Distinct(Bytes(channel'))
           <=> Distinct(Bytes(channel)) /\ Distinct(first) /\ ToSet(Bytes(channel)) \cap ToSet(first) = {}
  <2>1. channel' = Append(channel, first)
    BY <1>1 DEF first
  <2> QED BY <1>2, <1>3, <2>1, Appended
<1>5. Calm /\ Ledger' /\ Delivered' = Delivered
  BY <1>1, StillCalm, CalmLedger
<1>6. TypeOK'
  BY <1>1, <1>3, <1>4 DEF IInv, TypeOK
<1>7. Phases'
  BY <1>1 DEF IInv, Phases
<1>8. OnePlace'
  BY <1>1, <1>3, <1>4 DEF IInv, OnePlace
<1>9. Owed'
  BY <1>1, <1>3, <1>4, <1>5 DEF IInv, Owed
<1> QED BY <1>5, <1>6, <1>7, <1>8, <1>9 DEF IInv, Calm

LEMMA ClearBuffersInv ==
  ASSUME IInv, ClearBuffers
  PROVE IInv'
<1>1. /\ mirror.open /\ hub' = <<>> /\ owed' = owed \ ToSet(Bytes(hub))
      /\ mirror' = [mirror EXCEPT !.chunks = <<>>, !.offered = mirror.got]
      /\ UNCHANGED <<sent, channel, attempt, pipe, received, dropped, base, boundary>>
  BY DEF ClearBuffers, MirrorBecomes, history
<1>2. Calm /\ Ledger' /\ Delivered' = Delivered
  BY <1>1, StillCalm, CalmLedger
<1>3. MirrorSound(mirror')
  <2>1. mirror \in MirrorType /\ <<>> \in Seq(Str \ {<<>>}) /\ mirror.got \in Str
    BY EmptySeq DEF IInv, TypeOK, MirrorSound, MirrorType
  <2>2. mirror' \in MirrorType /\ mirror'.chunks = <<>> /\ mirror'.offered = mirror.got
        /\ mirror'.got = mirror.got /\ mirror'.open
    BY <1>1, <2>1 DEF MirrorType
  <2>3. mirror.got \o <<>> = mirror.got
    BY <2>1, ConcatEmptySeq DEF Str
  <2> QED BY <2>2, <2>3, BytesEmpty DEF MirrorSound
<1>4. <<>> \in Chunks /\ ToSet(Bytes(hub')) = {} /\ Distinct(Bytes(hub'))
  BY <1>1, EmptySeq, BytesEmpty, NoBytes DEF Chunks
<1>5. TypeOK'
  BY <1>1, <1>3, <1>4 DEF IInv, TypeOK
<1>6. Phases'
  BY <1>1 DEF IInv, Phases
<1>7. OnePlace'
  BY <1>1, <1>4 DEF IInv, OnePlace
<1>8. Owed'
  BY <1>1, <1>2 DEF IInv, Owed
<1> QED BY <1>2, <1>5, <1>6, <1>7, <1>8 DEF IInv, Calm

LEMMA NativeReadInv ==
  ASSUME IInv, NativeRead
  PROVE IInv'
<1> DEFINE n == Least(Len(Head(hub)), DrainLimit - Len(attempt.read))
           front == SubSeq(Head(hub), 1, n)
           rest == SubSeq(Head(hub), n + 1, Len(Head(hub)))
<1>1. /\ attempt.phase = "drain" /\ hub # <<>> /\ Len(attempt.read) < DrainLimit
      /\ attempt' = [attempt EXCEPT !.read = @ \o front]
      /\ hub' = IF rest = <<>> THEN Tail(hub) ELSE <<rest>> \o Tail(hub)
      /\ UNCHANGED <<sent, channel, pipe, mirror, received, dropped, base, owed, boundary>>
  BY DEF NativeRead, Attempt, history
<1>2. hub \in Chunks /\ attempt \in AttemptType /\ attempt.read \in Str
  BY DEF IInv, TypeOK, AttemptType
<1> DEFINE h == Head(hub)
           t == Tail(hub)
<1>3. /\ h \in Str /\ t \in Chunks /\ Bytes(t) \in Str /\ ToSet(Bytes(hub)) = ToSet(h) \cup ToSet(Bytes(t))
      /\ Distinct(Bytes(hub)) <=> Distinct(h) /\ Distinct(Bytes(t)) /\ ToSet(h) \cap ToSet(Bytes(t)) = {}
  BY <1>1, <1>2, FirstChunk
<1>4. n \in 0..Len(h)
  <2>1. Len(h) \in Nat /\ Len(attempt.read) \in Nat /\ DrainLimit \in Nat
    BY <1>2, <1>3, LimitsAssumption DEF Str
  <2>2. DrainLimit - Len(attempt.read) \in Nat
    BY <1>1, <2>1
  <2> QED BY <2>1, <2>2, LeastType
<1>5. front \in Str /\ rest \in Str /\ h = front \o rest
  <2> HIDE DEF n, h
  <2>1. SubSeq(h, 1, n) \in Str /\ SubSeq(h, n + 1, Len(h)) \in Str
        /\ h = SubSeq(h, 1, n) \o SubSeq(h, n + 1, Len(h))
    BY <1>3, <1>4, CutInTwo
  <2> QED BY <2>1 DEF h
<1>6. hub' = IF rest = <<>> THEN t ELSE <<rest>> \o t
  BY <1>1
<1> HIDE DEF n, front, rest, h, t
<1>7. /\ ToSet(h) = ToSet(front) \cup ToSet(rest)
      /\ Distinct(h) <=> Distinct(front) /\ Distinct(rest) /\ ToSet(front) \cap ToSet(rest) = {}
  BY <1>5, Joined, DistinctParts
<1>8. /\ hub' \in Chunks /\ ToSet(Bytes(hub')) = ToSet(rest) \cup ToSet(Bytes(t))
      /\ Distinct(Bytes(hub'))
           <=> Distinct(rest) /\ Distinct(Bytes(t)) /\ ToSet(rest) \cap ToSet(Bytes(t)) = {}
  <2>1. CASE rest = <<>>
    BY <1>3, <1>6, <2>1, NoBytes
  <2>2. CASE rest # <<>>
    <3>1. hub' \in Chunks /\ Bytes(hub') = rest \o Bytes(t)
      BY <1>3, <1>5, <1>6, <2>2, BytesCons
    <3>2. ToSet(rest \o Bytes(t)) = ToSet(rest) \cup ToSet(Bytes(t))
      BY <1>3, <1>5, Joined
    <3>3. Distinct(rest \o Bytes(t))
            <=> Distinct(rest) /\ Distinct(Bytes(t)) /\ ToSet(rest) \cap ToSet(Bytes(t)) = {}
      BY <1>3, <1>5, DistinctParts
    <3> QED BY <3>1, <3>2, <3>3
  <2> QED BY <2>1, <2>2
<1> DEFINE read == attempt.read \o front
<1>9. /\ read \in Str /\ ToSet(read) = ToSet(attempt.read) \cup ToSet(front)
      /\ Distinct(read)
           <=> Distinct(attempt.read) /\ Distinct(front) /\ ToSet(attempt.read) \cap ToSet(front) = {}
  BY <1>2, <1>5, Joined, DistinctParts
<1> HIDE DEF read
<1>10. attempt' = [attempt EXCEPT !.read = read]
  BY <1>1, <1>2 DEF read, AttemptType
<1>11. /\ attempt' \in AttemptType /\ attempt'.phase = attempt.phase /\ attempt'.accepting = attempt.accepting
       /\ attempt'.read = read /\ attempt'.idle = attempt.idle /\ attempt'.evidence = attempt.evidence
  BY <1>2, <1>9, <1>10 DEF AttemptType
<1>12. Calm /\ Ledger' /\ Delivered' = Delivered
  BY <1>1, StillCalm, CalmLedger
<1>13. TypeOK'
  BY <1>1, <1>8, <1>11 DEF IInv, TypeOK
<1>14. Phases'
  BY <1>1, <1>11 DEF IInv, Phases
<1>15. OnePlace'
  BY <1>1, <1>3, <1>7, <1>8, <1>9, <1>11 DEF IInv, OnePlace
<1>16. Owed'
  BY <1>1, <1>3, <1>7, <1>8, <1>9, <1>11, <1>12 DEF IInv, Owed
<1> QED BY <1>12, <1>13, <1>14, <1>15, <1>16 DEF IInv, Calm

-----------------------------------------------------------------------------
(* Bytes are received.                                                     *)

\* What the queue discards for new bytes is counted, and nothing else is lost.
LEMMA Received ==
  ASSUME IInv, NEW bytes \in Str, Distinct(bytes), ToSet(bytes) \cap ToSet(received) = {},
         EnqueueReceivedBytes(bytes), base' = base
  PROVE /\ pipe' \in PipeType /\ Pending(pipe') /\ Screen(pipe') /\ MirrorSound(mirror')
        /\ received' \in Str /\ Distinct(received') /\ ToSet(received') = ToSet(received) \cup ToSet(bytes)
        /\ Ledger' /\ Delivered \cup ToSet(bytes) \subseteq Delivered'
<1> DEFINE gone == Discarded(pipe.queue, bytes)
           old == Bytes(pipe.queue)
           new == Bytes(pipe'.queue)
<1>1. /\ mirror' = Offer(mirror, bytes) /\ received' = received \o bytes
      /\ pipe' = Notify(EnqueueBytes([pipe EXCEPT !.stranded = FALSE], bytes))
      /\ dropped' = dropped \cup (ToSet(old \o bytes) \ ToSet(new))
  BY DEF EnqueueReceivedBytes
<1>2. pipe \in PipeType /\ Screen(pipe) /\ received \in Str /\ pipe.captured \in Str /\ old \in Str
  BY BytesType DEF IInv, TypeOK, PipeType
<1>3. /\ pipe' \in PipeType /\ Pending(pipe') /\ Screen(pipe') /\ pipe'.captured = pipe.captured
      /\ gone \in Str /\ old \o bytes = gone \o new
      /\ pipe'.total = pipe.total + Len(gone)
      /\ pipe'.notified = (pipe.notified \/ gone # <<>>)
  <2>1. PICK q : q = pipe'
    OBVIOUS
  <2>2. q = Notify(EnqueueBytes(Unstranded(pipe), bytes))
    BY <1>1, <2>1 DEF Unstranded
  <2>3. pipe \in PipeType /\ Screen(pipe)
    BY <1>2
  <2>4. /\ q \in PipeType /\ Pending(q) /\ Screen(q) /\ q.captured = pipe.captured
        /\ Discarded(pipe.queue, bytes) \in Str
        /\ Bytes(pipe.queue) \o bytes = Discarded(pipe.queue, bytes) \o Bytes(q.queue)
        /\ q.total = pipe.total + Len(Discarded(pipe.queue, bytes))
        /\ q.notified = (pipe.notified \/ Discarded(pipe.queue, bytes) # <<>>)
    BY <2>2, <2>3, EnqueueArms
  <2> QED BY <2>1, <2>4
<1>4. new \in Str /\ pipe'.captured \in Str
  BY <1>3, BytesType DEF PipeType
<1>5. MirrorSound(mirror')
  BY <1>1, OfferSound DEF IInv, TypeOK
<1>6. received' \in Str /\ Distinct(received') /\ ToSet(received') = ToSet(received) \cup ToSet(bytes)
  <2>1. received \in Str /\ Distinct(received)
    BY <1>2 DEF IInv, OnePlace
  <2>2. received \o bytes \in Str /\ ToSet(received \o bytes) = ToSet(received) \cup ToSet(bytes)
    BY <2>1, Joined
  <2>3. Distinct(received \o bytes)
    BY <2>1, DistinctParts
  <2>4. received' = received \o bytes
    BY <1>1
  <2> QED BY <2>2, <2>3, <2>4
<1>7. /\ pipe.captured \o old = Kept(received, dropped) /\ dropped \subseteq ToSet(received)
      /\ base <= Cardinality(dropped) /\ pipe.total = Cardinality(dropped) - base
      /\ pipe.notified = (pipe.total > 0) /\ base \in Nat
  BY DEF IInv, TypeOK, Ledger, Line
<1> HIDE DEF gone, old, new
<1>8. Kept(received', dropped) = pipe.captured \o (gone \o new)
  <2>1. Kept(received \o bytes, dropped) = Kept(received, dropped) \o Kept(bytes, dropped)
    BY <1>2, KeptConcat
  <2>2. Kept(bytes, dropped) = bytes
    BY <1>7, KeptAll
  <2>3. (pipe.captured \o old) \o bytes = pipe.captured \o (old \o bytes)
    BY <1>2, Associative
  <2> QED BY <1>1, <1>3, <1>7, <2>1, <2>2, <2>3
<1>9. Kept(received', dropped \cup ToSet(gone)) = pipe.captured \o new
  <2>1. PICK all \in Str : all = received' /\ Distinct(all)
    BY <1>6
  <2>2. PICK c, f, r : c = pipe.captured /\ f = gone /\ r = new
    OBVIOUS
  <2>3. c \in Str /\ f \in Str /\ r \in Str
    BY <1>2, <1>3, <1>4, <2>2
  <2>4. Kept(all, dropped) = c \o (f \o r)
    BY <1>8, <2>1, <2>2
  <2>5. Kept(all, dropped \cup ToSet(f)) = Kept(Kept(all, dropped), ToSet(f))
    <3>1. \A more : Kept(all, dropped \cup more) = Kept(Kept(all, dropped), more)
      BY KeptTwice
    <3> QED BY <3>1
  <2>6. Distinct(c \o (f \o r))
    BY <2>1, <2>4, KeptDistinct
  <2>7. Kept(c \o (f \o r), ToSet(f)) = c \o r
    BY <2>3, <2>6, KeptWithoutFront
  <2> QED BY <2>1, <2>2, <2>4, <2>5, <2>7
<1>10. /\ Distinct(gone) /\ ToSet(gone) \cap ToSet(new) = {}
       /\ ToSet(gone) \cap dropped = {} /\ ToSet(gone) \subseteq ToSet(received')
  <2>1. Kept(received', dropped) \in Str /\ Distinct(Kept(received', dropped))
        /\ ToSet(Kept(received', dropped)) = ToSet(received') \ dropped
    BY <1>6, KeptType, KeptDistinct, KeptRange
  <2>2. gone \o new \in Str /\ ToSet(gone \o new) = ToSet(gone) \cup ToSet(new)
    BY <1>3, <1>4, Joined
  <2> DEFINE line == gone \o new
  <2>3. line \in Str /\ ToSet(line) = ToSet(gone) \cup ToSet(new)
    BY <2>2
  <2>4. (Distinct(line) <=> Distinct(gone) /\ Distinct(new) /\ ToSet(gone) \cap ToSet(new) = {})
    BY <1>3, <1>4, DistinctParts
  <2>5. Kept(received', dropped) = pipe.captured \o line
    BY <1>8
  <2> HIDE DEF line
  <2>6. ToSet(pipe.captured \o line) = ToSet(pipe.captured) \cup ToSet(line)
    BY <1>2, <2>3, Joined
  <2>7. Distinct(pipe.captured \o line) => Distinct(line)
    BY <1>2, <2>3, DistinctParts
  <2> QED BY <2>1, <2>3, <2>4, <2>5, <2>6, <2>7
<1>11. ToSet(old \o bytes) = ToSet(old) \cup ToSet(bytes) /\ ToSet(gone \o new) = ToSet(gone) \cup ToSet(new)
  BY <1>2, <1>3, <1>4, Joined
<1>12. dropped' = dropped \cup ToSet(gone)
  BY <1>1, <1>3, <1>10, <1>11
<1>13. /\ Cardinality(dropped') = Cardinality(dropped) + Len(gone) /\ Cardinality(dropped) \in Nat
       /\ Len(gone) \in Nat
  <2>1. IsFiniteSet(dropped) /\ Cardinality(dropped) \in Nat
    BY CountDropped
  <2>2. IsFiniteSet(ToSet(gone)) /\ Cardinality(ToSet(gone)) = Len(gone) /\ Len(gone) \in Nat
    BY <1>3, <1>10, CountDistinct, Joined
  <2>3. dropped \cap ToSet(gone) = {}
    BY <1>10
  <2>4. Cardinality(dropped \cup ToSet(gone))
          = Cardinality(dropped) + Cardinality(ToSet(gone)) - Cardinality(dropped \cap ToSet(gone))
    BY <2>1, <2>2, FS_Union
  <2>5. Cardinality(dropped \cap ToSet(gone)) = 0
    BY <2>3, FS_EmptySet
  <2>6. Cardinality(dropped') = Cardinality(dropped) + Len(gone)
    BY <1>12, <2>1, <2>2, <2>4, <2>5
  <2> QED BY <2>1, <2>2, <2>6
<1>14. gone # <<>> <=> Len(gone) > 0
  BY <1>3 DEF Str
<1>15. Ledger'
  <2>1. Line(pipe)' = Kept(received', dropped')
    BY <1>3, <1>9, <1>12 DEF Line, new
  <2>2. dropped' \subseteq ToSet(received')
    BY <1>6, <1>7, <1>10, <1>12
  <2>3. base' <= Cardinality(dropped') /\ pipe'.total = Cardinality(dropped') - base'
    BY <1>3, <1>7, <1>13
  <2>4. pipe'.notified = (pipe'.total > 0)
    <3>1. /\ pipe'.notified = (pipe.notified \/ gone # <<>>)
          /\ pipe'.total = pipe.total + Len(gone) /\ pipe.notified = (pipe.total > 0)
      BY <1>3, <1>7
    <3>2. pipe.total \in Nat /\ Len(gone) \in Nat
      BY <1>2, <1>13 DEF PipeType
    <3>3. (pipe.total + Len(gone) > 0) = (pipe.total > 0 \/ Len(gone) > 0)
      BY <3>2
    <3> QED BY <3>1, <3>3, <1>14
  <2> QED BY <2>1, <2>2, <2>3, <2>4 DEF Ledger
<1>16. Delivered \cup ToSet(bytes) \subseteq Delivered'
  <2>1. ToSet(Line(pipe)) = ToSet(pipe.captured) \cup ToSet(old)
    BY <1>2, Joined DEF Line, old
  <2>2. ToSet(Line(pipe)') = ToSet(pipe.captured) \cup ToSet(new)
    BY <1>3, <1>4, Joined DEF Line, new
  <2> QED BY <1>3, <1>11, <1>12, <2>1, <2>2 DEF Delivered
<1> QED BY <1>3, <1>5, <1>6, <1>15, <1>16

LEMMA OnDataInv ==
  ASSUME IInv, OnData
  PROVE IInv'
<1> DEFINE bytes == Head(channel)
<1>1. /\ channel # <<>> /\ channel' = Tail(channel)
      /\ IF attempt.accepting THEN EnqueueReceivedBytes(bytes) ELSE UNCHANGED <<mirror, pipe, received, dropped>>
      /\ UNCHANGED <<sent, hub, attempt, base, owed, boundary>>
  BY DEF OnData, history
<1>2. /\ bytes \in Str /\ channel' \in Chunks
      /\ ToSet(Bytes(channel)) = ToSet(bytes) \cup ToSet(Bytes(channel'))
      /\ Distinct(Bytes(channel))
           <=> Distinct(bytes) /\ Distinct(Bytes(channel')) /\ ToSet(bytes) \cap ToSet(Bytes(channel')) = {}
  BY <1>1, FirstChunk DEF IInv, TypeOK
<1> HIDE DEF bytes
<1>3. CASE attempt.accepting
  <2>1. /\ pipe' \in PipeType /\ Pending(pipe') /\ Screen(pipe') /\ MirrorSound(mirror')
        /\ received' \in Str /\ Distinct(received') /\ ToSet(received') = ToSet(received) \cup ToSet(bytes)
        /\ Ledger' /\ Delivered \cup ToSet(bytes) \subseteq Delivered'
    BY <1>1, <1>2, <1>3, Received DEF IInv, OnePlace
  <2>2. TypeOK'
    BY <1>1, <1>2, <2>1 DEF IInv, TypeOK
  <2>3. Phases'
    BY <1>1, <1>3 DEF IInv, Phases
  <2>4. OnePlace'
    BY <1>1, <1>2, <2>1 DEF IInv, OnePlace
  <2>5. Owed'
    BY <1>1, <1>2, <2>1 DEF IInv, Owed
  <2> QED BY <2>1, <2>2, <2>3, <2>4, <2>5 DEF IInv
<1>4. CASE ~attempt.accepting
  <2>1. Calm /\ Ledger' /\ Delivered' = Delivered
    BY <1>1, <1>4, StillCalm, CalmLedger
  <2>2. TypeOK'
    BY <1>1, <1>2, <1>4 DEF IInv, TypeOK
  <2>3. Phases'
    BY <1>1, <1>4 DEF IInv, Phases
  <2>4. OnePlace'
    BY <1>1, <1>2, <1>4 DEF IInv, OnePlace
  <2>5. Owed'
    BY <1>1, <1>4, <2>1 DEF IInv, Owed, Phases
  <2> QED BY <2>1, <2>2, <2>3, <2>4, <2>5 DEF IInv, Calm
<1> QED BY <1>3, <1>4

\* At the idle gap the hub is empty: what the connection owes is in the Channel, in the
\* answer or delivered, and the answer is enqueued in the same step.
LEMMA NativeDrainedInv ==
  ASSUME IInv, NEW completion \in Completions, NativeDrained(completion)
  PROVE IInv'
<1> DEFINE bytes == attempt.read
           idle == completion = "idle-gap-observed"
           enqueues == bytes # <<>> /\ completion # "native-command-failed"
<1>1. /\ attempt.phase = "drain" /\ MayEnd(completion)
      /\ attempt' = [attempt EXCEPT !.phase = "yield", !.read = <<>>, !.idle = idle]
      /\ boundary' = IF idle THEN owed ELSE boundary
      /\ IF enqueues THEN EnqueueReceivedBytes(bytes) ELSE UNCHANGED <<mirror, pipe, received, dropped>>
      /\ UNCHANGED <<sent, hub, channel, base, owed>>
  BY DEF NativeDrained, Attempt, history
<1>2. idle => ToSet(Bytes(hub)) = {}
  BY <1>1, BytesEmpty, NoBytes DEF MayEnd
<1>3. bytes \in Str /\ Distinct(bytes) /\ ToSet(bytes) \cap ToSet(received) = {}
  BY DEF IInv, TypeOK, AttemptType, OnePlace
<1>4. /\ attempt' \in AttemptType /\ attempt'.phase = "yield" /\ attempt'.accepting = attempt.accepting
      /\ attempt'.read = <<>> /\ attempt'.idle = idle /\ attempt'.evidence = attempt.evidence
  BY <1>1, NoBytes DEF IInv, TypeOK, AttemptType
<1>5. idle /\ ~enqueues => ToSet(bytes) = {}
  BY NoBytes
<1> HIDE DEF bytes
<1>6. /\ pipe' \in PipeType /\ Pending(pipe') /\ Screen(pipe') /\ MirrorSound(mirror')
      /\ received' \in Str /\ Distinct(received') /\ ToSet(received) \subseteq ToSet(received')
      /\ ToSet(received') \subseteq ToSet(received) \cup ToSet(bytes)
      /\ Ledger' /\ Delivered \subseteq Delivered'
      /\ (idle => ToSet(bytes) \subseteq Delivered')
  <2>1. CASE enqueues
    <3>1. EnqueueReceivedBytes(bytes) /\ base' = base
      BY <1>1, <2>1
    <3> QED BY <1>3, <3>1, Received
  <2>2. CASE ~enqueues
    <3>1. Calm /\ Ledger' /\ Delivered' = Delivered
      BY <1>1, <2>2, StillCalm, CalmLedger
    <3> QED BY <1>1, <1>5, <2>2, <3>1 DEF IInv, TypeOK, OnePlace, Calm
  <2> QED BY <2>1, <2>2
<1>7. TypeOK'
  BY <1>1, <1>4, <1>6 DEF IInv, TypeOK
<1>8. Phases'
  BY <1>1, <1>4 DEF IInv, Phases
<1>9. OnePlace'
  BY <1>1, <1>4, <1>6, NoBytes DEF IInv, OnePlace, bytes
<1>10. Owed'
  BY <1>1, <1>2, <1>4, <1>6 DEF IInv, Owed, Phases, bytes
<1> QED BY <1>6, <1>7, <1>8, <1>9, <1>10 DEF IInv

-----------------------------------------------------------------------------
(* The theorems.                                                           *)

LEMMA InitInv == Init => IInv
<1> SUFFICES ASSUME Init PROVE IInv
  OBVIOUS
<1>1. <<>> \in Chunks /\ <<>> \in Str /\ Bytes(<<>>) = <<>> /\ ToSet(<<>>) = {} /\ Distinct(<<>>)
  BY EmptySeq, BytesEmpty, NoBytes DEF Chunks
<1>2. TypeOK
  BY <1>1, EmptyMirror DEF Init, TypeOK, PipeType, NoAttempt, AttemptType
<1>3. Phases /\ Owed
  BY DEF Init, Phases, Owed, NoAttempt
<1>4. OnePlace
  BY <1>1 DEF Init, OnePlace, NoAttempt
<1>5. <<>> \o <<>> = <<>>
  BY <1>1, ConcatEmptySeq DEF Str
<1>6. Kept(<<>>, {}) = <<>> /\ Cardinality({}) = 0
  BY KeptEmpty, FS_EmptySet
<1>7. Ledger
  <2>1. /\ pipe.captured = <<>> /\ pipe.queue = <<>> /\ pipe.total = 0 /\ pipe.notified = FALSE
        /\ received = <<>> /\ dropped = {} /\ base = 0
    BY DEF Init
  <2>2. Line(pipe) = <<>>
    BY <1>1, <1>5, <2>1 DEF Line
  <2>3. Kept(received, dropped) = <<>> /\ Cardinality(dropped) = 0
    BY <1>6, <2>1
  <2>4. dropped \subseteq ToSet(received)
    BY <2>1
  <2>5. base <= Cardinality(dropped) /\ pipe.total = Cardinality(dropped) - base
    BY <2>1, <2>3
  <2>6. pipe.notified = (pipe.total > 0)
    <3>1. (0 > 0) = FALSE
      OBVIOUS
    <3> QED BY <2>1, <3>1
  <2> QED BY <2>2, <2>3, <2>4, <2>5, <2>6 DEF Ledger
<1>8. Pending(pipe) /\ Screen(pipe)
  BY DEF Init, Pending, Screen
<1> QED BY <1>2, <1>3, <1>4, <1>7, <1>8 DEF IInv

LEMMA NextInv == IInv /\ [Next]_vars => IInv'
<1> SUFFICES ASSUME IInv, [Next]_vars PROVE IInv'
  OBVIOUS
<1>1. CASE UNCHANGED vars
  BY <1>1, StillCalm, CalmStep DEF vars, IInv, TypeOK
<1>2. CASE DrainMicrotask \/ DrainTimer
  BY <1>2, DrainInv
<1>3. CASE \E n \in Sizes : DeviceSends(n) \/ Read(n)
  BY <1>3, DeviceSendsInv, ReadInv
<1>4. CASE WatchReads
  BY <1>4, WatchReadsInv
<1>5. CASE OnData
  BY <1>5, OnDataInv
<1>6. CASE PublishTimer \/ VisibilityChanged
  BY <1>6, PublishInv
<1>7. CASE Grant \/ ReadEnds \/ ClearBuffers \/ Reconfigured \/ ReleaseLease
  BY <1>7, GrantInv, ReadEndsInv, ClearBuffersInv, ReconfiguredInv, ReleaseLeaseInv
<1>8. CASE StopBegins \/ NativeRead
  BY <1>8, StopBeginsInv, NativeReadInv
<1>9. CASE \E ok \in BOOLEAN : Unwatched(ok) \/ Yielded(ok)
  BY <1>9, UnwatchedInv, YieldedInv
<1>10. CASE \E completion \in Completions : NativeDrained(completion)
  BY <1>10, NativeDrainedInv
<1>11. CASE Start \/ Reconnect \/ StopEnds
  BY <1>11, StartInv, ReconnectInv, StopEndsInv
<1> QED BY <1>1, <1>2, <1>3, <1>4, <1>5, <1>6, <1>7, <1>8, <1>9, <1>10, <1>11 DEF Next, Event

THEOREM ReceiveInvariance == Spec => []IInv
<1>1. IInv /\ [Next]_vars => IInv'
  BY NextInv
<1> QED BY InitInv, <1>1, PTL DEF Spec

\* The frames and the queue are the bytes received, except for those that are counted as
\* discarded (SerialRxQueue.enqueue, flushQueue, resetQueue).
THEOREM StreamIsAccounted == Spec => []StreamAccounted
<1>1. IInv => StreamAccounted
  BY DEF IInv, Ledger, Line, StreamAccounted
<1> QED BY ReceiveInvariance, <1>1, PTL

\* The evidence of a stop is never wrong: what it covers is framed or counted, and shown
\* (drainAttemptRx, flushRxAndPublish).
THEOREM BoundaryProven == Spec => []BoundaryIsProven
<1>1. ASSUME IInv PROVE BoundaryIsProven
  <2>1. SUFFICES ASSUME attempt.evidence = "guaranteed"
                 PROVE boundary \subseteq ToSet(pipe.captured) \cup dropped /\ ~pipe.behind
    BY DEF BoundaryIsProven
  <2>2. Quiet(pipe) /\ boundary \subseteq Delivered
    BY <1>1, <2>1 DEF IInv, Phases, Owed
  <2>3. Line(pipe) = pipe.captured
    <3>1. pipe.captured \in Str
      BY <1>1 DEF IInv, TypeOK, PipeType
    <3> QED BY <2>2, <3>1, BytesEmpty, ConcatEmptySeq DEF Line, Quiet, Str
  <2> QED BY <2>2, <2>3 DEF Delivered, Quiet
<1> QED BY ReceiveInvariance, <1>1, PTL

\* The owner of a lease reads the stream without a gap, and no reader waits next to
\* buffered bytes (BoundedRxMirror.offer, take, close).
THEOREM MirrorKeepsStream == Spec => []MirrorIntact
<1>1. ASSUME IInv PROVE MirrorIntact
  <2>1. MirrorSound(mirror)
    BY <1>1 DEF IInv, TypeOK
  <2>2. mirror.got \in Str /\ mirror.chunks \in Seq(Str \ {<<>>})
    BY <2>1 DEF MirrorSound, MirrorType
  <2>3. IsPrefix(mirror.got, mirror.got \o Bytes(mirror.chunks))
    BY <2>2, ChunksOfMirror, FrontIsPrefix
  <2> QED BY <2>1, <2>3 DEF MirrorSound, MirrorIntact
<1> QED BY ReceiveInvariance, <1>1, PTL

\* Pending bytes are framed by something, and what is not on the screen is published
\* (SerialRxDrainScheduler.notify, SerialUiPublishScheduler.markDirty).
THEOREM NothingIsForgotten == Spec => []NothingForgotten
<1>1. IInv => NothingForgotten
  BY DEF IInv, Pending, Screen, NothingForgotten
<1> QED BY ReceiveInvariance, <1>1, PTL
====
