--------------------- MODULE SerialWriteScheduler_proofs ---------------------
(***************************************************************************)
(* The safety of the write scheduler for every number of enqueue() calls,  *)
(* every payload length and every limit.                                   *)
(*                                                                         *)
(* The invariant to prove is IInv.  TypeOK alone is not inductive: that    *)
(* outstandingBytes never becomes negative depends on Accounting, and      *)
(* Accounting on where drain() is.                                         *)
(***************************************************************************)
EXTENDS SerialWriteScheduler, FiniteSetTheorems, SequenceTheorems, TLAPS

-----------------------------------------------------------------------------
(* The invariant.                                                          *)

\* A ticket that was not given out has no result and has sent nothing.
FreshTickets == \A o \in Ops : o >= next => result[o] = NoResult /\ sent[o] = 0

\* What waits, runs or is waited for by shutdown() was enqueued, and what waits
\* has sent nothing.
KnownTickets ==
  /\ \A i \in DOMAIN queue : queue[i] < next /\ sent[queue[i]] = 0
  /\ active < next
  /\ closing = "waiting" => closeOp \in Ops /\ closeOp < next

\* After shutdown() nothing is accepted and nothing waits.
ShutdownEmpties ==
  /\ accepting <=> closing = "none"
  /\ ~accepting => queue = <<>>

\* The local state of drain() and writeOperation(): the driver call begins with
\* the first byte that is not counted as sent and stays within the payload.
DrainState ==
  /\ pc = "returned" => ret # NoResult
  /\ pc = "driver" =>
       call.from = sent[active] /\ call.from < call.to /\ call.to <= len[active]

FiniteUnsent == IsFiniteSet(Unsent(Unsettled))

Limits == outOps <= MaxOperations /\ outBytes <= MaxQueuedBytes

IInv ==
  /\ TypeOK /\ QueueIsServed
  /\ FreshTickets /\ KnownTickets /\ ShutdownEmpties /\ DrainState
  /\ FiniteUnsent /\ Accounting /\ Limits

-----------------------------------------------------------------------------
(* Results and sets of bytes.                                              *)

\* The results that writeOperation() and shutdown() settle with are results.
LEMMA ResultTypes ==
  /\ NoResult \in Results
  /\ \A n \in Nat :
       {WriteFailure(n), Cancelled(n), Denied(n), Complete(n)}
         \subseteq Results \ {NoResult}
  /\ {Failed("INVALID_INPUT"), Failed("SERIAL_QUEUE_FULL")}
         \subseteq Results \ {NoResult}
<1>1. NoResult \in Results
  BY DEF NoResult, Results, Outcomes, Errors
<1>2. ASSUME NEW n \in Nat
      PROVE  /\ WriteFailure(n) \in Results \ {NoResult}
             /\ Cancelled(n) \in Results \ {NoResult}
             /\ Denied(n) \in Results \ {NoResult}
             /\ Complete(n) \in Results \ {NoResult}
  BY DEF WriteFailure, Cancelled, Denied, Complete, PartialOrFailed, NoResult,
         Results, Outcomes, Errors
<1>3. /\ Failed("INVALID_INPUT") \in Results \ {NoResult}
      /\ Failed("SERIAL_QUEUE_FULL") \in Results \ {NoResult}
  BY DEF Failed, NoResult, Results, Outcomes, Errors
<1> QED
  BY <1>1, <1>2, <1>3

\* The bytes from a to b of one payload.
LEMMA BlockSize ==
  ASSUME NEW o, NEW a \in Nat, NEW b \in Nat, a <= b
  PROVE  /\ IsFiniteSet({o} \X ((a + 1) .. b))
         /\ Cardinality({o} \X ((a + 1) .. b)) = b - a
<1> DEFINE I == (a + 1) .. b
<1>1. IsFiniteSet(I) /\ Cardinality(I) = b - a
  <2> DEFINE m == a + 1
  <2>1. m \in Int /\ b \in Int /\ (m > b <=> a = b)
    OBVIOUS
  <2> HIDE DEF m
  <2>2. /\ IsFiniteSet(m .. b)
        /\ Cardinality(m .. b) = IF m > b THEN 0 ELSE b - m + 1
    BY <2>1, FS_Interval, Zenon
  <2> QED
    BY <2>1, <2>2 DEF m
<1> HIDE DEF I
<1>2. IsFiniteSet({o}) /\ Cardinality({o}) = 1
  BY FS_Singleton
<1>3. IsFiniteSet({o} \X I) /\ Cardinality({o} \X I) = 1 * Cardinality(I)
  BY <1>1, <1>2, FS_Product, Zenon
<1> QED
  BY <1>1, <1>3 DEF I

\* Removing a part of a finite set takes its size off.
LEMMA RemovePart ==
  ASSUME NEW S, NEW T, IsFiniteSet(S), T \subseteq S
  PROVE  /\ IsFiniteSet(T) /\ IsFiniteSet(S \ T)
         /\ Cardinality(S) \in Nat /\ Cardinality(T) \in Nat
         /\ Cardinality(T) <= Cardinality(S)
         /\ Cardinality(S \ T) = Cardinality(S) - Cardinality(T)
<1>1. S \cap T = T
  OBVIOUS
<1>2. IsFiniteSet(T) /\ Cardinality(T) <= Cardinality(S)
  BY FS_Subset
<1>3. Cardinality(S) \in Nat /\ Cardinality(T) \in Nat
  BY <1>2, FS_CardinalityType
<1> QED
  BY <1>1, <1>2, <1>3, FS_Difference

\* Adding something new to a finite set adds its size.
LEMMA AddPart ==
  ASSUME NEW S, NEW T, IsFiniteSet(S), IsFiniteSet(T), S \cap T = {}
  PROVE  /\ IsFiniteSet(S \cup T)
         /\ Cardinality(S \cup T) = Cardinality(S) + Cardinality(T)
<1>1. Cardinality(S) \in Nat /\ Cardinality(T) \in Nat /\ Cardinality(S \cap T) = 0
  BY FS_CardinalityType, FS_EmptySet
<1>2. /\ IsFiniteSet(S \cup T)
      /\ Cardinality(S \cup T) = Cardinality(S) + Cardinality(T) - Cardinality(S \cap T)
  BY FS_Union, Zenon
<1> QED
  BY <1>1, <1>2

LEMMA OpsFinite ==
  ASSUME NEW S \in SUBSET Ops
  PROVE  IsFiniteSet(S) /\ Cardinality(S) \in Nat
<1>1. IsFiniteSet(Ops)
  BY FS_Interval, LimitsAssumption DEF Ops
<1>2. IsFiniteSet(S)
  BY <1>1, FS_Subset
<1> QED
  BY <1>2, FS_CardinalityType

-----------------------------------------------------------------------------
(* The helpers of the model.                                               *)

\* Where drain() may be after one turn of writeOperation(), when s of total bytes
\* of the payload are sent.
DrainAt(s, total) ==
  /\ pc' \in {"driver", "returned"}
  /\ call' \in [from : Nat, to : Nat] /\ ret' \in Results
  /\ pc' = "returned" => ret' # NoResult
  /\ pc' = "driver" => call'.from = s /\ s < call'.to /\ call'.to <= total

LEMMA ReturnDrain ==
  ASSUME TypeOK, NEW s, NEW total, NEW r \in Results \ {NoResult}, Return(r)
  PROVE  DrainAt(s, total)
BY DEF TypeOK, Return, DrainAt

\* NextChunk() calls the driver for a non-empty range of what is left.
LEMMA NextChunkDrain ==
  ASSUME TypeOK, NEW s \in Nat, NEW total \in Nat, NEW end \in Nat,
         s <= total, end <= total,
         NextChunk(s, total, end)
  PROVE  DrainAt(s, total)
<1>1. CASE Return(Complete(total))
  BY <1>1, ResultTypes, ReturnDrain
<1>2. CASE Return(Cancelled(s))
  BY <1>2, ResultTypes, ReturnDrain
<1>3. CASE Return(Denied(s))
  BY <1>3, ResultTypes, ReturnDrain
<1>4. CASE s # total /\ CallDriver(s, IF s < end THEN end ELSE Lower(s + ChunkBytes, total))
  <2> DEFINE to == IF s < end THEN end ELSE Lower(s + ChunkBytes, total)
  <2>1. to \in Nat /\ s < to /\ to <= total
    BY <1>4, LimitsAssumption DEF Lower
  <2> HIDE DEF to
  <2>2. CallDriver(s, to)
    BY <1>4 DEF to
  <2> QED
    BY <2>1, <2>2 DEF CallDriver, DrainAt, TypeOK
<1> QED
  BY <1>1, <1>2, <1>3, <1>4 DEF NextChunk

LEMMA StartNextDrain ==
  ASSUME TypeOK, NEW q, NEW lengths, lengths[Head(q)] \in Nat,
         StartNext(q, lengths)
  PROVE  /\ active' = Head(q) /\ queue' = Tail(q)
         /\ DrainAt(0, lengths[Head(q)])
<1>1. CASE Return(Denied(0))
  BY <1>1, ResultTypes, ReturnDrain DEF StartNext
<1>2. CASE Return(WriteFailure(0))
  BY <1>2, ResultTypes, ReturnDrain DEF StartNext
<1>3. CASE NextChunk(0, lengths[Head(q)], 0)
  BY <1>3, NextChunkDrain DEF StartNext
<1> QED
  BY <1>1, <1>2, <1>3 DEF StartNext

-----------------------------------------------------------------------------
(* The counters.                                                           *)

LEMMA UnsentMember ==
  ASSUME NEW S, NEW p
  PROVE  p \in Unsent(S) <=> \E o \in S : \E i \in (sent[o] + 1) .. len[o] : p = <<o, i>>
BY DEF Unsent

\* The counters are naturals whenever they are exact.
LEMMA CountersAreNaturals ==
  ASSUME FiniteUnsent, Accounting
  PROVE  outOps \in Nat /\ outBytes \in Nat
<1>1. Unsettled \in SUBSET Ops
  BY DEF Unsettled
<1>2. outOps \in Nat
  BY <1>1, OpsFinite DEF Accounting
<1>3. outBytes \in Nat
  BY FS_CardinalityType DEF Accounting, FiniteUnsent
<1> QED
  BY <1>2, <1>3

\* settle() of enqueued operations keeps the counters exact.
LEMMA SettleCounts ==
  ASSUME TypeOK, Accounting, FiniteUnsent, Limits,
         NEW S \in SUBSET Ops, \A o \in S : o < next,
         NEW r, \A o \in S : r[o] \in Results \ {NoResult},
         Settle(S, r), UNCHANGED <<next, len, sent>>
  PROVE  /\ result' \in [Ops -> Results]
         /\ \A o \in Ops : o \notin S => result'[o] = result[o]
         /\ \A o \in S : result'[o] # NoResult
         /\ outOps' \in Nat /\ outBytes' \in Nat
         /\ FiniteUnsent' /\ Accounting' /\ Limits'
<1> DEFINE open == {o \in S : ~Settled(o)}
<1>1. /\ result' = [o \in Ops |-> IF o \in open THEN r[o] ELSE result[o]]
      /\ outOps' = Monus(outOps, Cardinality(open))
      /\ outBytes' = Monus(outBytes, Cardinality(Unsent(open)))
  BY DEF Settle
<1>2. /\ result' \in [Ops -> Results]
      /\ \A o \in Ops : o \notin S => result'[o] = result[o]
      /\ \A o \in S : result'[o] # NoResult
  BY <1>1 DEF TypeOK, Settled
<1>3. open \subseteq Unsettled
  BY DEF Unsettled
<1>4. Unsettled' = Unsettled \ open
  BY <1>1, <1>2 DEF Unsettled, Settled
<1> HIDE DEF open
<1>5. IsFiniteSet(Unsettled)
  BY OpsFinite DEF Unsettled
<1>6. /\ Cardinality(Unsettled) \in Nat /\ Cardinality(open) \in Nat
      /\ Cardinality(open) <= Cardinality(Unsettled)
      /\ Cardinality(Unsettled \ open) = Cardinality(Unsettled) - Cardinality(open)
  BY <1>3, <1>5, RemovePart
<1>7. Unsent(open) \subseteq Unsent(Unsettled)
  BY <1>3, UnsentMember
<1>8. Unsent(Unsettled)' = Unsent(Unsettled) \ Unsent(open)
  <2>1. Unsent(Unsettled)' = Unsent(Unsettled \ open)
    BY <1>4 DEF Unsent
  <2>2. ASSUME NEW p
        PROVE  p \in Unsent(Unsettled \ open)
                 <=> p \in Unsent(Unsettled) /\ p \notin Unsent(open)
    BY UnsentMember
  <2> QED
    BY <2>1, <2>2
<1>9. /\ Cardinality(Unsent(Unsettled)) \in Nat /\ Cardinality(Unsent(open)) \in Nat
      /\ Cardinality(Unsent(open)) <= Cardinality(Unsent(Unsettled))
      /\ IsFiniteSet(Unsent(Unsettled) \ Unsent(open))
      /\ Cardinality(Unsent(Unsettled) \ Unsent(open))
           = Cardinality(Unsent(Unsettled)) - Cardinality(Unsent(open))
  BY <1>7, RemovePart DEF FiniteUnsent
<1>10. FiniteUnsent'
  BY <1>8, <1>9 DEF FiniteUnsent
<1>11. outOps' = Cardinality(Unsettled) - Cardinality(open)
  BY <1>1, <1>6 DEF Accounting, Monus
<1>12. outBytes' = Cardinality(Unsent(Unsettled)) - Cardinality(Unsent(open))
  BY <1>1, <1>9 DEF Accounting, Monus
<1>13. Accounting'
  BY <1>4, <1>6, <1>8, <1>9, <1>11, <1>12 DEF Accounting
<1>14. outOps' \in Nat /\ outBytes' \in Nat /\ Limits'
  BY <1>6, <1>9, <1>11, <1>12, LimitsAssumption DEF Limits, Accounting
<1> QED
  BY <1>2, <1>10, <1>13, <1>14

\* Nothing changes what the counters are about.
LEMMA CountsUnchanged ==
  ASSUME IInv, Unsettled' = Unsettled, \A o \in Unsettled : len'[o] = len[o],
         UNCHANGED <<sent, outOps, outBytes>>
  PROVE  FiniteUnsent' /\ Accounting' /\ Limits'
<1>1. Unsent(Unsettled)' = Unsent(Unsettled)
  BY DEF Unsent
<1> QED
  BY <1>1 DEF IInv, FiniteUnsent, Accounting, Limits

-----------------------------------------------------------------------------
(* Every action preserves the invariant.                                   *)

\* Tickets are positive, and so are the elements of the queue.
LEMMA Tickets ==
  ASSUME TypeOK
  PROVE  /\ \A o \in Ops : o \in Nat /\ o # None
         /\ next \in Nat /\ active \in Nat
         /\ Len(queue) \in Nat /\ DOMAIN queue = 1 .. Len(queue)
         /\ \A i \in DOMAIN queue : queue[i] \in Ops
<1>1. \A o \in Ops : o \in Nat /\ o # None
  BY DEF Ops, None
<1>2. next \in Nat /\ active \in Nat
  BY <1>1 DEF TypeOK, None
<1>3. /\ Len(queue) \in Nat /\ DOMAIN queue = 1 .. Len(queue)
      /\ \A i \in DOMAIN queue : queue[i] \in Ops
  BY DEF TypeOK
<1> QED
  BY <1>1, <1>2, <1>3

LEMMA InitInv == Init => IInv
<1> SUFFICES ASSUME Init
             PROVE  IInv
  OBVIOUS
<1>1. TypeOK
  BY ResultTypes, LimitsAssumption DEF Init, TypeOK, None, Ops
<1>2. QueueIsServed /\ FreshTickets /\ KnownTickets /\ ShutdownEmpties /\ DrainState
  BY DEF Init, QueueIsServed, FreshTickets, KnownTickets, ShutdownEmpties, DrainState,
         None, Ops
<1>3. Unsettled = {} /\ Unsent(Unsettled) = {}
  BY DEF Init, Unsettled, Unsent, Ops
<1>4. FiniteUnsent /\ Accounting /\ Limits
  <2>1. IsFiniteSet({}) /\ Cardinality({}) = 0
    BY FS_EmptySet
  <2>2. FiniteUnsent /\ Accounting
    BY <1>3, <2>1 DEF Init, FiniteUnsent, Accounting
  <2>3. Limits
    BY LimitsAssumption DEF Init, Limits
  <2> QED
    BY <2>2, <2>3
<1> QED
  BY <1>1, <1>2, <1>4 DEF IInv

LEMMA EnqueueRefusedInv ==
  ASSUME IInv, NEW n \in PayloadLens, EnqueueRefused(n)
  PROVE  IInv'
<1> USE DEF IInv
<1>1. n \in Nat /\ next \in Ops
  BY LimitsAssumption DEF EnqueueRefused, TypeOK, Ops
<1>2. PICK r \in Results \ {NoResult} : Refuse(n, r)
  BY ResultTypes DEF EnqueueRefused
<1>3. /\ len' = [len EXCEPT ![next] = n]
      /\ result' = [result EXCEPT ![next] = r]
      /\ next' = next + 1
      /\ UNCHANGED <<sent, drainVars, accepting, outOps, outBytes, waiter, closing,
                     closeOp, wire>>
  BY <1>2 DEF Refuse
<1>4. TypeOK'
  <2>1. \A o \in Ops : sent'[o] <= len'[o]
    BY <1>1, <1>3 DEF TypeOK, FreshTickets
  <2>2. next' \in 1 .. MaxTickets + 1
    BY <1>1, <1>3, LimitsAssumption DEF Ops
  <2>3. len' \in [Ops -> Nat] /\ result' \in [Ops -> Results]
    BY <1>1, <1>3 DEF TypeOK
  <2> QED
    BY <1>3, <2>1, <2>2, <2>3 DEF TypeOK, drainVars
<1>5. QueueIsServed' /\ KnownTickets'
  <2>1. \A o \in Ops : o < next => result'[o] = result[o]
    BY <1>1, <1>3, Tickets DEF TypeOK
  <2>2. QueueIsServed'
    BY <1>3, <2>1, Tickets DEF QueueIsServed, KnownTickets, Settled, drainVars
  <2>3. KnownTickets'
    BY <1>3, Tickets DEF KnownTickets, drainVars
  <2> QED
    BY <2>2, <2>3
<1>6. FreshTickets'
  BY <1>1, <1>3 DEF TypeOK, FreshTickets, Ops
<1>7. ShutdownEmpties'
  BY <1>3 DEF ShutdownEmpties, drainVars
<1>8. DrainState'
  BY <1>1, <1>3 DEF TypeOK, DrainState, QueueIsServed, KnownTickets, drainVars, None, Ops
<1>9. FiniteUnsent' /\ Accounting' /\ Limits'
  <2>1. Unsettled' = Unsettled
    BY <1>1, <1>3 DEF TypeOK, Unsettled, Settled, Ops
  <2>2. \A o \in Unsettled : len'[o] = len[o]
    BY <1>1, <1>3 DEF TypeOK, Unsettled, Ops
  <2> QED
    BY <1>3, <2>1, <2>2, CountsUnchanged
<1> QED
  BY <1>4, <1>5, <1>6, <1>7, <1>8, <1>9

\* enqueue() counts the new operation and all of its bytes.
LEMMA AdmittedCounts ==
  ASSUME IInv, NEW n \in Nat, next \in Ops, ~QueueFull(n),
         next' = next + 1, len' = [len EXCEPT ![next] = n],
         outOps' = outOps + 1, outBytes' = outBytes + n, UNCHANGED <<sent, result>>
  PROVE  FiniteUnsent' /\ Accounting' /\ Limits'
<1> USE DEF IInv
<1> DEFINE block == {next} \X ((0 + 1) .. n)
<1>1. Unsettled' = Unsettled \cup {next} /\ next \notin Unsettled
  BY DEF TypeOK, Unsettled, Settled, FreshTickets, Ops
<1>2. Unsent(Unsettled)' = Unsent(Unsettled) \cup block /\ Unsent(Unsettled) \cap block = {}
  <2>1. Unsent(Unsettled)' = UNION {{o} \X ((sent[o] + 1) .. len'[o]) : o \in Unsettled'}
    BY DEF Unsent
  <2>2. sent[next] = 0 /\ len'[next] = n
    BY DEF TypeOK, FreshTickets
  <2>3. \A o \in Unsettled : len'[o] = len[o]
    BY <1>1 DEF TypeOK, Unsettled
  <2> QED
    BY <1>1, <2>1, <2>2, <2>3 DEF Unsent
<1>3. IsFiniteSet(block) /\ Cardinality(block) = n
  <2>1. 0 \in Nat /\ 0 <= n /\ n - 0 = n
    OBVIOUS
  <2>2. IsFiniteSet({next} \X ((0 + 1) .. n)) /\ Cardinality({next} \X ((0 + 1) .. n)) = n - 0
    BY <2>1, BlockSize, Zenon
  <2> QED
    BY <2>1, <2>2, Zenon
<1> HIDE DEF block
<1>4. /\ FiniteUnsent'
      /\ Cardinality(Unsent(Unsettled))' = Cardinality(Unsent(Unsettled)) + n
  BY <1>2, <1>3, AddPart DEF FiniteUnsent
<1>5. IsFiniteSet(Unsettled)
  BY OpsFinite DEF Unsettled
<1>6. Cardinality(Unsettled)' = Cardinality(Unsettled) + 1
  BY <1>1, <1>5, FS_AddElement
<1>7. Accounting'
  BY <1>4, <1>6 DEF Accounting
<1>8. Limits'
  BY LimitsAssumption DEF Limits, QueueFull, TypeOK
<1> QED
  BY <1>4, <1>7, <1>8

LEMMA EnqueueAdmittedInv ==
  ASSUME IInv, NEW n \in PayloadLens, EnqueueAdmitted(n)
  PROVE  IInv'
<1> USE DEF IInv
<1>1. n \in Nat /\ next \in Ops
  BY LimitsAssumption DEF EnqueueAdmitted, TypeOK, Ops
<1>2. /\ accepting /\ ~QueueFull(n)
      /\ next' = next + 1
      /\ len' = [len EXCEPT ![next] = n]
      /\ outOps' = outOps + 1 /\ outBytes' = outBytes + n
      /\ UNCHANGED <<sent, result, accepting, waiter, closing, closeOp, wire>>
  BY DEF EnqueueAdmitted
<1>3. FiniteUnsent' /\ Accounting' /\ Limits'
  BY <1>1, <1>2, AdmittedCounts
<1>4. FreshTickets' /\ ShutdownEmpties'
  BY <1>1, <1>2 DEF TypeOK, FreshTickets, ShutdownEmpties, Ops
<1>5. /\ len' \in [Ops -> Nat] /\ next' \in 1 .. MaxTickets + 1
      /\ \A o \in Ops : sent'[o] <= len'[o]
      /\ outOps' \in Nat /\ outBytes' \in Nat
  BY <1>1, <1>2, LimitsAssumption DEF TypeOK, FreshTickets, Ops
<1>6. result[next] = NoResult /\ sent[next] = 0 /\ len'[next] = n
  BY <1>1, <1>2 DEF TypeOK, FreshTickets
<1>7. CASE pc = "off"
  <2>1. queue = <<>> /\ Append(queue, next) = <<next>>
    BY <1>7 DEF QueueIsServed
  <2>2. StartNext(<<next>>, len')
    BY <1>2, <1>7, <2>1 DEF EnqueueAdmitted
  <2>3. active' = next /\ queue' = <<>> /\ DrainAt(0, n)
    <3>1. Head(<<next>>) = next /\ Tail(<<next>>) = <<>>
      OBVIOUS
    <3> QED
      BY <1>1, <1>6, <2>2, <3>1, StartNextDrain
  <2>4. TypeOK'
    <3>1. pc' \in {"off", "driver", "returned"} /\ call' \in [from : Nat, to : Nat]
          /\ ret' \in Results
      BY <2>3 DEF DrainAt
    <3>2. queue' \in Seq(Ops) /\ active' \in Ops \cup {None}
      BY <1>1, <2>3
    <3> QED
      BY <1>2, <1>5, <3>1, <3>2 DEF TypeOK
  <2>5. QueueIsServed' /\ KnownTickets' /\ DrainState'
    BY <1>1, <1>2, <1>6, <2>3 DEF QueueIsServed, KnownTickets, DrainState, DrainAt,
                                  TypeOK, None, Ops
  <2> QED
    BY <1>3, <1>4, <2>4, <2>5
<1>8. CASE pc # "off"
  <2>1. queue' = Append(queue, next) /\ UNCHANGED <<active, pc, call, ret>>
    BY <1>8 DEF EnqueueAdmitted
  <2>2. /\ queue' \in Seq(Ops) /\ DOMAIN queue' = 1 .. Len(queue) + 1
        /\ \A i \in DOMAIN queue : queue'[i] = queue[i]
        /\ DOMAIN queue = 1 .. Len(queue) /\ Len(queue) \in Nat
        /\ queue'[Len(queue) + 1] = next
    BY <1>1, <2>1 DEF TypeOK
  <2>3. TypeOK'
    BY <1>2, <1>5, <2>1, <2>2 DEF TypeOK
  <2>4. \A i \in DOMAIN queue' : i \in DOMAIN queue \/ i = Len(queue) + 1
    BY <2>2
  <2>5. QueueIsServed'
    <3>1. \A i \in DOMAIN queue : queue[i] \in Ops /\ queue[i] < next /\ queue[i] \in Nat
      BY Tickets DEF KnownTickets
    <3>2. \A i \in DOMAIN queue' : result'[queue'[i]] = NoResult /\ active' < queue'[i]
      BY <1>2, <1>6, <2>1, <2>2, <2>4 DEF QueueIsServed, KnownTickets, Settled
    <3>3. \A i, j \in DOMAIN queue' : i < j => queue'[i] < queue'[j]
      BY <2>2, <2>4, <3>1 DEF QueueIsServed
    <3> QED
      BY <1>8, <2>1, <3>2, <3>3 DEF QueueIsServed, Settled
  <2>6. KnownTickets'
    <3>1. \A i \in DOMAIN queue' : queue'[i] < next' /\ sent'[queue'[i]] = 0
      BY <1>2, <1>6, <2>2, <2>4, Tickets DEF KnownTickets
    <3> QED
      BY <1>2, <2>1, <3>1, Tickets DEF KnownTickets
  <2>7. DrainState'
    BY <1>1, <1>2, <1>8, <2>1 DEF DrainState, KnownTickets, QueueIsServed, TypeOK, None, Ops
  <2> QED
    BY <1>3, <1>4, <2>3, <2>5, <2>6, <2>7
<1> QED
  BY <1>7, <1>8

LEMMA WaiterInv ==
  ASSUME IInv, NEW w \in Waiters, WaitForIdle(w) \/ AbortWait(w)
  PROVE  IInv'
<1> USE DEF IInv
<1>1. /\ waiter' \in [Waiters -> {"none", "waiting", "resolved", "rejected"}]
      /\ UNCHANGED <<opVars, drainVars, accepting, outOps, outBytes, closing, closeOp,
                     wire>>
  BY DEF WaitForIdle, AbortWait, TypeOK
<1>2. TypeOK'
  BY <1>1 DEF TypeOK, opVars, drainVars
<1>3. QueueIsServed' /\ FreshTickets' /\ KnownTickets' /\ ShutdownEmpties' /\ DrainState'
  BY <1>1 DEF QueueIsServed, FreshTickets, KnownTickets, ShutdownEmpties, DrainState,
              Settled, opVars, drainVars
<1>4. FiniteUnsent' /\ Accounting' /\ Limits'
  BY <1>1, CountsUnchanged DEF Unsettled, Settled, opVars
<1> QED
  BY <1>2, <1>3, <1>4

LEMMA ShutdownInv ==
  ASSUME IInv, Shutdown
  PROVE  IInv'
<1> USE DEF IInv
<1> DEFINE S == {queue[i] : i \in DOMAIN queue}
<1> DEFINE r == [o \in Ops |-> Cancelled(0)]
<1>1. /\ Settle(S, r) /\ queue' = <<>> /\ accepting' = FALSE /\ closeOp' = active
      /\ closing' \in {"waiting", "clean"}
      /\ closing' = "waiting" => active # None
      /\ UNCHANGED <<next, len, sent, active, pc, call, ret, waiter, wire>>
  BY DEF Shutdown
<1>2. S \in SUBSET Ops /\ \A o \in S : o < next
  BY Tickets DEF KnownTickets
<1>3. \A o \in S : r[o] \in Results \ {NoResult}
  BY <1>2, ResultTypes
<1> HIDE DEF S, r
<1>4. /\ result' \in [Ops -> Results]
      /\ \A o \in Ops : o \notin S => result'[o] = result[o]
      /\ outOps' \in Nat /\ outBytes' \in Nat
      /\ FiniteUnsent' /\ Accounting' /\ Limits'
  BY <1>1, <1>2, <1>3, SettleCounts
<1>5. TypeOK'
  <2>1. accepting' \in BOOLEAN
    BY <1>1, Zenon
  <2>2. queue' \in Seq(Ops)
    BY <1>1
  <2>3. closeOp' \in Ops \cup {None}
    BY <1>1 DEF TypeOK
  <2> QED
    BY <1>1, <1>4, <2>1, <2>2, <2>3 DEF TypeOK
<1>6. FreshTickets'
  BY <1>1, <1>2, <1>4, Tickets DEF FreshTickets
<1>7. KnownTickets' /\ QueueIsServed' /\ ShutdownEmpties' /\ DrainState'
  BY <1>1, Tickets DEF KnownTickets, QueueIsServed, ShutdownEmpties, DrainState, TypeOK
<1> QED
  BY <1>4, <1>5, <1>6, <1>7

LEMMA ShutdownCompletedInv ==
  ASSUME IInv, ShutdownCompleted
  PROVE  IInv'
<1> USE DEF IInv
<1>1. /\ closing = "waiting" /\ closing' = "clean"
      /\ UNCHANGED <<opVars, drainVars, accepting, outOps, outBytes, waiter, closeOp,
                     wire>>
  BY DEF ShutdownCompleted
<1>2. TypeOK'
  BY <1>1 DEF TypeOK, opVars, drainVars
<1>3. QueueIsServed' /\ FreshTickets' /\ KnownTickets' /\ ShutdownEmpties' /\ DrainState'
  BY <1>1 DEF QueueIsServed, FreshTickets, KnownTickets, ShutdownEmpties, DrainState,
              Settled, opVars, drainVars
<1>4. FiniteUnsent' /\ Accounting' /\ Limits'
  BY <1>1, CountsUnchanged DEF Unsettled, Settled, opVars
<1> QED
  BY <1>2, <1>3, <1>4

LEMMA ShutdownTimeoutInv ==
  ASSUME IInv, ShutdownTimeout
  PROVE  IInv'
<1> USE DEF IInv
<1> DEFINE r == [o \in Ops |-> Cancelled(sent[o])]
<1>1. /\ closing = "waiting" /\ closing' = "timedOut"
      /\ Settle({closeOp}, r)
      /\ UNCHANGED <<next, len, sent, drainVars, accepting, waiter, closeOp, wire>>
  BY DEF ShutdownTimeout
<1>2. {closeOp} \in SUBSET Ops /\ \A o \in {closeOp} : o < next
  BY <1>1 DEF KnownTickets
<1>3. \A o \in {closeOp} : r[o] \in Results \ {NoResult}
  BY <1>2, ResultTypes DEF TypeOK
<1> HIDE DEF r
<1>4. /\ result' \in [Ops -> Results]
      /\ \A o \in Ops : o \notin {closeOp} => result'[o] = result[o]
      /\ outOps' \in Nat /\ outBytes' \in Nat
      /\ FiniteUnsent' /\ Accounting' /\ Limits'
  BY <1>1, <1>2, <1>3, SettleCounts
<1>5. TypeOK'
  BY <1>1, <1>4 DEF TypeOK, drainVars
<1>6. FreshTickets'
  BY <1>1, <1>2, <1>4, Tickets DEF FreshTickets
<1>7. KnownTickets' /\ QueueIsServed' /\ ShutdownEmpties' /\ DrainState'
  BY <1>1 DEF KnownTickets, QueueIsServed, ShutdownEmpties, DrainState, drainVars
<1> QED
  BY <1>4, <1>5, <1>6, <1>7

\* What the driver has put on the line are bytes of the active payload.
LEMMA TransmitType ==
  ASSUME IInv, pc = "driver", NEW k \in Nat, Transmit(k)
  PROVE  wire' \in Seq(Ops \X Nat) /\ active \in Ops
<1>1. active \in Ops
  BY DEF IInv, QueueIsServed, TypeOK
<1>2. [i \in 1 .. k |-> <<active, call.from + i>>] \in Seq(Ops \X Nat)
  BY <1>1 DEF IInv, TypeOK
<1> QED
  BY <1>1, <1>2 DEF Transmit, IInv, TypeOK

\* The driver call ends and writeOperation() returns.
LEMMA DriverReturnsInv ==
  ASSUME IInv, pc = "driver", NEW k \in Nat, Transmit(k),
         NEW r \in Results \ {NoResult}, Return(r),
         UNCHANGED <<opVars, queue, active, accepting, outOps, outBytes, waiter,
                     closing, closeOp>>
  PROVE  IInv'
<1> USE DEF IInv
<1>1. wire' \in Seq(Ops \X Nat)
  BY TransmitType
<1>2. pc' = "returned" /\ ret' = r /\ call' = call
  BY DEF Return
<1>3. TypeOK'
  BY <1>1, <1>2 DEF TypeOK, opVars
<1>4. QueueIsServed' /\ FreshTickets' /\ KnownTickets' /\ ShutdownEmpties' /\ DrainState'
  BY <1>2 DEF QueueIsServed, FreshTickets, KnownTickets, ShutdownEmpties, DrainState,
              Settled, opVars
<1>5. FiniteUnsent' /\ Accounting' /\ Limits'
  BY CountsUnchanged DEF Unsettled, Settled, opVars
<1> QED
  BY <1>3, <1>4, <1>5

LEMMA DriverFailsInv ==
  ASSUME IInv, NEW k \in 0 .. (call.to - call.from),
         DriverThrows(k) \/ DriverReportsNonsense(k)
  PROVE  IInv'
<1>1. k \in Nat /\ pc = "driver" /\ Transmit(k)
  BY DEF IInv, TypeOK, DriverThrows, DriverReportsNonsense
<1>2. sent[active] \in Nat
  BY <1>1, TransmitType DEF IInv, TypeOK
<1>3. /\ Cancelled(sent[active]) \in Results \ {NoResult}
      /\ FailureOrCancelled(sent[active]) \in Results \ {NoResult}
  BY <1>2, ResultTypes DEF FailureOrCancelled
<1>4. PICK r \in Results \ {NoResult} : Return(r)
  BY <1>3 DEF DriverThrows, DriverReportsNonsense
<1>5. UNCHANGED <<opVars, queue, active, accepting, outOps, outBytes, waiter,
                  closing, closeOp>>
  BY DEF DriverThrows, DriverReportsNonsense
<1> QED
  BY <1>1, <1>4, <1>5, DriverReturnsInv

\* A driver answer for w bytes takes them off outstandingBytes, which holds at
\* least as many: the active operation is one of those counted.
LEMMA WroteCounts ==
  ASSUME IInv, active \in Ops, ~Settled(active), active < next,
         NEW w \in Nat, sent[active] + w <= len[active],
         sent' = [sent EXCEPT ![active] = sent[active] + w],
         outBytes' = outBytes - w, UNCHANGED <<next, len, result, outOps>>
  PROVE  outBytes' \in Nat /\ FiniteUnsent' /\ Accounting' /\ Limits'
<1> USE DEF IInv
<1> DEFINE s == sent[active]
<1> DEFINE t == s + w
<1> DEFINE block == {active} \X ((s + 1) .. t)
<1>1. s \in Nat /\ t \in Nat /\ s <= t /\ t - s = w
  BY DEF TypeOK
<1>2. Unsettled' = Unsettled /\ active \in Unsettled
  BY DEF Unsettled, Settled
<1>3. block \subseteq Unsent(Unsettled)
  <2>1. (s + 1) .. t \subseteq (s + 1) .. len[active]
    BY DEF TypeOK
  <2> QED
    BY <1>2, <2>1 DEF Unsent
<1>4. Unsent(Unsettled)' = Unsent(Unsettled) \ block
  <2>1. Unsent(Unsettled)' = UNION {{o} \X ((sent'[o] + 1) .. len[o]) : o \in Unsettled}
    BY <1>2 DEF Unsent
  <2>2. ((t + 1) .. len[active]) = ((s + 1) .. len[active]) \ ((s + 1) .. t)
    BY <1>1 DEF TypeOK
  <2>3. /\ sent'[active] = t
        /\ \A o \in Unsettled : o # active => sent'[o] = sent[o]
    BY DEF TypeOK, Unsettled
  <2> HIDE DEF s, t
  <2>4. ASSUME NEW p
        PROVE  p \in Unsent(Unsettled)' <=> p \in Unsent(Unsettled) \ block
    <3>1. p \in Unsent(Unsettled)'
            <=> \E o \in Unsettled : \E i \in (sent'[o] + 1) .. len[o] : p = <<o, i>>
      BY <2>1
    <3>2. p \in Unsent(Unsettled)
            <=> \E o \in Unsettled : \E i \in (sent[o] + 1) .. len[o] : p = <<o, i>>
      BY UnsentMember
    <3>3. p \in block <=> \E i \in (s + 1) .. t : p = <<active, i>>
      OBVIOUS
    <3>4. sent[active] = s
      BY DEF s
    <3> QED
      BY <1>2, <2>2, <2>3, <3>1, <3>2, <3>3, <3>4
  <2> QED
    BY <2>4
<1>5. IsFiniteSet(block) /\ Cardinality(block) = w
  <2> HIDE DEF s, t
  <2>1. Cardinality(block) = t - s /\ IsFiniteSet(block)
    BY <1>1, BlockSize, Zenon
  <2> QED
    BY <1>1, <2>1
<1> HIDE DEF block
<1>6. /\ IsFiniteSet(Unsent(Unsettled) \ block)
      /\ Cardinality(Unsent(Unsettled)) \in Nat /\ w <= Cardinality(Unsent(Unsettled))
      /\ Cardinality(Unsent(Unsettled) \ block) = Cardinality(Unsent(Unsettled)) - w
  BY <1>3, <1>5, RemovePart DEF FiniteUnsent
<1>7. FiniteUnsent' /\ Accounting'
  BY <1>2, <1>4, <1>6 DEF FiniteUnsent, Accounting
<1>8. outBytes' \in Nat /\ Limits'
  BY <1>6, LimitsAssumption DEF Limits, Accounting
<1> QED
  BY <1>7, <1>8

LEMMA DriverWroteInv ==
  ASSUME IInv, NEW w \in 1 .. (call.to - call.from), DriverWrote(w)
  PROVE  IInv'
<1> USE DEF IInv
<1>1. w \in Nat /\ pc = "driver" /\ Transmit(w)
  BY DEF TypeOK, DriverWrote
<1>2. wire' \in Seq(Ops \X Nat) /\ active \in Ops /\ sent[active] \in Nat
  BY <1>1, TransmitType DEF TypeOK
<1>3. UNCHANGED <<next, len, result, queue, active, accepting, outOps, waiter, closing,
                  closeOp>>
  BY DEF DriverWrote
<1>4. CASE Settled(active)
  <2>1. Return(Cancelled(sent[active])) /\ UNCHANGED <<sent, outBytes>>
    BY <1>4 DEF DriverWrote
  <2>2. Cancelled(sent[active]) \in Results \ {NoResult}
    BY <1>2, ResultTypes
  <2>3. UNCHANGED <<opVars, queue, active, accepting, outOps, outBytes, waiter,
                    closing, closeOp>>
    BY <1>3, <2>1 DEF opVars
  <2> QED
    BY <1>1, <2>1, <2>2, <2>3, DriverReturnsInv
<1>5. CASE ~Settled(active)
  <2> DEFINE s == sent[active] + w
  <2>1. /\ sent' = [sent EXCEPT ![active] = s]
        /\ outBytes' = outBytes - w
        /\ IF accepting THEN NextChunk(s, len[active], call.to) ELSE Return(Cancelled(s))
    BY <1>5 DEF DriverWrote, SentAfter
  <2>2. /\ s \in Nat /\ len[active] \in Nat /\ call.to \in Nat
        /\ s <= call.to /\ call.to <= len[active]
    BY <1>1, <1>2 DEF TypeOK, DrainState
  <2>3. sent[active] + w <= len[active] /\ active < next
    BY <1>2, <2>2 DEF KnownTickets, TypeOK
  <2>4. outBytes' \in Nat /\ FiniteUnsent' /\ Accounting' /\ Limits'
    BY <1>1, <1>2, <1>3, <1>5, <2>1, <2>3, WroteCounts
  <2> HIDE DEF s
  <2>5. DrainAt(s, len[active])
    <3>1. CASE accepting
      BY <2>1, <2>2, <3>1, NextChunkDrain
    <3>2. CASE ~accepting
      BY <2>1, <2>2, <3>2, ResultTypes, ReturnDrain
    <3> QED
      BY <3>1, <3>2
  <2>6. sent' \in [Ops -> Nat] /\ \A o \in Ops : sent'[o] <= len'[o]
    BY <1>2, <1>3, <2>1, <2>2 DEF TypeOK
  <2>7. TypeOK'
    BY <1>2, <1>3, <2>4, <2>5, <2>6 DEF TypeOK, DrainAt
  <2>8. QueueIsServed'
    BY <1>1, <1>3, <2>5 DEF QueueIsServed, Settled, DrainAt
  <2>9. FreshTickets'
    BY <1>2, <1>3, <2>1, <2>3, Tickets DEF FreshTickets, TypeOK
  <2>10. KnownTickets'
    <3>1. \A i \in DOMAIN queue : queue[i] \in Ops /\ queue[i] # active
      BY Tickets DEF QueueIsServed
    <3> QED
      BY <1>2, <1>3, <2>1, <3>1 DEF KnownTickets, TypeOK
  <2>11. ShutdownEmpties' /\ DrainState'
    BY <1>2, <1>3, <2>1, <2>5 DEF ShutdownEmpties, DrainState, DrainAt, TypeOK
  <2> QED
    BY <2>4, <2>7, <2>8, <2>9, <2>10, <2>11
<1> QED
  BY <1>4, <1>5

LEMMA DrainResumesInv ==
  ASSUME IInv, DrainResumes
  PROVE  IInv'
<1> USE DEF IInv
<1> DEFINE r == [o \in Ops |-> ret]
<1>1. /\ pc = "returned" /\ Settle({active}, r) /\ ResolveIdleWaiters
      /\ UNCHANGED <<next, len, sent, accepting, closing, closeOp, wire>>
  BY DEF DrainResumes
<1>2. active \in Ops /\ active < next
  BY <1>1 DEF QueueIsServed, KnownTickets, TypeOK
<1>3. \A o \in {active} : r[o] \in Results \ {NoResult}
  BY <1>1, <1>2 DEF DrainState, TypeOK
<1> HIDE DEF r
<1>4. /\ result' \in [Ops -> Results]
      /\ \A o \in Ops : o \notin {active} => result'[o] = result[o]
      /\ outOps' \in Nat /\ outBytes' \in Nat
      /\ FiniteUnsent' /\ Accounting' /\ Limits'
  BY <1>1, <1>2, <1>3, SettleCounts
<1>5. waiter' \in [Waiters -> {"none", "waiting", "resolved", "rejected"}]
  BY <1>1 DEF ResolveIdleWaiters, TypeOK
<1>6. FreshTickets'
  BY <1>1, <1>2, <1>4, Tickets DEF FreshTickets
<1>7. CASE queue = <<>>
  <2>1. active' = None /\ pc' = "off" /\ UNCHANGED <<queue, call, ret>>
    BY <1>7 DEF DrainResumes
  <2>2. TypeOK'
    BY <1>1, <1>4, <1>5, <2>1 DEF TypeOK
  <2>3. None < next
    BY DEF TypeOK, None
  <2>4. QueueIsServed' /\ KnownTickets' /\ ShutdownEmpties' /\ DrainState'
    BY <1>1, <1>7, <2>1, <2>3 DEF QueueIsServed, KnownTickets, ShutdownEmpties, DrainState
  <2> QED
    BY <1>4, <1>6, <2>2, <2>4
<1>8. CASE queue # <<>>
  <2>1. StartNext(queue, len)
    BY <1>8 DEF DrainResumes
  <2>2. /\ Head(queue) = queue[1] /\ 1 \in DOMAIN queue
        /\ Tail(queue) \in Seq(Ops) /\ DOMAIN Tail(queue) = 1 .. Len(queue) - 1
        /\ \A i \in DOMAIN Tail(queue) : Tail(queue)[i] = queue[i + 1] /\ i + 1 \in DOMAIN queue
    <3>1. queue \in Seq(Ops) /\ Len(queue) \in Nat /\ Len(queue) # 0
      BY <1>8 DEF TypeOK
    <3>2. /\ Tail(queue) \in Seq(Ops) /\ Len(Tail(queue)) = Len(queue) - 1
          /\ Head(queue) = queue[1]
          /\ \A i \in 1 .. Len(Tail(queue)) : Tail(queue)[i] = queue[i + 1]
      BY <1>8, <3>1, HeadTailProperties
    <3> QED
      BY <3>1, <3>2
  <2>3. queue[1] \in Ops /\ len[queue[1]] \in Nat /\ sent[queue[1]] = 0 /\ queue[1] < next
    BY <2>2, Tickets DEF KnownTickets, TypeOK
  <2>4. active' = queue[1] /\ queue' = Tail(queue) /\ DrainAt(0, len[queue[1]])
    BY <2>1, <2>2, <2>3, StartNextDrain
  <2>5. TypeOK'
    BY <1>1, <1>4, <1>5, <2>2, <2>3, <2>4 DEF TypeOK, DrainAt
  <2>6. QueueIsServed'
    <3>1. \A i \in DOMAIN queue : queue[i] \in Ops /\ queue[i] # active
      BY Tickets DEF QueueIsServed
    <3>2. \A i \in DOMAIN queue' : result'[queue'[i]] = NoResult
      BY <1>4, <2>2, <2>4, <3>1 DEF QueueIsServed, Settled
    <3>3. \A i \in DOMAIN queue' : active' < queue'[i]
      BY <2>2, <2>4, Tickets DEF QueueIsServed
    <3>4. \A i, j \in DOMAIN queue' : i < j => queue'[i] < queue'[j]
      BY <2>2, <2>4, Tickets DEF QueueIsServed
    <3>5. pc' # "off" /\ active' # None
      BY <2>3, <2>4, Tickets DEF DrainAt
    <3> QED
      BY <3>2, <3>3, <3>4, <3>5 DEF QueueIsServed, Settled
  <2>7. KnownTickets'
    BY <1>1, <2>2, <2>3, <2>4 DEF KnownTickets
  <2>8. ShutdownEmpties'
    BY <1>1, <1>8 DEF ShutdownEmpties
  <2>9. DrainState'
    BY <1>1, <2>3, <2>4 DEF DrainState, DrainAt
  <2> QED
    BY <1>4, <1>6, <2>5, <2>6, <2>7, <2>8, <2>9
<1> QED
  BY <1>7, <1>8

-----------------------------------------------------------------------------
(* The theorems.                                                           *)

\* The invariant holds in every state of the write scheduler.
THEOREM Invariance == Spec => []IInv
<1>1. IInv /\ [Next]_vars => IInv'
  <2> SUFFICES ASSUME IInv, [Next]_vars
               PROVE  IInv'
    OBVIOUS
  <2>1. CASE UNCHANGED vars
    <3>1. UNCHANGED <<opVars, drainVars, accepting, outOps, outBytes, waiter, closing,
                      closeOp, wire>>
      BY <2>1 DEF vars
    <3>2. TypeOK'
      BY <3>1 DEF IInv, TypeOK, opVars, drainVars
    <3>3. QueueIsServed' /\ FreshTickets' /\ KnownTickets' /\ ShutdownEmpties' /\ DrainState'
      BY <3>1 DEF IInv, QueueIsServed, FreshTickets, KnownTickets, ShutdownEmpties,
                  DrainState, Settled, opVars, drainVars
    <3>4. FiniteUnsent' /\ Accounting' /\ Limits'
      BY <3>1, CountsUnchanged DEF Unsettled, Settled, opVars
    <3> QED
      BY <3>2, <3>3, <3>4 DEF IInv
  <2>2. CASE Callers
    BY <2>2, EnqueueRefusedInv, EnqueueAdmittedInv, WaiterInv, ShutdownInv DEF Callers
  <2>3. CASE ShutdownEnds
    BY <2>3, ShutdownCompletedInv, ShutdownTimeoutInv DEF ShutdownEnds
  <2>4. CASE Driver
    BY <2>4, DriverFailsInv, DriverWroteInv DEF Driver
  <2>5. CASE DrainResumes
    BY <2>5, DrainResumesInv
  <2> QED
    BY <2>1, <2>2, <2>3, <2>4, <2>5 DEF Next
<1> QED
  BY InitInv, <1>1, PTL DEF Spec

\* Every variable keeps its type: no driver answer, however late or short, makes
\* sentBytes exceed the payload or outstandingBytes negative.
THEOREM TypeCorrect == Spec => []TypeOK
BY Invariance, PTL DEF IInv

\* outstandingOperations and outstandingBytes are exact: what enqueue() checks
\* its limits against is what is really outstanding.
THEOREM CountersExact == Spec => []Accounting
BY Invariance, PTL DEF IInv

\* At most maxOperations operations and maxQueuedBytes bytes are outstanding.
THEOREM WithinQuota == Spec => []QuotaHeld
<1>1. IInv => QuotaHeld
  BY DEF IInv, QuotaHeld, Accounting, Limits
<1> QED
  BY <1>1, Invariance, PTL

\* Whatever waits to be written has a drain() that will come to it, in the order
\* it was enqueued: no wake-up is lost.
THEOREM NoLostWakeUp == Spec => []QueueIsServed
BY Invariance, PTL DEF IInv

\* writeOperation() looks at accepting before every driver call.
LEMMA CallNeedsAccepting ==
  /\ \A s, total, end : NextChunk(s, total, end) /\ pc' = "driver" => accepting
  /\ \A q, lengths : StartNext(q, lengths) /\ pc' = "driver" => accepting
<1>1. ASSUME NEW s, NEW total, NEW end, NextChunk(s, total, end), pc' = "driver"
      PROVE  accepting
  BY <1>1 DEF NextChunk, Return
<1>2. ASSUME NEW q, NEW lengths, StartNext(q, lengths), pc' = "driver"
      PROVE  accepting
  BY <1>1, <1>2 DEF StartNext, Return
<1> QED
  BY <1>1, <1>2

\* No driver call is issued once shutdown() was called, nor for an operation
\* whose caller has its result.
THEOREM SilentAfterShutdown == Spec => NoCallAfterShutdown
<1> DEFINE A == NewDriverCall => accepting /\ accepting' /\ ~Settled(active)'
<1>1. IInv /\ [Next]_vars => [A]_vars
  <2> SUFFICES ASSUME IInv, Next, NewDriverCall
               PROVE  accepting /\ accepting' /\ ~Settled(active)'
    OBVIOUS
  <2>1. pc' = "driver" /\ ~UNCHANGED <<pc, active, call>>
    BY DEF NewDriverCall
  <2>2. ASSUME NEW n \in PayloadLens, EnqueueRefused(n)
        PROVE  FALSE
    BY <2>1, <2>2 DEF EnqueueRefused, Refuse, drainVars
  <2>3. ASSUME NEW n \in PayloadLens, EnqueueAdmitted(n)
        PROVE  accepting /\ accepting' /\ ~Settled(active)'
    <3>1. queue = <<>> /\ StartNext(Append(queue, next), [len EXCEPT ![next] = n])
      BY <2>1, <2>3 DEF EnqueueAdmitted, IInv, QueueIsServed
    <3>2. Head(Append(queue, next)) = next
      BY <3>1
    <3>3. active' = next /\ result' = result /\ accepting /\ accepting' = accepting
      BY <2>3, <3>1, <3>2 DEF StartNext, EnqueueAdmitted
    <3>4. next \in Ops /\ result[next] = NoResult
      BY <2>3, LimitsAssumption DEF EnqueueAdmitted, IInv, TypeOK, FreshTickets, Ops
    <3> QED
      BY <3>3, <3>4 DEF Settled
  <2>4. ASSUME NEW w \in Waiters, WaitForIdle(w) \/ AbortWait(w)
        PROVE  FALSE
    BY <2>1, <2>4 DEF WaitForIdle, AbortWait, drainVars
  <2>5. CASE Shutdown \/ ShutdownCompleted \/ ShutdownTimeout
    BY <2>1, <2>5 DEF Shutdown, ShutdownCompleted, ShutdownTimeout, drainVars
  <2>6. ASSUME NEW k, DriverThrows(k) \/ DriverReportsNonsense(k)
        PROVE  FALSE
    BY <2>1, <2>6 DEF DriverThrows, DriverReportsNonsense, Return
  <2>7. ASSUME NEW w, DriverWrote(w)
        PROVE  accepting /\ accepting' /\ ~Settled(active)'
    BY <2>1, <2>7, CallNeedsAccepting DEF DriverWrote, Return, Settled
  <2>8. CASE DrainResumes
    <3>1. queue # <<>> /\ StartNext(queue, len)
      BY <2>1, <2>8 DEF DrainResumes
    <3>2. accepting /\ accepting' = accepting
      BY <2>1, <2>8, <3>1, CallNeedsAccepting DEF DrainResumes
    <3>3. active' = queue[1] /\ 1 \in DOMAIN queue /\ queue[1] \in Ops
      BY <3>1 DEF StartNext, IInv, TypeOK
    <3>4. queue[1] # active /\ result[queue[1]] = NoResult
      BY <3>3, Tickets DEF IInv, QueueIsServed, Settled
    <3>5. result'[queue[1]] = result[queue[1]]
      BY <2>8, <3>3, <3>4 DEF DrainResumes, Settle
    <3> QED
      BY <3>2, <3>3, <3>4, <3>5 DEF Settled
  <2> QED
    BY <2>2, <2>3, <2>4, <2>5, <2>6, <2>7, <2>8 DEF Next, Callers, ShutdownEnds, Driver
<1> QED
  BY <1>1, Invariance, PTL DEF Spec, NoCallAfterShutdown

\* waitForIdle() resolves only when nothing is queued, active or in flight.
THEOREM IdleMeansIdle == Spec => IdleIsPhysical
<1> DEFINE A == \A w \in Waiters :
                  waiter'[w] = "resolved" /\ waiter[w] # "resolved" => Idle'
<1>1. IInv /\ [Next]_vars => [A]_vars
  <2> SUFFICES ASSUME IInv, Next, NEW w \in Waiters,
                      waiter'[w] = "resolved", waiter[w] # "resolved"
               PROVE  Idle'
    OBVIOUS
  <2>1. ASSUME NEW v \in Waiters, WaitForIdle(v)
        PROVE  Idle'
    <3>1. v = w /\ Idle
      BY <2>1 DEF WaitForIdle, IInv, TypeOK
    <3> QED
      BY <2>1, <3>1 DEF WaitForIdle, Idle, drainVars
  <2>2. ASSUME NEW v \in Waiters, AbortWait(v)
        PROVE  FALSE
    BY <2>2 DEF AbortWait, IInv, TypeOK
  <2>3. CASE DrainResumes
    <3>1. queue = <<>>
      BY <2>3 DEF DrainResumes, ResolveIdleWaiters
    <3> QED
      BY <2>3, <3>1 DEF DrainResumes, Idle
  <2>4. ASSUME NEW n \in PayloadLens, EnqueueRefused(n) \/ EnqueueAdmitted(n)
        PROVE  FALSE
    BY <2>4 DEF EnqueueRefused, Refuse, EnqueueAdmitted
  <2>5. CASE Shutdown \/ ShutdownCompleted \/ ShutdownTimeout \/ Driver
    BY <2>5 DEF Shutdown, ShutdownCompleted, ShutdownTimeout, Driver, DriverThrows,
                DriverReportsNonsense, DriverWrote
  <2> QED
    BY <2>1, <2>2, <2>3, <2>4, <2>5 DEF Next, Callers, ShutdownEnds
<1> QED
  BY <1>1, Invariance, PTL DEF Spec, IdleIsPhysical

-----------------------------------------------------------------------------
(* The line.                                                               *)

\* The line shows nothing of an operation that drain() has not come to.
WireBehind ==
  \A j \in DOMAIN wire : wire[j][1] < next /\ (active # None => wire[j][1] <= active)

\* The driver call in flight goes on where the line ends: it begins the payload,
\* of which the line shows nothing, or follows the byte sent last.
CallContinues ==
  pc = "driver" =>
    \/ call.from = 0 /\ \A j \in DOMAIN wire : wire[j][1] < active
    \/ Len(wire) > 0 /\ wire[Len(wire)] = <<active, call.from>>

\* sentBytes counts nothing that is not on the line, and while the driver has the
\* payload it counts all of it.
SentOnWire ==
  /\ \A o \in Ops : sent[o] <= OnWire(o)
  /\ pc = "driver" => OnWire(active) = sent[active]

\* A result never claims more than the line has seen, as HonestResults says of
\* those the callers have.
Honest(r, o) ==
  /\ r.sent <= OnWire(o)
  /\ r.outcome = "complete" => OnWire(o) = len[o]

\* What writeOperation() returned is honest, and an operation that shutdown()
\* settled under a running driver call was not called complete.
ReturnHonest ==
  /\ pc = "returned" => Honest(ret, active)
  /\ active # None /\ Settled(active) => result[active].outcome # "complete"

WireInv ==
  /\ WireInOrder /\ WireBehind /\ CallContinues
  /\ SentOnWire /\ ReturnHonest /\ HonestResults

\* The bytes of one payload on the line are finitely many, and none when no
\* position of the line shows one.
LEMMA OnWireNat ==
  ASSUME TypeOK, NEW o
  PROVE  /\ IsFiniteSet({j \in DOMAIN wire : wire[j][1] = o})
         /\ OnWire(o) \in Nat
         /\ (\A j \in DOMAIN wire : wire[j][1] # o) => OnWire(o) = 0
<1> DEFINE at == {j \in DOMAIN wire : wire[j][1] = o}
<1>1. Len(wire) \in Nat /\ DOMAIN wire = 1 .. Len(wire)
  BY DEF TypeOK
<1>2. IsFiniteSet(1 .. Len(wire))
  BY <1>1, FS_Interval
<1>3. IsFiniteSet(at)
  BY <1>1, <1>2, FS_Subset
<1>4. Cardinality(at) \in Nat /\ (at = {} => Cardinality(at) = 0)
  BY <1>3, FS_CardinalityType, FS_EmptySet
<1> QED
  BY <1>3, <1>4 DEF OnWire

LEMMA WireBytes ==
  ASSUME TypeOK
  PROVE  \A j \in DOMAIN wire : wire[j][1] \in Ops /\ wire[j][1] \in Nat
<1>1. ASSUME NEW j \in DOMAIN wire
      PROVE  wire[j] \in Ops \X Nat
  BY <1>1 DEF TypeOK
<1> QED
  BY <1>1, Tickets

\* The driver appends k bytes of the active payload.
LEMMA TransmitAppends ==
  ASSUME IInv, pc = "driver", NEW k \in Nat, Transmit(k)
  PROVE  /\ Len(wire) \in Nat /\ DOMAIN wire = 1 .. Len(wire)
         /\ Len(wire') = Len(wire) + k /\ DOMAIN wire' = 1 .. Len(wire) + k
         /\ \A j \in 1 .. Len(wire) : wire'[j] = wire[j]
         /\ \A j \in DOMAIN wire' \ DOMAIN wire :
              wire'[j] = <<active, call.from + (j - Len(wire))>>
<1> DEFINE bytes == [i \in 1 .. k |-> <<active, call.from + i>>]
<1>1. active \in Ops /\ wire \in Seq(Ops \X Nat) /\ call.from \in Nat
  BY TransmitType DEF IInv, TypeOK
<1>2. bytes \in Seq(Ops \X Nat) /\ Len(bytes) = k
  BY <1>1
<1>3. wire' = wire \o bytes
  BY DEF Transmit
<1>4. \A i \in 1 .. k : bytes[i] = <<active, call.from + i>>
  OBVIOUS
<1> HIDE DEF bytes
<1>5. Len(wire') = Len(wire) + k /\ Len(wire) \in Nat /\ DOMAIN wire = 1 .. Len(wire)
      /\ DOMAIN wire' = 1 .. Len(wire) + k
  BY <1>1, <1>2, <1>3
<1>6. \A j \in 1 .. Len(wire) : wire'[j] = wire[j]
  BY <1>1, <1>2, <1>3, <1>5
<1>7. ASSUME NEW j \in DOMAIN wire' \ DOMAIN wire
      PROVE  wire'[j] = <<active, call.from + (j - Len(wire))>>
  <2>1. j \in Nat /\ j > Len(wire) /\ j <= Len(wire) + k /\ j - Len(wire) \in 1 .. k
    BY <1>5, <1>7
  <2>2. wire'[j] = bytes[j - Len(wire)]
    BY <1>1, <1>2, <1>3, <1>5, <2>1
  <2> QED
    BY <1>4, <2>1, <2>2
<1> QED
  BY <1>5, <1>6, <1>7

\* The active payload has k bytes more on the line, every other one as many as
\* before.
LEMMA TransmitCounts ==
  ASSUME IInv, pc = "driver", NEW k \in Nat, Transmit(k)
  PROVE  \A o \in Ops : OnWire(o)' = IF o = active THEN OnWire(o) + k ELSE OnWire(o)
<1> SUFFICES ASSUME NEW o \in Ops
             PROVE  OnWire(o)' = IF o = active THEN OnWire(o) + k ELSE OnWire(o)
  OBVIOUS
<1> DEFINE at == {j \in DOMAIN wire : wire[j][1] = o}
<1> DEFINE new == (Len(wire) + 1) .. (Len(wire) + k)
<1>1. OnWire(o) = Cardinality(at) /\ OnWire(o)' = Cardinality(at')
  BY DEF OnWire
<1>2. IsFiniteSet(at)
  BY OnWireNat DEF IInv
<1>3. \A j : j \in DOMAIN wire' <=> j \in DOMAIN wire \/ j \in new
  BY TransmitAppends
<1>4. \A j \in DOMAIN wire : j \notin new /\ wire'[j] = wire[j]
  BY TransmitAppends
<1>5. \A j \in new : wire'[j][1] = active
  BY <1>3, <1>4, TransmitAppends
<1>6. CASE o = active
  <2>1. at' = at \cup new /\ at \cap new = {}
    BY <1>3, <1>4, <1>5, <1>6
  <2>2. IsFiniteSet(new) /\ Cardinality(new) = k
    <3> DEFINE m == Len(wire) + 1
    <3> DEFINE n == Len(wire) + k
    <3>1. m \in Int /\ n \in Int /\ (m > n => k = 0) /\ n - m + 1 = k
      BY TransmitAppends
    <3> HIDE DEF m, n
    <3>2. IsFiniteSet(m .. n) /\ Cardinality(m .. n) = IF m > n THEN 0 ELSE n - m + 1
      BY <3>1, FS_Interval, Zenon
    <3> QED
      BY <3>1, <3>2 DEF m, n
  <2> HIDE DEF at, new
  <2> QED
    BY <1>1, <1>2, <1>6, <2>1, <2>2, AddPart
<1>7. CASE o # active
  <2>1. at' = at
    BY <1>3, <1>4, <1>5, <1>7
  <2> QED
    BY <1>1, <1>7, <2>1
<1> QED
  BY <1>6, <1>7

\* A driver call that continues the line leaves it in order, behind the active
\* operation, and ends it with the last byte it sent.
LEMMA TransmitInOrder ==
  ASSUME IInv, WireInv, pc = "driver", NEW k \in Nat, Transmit(k),
         UNCHANGED <<next, active>>
  PROVE  /\ WireInOrder' /\ WireBehind'
         /\ k > 0 => Len(wire') > 0 /\ wire'[Len(wire')] = <<active, call.from + k>>
<1> USE DEF IInv, WireInv
<1> DEFINE n == Len(wire)
<1>1. /\ n \in Nat /\ DOMAIN wire = 1 .. n /\ DOMAIN wire' = 1 .. n + k /\ Len(wire') = n + k
      /\ \A j \in 1 .. n : wire'[j] = wire[j]
      /\ \A j \in (1 .. n + k) \ (1 .. n) : wire'[j] = <<active, call.from + (j - n)>>
  BY TransmitAppends
<1>2. active \in Ops /\ active \in Nat /\ active < next /\ next \in Nat /\ call.from \in Nat
  BY TransmitType, Tickets DEF KnownTickets, TypeOK
<1>3. \A j \in 1 .. n : wire[j][1] \in Nat
  BY <1>1, WireBytes
<1> HIDE DEF n
<1>4. WireInOrder'
  <2> SUFFICES ASSUME NEW j \in 1 .. n + k
               PROVE  \/ wire'[j][2] = 1 /\ (j > 1 => wire'[j - 1][1] < wire'[j][1])
                      \/ j > 1 /\ wire'[j - 1] = <<wire'[j][1], wire'[j][2] - 1>>
    BY <1>1 DEF WireInOrder
  <2>1. CASE j \in 1 .. n
    <3>1. wire'[j] = wire[j] /\ (j > 1 => wire'[j - 1] = wire[j - 1])
      BY <1>1, <2>1
    <3>2. \/ wire[j][2] = 1 /\ (j > 1 => wire[j - 1][1] < wire[j][1])
          \/ j > 1 /\ wire[j - 1] = <<wire[j][1], wire[j][2] - 1>>
      BY <1>1, <2>1 DEF WireInOrder
    <3> QED
      BY <3>1, <3>2
  <2>2. CASE j = n + 1
    <3>1. wire'[j] = <<active, call.from + 1>>
      BY <1>1, <2>2
    <3>2. n > 0 => wire'[j - 1] = wire[n] /\ n \in 1 .. n
      BY <1>1, <2>2
    <3>3. CASE call.from = 0 /\ \A i \in DOMAIN wire : wire[i][1] < active
      BY <1>1, <1>2, <2>2, <3>1, <3>2, <3>3
    <3>4. CASE n > 0 /\ wire[n] = <<active, call.from>>
      BY <1>1, <1>2, <2>2, <3>1, <3>2, <3>4
    <3> QED
      BY <3>3, <3>4 DEF CallContinues, n
  <2>3. CASE j \in (n + 2) .. (n + k)
    <3>1. /\ wire'[j] = <<active, call.from + (j - n)>>
          /\ wire'[j - 1] = <<active, call.from + ((j - 1) - n)>>
      BY <1>1, <2>3
    <3>2. call.from + ((j - 1) - n) = (call.from + (j - n)) - 1 /\ j > 1
      <4>1. j \in Int /\ n \in Int /\ call.from \in Int /\ j > 1
        BY <1>1, <1>2, <2>3
      <4> QED
        BY ONLY <4>1
    <3>3. wire'[j][1] = active /\ wire'[j][2] = call.from + (j - n)
      BY <3>1
    <3> QED
      BY <3>1, <3>2, <3>3
  <2> QED
    BY <1>1, <2>1, <2>2, <2>3
<1>5. WireBehind'
  <2> SUFFICES ASSUME NEW j \in 1 .. n + k
               PROVE  wire'[j][1] < next /\ wire'[j][1] <= active
    BY <1>1, <1>2 DEF WireBehind
  <2>1. CASE j \in 1 .. n
    BY <1>1, <1>2, <2>1, Tickets DEF WireBehind
  <2>2. CASE j \notin 1 .. n
    BY <1>1, <1>2, <2>2
  <2> QED
    BY <2>1, <2>2
<1>6. ASSUME k > 0
      PROVE  Len(wire') > 0 /\ wire'[Len(wire')] = <<active, call.from + k>>
  <2>1. n + k \in (1 .. n + k) \ (1 .. n) /\ (n + k) - n = k /\ n + k > 0
    BY <1>1, <1>6
  <2> QED
    BY <1>1, <2>1
<1> QED
  BY <1>4, <1>5, <1>6

\* Nothing of a ticket that waits or was not given out is on the line.
LEMMA NotYetOnWire ==
  ASSUME IInv, WireInv
  PROVE  /\ \A o \in Ops : o >= next => OnWire(o) = 0
         /\ \A i \in DOMAIN queue : OnWire(queue[i]) = 0
<1> USE DEF IInv, WireInv
<1>1. \A j \in DOMAIN wire : wire[j][1] \in Nat
  BY WireBytes
<1>2. ASSUME NEW o \in Ops, o >= next
      PROVE  OnWire(o) = 0
  <2>1. \A j \in DOMAIN wire : wire[j][1] # o
    BY <1>1, <1>2, Tickets DEF WireBehind
  <2> QED
    BY <2>1, OnWireNat
<1>3. ASSUME NEW i \in DOMAIN queue
      PROVE  OnWire(queue[i]) = 0
  <2>1. active # None /\ active < queue[i] /\ queue[i] \in Nat /\ active \in Nat
    BY Tickets DEF QueueIsServed
  <2>2. \A j \in DOMAIN wire : wire[j][1] # queue[i]
    BY <1>1, <2>1 DEF WireBehind
  <2> QED
    BY <2>2, OnWireNat
<1> QED
  BY <1>2, <1>3
\* Where writeOperation() comes to when s of total bytes are on the line: it claims
\* no more than s, and all of them only when s is all.
HonestAt(s, total) ==
  /\ pc' = "returned" => ret'.sent = s /\ (ret'.outcome = "complete" => s = total)
  /\ pc' = "driver" => call'.from = s

LEMMA ReturnHonestAt ==
  ASSUME NEW s, NEW total, NEW r \in {WriteFailure(s), Cancelled(s), Denied(s)}, Return(r)
  PROVE  HonestAt(s, total)
<1>1. r.sent = s /\ r.outcome # "complete"
  BY DEF WriteFailure, Cancelled, Denied, PartialOrFailed
<1> QED
  BY <1>1 DEF Return, HonestAt

LEMMA NextChunkHonest ==
  ASSUME NEW s, NEW total, NEW end, NextChunk(s, total, end)
  PROVE  HonestAt(s, total)
<1>1. CASE s = total /\ Return(Complete(total))
  BY <1>1 DEF Return, HonestAt, Complete
<1>2. CASE Return(Cancelled(s)) \/ Return(Denied(s))
  BY <1>2, ReturnHonestAt
<1>3. CASE CallDriver(s, IF s < end THEN end ELSE Lower(s + ChunkBytes, total))
  BY <1>3 DEF CallDriver, HonestAt
<1> QED
  BY <1>1, <1>2, <1>3 DEF NextChunk

LEMMA StartNextHonest ==
  ASSUME NEW q, NEW lengths, StartNext(q, lengths)
  PROVE  HonestAt(0, lengths[Head(q)])
<1>1. CASE Return(Denied(0)) \/ Return(WriteFailure(0))
  BY <1>1, ReturnHonestAt
<1>2. CASE NextChunk(0, lengths[Head(q)], 0)
  BY <1>2, NextChunkHonest
<1> QED
  BY <1>1, <1>2 DEF StartNext

LEMMA InitWire == Init => WireInv
<1> SUFFICES ASSUME Init
             PROVE  WireInv
  OBVIOUS
<1>1. \A o \in Ops : OnWire(o) \in Nat
  BY OnWireNat, InitInv DEF IInv
<1>2. \A o \in Ops : sent[o] = 0 /\ ~Settled(o)
  BY DEF Init, Settled
<1>3. wire = <<>> /\ pc = "off" /\ active = None
  BY DEF Init
<1> QED
  BY <1>1, <1>2, <1>3 DEF WireInv, WireInOrder, WireBehind, CallContinues, SentOnWire,
     ReturnHonest, HonestResults

\* A turn that neither sends nor settles nor moves drain().
LEMMA WireUntouched ==
  ASSUME WireInv, UNCHANGED <<opVars, drainVars, wire>>
  PROVE  WireInv'
<1>1. \A o : OnWire(o)' = OnWire(o)
  BY DEF OnWire
<1> QED
  BY <1>1 DEF WireInv, WireInOrder, WireBehind, CallContinues, SentOnWire, ReturnHonest,
              HonestResults, Honest, Settled, opVars, drainVars

LEMMA EnqueueRefusedWire ==
  ASSUME IInv, WireInv, NEW n \in PayloadLens, EnqueueRefused(n)
  PROVE  WireInv'
<1> USE DEF IInv, WireInv
<1>1. next \in Ops
  BY LimitsAssumption DEF EnqueueRefused, TypeOK, Ops
<1>2. PICK r \in {Failed("INVALID_INPUT"), Cancelled(0), Denied(0),
                  Failed("SERIAL_QUEUE_FULL")} : Refuse(n, r)
  BY DEF EnqueueRefused
<1>3. /\ len' = [len EXCEPT ![next] = n]
      /\ result' = [result EXCEPT ![next] = r]
      /\ next' = next + 1
      /\ UNCHANGED <<sent, drainVars, wire>>
  BY <1>2 DEF Refuse
<1>4. r.sent = 0 /\ r.outcome # "complete"
  BY DEF Failed, Cancelled, Denied, PartialOrFailed
<1>5. \A o : OnWire(o)' = OnWire(o) /\ OnWire(o) \in Nat
  BY <1>3, OnWireNat DEF OnWire
<1>6. /\ result'[next] = r
      /\ \A o \in Ops : o # next => result'[o] = result[o] /\ len'[o] = len[o]
  BY <1>1, <1>3 DEF TypeOK
<1>7. active # next
  BY Tickets DEF KnownTickets
<1>8. WireInOrder' /\ CallContinues' /\ SentOnWire'
  BY <1>3, <1>5 DEF WireInOrder, CallContinues, SentOnWire, drainVars
<1>9. WireBehind'
  BY <1>3, WireBytes, Tickets DEF WireBehind, drainVars
<1>10. ReturnHonest'
  <2>1. pc # "off" => active \in Ops
    BY DEF QueueIsServed, TypeOK
  <2> QED
    BY <1>3, <1>5, <1>6, <1>7, <2>1 DEF ReturnHonest, Honest, Settled, drainVars, QueueIsServed, TypeOK
<1>11. HonestResults'
  BY <1>3, <1>4, <1>5, <1>6 DEF HonestResults, Settled
<1> QED
  BY <1>8, <1>9, <1>10, <1>11

\* drain() comes to a payload of which nothing is on the line.
LEMMA StartsClean ==
  ASSUME WireInv, NEW o \in Ops, active' = o, OnWire(o) = 0, sent'[o] = 0,
         \A j \in DOMAIN wire : wire[j][1] < o, ~Settled(o)',
         HonestAt(0, len'[o]), UNCHANGED wire
  PROVE  /\ CallContinues' /\ ReturnHonest'
         /\ pc' = "driver" => OnWire(active)' = sent'[active']
<1>1. OnWire(o)' = 0
  BY DEF OnWire
<1>2. CallContinues'
  BY DEF CallContinues, HonestAt
<1>3. OnWire(active)' = 0
  BY <1>1 DEF OnWire
<1>4. ReturnHonest'
  BY <1>3 DEF ReturnHonest, Honest, HonestAt, Settled
<1> QED
  BY <1>2, <1>3, <1>4

LEMMA EnqueueAdmittedWire ==
  ASSUME IInv, WireInv, NEW n \in PayloadLens, EnqueueAdmitted(n)
  PROVE  WireInv'
<1> USE DEF IInv, WireInv
<1>1. next \in Ops /\ n \in Nat
  BY LimitsAssumption DEF EnqueueAdmitted, TypeOK, Ops
<1>2. /\ next' = next + 1 /\ len' = [len EXCEPT ![next] = n]
      /\ UNCHANGED <<sent, result, wire>>
  BY DEF EnqueueAdmitted
<1>3. \A o : OnWire(o)' = OnWire(o)
  BY <1>2 DEF OnWire
<1>4. /\ result[next] = NoResult /\ sent[next] = 0 /\ len'[next] = n /\ OnWire(next) = 0
      /\ \A o \in Ops : o # next => len'[o] = len[o]
  BY <1>1, <1>2, NotYetOnWire, Tickets DEF TypeOK, FreshTickets
<1>5. WireInOrder' /\ \A o \in Ops : sent'[o] <= OnWire(o)'
  BY <1>2, <1>3 DEF WireInOrder, SentOnWire
<1>6. HonestResults'
  BY <1>2, <1>3, <1>4 DEF HonestResults, Settled
<1>7. CASE pc = "off"
  <2>1. queue = <<>> /\ Append(queue, next) = <<next>> /\ Head(<<next>>) = next
    BY <1>7 DEF QueueIsServed
  <2>2. StartNext(<<next>>, len')
    BY <1>2, <1>7, <2>1 DEF EnqueueAdmitted
  <2>3. active' = next /\ HonestAt(0, len'[next])
    BY <2>1, <2>2, StartNextHonest DEF StartNext
  <2>4. \A j \in DOMAIN wire : wire[j][1] < next
    BY DEF WireBehind
  <2>5. /\ CallContinues' /\ ReturnHonest'
        /\ pc' = "driver" => OnWire(active)' = sent'[active']
    BY <1>1, <1>2, <1>4, <2>3, <2>4, StartsClean DEF Settled
  <2>6. WireBehind'
    BY <1>2, <2>3, <2>4, WireBytes, Tickets DEF WireBehind
  <2> QED
    BY <1>5, <1>6, <2>5, <2>6 DEF SentOnWire
<1>8. CASE pc # "off"
  <2>1. UNCHANGED <<active, pc, call, ret>>
    BY <1>8 DEF EnqueueAdmitted
  <2>2. active \in Ops /\ active # next
    BY <1>8, Tickets DEF QueueIsServed, KnownTickets, TypeOK
  <2>3. CallContinues' /\ SentOnWire'
    BY <1>2, <1>3, <1>5, <2>1 DEF CallContinues, SentOnWire
  <2>4. ReturnHonest'
    BY <1>2, <1>3, <1>4, <2>1, <2>2 DEF ReturnHonest, Honest, Settled
  <2>5. WireBehind'
    BY <1>2, <2>1, WireBytes, Tickets DEF WireBehind
  <2> QED
    BY <1>5, <1>6, <2>3, <2>4, <2>5
<1> QED
  BY <1>7, <1>8

\* settle() of operations with honest results, none of them called complete, while
\* drain() stays where it is.
LEMMA SettleWire ==
  ASSUME IInv, WireInv, NEW S \in SUBSET Ops, NEW r,
         \A o \in S : r[o] = Cancelled(sent[o]),
         Settle(S, r), UNCHANGED <<next, len, sent, active, pc, call, ret, wire>>
  PROVE  WireInv'
<1> USE DEF IInv, WireInv
<1>1. \A o : OnWire(o)' = OnWire(o)
  BY DEF OnWire
<1>2. ASSUME NEW o \in S
      PROVE  r[o].sent = sent[o] /\ r[o].outcome # "complete"
  <2>1. r[o] = [outcome |-> "cancelled", error |-> "CANCELLED", sent |-> sent[o]]
    BY DEF Cancelled
  <2> QED
    BY <2>1
<1>3. \A o \in Ops : \/ result'[o] = result[o]
                     \/ o \in S /\ result'[o] = r[o]
  BY DEF Settle
<1>4. WireInOrder' /\ WireBehind' /\ CallContinues' /\ SentOnWire'
  BY <1>1 DEF WireInOrder, WireBehind, CallContinues, SentOnWire
<1>5. HonestResults'
  BY <1>1, <1>2, <1>3 DEF HonestResults, SentOnWire, Settled
<1>6. ReturnHonest'
  BY <1>1, <1>2, <1>3 DEF ReturnHonest, Honest, Settled, TypeOK
<1> QED
  BY <1>4, <1>5, <1>6

LEMMA ShutdownWire ==
  ASSUME IInv, WireInv, Shutdown
  PROVE  WireInv'
<1> DEFINE S == {queue[i] : i \in DOMAIN queue}
<1> DEFINE r == [o \in Ops |-> Cancelled(0)]
<1>1. Settle(S, r) /\ UNCHANGED <<next, len, sent, active, pc, call, ret, wire>>
  BY DEF Shutdown
<1>2. S \in SUBSET Ops /\ \A o \in S : r[o] = Cancelled(sent[o])
  BY Tickets DEF IInv, KnownTickets
<1> HIDE DEF S, r
<1> QED
  BY <1>1, <1>2, SettleWire

LEMMA ShutdownTimeoutWire ==
  ASSUME IInv, WireInv, ShutdownTimeout
  PROVE  WireInv'
<1> DEFINE r == [o \in Ops |-> Cancelled(sent[o])]
<1>1. closing = "waiting" /\ Settle({closeOp}, r)
      /\ UNCHANGED <<next, len, sent, active, pc, call, ret, wire>>
  BY DEF ShutdownTimeout, drainVars
<1>2. {closeOp} \in SUBSET Ops /\ \A o \in {closeOp} : r[o] = Cancelled(sent[o])
  BY <1>1 DEF IInv, KnownTickets
<1> HIDE DEF r
<1> QED
  BY <1>1, <1>2, SettleWire

\* The driver sent k bytes of the call and writeOperation() returned a result that
\* counts none of them.
LEMMA DriverReturnsWire ==
  ASSUME IInv, WireInv, pc = "driver", NEW k \in Nat, Transmit(k),
         NEW r \in {WriteFailure(sent[active]), Cancelled(sent[active])}, Return(r),
         UNCHANGED <<opVars, queue, active>>
  PROVE  WireInv'
<1> USE DEF IInv, WireInv
<1>1. WireInOrder' /\ WireBehind' /\ active \in Ops
  BY TransmitInOrder, TransmitType DEF opVars
<1>2. \A o \in Ops : OnWire(o)' = IF o = active THEN OnWire(o) + k ELSE OnWire(o)
  BY TransmitCounts
<1>3. \A o \in Ops : OnWire(o) \in Nat /\ sent[o] \in Nat
  BY OnWireNat DEF TypeOK
<1>4. pc' = "returned" /\ ret' = r /\ r.sent = sent[active] /\ r.outcome # "complete"
  BY DEF Return, WriteFailure, Cancelled, PartialOrFailed
<1>5. CallContinues' /\ SentOnWire'
  BY <1>2, <1>3, <1>4 DEF CallContinues, SentOnWire, opVars
<1>6. OnWire(active)' = OnWire(active) + k
  <2>1. \A o \in Ops : o = active' => OnWire(active)' = OnWire(o)'
    BY DEF OnWire
  <2> QED
    BY <1>1, <1>2, <2>1
<1>7. ReturnHonest'
  BY <1>1, <1>3, <1>4, <1>6 DEF ReturnHonest, Honest, SentOnWire, Settled, opVars
<1>8. HonestResults'
  <2> SUFFICES ASSUME NEW o \in Ops, Settled(o)
               PROVE  /\ result[o].sent <= OnWire(o)'
                      /\ result[o].outcome = "complete" => OnWire(o)' = len[o]
    BY DEF HonestResults, Settled, opVars
  <2>1. result[o].sent <= OnWire(o) /\ result[o].sent \in Nat
    BY DEF HonestResults, TypeOK, Results
  <2>2. o = active => result[o].outcome # "complete"
    BY <1>1, Tickets DEF ReturnHonest
  <2> QED
    BY <1>2, <1>3, <2>1, <2>2 DEF HonestResults
<1> QED
  BY <1>1, <1>5, <1>7, <1>8

LEMMA DriverFailsWire ==
  ASSUME IInv, WireInv, NEW k \in 0 .. (call.to - call.from),
         DriverThrows(k) \/ DriverReportsNonsense(k)
  PROVE  WireInv'
<1>1. k \in Nat /\ pc = "driver" /\ Transmit(k)
  BY DEF IInv, TypeOK, DriverThrows, DriverReportsNonsense
<1>2. PICK r \in {WriteFailure(sent[active]), Cancelled(sent[active])} : Return(r)
  BY DEF DriverThrows, DriverReportsNonsense, FailureOrCancelled
<1>3. UNCHANGED <<opVars, queue, active>>
  BY DEF DriverThrows, DriverReportsNonsense
<1> QED
  BY <1>1, <1>2, <1>3, DriverReturnsWire

LEMMA DriverWroteWire ==
  ASSUME IInv, WireInv, NEW w \in 1 .. (call.to - call.from), DriverWrote(w)
  PROVE  WireInv'
<1> USE DEF IInv, WireInv
<1>1. w \in Nat /\ w > 0 /\ pc = "driver" /\ Transmit(w)
  BY DEF TypeOK, DriverWrote
<1>2. active \in Ops /\ UNCHANGED <<next, len, result, queue, active>>
  BY <1>1, TransmitType DEF DriverWrote
<1>3. CASE Settled(active)
  <2>1. Return(Cancelled(sent[active])) /\ UNCHANGED <<opVars, queue, active>>
    BY <1>2, <1>3 DEF DriverWrote, opVars
  <2> QED
    BY <1>1, <2>1, DriverReturnsWire
<1>4. CASE ~Settled(active)
  <2> DEFINE s == sent[active] + w
  <2>1. /\ sent' = [sent EXCEPT ![active] = s]
        /\ IF accepting THEN NextChunk(s, len[active], call.to) ELSE Return(Cancelled(s))
    BY <1>4 DEF DriverWrote, SentAfter
  <2>2. HonestAt(s, len[active])
    BY <2>1, NextChunkHonest, ReturnHonestAt
  <2>3. sent[active] \in Nat /\ s \in Nat /\ call.from = sent[active]
    BY <1>1, <1>2 DEF TypeOK, DrainState
  <2>4. /\ WireInOrder' /\ WireBehind'
        /\ Len(wire') > 0 /\ wire'[Len(wire')] = <<active, s>>
    BY <1>1, <1>2, <2>3, TransmitInOrder
  <2>5. \A o \in Ops : OnWire(o)' = IF o = active THEN OnWire(o) + w ELSE OnWire(o)
    BY <1>1, TransmitCounts
  <2>6. \A o \in Ops : OnWire(o) \in Nat /\ sent[o] \in Nat
    BY OnWireNat DEF TypeOK
  <2>7. OnWire(active)' = s
    <3>1. \A o \in Ops : o = active' => OnWire(active)' = OnWire(o)'
      BY DEF OnWire
    <3> QED
      BY <1>1, <1>2, <2>5, <3>1 DEF SentOnWire
  <2>8. sent'[active] = s /\ \A o \in Ops : o # active => sent'[o] = sent[o]
    BY <1>2, <2>1 DEF TypeOK
  <2>9. OnWire(active) = sent[active]
    BY <1>1 DEF SentOnWire
  <2> HIDE DEF s
  <2>10. CallContinues'
    BY <1>2, <2>2, <2>4 DEF CallContinues, HonestAt
  <2>11. SentOnWire'
    <3>1. \A o \in Ops : sent'[o] <= OnWire(o)'
      <4> SUFFICES ASSUME NEW o \in Ops
                   PROVE  sent'[o] <= OnWire(o)'
        OBVIOUS
      <4>1. CASE o = active
        BY <2>3, <2>5, <2>8, <2>9, <4>1 DEF s
      <4>2. CASE o # active
        BY <2>5, <2>8, <4>2 DEF SentOnWire
      <4> QED
        BY <4>1, <4>2
    <3> QED
      BY <1>2, <2>7, <2>8, <3>1 DEF SentOnWire
  <2>12. ReturnHonest'
    BY <1>2, <1>4, <2>2, <2>3, <2>7 DEF ReturnHonest, Honest, HonestAt, Settled
  <2>13. HonestResults'
    <3> SUFFICES ASSUME NEW o \in Ops, Settled(o)
                 PROVE  /\ result[o].sent <= OnWire(o)'
                        /\ result[o].outcome = "complete" => OnWire(o)' = len[o]
      BY <1>2 DEF HonestResults, Settled
    <3>1. o # active
      BY <1>4
    <3> QED
      BY <2>5, <3>1 DEF HonestResults
  <2> QED
    BY <2>4, <2>10, <2>11, <2>12, <2>13
<1> QED
  BY <1>3, <1>4

LEMMA DrainResumesWire ==
  ASSUME IInv, WireInv, DrainResumes
  PROVE  WireInv'
<1> USE DEF IInv, WireInv
<1>1. /\ pc = "returned" /\ Settle({active}, [o \in Ops |-> ret])
      /\ UNCHANGED <<next, len, sent, wire>>
  BY DEF DrainResumes
<1>2. active \in Ops /\ active # None
  BY <1>1, Tickets DEF QueueIsServed, TypeOK
<1>3. \A o : OnWire(o)' = OnWire(o)
  BY <1>1 DEF OnWire
<1>4. \A o \in Ops : \/ result'[o] = result[o]
                     \/ o = active /\ result'[o] = ret
  BY <1>1 DEF Settle
<1>5. WireInOrder' /\ \A o \in Ops : sent'[o] <= OnWire(o)'
  BY <1>1, <1>3 DEF WireInOrder, SentOnWire
<1>6. HonestResults'
  BY <1>1, <1>3, <1>4 DEF HonestResults, ReturnHonest, Honest, Settled
<1>7. CASE queue = <<>>
  <2>1. active' = None /\ pc' = "off"
    BY <1>7 DEF DrainResumes
  <2> QED
    BY <1>1, <1>5, <1>6, <2>1 DEF WireBehind, CallContinues, SentOnWire, ReturnHonest
<1>8. CASE queue # <<>>
  <2>1. StartNext(queue, len)
    BY <1>8 DEF DrainResumes
  <2>2. Head(queue) = queue[1] /\ 1 \in DOMAIN queue
    BY <1>8 DEF TypeOK
  <2>3. active' = queue[1] /\ HonestAt(0, len[queue[1]])
    BY <2>1, <2>2, StartNextHonest DEF StartNext
  <2>4. /\ queue[1] \in Ops /\ queue[1] # active /\ active < queue[1] /\ queue[1] \in Nat
        /\ OnWire(queue[1]) = 0 /\ sent[queue[1]] = 0 /\ ~Settled(queue[1])
    BY <2>2, NotYetOnWire, Tickets DEF QueueIsServed, KnownTickets
  <2>5. \A j \in DOMAIN wire : wire[j][1] < queue[1]
    BY <1>2, <2>4, WireBytes, Tickets DEF WireBehind
  <2>6. result'[queue[1]] = NoResult
    BY <1>4, <2>4 DEF Settled
  <2>7. ASSUME NEW o \in Ops, o = queue[1]
        PROVE  /\ CallContinues' /\ ReturnHonest'
               /\ pc' = "driver" => OnWire(active)' = sent'[active']
    BY <1>1, <2>3, <2>4, <2>5, <2>6, <2>7, StartsClean DEF Settled
  <2>8. WireBehind'
    BY <1>1, <2>3, <2>4, <2>5, WireBytes DEF WireBehind
  <2> QED
    BY <1>5, <1>6, <2>4, <2>7, <2>8 DEF SentOnWire
<1> QED
  BY <1>7, <1>8

\* What is on the line, what sentBytes counts and what the callers were told agree
\* in every state.
THEOREM WireInvariance == Spec => []WireInv
<1>1. IInv /\ WireInv /\ [Next]_vars => WireInv'
  <2> SUFFICES ASSUME IInv, WireInv, [Next]_vars
               PROVE  WireInv'
    OBVIOUS
  <2>1. CASE UNCHANGED vars
    BY <2>1, WireUntouched DEF vars
  <2>2. ASSUME NEW w \in Waiters, WaitForIdle(w) \/ AbortWait(w)
        PROVE  WireInv'
    BY <2>2, WireUntouched DEF WaitForIdle, AbortWait
  <2>3. CASE ShutdownCompleted
    BY <2>3, WireUntouched DEF ShutdownCompleted
  <2>4. CASE Callers
    BY <2>2, <2>4, EnqueueRefusedWire, EnqueueAdmittedWire, ShutdownWire DEF Callers
  <2>5. CASE ShutdownEnds
    BY <2>3, <2>5, ShutdownTimeoutWire DEF ShutdownEnds
  <2>6. CASE Driver
    BY <2>6, DriverFailsWire, DriverWroteWire DEF Driver
  <2>7. CASE DrainResumes
    BY <2>7, DrainResumesWire
  <2> QED
    BY <2>1, <2>4, <2>5, <2>6, <2>7 DEF Next
<1> QED
  BY InitWire, <1>1, Invariance, PTL DEF Spec

\* Payloads reach the line in the order they were enqueued, each as a prefix of
\* itself, however the driver fails and whenever shutdown() comes.
THEOREM LineInOrder == Spec => []WireInOrder
BY WireInvariance, PTL DEF WireInv

\* No caller is told of a byte that the line has not seen, and "complete" only of a
\* payload that is on the line to its last byte.
THEOREM ResultsHonest == Spec => []HonestResults
BY WireInvariance, PTL DEF WireInv
=============================================================================
