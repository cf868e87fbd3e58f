--------------------------- MODULE AutoLog_proofs ---------------------------
(***************************************************************************)
(* Proofs about AutoLog: the session shows the log that accepts frames, no *)
(* accepted frame is lost unreported, and prepareShutdown() is honest.     *)
(*                                                                         *)
(* The inductive invariant has a part for each log on its own (its state   *)
(* is consistent, its file, its batch and its queue are consecutive parts  *)
(* of what it accepted, and its end in the backend is the end the renderer *)
(* takes it for) and a part that ties the calls to the logs they wait for. *)
(***************************************************************************)
EXTENDS AutoLog, SequenceTheorems, WellFoundedInduction, TLAPS

Frames == 1..MaxFrames

CallType ==
  [pc : {"idle", "choosing", "draining", "drained", "begin", "begun", "ended", "failed"},
   generation : Nat, log : Logs \cup {NoLog}]

StateType ==
  [queue : Seq(Frames), batch : Seq(Frames), accepting : BOOLEAN,
   mode : {"none", "graceful", "abort"},
   warned : {"no", "overflow", "append-failure", "drain-timeout"}, failed : BOOLEAN,
   worker : {"none", "due", "append", "terminal"}, debounce : BOOLEAN,
   terminal : {"none", "finish", "abort", "settled"}]

BackendType ==
  [session : {"none", "open", "closed"}, file : Seq(Frames),
   append : {"none", "sent", "written", "refused"}, batch : Seq(Frames),
   terminal : {"none", "finish", "abort", "done", "refused"}, complete : BOOLEAN]

TypeOK ==
  /\ generation \in Nat /\ frames \in 0..MaxFrames
  /\ current \in Logs \cup {NoLog} /\ target \in Logs \cup {NoLog}
  /\ call \in [Calls -> CallType]
  /\ state \in [Logs -> StateType] /\ backend \in [Logs -> BackendType]
  /\ accepted \in [Logs -> Seq(Frames)]
  /\ covered \in [Strict -> [Logs -> Seq(Frames)]]

-----------------------------------------------------------------------------
(* One log.                                                                *)

\* The state of a log is one its worker can be in.
StateOK(s) ==
  /\ s.accepting => s.mode = "none"
  /\ s.mode = "none" => s.terminal = "none"
  /\ s.mode = "abort" <=> s.warned # "no"
  /\ s.mode = "abort" => s.queue = <<>>
  /\ s.terminal # "none" => s.queue = <<>>
  /\ s.worker = "append" <=> s.batch # <<>>
  /\ s.worker = "terminal" => s.terminal \in {"finish", "abort"}
  /\ s.worker = "append" /\ s.terminal # "none" => s.mode = "abort"
  /\ s.terminal = "abort" => s.mode = "abort"
  /\ s.queue # <<>> => s.debounce \/ s.worker # "none"
  /\ s.debounce => s.mode = "none"
  /\ s.warned \in {"append-failure", "drain-timeout"} => s.failed

\* Part p is what t holds behind its first k elements.
LiesAt(p, t, k) ==
  /\ k \in Nat /\ k + Len(p) <= Len(t)
  /\ \A i \in 1..Len(p) : p[i] = t[k + i]

\* The file is a prefix of what was accepted, also after the append that is on
\* its way; while the log is not aborted, file, batch and queue are all of it.
DataOK(s, b, a) ==
  /\ LiesAt(b.file, a, 0)
  /\ b.append = "sent" => LiesAt(b.batch, a, Len(b.file))
  /\ s.worker = "append" => b.append # "none" /\ b.batch = s.batch
  /\ s.mode # "abort" =>
       LET base == Len(a) - Len(s.queue)
       IN /\ LiesAt(s.queue, a, base)
          /\ LiesAt(s.batch, a, base - Len(s.batch))
          /\ base - Len(s.batch) <= Len(b.file) /\ Len(b.file) <= base
          /\ b.append = "sent" => s.worker = "append" /\ Len(b.file) = base - Len(s.batch)
          /\ b.append = "written" => Len(b.file) = base

\* The log has ended in the backend the way the renderer believes.
EndOK(s, b) ==
  /\ b.terminal = "finish" => s.terminal # "none"
  /\ b.complete => b.terminal = "done" /\ s.terminal # "none"
  /\ s.terminal = "finish" =>
       b.terminal \in {"finish", "done", "refused"} /\ (b.terminal = "done" => b.complete)
  /\ s.terminal = "settled" /\ ~s.failed => s.mode = "abort" \/ b.complete

\* Accepted frames are numbered in order, none beyond the last one.
Ordered(a, n) ==
  /\ \A i, j \in 1..Len(a) : i < j => a[i] < a[j]
  /\ \A i \in 1..Len(a) : a[i] <= n

LogOK(s, b, a, n) == StateOK(s) /\ DataOK(s, b, a) /\ EndOK(s, b) /\ Ordered(a, n)

LogsOK == \A l \in Logs : LogOK(state[l], backend[l], accepted[l], frames)

-----------------------------------------------------------------------------
(* Calls and logs.                                                         *)

\* Before its call has ended a log is as it was created, but for the backend's session.
NotBegun ==
  \A l \in Logs : call[l].pc # "ended" =>
    /\ state[l] = NewState /\ accepted[l] = <<>>
    /\ backend[l] = [NewBackend EXCEPT !.session = backend[l].session]

\* One enable() at most is current, and it runs only while no other log is installed.
OneCurrent ==
  /\ \A c \in Calls : call[c].generation <= generation
  /\ \A e, f \in Enables :
       IsCurrent(e) /\ IsCurrent(f) /\ call[e].pc # "idle" /\ call[f].pc # "idle" => e = f
  /\ \A e \in Enables : IsCurrent(e) =>
       /\ call[e].pc = "draining" => current \in {call[e].log, NoLog}
       /\ call[e].pc \in {"drained", "begin", "begun"} => current = NoLog

\* A call waits for a log that has begun and is being shut down.
WaitsForLog ==
  /\ current # NoLog => call[current].pc = "ended" /\ state[current].terminal # "settled"
  /\ \A c \in Calls :
       /\ call[c].pc = "idle" => call[c].log = NoLog
       /\ call[c].pc \in {"draining", "drained"} => call[c].log # NoLog
       /\ call[c].log # NoLog =>
            call[call[c].log].pc = "ended" /\ state[call[c].log].mode # "none"

\* A log that is no longer installed is settled, aborted, or never held a frame.
LeftSettled ==
  \A l \in Logs : l # current /\ state[l].mode # "abort" =>
    accepted[l] = <<>> \/ state[l].terminal = "settled"

\* What a strict call found is accounted for.
StrictCovered ==
  \A c \in Strict :
    /\ call[c].pc = "drained" => state[call[c].log].terminal = "settled" \/ state[call[c].log].failed
    /\ \A l \in Logs :
         /\ LiesAt(covered[c][l], accepted[l], 0)
         /\ call[c].pc # "idle" /\ call[c].log # l =>
              LiesAt(covered[c][l], backend[l].file, 0) \/ state[l].warned # "no"

StrictHonest ==
  \A c \in Strict : \A l \in Logs : call[c].pc = "ended" /\ call[c].log = l =>
    \/ LiesAt(covered[c][l], backend[l].file, 0) /\ backend[l].complete
    \/ state[l].warned = "overflow"

CallsInv == NotBegun /\ OneCurrent /\ WaitsForLog /\ TargetIsTrue /\ LeftSettled

IInv == TypeOK /\ LogsOK /\ CallsInv /\ StrictCovered /\ StrictHonest

-----------------------------------------------------------------------------
(* Parts of sequences.                                                     *)

\* Facts about the lengths and elements of sequences of frames.
LEMMA SeqFacts ==
  ASSUME NEW q \in Seq(Frames)
  PROVE  /\ Len(q) \in Nat /\ DOMAIN q = 1..Len(q)
         /\ \A i \in 1..Len(q) : q[i] \in Frames
         /\ q # <<>> <=> Len(q) > 0
BY EmptySeq, LenProperties, ElementOfSeq

LEMMA NoFrames == <<>> \in Seq(Frames) /\ Len(<<>>) = 0
BY EmptySeq

\* The empty sequence lies everywhere.
LEMMA EmptyLies ==
  ASSUME NEW a \in Seq(Frames), NEW k \in 0..Len(a)
  PROVE  LiesAt(<<>>, a, k)
BY NoFrames, SeqFacts DEF LiesAt

\* A part of a part is a part.
LEMMA PartOfPart ==
  ASSUME NEW q \in Seq(Frames), NEW a \in Seq(Frames), NEW k, LiesAt(q, a, k),
         NEW i \in 0..Len(q), NEW j \in i..Len(q)
  PROVE  /\ SubSeq(q, i + 1, j) \in Seq(Frames) /\ Len(SubSeq(q, i + 1, j)) = j - i
         /\ LiesAt(SubSeq(q, i + 1, j), a, k + i)
<1> DEFINE p == SubSeq(q, i + 1, j)
<1>1. Len(q) \in Nat /\ Len(a) \in Nat /\ i \in Nat /\ j \in Nat /\ k \in Nat /\ i <= j /\ j <= Len(q)
      /\ k + Len(q) <= Len(a)
  BY SeqFacts DEF LiesAt
<1>2. \A m \in (i + 1)..j : q[m] \in Frames
  BY <1>1, SeqFacts
<1>3. /\ p \in Seq(Frames)
      /\ Len(p) = IF i + 1 <= j THEN j - (i + 1) + 1 ELSE 0
      /\ \A m \in 1..(j - (i + 1) + 1) : p[m] = q[i + 1 + m - 1]
  <2>1. i + 1 \in Int /\ j \in Int
    BY <1>1
  <2> QED BY <2>1, <1>2, SubSeqProperties
<1> HIDE DEF p
<1>4. Len(p) = j - i
  BY <1>1, <1>3
<1>5. ASSUME NEW m \in 1..Len(p) PROVE p[m] = a[k + i + m]
  <2>1. p[m] = q[i + m] /\ i + m \in 1..Len(q)
    BY <1>1, <1>3, <1>4
  <2>2. q[i + m] = a[k + (i + m)]
    BY <2>1 DEF LiesAt
  <2> QED BY <2>1, <2>2, <1>1, <1>4
<1> QED BY <1>1, <1>3, <1>4, <1>5 DEF LiesAt, p

\* What lies in a sequence still lies there when it grows.
LEMMA LiesAppend ==
  ASSUME NEW q \in Seq(Frames), NEW a \in Seq(Frames), NEW f \in Frames, NEW k, LiesAt(q, a, k)
  PROVE  LiesAt(q, Append(a, f), k)
BY AppendProperties, SeqFacts DEF LiesAt

LEMMA LiesConcat ==
  ASSUME NEW q \in Seq(Frames), NEW a \in Seq(Frames), NEW r \in Seq(Frames), NEW k, LiesAt(q, a, k)
  PROVE  LiesAt(q, a \o r, k)
BY ConcatProperties, SeqFacts DEF LiesAt

\* Two consecutive parts are one part.
LEMMA Joined ==
  ASSUME NEW p \in Seq(Frames), NEW q \in Seq(Frames), NEW a \in Seq(Frames), NEW k,
         LiesAt(p, a, k), LiesAt(q, a, k + Len(p))
  PROVE  LiesAt(p \o q, a, k)
<1>1. Len(p) \in Nat /\ Len(q) \in Nat /\ Len(a) \in Nat /\ k \in Nat /\ Len(p \o q) = Len(p) + Len(q)
  BY ConcatProperties, SeqFacts DEF LiesAt
<1>2. ASSUME NEW i \in 1..Len(p \o q) PROVE (p \o q)[i] = a[k + i]
  <2>1. CASE i <= Len(p)
    BY <1>1, <2>1, ConcatProperties DEF LiesAt
  <2>2. CASE i > Len(p)
    <3>1. (p \o q)[i] = q[i - Len(p)] /\ i - Len(p) \in 1..Len(q)
      BY <1>1, <2>2, ConcatProperties
    <3>2. q[i - Len(p)] = a[k + Len(p) + (i - Len(p))]
      BY <3>1 DEF LiesAt
    <3> QED BY <1>1, <3>1, <3>2
  <2> QED BY <1>1, <2>1, <2>2
<1> QED BY <1>1, <1>2 DEF LiesAt

\* A sequence that lies at the head of another is its prefix.
LEMMA LiesIsPrefix ==
  ASSUME NEW p \in Seq(Frames), NEW a \in Seq(Frames), LiesAt(p, a, 0)
  PROVE  IsPrefix(p, a)
<1>1. Len(p) \in Nat /\ Len(a) \in Nat /\ Len(p) <= Len(a)
  BY SeqFacts DEF LiesAt
<1>2. \A i \in 1..Len(p) : p[i] \in Frames /\ a[i] \in Frames /\ p[i] = a[i]
  BY <1>1, SeqFacts DEF LiesAt
<1>3. 1 \in Int /\ Len(p) \in Int
  BY <1>1
<1>4. /\ SubSeq(a, 1, Len(p)) \in Seq(Frames)
      /\ Len(SubSeq(a, 1, Len(p))) = IF 1 <= Len(p) THEN Len(p) - 1 + 1 ELSE 0
      /\ \A i \in 1..(Len(p) - 1 + 1) : SubSeq(a, 1, Len(p))[i] = a[1 + i - 1]
  BY <1>2, <1>3, SubSeqProperties
<1>5. SubSeq(a, 1, Len(p)) = p
  <2> DEFINE t == SubSeq(a, 1, Len(p))
  <2> HIDE DEF t
  <2>1. t \in Seq(Frames) /\ Len(t) = Len(p) /\ \A i \in 1..Len(p) : t[i] = p[i]
    BY <1>1, <1>2, <1>4 DEF t
  <2>2. t = p
    BY <2>1, SeqEqual
  <2> QED BY <2>2 DEF t
<1>6. SubSeq(p, 1, Len(p)) = p
  BY SubSeqFull
<1> QED BY <1>1, <1>5, <1>6 DEF IsPrefix

\* A part at the head of a part at the head.
LEMMA LiesTransitive ==
  ASSUME NEW p \in Seq(Frames), NEW q \in Seq(Frames), NEW a \in Seq(Frames),
         LiesAt(p, q, 0), LiesAt(q, a, 0)
  PROVE  LiesAt(p, a, 0)
BY SeqFacts DEF LiesAt

\* If all of t is at the head of the longer q, whatever lies in t lies in q.
LEMMA LiesCovers ==
  ASSUME NEW p \in Seq(Frames), NEW q \in Seq(Frames), NEW a \in Seq(Frames),
         LiesAt(p, a, 0), LiesAt(q, a, 0), Len(q) = Len(a)
  PROVE  LiesAt(p, q, 0)
BY SeqFacts DEF LiesAt

-----------------------------------------------------------------------------
(* takeNextBatch() takes a batch.                                          *)

LEMMA BatchLengthInRange ==
  ASSUME NEW q \in Seq(Frames), q # <<>>
  PROVE  BatchLength(q) \in 1..Len(q)
<1> DEFINE Fits(k) == k = 1 \/ (k <= MaxBatchFrames /\ RawBytes(SubSeq(q, 1, k)) <= MaxBatchBytes)
           T == {n \in 1..Len(q) : n < Len(q) => ~Fits(n + 1)}
           Good(n) == Fits(n) /\ (n < Len(q) => ~Fits(n + 1))
<1>1. Len(q) \in Nat /\ Len(q) > 0
  BY SeqFacts
<1> HIDE DEF Fits
<1>2. T \subseteq Nat /\ Len(q) \in T
  BY <1>1
<1>3. \E n \in T : \A m \in T : ~(<<m, n>> \in OpToRel(<, Nat))
  <2> HIDE DEF T
  <2> QED BY <1>2, NatLessThanWellFounded, WFMin
<1>4. PICK n \in T : \A m \in T : ~(<<m, n>> \in OpToRel(<, Nat))
  BY <1>3
<1>5. \A m \in T : ~(m < n)
  <2> SUFFICES ASSUME NEW m \in T, m < n PROVE FALSE
    OBVIOUS
  <2>1. m \in Nat /\ n \in Nat
    BY <1>1
  <2> QED BY <2>1, <1>4 DEF OpToRel
<1>6. Fits(n)
  <2>1. CASE n = 1
    BY <2>1 DEF Fits
  <2>2. CASE n # 1
    <3>1. n - 1 \in 1..Len(q) /\ n - 1 < n /\ n - 1 < Len(q) /\ n - 1 + 1 = n
      BY <1>1, <2>2
    <3>2. n - 1 \notin T
      BY <1>5, <3>1
    <3>3. Fits(n - 1 + 1)
      BY <3>1, <3>2
    <3> QED BY <3>1, <3>3
  <2> QED BY <2>1, <2>2
<1>7. n \in 1..Len(q) /\ Good(n)
  BY <1>6
<1>8. BatchLength(q) = CHOOSE m \in 1..Len(q) : Good(m)
  BY DEF BatchLength, Fits
<1> HIDE DEF Good
<1> QED BY <1>7, <1>8

-----------------------------------------------------------------------------
(* What the renderer does to a log.                                        *)

\* Sent() of a log whose state was s and whose backend is b.
SentOf(s, b, t) ==
  [b EXCEPT !.append = IF t.worker = "append" /\ s.batch # t.batch THEN "sent" ELSE @,
            !.batch = IF t.worker = "append" THEN t.batch ELSE @,
            !.terminal = IF s.terminal = "none" THEN t.terminal ELSE @]

LEMMA SentIs ==
  ASSUME NEW l \in Logs, NEW t
  PROVE  Sent(l, t) = SentOf(state[l], backend[l], t)
BY DEF Sent, SentOf

\* What no step takes back: a log from state s and backend b to t and c.
Grows(s, b, t, c) ==
  /\ s.mode # "none" => t.mode # "none"
  /\ s.mode = "abort" => t.mode = "abort"
  /\ s.warned # "no" => t.warned = s.warned
  /\ s.terminal = "settled" => t.terminal = "settled"
  /\ s.failed => t.failed
  /\ b.complete => c.complete
  /\ LiesAt(b.file, c.file, 0)

LEMMA LiesSelf ==
  ASSUME NEW q \in Seq(Frames)
  PROVE  LiesAt(q, q, 0)
BY SeqFacts DEF LiesAt

\* The log has moved to a consistent state.
Moved(s, b, t, c, a, n) ==
  t \in StateType /\ c \in BackendType /\ LogOK(t, c, a, n) /\ Grows(s, b, t, c)

\* A step keeps the data of a log if it leaves its queue, its batch and its append alone.
LEMMA SameData ==
  ASSUME NEW s \in StateType, NEW b \in BackendType, NEW a, NEW t \in StateType, NEW c \in BackendType,
         DataOK(s, b, a), t.queue = s.queue, t.batch = s.batch,
         t.worker = "append" <=> s.worker = "append", t.mode # "abort" => s.mode # "abort",
         c.file = b.file, c.append = b.append, c.batch = b.batch
  PROVE  DataOK(t, c, a)
BY DEF DataOK

LEMMA EnsureWorkerOK ==
  ASSUME NEW s \in StateType, NEW b \in BackendType, NEW a, NEW n, LogOK(s, b, a, n)
  PROVE  LET t == EnsureWorker(s)
         IN /\ Moved(s, b, t, SentOf(s, b, t), a, n)
            /\ t.accepting = s.accepting /\ t.mode = s.mode /\ t.terminal = s.terminal
            /\ t.worker # "none"
<1> DEFINE t == EnsureWorker(s)
           c == SentOf(s, b, t)
<1>1. /\ t \in StateType /\ t.queue = s.queue /\ t.batch = s.batch /\ t.accepting = s.accepting
      /\ t.mode = s.mode /\ t.warned = s.warned /\ t.failed = s.failed /\ t.debounce = FALSE
      /\ t.worker = IF s.worker = "none" THEN "due" ELSE s.worker
      /\ t.terminal = s.terminal
  BY DEF EnsureWorker, StateType
<1> HIDE DEF t
<1>2. /\ c \in BackendType /\ c.file = b.file /\ c.complete = b.complete /\ c.append = b.append
      /\ c.batch = IF t.worker = "append" THEN t.batch ELSE b.batch
      /\ c.terminal = IF s.terminal = "none" THEN s.terminal ELSE b.terminal
  BY <1>1 DEF SentOf, StateType, BackendType
<1> HIDE DEF c
<1>3. StateOK(t)
  BY <1>1 DEF LogOK, StateOK, StateType
<1>4. c.batch = b.batch
  BY <1>1, <1>2 DEF LogOK, DataOK
<1>5. DataOK(t, c, a)
  BY <1>1, <1>2, <1>4, SameData DEF LogOK
<1>6. EndOK(t, c)
  BY <1>1, <1>2 DEF LogOK, EndOK
<1>7. Grows(s, b, t, c)
  BY <1>1, <1>2, LiesSelf DEF Grows, BackendType
<1> QED BY <1>1, <1>2, <1>3, <1>5, <1>6, <1>7 DEF LogOK, Moved, t, c

\* Abandoning a log: its queue is dropped, its append may still be on its way.
LEMMA MarkAbortedFields ==
  ASSUME NEW s \in StateType, NEW reason \in {"overflow", "append-failure", "drain-timeout"}
  PROVE  LET t == MarkAborted(s, reason)
         IN /\ t \in StateType /\ t.queue = <<>> /\ t.batch = s.batch /\ ~t.accepting
            /\ t.mode = "abort" /\ ~t.debounce /\ t.failed = s.failed /\ t.worker = s.worker
            /\ t.terminal = s.terminal /\ t.warned = IF s.warned = "no" THEN reason ELSE s.warned
BY NoFrames DEF MarkAborted, StateType

LEMMA OverflowOK ==
  ASSUME NEW s \in StateType, NEW b \in BackendType, NEW a \in Seq(Frames), NEW n, NEW f \in Frames,
         LogOK(s, b, a, n), s.accepting, Ordered(Append(a, f), f)
  PROVE  LET t == EnsureWorker(MarkAborted(s, "overflow"))
         IN /\ Moved(s, b, t, SentOf(s, b, t), Append(a, f), f)
            /\ ~t.accepting /\ t.mode = "abort" /\ t.terminal = s.terminal
<1> DEFINE m == MarkAborted(s, "overflow")
           t == EnsureWorker(m)
           c == SentOf(s, b, t)
<1>1. /\ m \in StateType /\ m.queue = <<>> /\ m.batch = s.batch /\ ~m.accepting
      /\ m.mode = "abort" /\ ~m.debounce /\ m.failed = s.failed /\ m.worker = s.worker
      /\ m.terminal = s.terminal /\ m.warned = IF s.warned = "no" THEN "overflow" ELSE s.warned
  BY MarkAbortedFields
<1> HIDE DEF m
<1>2. /\ t \in StateType /\ t.queue = <<>> /\ t.batch = s.batch /\ ~t.accepting
      /\ t.mode = "abort" /\ ~t.debounce /\ t.failed = s.failed
      /\ t.worker = (IF s.worker = "none" THEN "due" ELSE s.worker)
      /\ t.terminal = s.terminal /\ t.warned = IF s.warned = "no" THEN "overflow" ELSE s.warned
  BY <1>1 DEF EnsureWorker, StateType
<1> HIDE DEF t
<1>3. /\ c \in BackendType /\ c.file = b.file /\ c.complete = b.complete /\ c.append = b.append
      /\ c.batch = IF t.worker = "append" THEN t.batch ELSE b.batch
      /\ c.terminal = IF s.terminal = "none" THEN s.terminal ELSE b.terminal
  BY <1>2 DEF SentOf, StateType, BackendType
<1> HIDE DEF c
<1>4. StateOK(t)
  BY <1>2 DEF LogOK, StateOK, StateType
<1>5. c.batch = b.batch
  BY <1>2, <1>3 DEF LogOK, DataOK
<1>6. DataOK(t, c, Append(a, f))
  <2>1. LiesAt(c.file, Append(a, f), 0)
    BY <1>3, LiesAppend DEF LogOK, DataOK, BackendType
  <2>2. c.append = "sent" => LiesAt(c.batch, Append(a, f), Len(c.file))
    BY <1>3, <1>5, LiesAppend DEF LogOK, DataOK, BackendType
  <2>3. t.worker = "append" => c.append # "none" /\ c.batch = t.batch
    BY <1>2, <1>3, <1>5 DEF LogOK, DataOK
  <2> QED BY <2>1, <2>2, <2>3, <1>2 DEF DataOK
<1>7. EndOK(t, c)
  BY <1>2, <1>3 DEF LogOK, EndOK
<1>8. Grows(s, b, t, c)
  BY <1>2, <1>3, LiesSelf DEF Grows, BackendType
<1> QED BY <1>2, <1>3, <1>4, <1>6, <1>7, <1>8 DEF LogOK, Moved, t, c, m

LEMMA QueuedOK ==
  ASSUME NEW s \in StateType, NEW b \in BackendType, NEW a \in Seq(Frames), NEW n, NEW f \in Frames,
         LogOK(s, b, a, n), s.accepting, Ordered(Append(a, f), f)
  PROVE  LET t == Queued(s, f)
         IN /\ Moved(s, b, t, SentOf(s, b, t), Append(a, f), f)
            /\ t.accepting /\ t.mode = s.mode /\ t.terminal = s.terminal
<1> DEFINE q == [s EXCEPT !.queue = Append(@, f)]
           t == Queued(s, f)
           c == SentOf(s, b, t)
           r == Append(a, f)
<1>1. s.queue \in Seq(Frames) /\ Append(s.queue, f) \in Seq(Frames) /\ Append(s.queue, f) # <<>>
  BY AppendProperties DEF StateType
<1>2. /\ q \in StateType /\ q.queue = Append(s.queue, f) /\ q.batch = s.batch /\ q.accepting
      /\ q.mode = s.mode /\ q.warned = s.warned /\ q.failed = s.failed /\ q.worker = s.worker
      /\ q.debounce = s.debounce /\ q.terminal = s.terminal
  BY <1>1 DEF StateType
<1>3. t = EnsureWorker(q) \/ t = ArmDebounce(q)
  BY DEF Queued
<1> HIDE DEF q, t
<1>4. /\ t \in StateType /\ t.queue = Append(s.queue, f) /\ t.batch = s.batch /\ t.accepting
      /\ t.mode = s.mode /\ t.warned = s.warned /\ t.failed = s.failed
      /\ t.terminal = s.terminal /\ (t.worker = "append" <=> s.worker = "append")
      /\ (t.worker = "terminal" <=> s.worker = "terminal") /\ (t.debounce \/ t.worker # "none")
  <2>1. CASE t = EnsureWorker(q)
    BY <2>1, <1>2 DEF EnsureWorker, StateType
  <2>2. CASE t = ArmDebounce(q)
    BY <2>2, <1>2 DEF ArmDebounce, StateType
  <2> QED BY <1>3, <2>1, <2>2
<1>5. s.mode = "none" /\ s.terminal = "none"
  BY DEF LogOK, StateOK
<1>6. StateOK(t)
  BY <1>1, <1>4, <1>5 DEF LogOK, StateOK, StateType
<1>7. /\ c \in BackendType /\ c.file = b.file /\ c.complete = b.complete /\ c.append = b.append
      /\ c.batch = IF t.worker = "append" THEN t.batch ELSE b.batch
      /\ c.terminal = s.terminal
  BY <1>4, <1>5 DEF SentOf, StateType, BackendType
<1>8. c.batch = b.batch
  BY <1>4, <1>7 DEF LogOK, DataOK
<1> HIDE DEF c
<1>9. DataOK(t, c, r)
  <2> DEFINE base == Len(a) - Len(s.queue)
  <2>1. /\ Len(a) \in Nat /\ Len(s.queue) \in Nat /\ Len(s.batch) \in Nat /\ Len(b.file) \in Nat
        /\ Len(r) = Len(a) + 1 /\ Len(t.queue) = Len(s.queue) + 1
    BY <1>1, <1>4, SeqFacts, AppendProperties DEF StateType, BackendType
  <2>2. Len(r) - Len(t.queue) = base
    BY <2>1
  <2>3. LiesAt(c.file, r, 0) /\ (c.append = "sent" => LiesAt(c.batch, r, Len(c.file)))
    BY <1>7, <1>8, LiesAppend DEF LogOK, DataOK, BackendType
  <2>4. LiesAt(s.queue, a, base) /\ LiesAt(s.batch, a, base - Len(s.batch))
    BY <1>5 DEF LogOK, DataOK
  <2>5. LiesAt(t.batch, r, base - Len(t.batch))
    BY <2>4, <1>4, LiesAppend DEF StateType
  <2>9. /\ base \in Nat /\ Len(a) = base + Len(s.queue)
        /\ r[Len(a) + 1] = f /\ \A i \in 1..Len(a) : r[i] = a[i]
    BY <2>1, <2>4, AppendProperties DEF LiesAt
  <2>10. /\ t.queue[Len(s.queue) + 1] = f
         /\ \A i \in 1..Len(s.queue) : t.queue[i] = s.queue[i]
    BY <1>1, <1>4, AppendProperties
  <2> HIDE DEF r, base
  <2>6. LiesAt(t.queue, r, base)
    <3>1. base \in Nat /\ base + Len(t.queue) <= Len(r)
      BY <2>1, <2>9
    <3>2. ASSUME NEW i \in 1..Len(t.queue) PROVE t.queue[i] = r[base + i]
      <4>1. CASE i = Len(t.queue)
        <5>1. base + i = Len(a) + 1 /\ i = Len(s.queue) + 1
          BY <4>1, <2>1, <2>9
        <5> QED BY <5>1, <2>9, <2>10
      <4>2. CASE i # Len(t.queue)
        <5>1. i \in 1..Len(s.queue) /\ base + i \in 1..Len(a)
          BY <4>2, <2>1, <2>9
        <5> QED BY <5>1, <2>4, <2>9, <2>10 DEF LiesAt
      <4> QED BY <4>1, <4>2
    <3> QED BY <3>1, <3>2 DEF LiesAt
  <2>7. t.worker = "append" => c.append # "none" /\ c.batch = t.batch
    BY <1>4, <1>7, <1>8 DEF LogOK, DataOK
  <2>8. /\ base - Len(t.batch) <= Len(c.file) /\ Len(c.file) <= base
        /\ c.append = "sent" => t.worker = "append" /\ Len(c.file) = base - Len(t.batch)
        /\ c.append = "written" => Len(c.file) = base
    BY <1>4, <1>5, <1>7 DEF LogOK, DataOK, base
  <2> QED BY <2>2, <2>3, <2>5, <2>6, <2>7, <2>8 DEF DataOK
<1>10. EndOK(t, c)
  BY <1>4, <1>5, <1>7 DEF LogOK, EndOK
<1>11. Grows(s, b, t, c)
  BY <1>4, <1>7, LiesSelf DEF Grows, BackendType
<1> QED BY <1>4, <1>6, <1>7, <1>9, <1>10, <1>11 DEF LogOK, Moved, t, c

\* The synchronous part of a shutdown.
LEMMA ShutdownOK ==
  ASSUME NEW s \in StateType, NEW b \in BackendType, NEW a, NEW n, LogOK(s, b, a, n)
  PROVE  LET t == ShutdownState(s)
         IN /\ Moved(s, b, t, SentOf(s, b, t), a, n)
            /\ ~t.accepting /\ t.mode # "none" /\ t.terminal = s.terminal
<1> DEFINE t == ShutdownState(s)
           c == SentOf(s, b, t)
<1>1. /\ t \in StateType /\ t.queue = s.queue /\ t.batch = s.batch /\ ~t.accepting
      /\ t.mode = (IF s.mode = "none" THEN "graceful" ELSE s.mode)
      /\ t.warned = s.warned /\ t.failed = s.failed /\ t.debounce = FALSE
      /\ t.worker = (IF s.worker = "none" THEN "due" ELSE s.worker)
      /\ t.terminal = s.terminal
  BY DEF ShutdownState, EnsureWorker, StateType
<1> HIDE DEF t
<1>2. /\ c \in BackendType /\ c.file = b.file /\ c.complete = b.complete /\ c.append = b.append
      /\ c.batch = IF t.worker = "append" THEN t.batch ELSE b.batch
      /\ c.terminal = IF s.terminal = "none" THEN s.terminal ELSE b.terminal
  BY <1>1 DEF SentOf, StateType, BackendType
<1> HIDE DEF c
<1>3. StateOK(t)
  BY <1>1 DEF LogOK, StateOK, StateType
<1>4. c.batch = b.batch
  BY <1>1, <1>2 DEF LogOK, DataOK
<1>5. DataOK(t, c, a)
  BY <1>1, <1>2, <1>4, SameData DEF LogOK
<1>6. EndOK(t, c)
  BY <1>1, <1>2 DEF LogOK, EndOK
<1>7. Grows(s, b, t, c)
  BY <1>1, <1>2, LiesSelf DEF Grows, BackendType
<1> QED BY <1>1, <1>2, <1>3, <1>5, <1>6, <1>7 DEF LogOK, Moved, t, c

-----------------------------------------------------------------------------
(* The worker of a log.                                                    *)

\* drainState() does not look at where its worker is.
LEMMA DrainOnDue ==
  ASSUME NEW x \in StateType
  PROVE  DrainOn(x) = DrainOn([x EXCEPT !.worker = "due"])
<1> DEFINE y == [x EXCEPT !.worker = "due"]
<1>1. /\ y.queue = x.queue /\ y.mode = x.mode /\ y.terminal = x.terminal
  BY DEF StateType
<1>2. CASE x.queue # <<>> /\ x.mode # "abort"
  <2> DEFINE n == BatchLength(x.queue)
  <2>1. DrainOn(x) = [x EXCEPT !.batch = SubSeq(x.queue, 1, n),
                               !.queue = SubSeq(x.queue, n + 1, Len(x.queue)), !.worker = "append"]
    BY <1>2 DEF DrainOn
  <2>2. DrainOn(y) = [y EXCEPT !.batch = SubSeq(x.queue, 1, n),
                               !.queue = SubSeq(x.queue, n + 1, Len(x.queue)), !.worker = "append"]
    BY <1>2, <1>1 DEF DrainOn
  <2> QED BY <2>1, <2>2 DEF StateType
<1>3. CASE ~(x.queue # <<>> /\ x.mode # "abort") /\ x.mode = "none"
  BY <1>3, <1>1 DEF DrainOn, StateType
<1>4. CASE ~(x.queue # <<>> /\ x.mode # "abort") /\ x.mode # "none"
  <2> DEFINE w == IF x.terminal = "settled" THEN "none" ELSE "terminal"
             v == IF x.terminal # "none" THEN x.terminal ELSE IF x.mode = "abort" THEN "abort" ELSE "finish"
  <2>1. DrainOn(x) = [TerminalOnce(x) EXCEPT !.worker = w]
    BY <1>4 DEF DrainOn
  <2>2. DrainOn(y) = [TerminalOnce(y) EXCEPT !.worker = w]
    BY <1>4, <1>1 DEF DrainOn
  <2>3. TerminalOnce(x) = [x EXCEPT !.terminal = v] /\ TerminalOnce(y) = [y EXCEPT !.terminal = v]
    BY <1>1 DEF TerminalOnce, StateType
  <2> HIDE DEF w, v
  <2>4. [[x EXCEPT !.terminal = v] EXCEPT !.worker = w] = [[y EXCEPT !.terminal = v] EXCEPT !.worker = w]
    BY DEF StateType
  <2>5. DrainOn(x) = DrainOn(y)
    <3> HIDE DEF y
    <3> QED BY <2>1, <2>2, <2>3, <2>4
  <2> QED BY <2>5, Zenon
<1> QED BY <1>2, <1>3, <1>4

\* A log whose worker is due drains on: a next batch, a rest or its end.  Here y is the
\* log's state with the last batch accounted for, and s the one before.
LEMMA DrainOnOK ==
  ASSUME NEW s \in StateType, NEW y \in StateType, NEW b \in BackendType, NEW a \in Seq(Frames), NEW n,
         LogOK(y, b, a, n), y.worker = "due", s.terminal = y.terminal,
         s.batch # <<>> /\ y.queue # <<>> /\ y.mode # "abort" => s.batch[1] # y.queue[1]
  PROVE  LET t == DrainOn(y)
         IN /\ t \in StateType /\ LogOK(t, SentOf(s, b, t), a, n) /\ SentOf(s, b, t) \in BackendType
            /\ t.accepting = y.accepting /\ t.mode = y.mode /\ t.warned = y.warned
            /\ t.failed = y.failed /\ (t.terminal = "settled" <=> y.terminal = "settled")
            /\ (t.worker = "none" /\ t.mode # "none" => t.terminal = "settled")
            /\ SentOf(s, b, t).file = b.file /\ SentOf(s, b, t).complete = b.complete
<1> DEFINE t == DrainOn(y)
           c == SentOf(s, b, t)
<1>1. y.batch = <<>>
  BY DEF LogOK, StateOK
<1>2. CASE y.queue # <<>> /\ y.mode # "abort"
  <2> DEFINE k == BatchLength(y.queue)
             base == Len(a) - Len(y.queue)
             front == SubSeq(y.queue, 1, k)
             rest == SubSeq(y.queue, k + 1, Len(y.queue))
  <2>1. y.queue \in Seq(Frames)
    BY DEF StateType
  <2>2. k \in 1..Len(y.queue) /\ Len(y.queue) \in Nat /\ Len(a) \in Nat /\ Len(b.file) \in Nat
    BY <1>2, <2>1, BatchLengthInRange, SeqFacts DEF BackendType
  <2> HIDE DEF k
  <2>3. LiesAt(y.queue, a, base) /\ base \in Nat /\ Len(b.file) = base
    <3>1. /\ LiesAt(y.queue, a, base) /\ LiesAt(y.batch, a, base - Len(y.batch))
          /\ base - Len(y.batch) <= Len(b.file) /\ Len(b.file) <= base
      BY <1>2 DEF LogOK, DataOK
    <3>2. base \in Nat /\ Len(y.batch) = 0
      BY <1>1, <3>1, NoFrames DEF LiesAt
    <3> HIDE DEF base
    <3> QED BY <2>2, <3>1, <3>2
  <2>4. /\ front \in Seq(Frames) /\ Len(front) = k /\ LiesAt(front, a, base)
        /\ rest \in Seq(Frames) /\ Len(rest) = Len(y.queue) - k /\ LiesAt(rest, a, base + k)
    <3>1. SubSeq(y.queue, 0 + 1, k) = front
      BY <2>2
    <3>2. front \in Seq(Frames) /\ Len(front) = k - 0 /\ LiesAt(front, a, base + 0)
      <4>1. 0 \in 0..Len(y.queue) /\ k \in 0..Len(y.queue)
        BY <2>2
      <4> HIDE DEF front, base
      <4> QED BY <3>1, <4>1, <2>1, <2>3, PartOfPart
    <3>3. rest \in Seq(Frames) /\ Len(rest) = Len(y.queue) - k /\ LiesAt(rest, a, base + k)
      <4>1. k \in 0..Len(y.queue) /\ Len(y.queue) \in k..Len(y.queue)
        BY <2>2
      <4> HIDE DEF base
      <4> QED BY <4>1, <2>1, <2>3, PartOfPart
    <3>4. k - 0 = k /\ base + 0 = base
      BY <2>2, <2>3
    <3> QED BY <3>2, <3>3, <3>4
  <2>5. t = [y EXCEPT !.batch = front, !.queue = rest, !.worker = "append"]
    BY <1>2 DEF DrainOn, k
  <2> HIDE DEF t, front, rest
  <2>6. /\ t \in StateType /\ t.queue = rest /\ t.batch = front /\ t.accepting = y.accepting
        /\ t.mode = y.mode /\ t.warned = y.warned /\ t.failed = y.failed
        /\ t.debounce = y.debounce /\ t.worker = "append" /\ t.terminal = y.terminal
    BY <2>4, <2>5 DEF StateType
  <2>7. front # <<>> /\ y.terminal = "none"
    BY <1>2, <2>2, <2>4, SeqFacts DEF LogOK, StateOK
  <2>8. s.batch # front
    <3>1. front[1] = y.queue[1]
      <4>1. front[1] = a[base + 1] /\ y.queue[1] = a[base + 1]
        <5>1. 1 \in 1..Len(front) /\ 1 \in 1..Len(y.queue)
          BY <2>2, <2>4
        <5> HIDE DEF base
        <5> QED BY <5>1, <2>3, <2>4 DEF LiesAt
      <4> QED BY <4>1
    <3> QED BY <1>2, <2>7, <3>1
  <2>9. /\ c \in BackendType /\ c.file = b.file /\ c.complete = b.complete /\ c.append = "sent"
        /\ c.batch = front /\ c.terminal = "none"
    BY <2>4, <2>6, <2>7, <2>8 DEF SentOf, StateType, BackendType
  <2> HIDE DEF c
  <2>10. StateOK(t)
    BY <1>2, <2>6, <2>7 DEF LogOK, StateOK, StateType
  <2>11. DataOK(t, c, a)
    <3>1. Len(a) - Len(t.queue) = base + k /\ (base + k) - Len(t.batch) = base
      <4>1. Len(a) = base + Len(y.queue)
        BY <2>2
      <4> HIDE DEF base
      <4>2. Len(t.queue) = Len(y.queue) - k /\ Len(t.batch) = k
        BY <2>4, <2>6
      <4>3. base \in Nat /\ k \in Nat /\ Len(y.queue) \in Nat
        BY <2>2, <2>3
      <4>4. \A i, j, m \in Nat : (i + j) - (j - m) = i + m /\ (i + m) - m = i
        OBVIOUS
      <4>5. (base + Len(y.queue)) - (Len(y.queue) - k) = base + k /\ (base + k) - k = base
        BY ONLY <4>3, <4>4, Zenon
      <4> QED BY ONLY <4>1, <4>2, <4>5, Zenon
    <3>2. LiesAt(c.file, a, 0)
      BY <2>9 DEF LogOK, DataOK
    <3> HIDE DEF base
    <3>3. base <= Len(c.file) /\ Len(c.file) <= base + k
      BY <2>2, <2>3, <2>9
    <3> QED BY <2>3, <2>4, <2>6, <2>9, <3>1, <3>2, <3>3 DEF DataOK
  <2>12. EndOK(t, c)
    BY <2>6, <2>7, <2>9 DEF LogOK, EndOK
  <2> QED BY <2>6, <2>7, <2>9, <2>10, <2>11, <2>12 DEF LogOK, t, c
<1>3. CASE ~(y.queue # <<>> /\ y.mode # "abort") /\ y.mode = "none"
  <2>1. t = [y EXCEPT !.worker = "none"] /\ y.queue = <<>>
    BY <1>3 DEF DrainOn
  <2> HIDE DEF t
  <2>2. /\ t \in StateType /\ t.queue = <<>> /\ t.batch = <<>> /\ t.accepting = y.accepting
        /\ t.mode = "none" /\ t.warned = y.warned /\ t.failed = y.failed
        /\ t.debounce = y.debounce /\ t.worker = "none" /\ t.terminal = y.terminal
    BY <1>1, <1>3, <2>1 DEF StateType
  <2>3. /\ c \in BackendType /\ c.file = b.file /\ c.complete = b.complete /\ c.append = b.append
        /\ c.batch = b.batch /\ c.terminal = IF y.terminal = "none" THEN "none" ELSE b.terminal
    BY <2>2 DEF SentOf, StateType, BackendType
  <2> HIDE DEF c
  <2>4. StateOK(t)
    BY <1>3, <2>1, <2>2 DEF LogOK, StateOK, StateType
  <2>5. DataOK(t, c, a)
    BY <1>1, <1>3, <2>1, <2>2, <2>3, SameData DEF LogOK
  <2>6. EndOK(t, c)
    BY <1>3, <2>2, <2>3 DEF LogOK, EndOK, StateOK
  <2> QED BY <1>3, <2>2, <2>3, <2>4, <2>5, <2>6 DEF LogOK, t, c
<1>4. CASE ~(y.queue # <<>> /\ y.mode # "abort") /\ y.mode # "none"
  <2>1. /\ t = [TerminalOnce(y) EXCEPT !.worker = IF y.terminal = "settled" THEN "none" ELSE "terminal"]
        /\ y.queue = <<>>
    BY <1>4 DEF DrainOn, LogOK, StateOK
  <2> HIDE DEF t
  <2>2. /\ t \in StateType /\ t.queue = <<>> /\ t.batch = <<>> /\ t.accepting = y.accepting
        /\ t.mode = y.mode /\ t.warned = y.warned /\ t.failed = y.failed
        /\ t.debounce = y.debounce /\ t.worker = (IF y.terminal = "settled" THEN "none" ELSE "terminal")
        /\ t.terminal = IF y.terminal # "none" THEN y.terminal ELSE IF y.mode = "abort" THEN "abort" ELSE "finish"
    BY <1>1, <1>4, <2>1 DEF TerminalOnce, StateType
  <2>3. /\ c \in BackendType /\ c.file = b.file /\ c.complete = b.complete /\ c.append = b.append
        /\ c.batch = b.batch /\ c.terminal = IF y.terminal = "none" THEN t.terminal ELSE b.terminal
    BY <2>2 DEF SentOf, StateType, BackendType
  <2> HIDE DEF c
  <2>4. StateOK(t)
    BY <1>4, <2>1, <2>2 DEF LogOK, StateOK, StateType
  <2>5. DataOK(t, c, a)
    <3>1. t.worker # "append" /\ y.worker # "append"
      BY <2>2
    <3>2. t.queue = y.queue /\ t.batch = y.batch /\ t.mode = y.mode /\ DataOK(y, b, a)
      BY <1>1, <2>1, <2>2 DEF LogOK
    <3> QED BY <2>2, <2>3, <3>1, <3>2, SameData
  <2>6. EndOK(t, c)
    BY <2>2, <2>3 DEF LogOK, EndOK, StateType
  <2> QED BY <1>4, <2>2, <2>3, <2>4, <2>5, <2>6 DEF LogOK, t, c, StateType
<1> QED BY <1>2, <1>3, <1>4

\* The worker begins.
LEMMA StartOK ==
  ASSUME NEW s \in StateType, NEW b \in BackendType, NEW a \in Seq(Frames), NEW n,
         LogOK(s, b, a, n), s.worker = "due"
  PROVE  LET t == DrainOn(s)
         IN /\ Moved(s, b, t, SentOf(s, b, t), a, n)
            /\ t.accepting = s.accepting /\ (t.terminal = "settled" <=> s.terminal = "settled")
            /\ (t.worker = "none" /\ t.mode # "none" => t.terminal = "settled")
<1> DEFINE t == DrainOn(s)
           c == SentOf(s, b, t)
<1>1. s.batch = <<>>
  BY DEF LogOK, StateOK
<1>2. /\ t \in StateType /\ LogOK(t, c, a, n) /\ c \in BackendType
      /\ t.accepting = s.accepting /\ t.mode = s.mode /\ t.warned = s.warned
      /\ t.failed = s.failed /\ (t.terminal = "settled" <=> s.terminal = "settled")
      /\ (t.worker = "none" /\ t.mode # "none" => t.terminal = "settled")
      /\ c.file = b.file /\ c.complete = b.complete
  <2>1. s.batch # <<>> /\ s.queue # <<>> /\ s.mode # "abort" => s.batch[1] # s.queue[1]
    BY <1>1
  <2> QED BY <2>1, DrainOnOK
<1> HIDE DEF t, c
<1>3. Grows(s, b, t, c)
  BY <1>2, LiesSelf DEF Grows, BackendType
<1> QED BY <1>2, <1>3 DEF Moved, t, c

\* The batch is written: the next one holds later frames.
LEMMA SucceedOK ==
  ASSUME NEW s \in StateType, NEW b \in BackendType, NEW a \in Seq(Frames), NEW n,
         LogOK(s, b, a, n), s.worker = "append", b.append = "written"
  PROVE  LET t == DrainOn(BatchOver(s))
         IN /\ Moved(s, b, t, SentOf(s, b, t), a, n)
            /\ t.accepting = s.accepting /\ (t.terminal = "settled" <=> s.terminal = "settled")
            /\ (t.worker = "none" /\ t.mode # "none" => t.terminal = "settled")
<1> DEFINE x == BatchOver(s)
           y == [x EXCEPT !.worker = "due"]
           t == DrainOn(x)
           c == SentOf(s, b, t)
<1>1. x \in StateType
  BY NoFrames DEF BatchOver, StateType
<1>2. /\ y \in StateType /\ y.queue = s.queue /\ y.batch = <<>> /\ y.accepting = s.accepting
      /\ y.mode = s.mode /\ y.warned = s.warned /\ y.failed = s.failed /\ y.debounce = s.debounce
      /\ y.worker = "due" /\ y.terminal = s.terminal
  BY NoFrames DEF BatchOver, StateType
<1>3. t = DrainOn(y)
  BY <1>1, DrainOnDue
<1> HIDE DEF x, y
<1>4. StateOK(y)
  BY <1>2 DEF LogOK, StateOK, StateType
<1>5. s.mode # "abort" =>
        LET base == Len(a) - Len(s.queue)
        IN /\ LiesAt(s.queue, a, base) /\ LiesAt(s.batch, a, base - Len(s.batch)) /\ Len(b.file) = base
  BY DEF LogOK, DataOK
<1>6. DataOK(y, b, a)
  <2>1. s.mode # "abort" =>
          LET base == Len(a) - Len(s.queue)
          IN /\ LiesAt(y.queue, a, base) /\ LiesAt(y.batch, a, base - Len(y.batch))
             /\ base - Len(y.batch) <= Len(b.file) /\ Len(b.file) <= base /\ Len(b.file) = base
    <3> SUFFICES ASSUME s.mode # "abort" PROVE
           LET base == Len(a) - Len(s.queue)
           IN /\ LiesAt(y.queue, a, base) /\ LiesAt(y.batch, a, base - Len(y.batch))
              /\ base - Len(y.batch) <= Len(b.file) /\ Len(b.file) <= base /\ Len(b.file) = base
      OBVIOUS
    <3> DEFINE base == Len(a) - Len(s.queue)
    <3>0. LiesAt(s.queue, a, base) /\ Len(b.file) = base
      BY <1>5
    <3>1. base \in Nat /\ base <= Len(a)
      BY <3>0, SeqFacts DEF LiesAt, StateType
    <3> HIDE DEF base
    <3>2. base - Len(y.batch) = base /\ base \in 0..Len(a)
      BY <1>2, <3>1, NoFrames, SeqFacts
    <3>3. LiesAt(<<>>, a, base)
      BY <3>2, EmptyLies
    <3>4. /\ LiesAt(y.queue, a, base) /\ LiesAt(y.batch, a, base - Len(y.batch))
          /\ base - Len(y.batch) <= Len(b.file) /\ Len(b.file) <= base /\ Len(b.file) = base
      BY <1>2, <3>0, <3>1, <3>2, <3>3
    <3> QED BY <3>4 DEF base
  <2>2. LiesAt(b.file, a, 0)
    BY DEF LogOK, DataOK
  <2> QED BY <1>2, <2>1, <2>2 DEF DataOK
<1>7. EndOK(y, b) /\ Ordered(a, n)
  BY <1>2 DEF LogOK, EndOK
<1>8. ASSUME s.batch # <<>>, y.queue # <<>>, y.mode # "abort" PROVE s.batch[1] # y.queue[1]
  <2> DEFINE base == Len(a) - Len(s.queue)
  <2>1. LiesAt(s.queue, a, base) /\ LiesAt(s.batch, a, base - Len(s.batch))
    BY <1>2, <1>5, <1>8
  <2>2. Len(s.batch) \in Nat \ {0} /\ Len(s.queue) \in Nat \ {0} /\ Len(a) \in Nat
    BY <1>2, <1>8, SeqFacts DEF StateType
  <2> HIDE DEF base
  <2>3. /\ s.queue[1] = a[base + 1] /\ s.batch[1] = a[base - Len(s.batch) + 1]
        /\ base \in Nat /\ base - Len(s.batch) \in Nat /\ base + Len(s.queue) <= Len(a)
    BY <2>1, <2>2 DEF LiesAt
  <2>4. a[base - Len(s.batch) + 1] < a[base + 1]
    <3> DEFINE i == base - Len(s.batch) + 1
    <3>0. \A u, v, w, z \in Nat : u - v \in Nat /\ v # 0 /\ w # 0 /\ u + w <= z =>
            u - v + 1 \in 1..z /\ u + 1 \in 1..z /\ u - v + 1 < u + 1
      OBVIOUS
    <3>1. i \in 1..Len(a) /\ base + 1 \in 1..Len(a) /\ i < base + 1
      BY <3>0, <2>2, <2>3
    <3> HIDE DEF i
    <3>2. a[i] < a[base + 1]
      BY <3>1 DEF LogOK, Ordered
    <3> QED BY <3>2 DEF i
  <2>5. a[base + 1] \in Nat
    <3>1. base + 1 \in 1..Len(a)
      BY <2>2, <2>3
    <3> QED BY <3>1, SeqFacts DEF Frames
  <2> QED BY <1>2, <2>3, <2>4, <2>5
<1>9. /\ t \in StateType /\ LogOK(t, c, a, n) /\ c \in BackendType
      /\ t.accepting = s.accepting /\ t.mode = s.mode /\ t.warned = s.warned
      /\ t.failed = s.failed /\ (t.terminal = "settled" <=> s.terminal = "settled")
      /\ (t.worker = "none" /\ t.mode # "none" => t.terminal = "settled")
      /\ c.file = b.file /\ c.complete = b.complete
  <2>1. LogOK(y, b, a, n)
    BY <1>4, <1>6, <1>7 DEF LogOK
  <2> DEFINE z == DrainOn(y)
  <2>2. /\ z \in StateType /\ LogOK(z, SentOf(s, b, z), a, n) /\ SentOf(s, b, z) \in BackendType
        /\ z.accepting = y.accepting /\ z.mode = y.mode /\ z.warned = y.warned
        /\ z.failed = y.failed /\ (z.terminal = "settled" <=> y.terminal = "settled")
        /\ (z.worker = "none" /\ z.mode # "none" => z.terminal = "settled")
        /\ SentOf(s, b, z).file = b.file /\ SentOf(s, b, z).complete = b.complete
    BY <1>2, <1>8, <2>1, DrainOnOK
  <2>3. t = z
    BY <1>3
  <2> HIDE DEF t, z
  <2> QED BY <1>2, <2>2, <2>3
<1> HIDE DEF t, c
<1>10. Grows(s, b, t, c)
  BY <1>9, LiesSelf DEF Grows, BackendType
<1> QED BY <1>9, <1>10 DEF Moved, t, c, x

\* The batch is given up: the log is aborted.
LEMMA FailOK ==
  ASSUME NEW s \in StateType, NEW b \in BackendType, NEW a \in Seq(Frames), NEW n,
         LogOK(s, b, a, n), s.worker = "append"
  PROVE  LET t == DrainOn(BatchOver(MarkAborted([s EXCEPT !.failed = TRUE], "append-failure")))
         IN /\ Moved(s, b, t, SentOf(s, b, t), a, n)
            /\ ~t.accepting /\ (t.terminal = "settled" <=> s.terminal = "settled")
            /\ (t.worker = "none" /\ t.mode # "none" => t.terminal = "settled")
<1> DEFINE g == [s EXCEPT !.failed = TRUE]
           m == MarkAborted(g, "append-failure")
           x == BatchOver(m)
           y == [x EXCEPT !.worker = "due"]
           t == DrainOn(x)
           z == DrainOn(y)
           c == SentOf(s, b, t)
<1>1. /\ g \in StateType /\ g.queue = s.queue /\ g.batch = s.batch /\ g.worker = s.worker
      /\ g.terminal = s.terminal /\ g.warned = s.warned /\ g.failed /\ g.mode = s.mode
  BY DEF StateType
<1> HIDE DEF g
<1>2. /\ m \in StateType /\ m.queue = <<>> /\ ~m.accepting /\ m.mode = "abort" /\ ~m.debounce
      /\ m.failed /\ m.terminal = s.terminal
      /\ m.warned = IF s.warned = "no" THEN "append-failure" ELSE s.warned
  BY <1>1, MarkAbortedFields
<1> HIDE DEF m
<1>3. x \in StateType
  BY <1>2, NoFrames DEF BatchOver, StateType
<1>4. /\ y \in StateType /\ y.queue = <<>> /\ y.batch = <<>> /\ ~y.accepting
      /\ y.mode = "abort" /\ y.failed /\ ~y.debounce /\ y.worker = "due" /\ y.terminal = s.terminal
      /\ y.warned = IF s.warned = "no" THEN "append-failure" ELSE s.warned
  BY <1>2, NoFrames DEF BatchOver, StateType
<1>5. t = z
  BY <1>3, DrainOnDue
<1> HIDE DEF x, y
<1>6. LogOK(y, b, a, n)
  <2>1. StateOK(y)
    BY <1>4 DEF LogOK, StateOK, StateType
  <2>2. DataOK(y, b, a)
    BY <1>4 DEF LogOK, DataOK
  <2>3. EndOK(y, b)
    BY <1>4 DEF LogOK, EndOK
  <2> QED BY <2>1, <2>2, <2>3 DEF LogOK
<1>7. /\ z \in StateType /\ LogOK(z, SentOf(s, b, z), a, n) /\ SentOf(s, b, z) \in BackendType
      /\ z.accepting = y.accepting /\ z.mode = y.mode /\ z.warned = y.warned
      /\ z.failed = y.failed /\ (z.terminal = "settled" <=> y.terminal = "settled")
      /\ (z.worker = "none" /\ z.mode # "none" => z.terminal = "settled")
      /\ SentOf(s, b, z).file = b.file /\ SentOf(s, b, z).complete = b.complete
  BY <1>4, <1>6, DrainOnOK
<1> HIDE DEF t, z
<1>8. Grows(s, b, t, SentOf(s, b, t))
  BY <1>4, <1>5, <1>7, LiesSelf DEF Grows, BackendType
<1>9. /\ Moved(s, b, t, SentOf(s, b, t), a, n)
      /\ ~t.accepting /\ (t.terminal = "settled" <=> s.terminal = "settled")
      /\ (t.worker = "none" /\ t.mode # "none" => t.terminal = "settled")
  BY <1>4, <1>5, <1>7, <1>8 DEF Moved
<1> QED BY <1>9 DEF t, x, m, g

\* The terminal command is over.
LEMMA SettleOK ==
  ASSUME NEW s \in StateType, NEW b \in BackendType, NEW a, NEW n, NEW ok \in BOOLEAN,
         LogOK(s, b, a, n), s.terminal \in {"finish", "abort"}, ok => b.terminal = "done"
  PROVE  LET t == [s EXCEPT !.terminal = "settled", !.failed = @ \/ ~ok,
                            !.worker = IF @ = "terminal" THEN "none" ELSE @]
         IN Moved(s, b, t, SentOf(s, b, t), a, n) /\ t.terminal = "settled" /\ ~t.accepting
            /\ ~s.accepting
<1> DEFINE t == [s EXCEPT !.terminal = "settled", !.failed = @ \/ ~ok,
                          !.worker = IF @ = "terminal" THEN "none" ELSE @]
           c == SentOf(s, b, t)
<1>1. /\ t \in StateType /\ t.queue = s.queue /\ t.batch = s.batch /\ t.accepting = s.accepting
      /\ t.mode = s.mode /\ t.warned = s.warned /\ t.failed = (s.failed \/ ~ok)
      /\ t.debounce = s.debounce /\ t.worker = (IF s.worker = "terminal" THEN "none" ELSE s.worker)
      /\ t.terminal = "settled"
  BY DEF StateType
<1> HIDE DEF t
<1>2. /\ c \in BackendType /\ c.file = b.file /\ c.complete = b.complete /\ c.append = b.append
      /\ c.batch = (IF t.worker = "append" THEN t.batch ELSE b.batch) /\ c.terminal = b.terminal
  BY <1>1 DEF SentOf, StateType, BackendType
<1> HIDE DEF c
<1>3. ~s.accepting /\ s.queue = <<>> /\ StateOK(t)
  BY <1>1 DEF LogOK, StateOK, StateType
<1>4. c.batch = b.batch
  BY <1>1, <1>2 DEF LogOK, DataOK
<1>5. DataOK(t, c, a)
  BY <1>1, <1>2, <1>4, SameData DEF LogOK
<1>6. EndOK(t, c)
  BY <1>1, <1>2 DEF LogOK, EndOK, StateOK
<1>7. Grows(s, b, t, c)
  BY <1>1, <1>2, LiesSelf DEF Grows, BackendType
<1> QED BY <1>1, <1>2, <1>3, <1>5, <1>6, <1>7 DEF LogOK, Moved, t, c

\* A drain runs out of time: the log is aborted behind the back of its worker.
LEMMA TimeoutOK ==
  ASSUME NEW s \in StateType, NEW b \in BackendType, NEW a, NEW n, LogOK(s, b, a, n), s.mode # "none"
  PROVE  LET t == TerminalOnce(MarkAborted([s EXCEPT !.failed = TRUE], "drain-timeout"))
         IN Moved(s, b, t, SentOf(s, b, t), a, n) /\ t.failed /\ t.mode = "abort" /\ ~t.accepting
            /\ ~s.accepting /\ (t.terminal = "settled" <=> s.terminal = "settled")
<1> DEFINE g == [s EXCEPT !.failed = TRUE]
           m == MarkAborted(g, "drain-timeout")
           t == TerminalOnce(m)
           c == SentOf(s, b, t)
<1>1. /\ g \in StateType /\ g.queue = s.queue /\ g.batch = s.batch /\ g.worker = s.worker
      /\ g.terminal = s.terminal /\ g.warned = s.warned /\ g.failed /\ g.mode = s.mode
  BY DEF StateType
<1> HIDE DEF g
<1>2. /\ m \in StateType /\ m.queue = <<>> /\ ~m.accepting /\ m.mode = "abort" /\ ~m.debounce
      /\ m.failed /\ m.terminal = s.terminal /\ m.batch = s.batch /\ m.worker = s.worker
      /\ m.warned = IF s.warned = "no" THEN "drain-timeout" ELSE s.warned
  BY <1>1, MarkAbortedFields
<1> HIDE DEF m
<1>3. /\ t \in StateType /\ t.queue = <<>> /\ t.batch = s.batch /\ ~t.accepting
      /\ t.mode = "abort" /\ t.failed /\ ~t.debounce /\ t.worker = s.worker
      /\ t.warned = (IF s.warned = "no" THEN "drain-timeout" ELSE s.warned)
      /\ t.terminal = IF s.terminal # "none" THEN s.terminal ELSE "abort"
  BY <1>2 DEF TerminalOnce, StateType
<1> HIDE DEF t
<1>4. /\ c \in BackendType /\ c.file = b.file /\ c.complete = b.complete /\ c.append = b.append
      /\ c.batch = (IF t.worker = "append" THEN t.batch ELSE b.batch)
      /\ c.terminal = IF s.terminal = "none" THEN t.terminal ELSE b.terminal
  BY <1>3 DEF SentOf, StateType, BackendType
<1> HIDE DEF c
<1>5. ~s.accepting /\ StateOK(t)
  BY <1>3 DEF LogOK, StateOK, StateType
<1>6. c.batch = b.batch
  BY <1>3, <1>4 DEF LogOK, DataOK
<1>7. DataOK(t, c, a)
  BY <1>3, <1>4, <1>6 DEF LogOK, DataOK
<1>8. EndOK(t, c)
  BY <1>3, <1>4 DEF LogOK, EndOK
<1>9. Grows(s, b, t, c)
  BY <1>3, <1>4, LiesSelf DEF Grows, BackendType
<1> QED BY <1>3, <1>4, <1>5, <1>7, <1>8, <1>9 DEF LogOK, Moved, t, c, m, g

-----------------------------------------------------------------------------
(* What the backend does to a log.                                         *)

\* Neither the file nor the append changes.
LEMMA EndsOK ==
  ASSUME NEW s \in StateType, NEW b \in BackendType, NEW a, NEW n, NEW c \in BackendType,
         LogOK(s, b, a, n), c.file = b.file, c.append = b.append, c.batch = b.batch,
         b.complete => c.complete, EndOK(s, c)
  PROVE  Moved(s, b, s, c, a, n)
<1>1. DataOK(s, c, a)
  BY SameData DEF LogOK
<1>2. Grows(s, b, s, c)
  BY LiesSelf DEF Grows, BackendType
<1> QED BY <1>1, <1>2 DEF LogOK, Moved

\* A part of the batch is written.
LEMMA WriteOK ==
  ASSUME NEW s \in StateType, NEW b \in BackendType, NEW a \in Seq(Frames), NEW n,
         LogOK(s, b, a, n), b.append = "sent", NEW k \in 0..Len(b.batch)
  PROVE  LET c == [b EXCEPT !.file = @ \o SubSeq(b.batch, 1, k),
                            !.append = IF k = Len(b.batch) THEN "written" ELSE "refused"]
         IN Moved(s, b, s, c, a, n)
<1> DEFINE p == SubSeq(b.batch, 1, k)
           c == [b EXCEPT !.file = @ \o p,
                          !.append = IF k = Len(b.batch) THEN "written" ELSE "refused"]
<1>1. b.file \in Seq(Frames) /\ b.batch \in Seq(Frames) /\ s.batch \in Seq(Frames) /\ s.queue \in Seq(Frames)
  BY DEF BackendType, StateType
<1>2. LiesAt(b.file, a, 0) /\ LiesAt(b.batch, a, Len(b.file))
  BY DEF LogOK, DataOK
<1>3. Len(b.file) \in Nat /\ Len(b.batch) \in Nat /\ Len(a) \in Nat /\ Len(s.batch) \in Nat
      /\ Len(s.queue) \in Nat
  BY <1>1, SeqFacts
<1>4. p \in Seq(Frames) /\ Len(p) = k /\ LiesAt(p, a, Len(b.file))
  <2>1. SubSeq(b.batch, 0 + 1, k) = p
    OBVIOUS
  <2>2. 0 \in 0..Len(b.batch) /\ k \in 0..Len(b.batch)
    BY <1>3
  <2> HIDE DEF p
  <2>3. p \in Seq(Frames) /\ Len(p) = k - 0 /\ LiesAt(p, a, Len(b.file) + 0)
    BY <1>1, <1>2, <2>1, <2>2, PartOfPart
  <2>4. k - 0 = k /\ Len(b.file) + 0 = Len(b.file)
    BY <1>3
  <2> QED BY <2>3, <2>4
<1> HIDE DEF p
<1>5. b.file \o p \in Seq(Frames) /\ Len(b.file \o p) = Len(b.file) + k
  BY <1>1, <1>4, ConcatProperties
<1>6. /\ c \in BackendType /\ c.file = b.file \o p /\ c.batch = b.batch /\ c.terminal = b.terminal
      /\ c.complete = b.complete
      /\ c.append = IF k = Len(b.batch) THEN "written" ELSE "refused"
  BY <1>1, <1>5 DEF BackendType
<1> HIDE DEF c
<1>7. LiesAt(c.file, a, 0)
  <2>1. 0 + Len(b.file) = Len(b.file)
    BY <1>3
  <2> QED BY <1>1, <1>2, <1>4, <1>6, <2>1, Joined
<1>8. DataOK(s, c, a)
  <2>1. CASE s.mode = "abort"
    BY <2>1, <1>6, <1>7 DEF LogOK, DataOK
  <2>2. CASE s.mode # "abort"
    <3> DEFINE base == Len(a) - Len(s.queue)
    <3>1. /\ LiesAt(s.queue, a, base) /\ LiesAt(s.batch, a, base - Len(s.batch))
          /\ s.worker = "append" /\ Len(b.file) = base - Len(s.batch) /\ b.batch = s.batch
      BY <2>2 DEF LogOK, DataOK
    <3> HIDE DEF base
    <3>2. base \in Nat /\ base - Len(s.batch) \in Nat
      BY <3>1 DEF LiesAt
    <3>3. \A u, v, w, i \in Nat : u = v - w /\ i <= w => v - w <= u + i /\ u + i <= v /\ (i = w => u + i = v)
      OBVIOUS
    <3>4. /\ base - Len(s.batch) <= Len(b.file) + k /\ Len(b.file) + k <= base
          /\ (k = Len(s.batch) => Len(b.file) + k = base)
      BY <1>3, <3>1, <3>2, <3>3
    <3>5. /\ base - Len(s.batch) <= Len(c.file) /\ Len(c.file) <= base
          /\ (c.append = "written" => Len(c.file) = base) /\ c.append # "sent" /\ c.append # "none"
      BY <1>5, <1>6, <3>1, <3>4
    <3> QED BY <1>6, <1>7, <2>2, <3>1, <3>5 DEF DataOK, base
  <2> QED BY <2>1, <2>2
<1>9. EndOK(s, c)
  BY <1>6 DEF LogOK, EndOK
<1>10. Grows(s, b, s, c)
  <2>1. LiesAt(b.file, b.file \o p, 0)
    BY <1>1, <1>4, LiesSelf, LiesConcat
  <2> QED BY <1>6, <2>1 DEF Grows
<1> QED BY <1>6, <1>8, <1>9, <1>10 DEF LogOK, Moved, c, p

\* The append is refused.
LEMMA RefuseOK ==
  ASSUME NEW s \in StateType, NEW b \in BackendType, NEW a, NEW n, LogOK(s, b, a, n), b.append = "sent"
  PROVE  Moved(s, b, s, [b EXCEPT !.append = "refused"], a, n)
<1> DEFINE c == [b EXCEPT !.append = "refused"]
<1>1. /\ c \in BackendType /\ c.file = b.file /\ c.batch = b.batch /\ c.terminal = b.terminal
      /\ c.complete = b.complete /\ c.append = "refused"
  BY DEF BackendType
<1> HIDE DEF c
<1>2. DataOK(s, c, a)
  BY <1>1 DEF LogOK, DataOK
<1>3. EndOK(s, c) /\ Grows(s, b, s, c)
  BY <1>1, LiesSelf DEF LogOK, EndOK, Grows, BackendType
<1> QED BY <1>1, <1>2, <1>3 DEF LogOK, Moved, c

-----------------------------------------------------------------------------
(* Steps of the logs, and the calls that wait for them.                    *)

LEMMA Stays ==
  ASSUME NEW s \in StateType, NEW b \in BackendType, NEW a, NEW n, LogOK(s, b, a, n)
  PROVE  Moved(s, b, s, b, a, n)
BY LiesSelf DEF Moved, Grows, BackendType

\* Every log stays consistent, and none takes anything back.
LogsMove ==
  /\ state' \in [Logs -> StateType] /\ backend' \in [Logs -> BackendType]
  /\ accepted' \in [Logs -> Seq(Frames)]
  /\ \A k \in Logs : /\ Moved(state[k], backend[k], state'[k], backend'[k], accepted'[k], frames')
                     /\ LiesAt(accepted[k], accepted'[k], 0)

\* One log moves.
LEMMA OneLogMoves ==
  ASSUME TypeOK, LogsOK, NEW l \in Logs, NEW t, NEW c,
         Moved(state[l], backend[l], t, c, accepted[l], frames),
         state' = [state EXCEPT ![l] = t], backend' = [backend EXCEPT ![l] = c],
         UNCHANGED <<accepted, frames>>
  PROVE  LogsMove
<1>1. t \in StateType /\ c \in BackendType
  BY DEF Moved
<1>2. state' \in [Logs -> StateType] /\ backend' \in [Logs -> BackendType]
      /\ accepted' \in [Logs -> Seq(Frames)]
  BY <1>1 DEF TypeOK
<1>3. ASSUME NEW k \in Logs
      PROVE  /\ Moved(state[k], backend[k], state'[k], backend'[k], accepted'[k], frames')
             /\ LiesAt(accepted[k], accepted'[k], 0)
  <2>1. LiesAt(accepted[k], accepted'[k], 0)
    BY LiesSelf DEF TypeOK
  <2>2. CASE k = l
    BY <2>1, <2>2 DEF TypeOK
  <2>3. CASE k # l
    <3>1. state'[k] = state[k] /\ backend'[k] = backend[k] /\ accepted'[k] = accepted[k] /\ frames' = frames
      BY <2>3 DEF TypeOK
    <3>2. state[k] \in StateType /\ backend[k] \in BackendType
          /\ LogOK(state[k], backend[k], accepted[k], frames)
      BY DEF TypeOK, LogsOK
    <3> QED BY <2>1, <3>1, <3>2, Stays
  <2> QED BY <2>2, <2>3
<1> QED BY <1>2, <1>3 DEF LogsMove

\* No log moves.
LEMMA NoLogMoves ==
  ASSUME TypeOK, LogsOK, UNCHANGED <<state, backend, accepted, frames>>
  PROVE  LogsMove
<1>1. \A k \in Logs : /\ state[k] \in StateType /\ backend[k] \in BackendType
                      /\ accepted[k] \in Seq(Frames)
                      /\ LogOK(state[k], backend[k], accepted[k], frames)
  BY DEF TypeOK, LogsOK
<1>2. ASSUME NEW k \in Logs
      PROVE  /\ Moved(state[k], backend[k], state'[k], backend'[k], accepted'[k], frames')
             /\ LiesAt(accepted[k], accepted'[k], 0)
  BY <1>1, Stays, LiesSelf
<1> QED BY <1>2 DEF LogsMove, TypeOK

LEMMA LogsStayOK ==
  ASSUME LogsMove
  PROVE  LogsOK'
BY DEF LogsMove, LogsOK, Moved

\* The store shows the log that accepts, if a log stops accepting only this way.
LEMMA TargetKept ==
  ASSUME TypeOK, TargetIsTrue, NEW l \in Logs, NEW t \in StateType,
         t.accepting => state[l].accepting,
         state' = [state EXCEPT ![l] = t],
         target' = IF state[l].accepting /\ ~t.accepting THEN NoLog ELSE target,
         current' = current \/ (~t.accepting /\ Forgets(l))
  PROVE  TargetIsTrue' /\ target' \in Logs \cup {NoLog}
<1>1. NoLog \notin Logs
  BY CallsAssumption DEF Logs
<1>2. target' \in Logs \cup {NoLog}
  BY DEF TypeOK
<1>3. ASSUME NEW k \in Logs
      PROVE  /\ (target' = k) <=> state'[k].accepting
             /\ state'[k].accepting => current' = k
  <2>1. state[k].accepting \in BOOLEAN /\ state[l].accepting \in BOOLEAN /\ t.accepting \in BOOLEAN
    BY DEF TypeOK, StateType
  <2>2. /\ (target = k) <=> state[k].accepting
        /\ state[k].accepting => current = k
        /\ (target = l) <=> state[l].accepting
        /\ state[l].accepting => current = l
    BY <2>1 DEF TargetIsTrue
  <2>3. state'[k] = IF k = l THEN t ELSE state[k]
    BY DEF TypeOK
  <2>4. CASE k = l
    BY <1>1, <2>1, <2>2, <2>3, <2>4 DEF Forgets
  <2>5. CASE k # l
    BY <1>1, <2>1, <2>2, <2>3, <2>5 DEF Forgets
  <2> QED BY <2>4, <2>5
<1>4. \A k \in Logs : state'[k].accepting \in BOOLEAN
  BY DEF TypeOK, StateType
<1> QED BY <1>2, <1>3, <1>4 DEF TargetIsTrue

\* What the strict calls were told stays true while logs move and calls drain.
LEMMA StrictKept ==
  ASSUME IInv, LogsMove, covered' = covered,
         \A c \in Strict :
            \/ call'[c] = call[c]
            \/ /\ call[c].pc # "idle" /\ call'[c].log = call[c].log
               /\ call'[c].pc \in {"drained", "failed"}
               /\ call'[c].pc = "drained" =>
                    state'[call[c].log].terminal = "settled" \/ state'[call[c].log].failed
  PROVE  StrictCovered' /\ StrictHonest'
<1>1. ASSUME NEW c \in Strict, NEW l \in Logs
      PROVE  /\ LiesAt(covered'[c][l], accepted'[l], 0)
             /\ call'[c].pc # "idle" /\ call'[c].log # l =>
                  LiesAt(covered'[c][l], backend'[l].file, 0) \/ state'[l].warned # "no"
             /\ call'[c].pc = "ended" /\ call'[c].log = l =>
                  \/ LiesAt(covered'[c][l], backend'[l].file, 0) /\ backend'[l].complete
                  \/ state'[l].warned = "overflow"
  <2>1. /\ covered[c][l] \in Seq(Frames) /\ accepted[l] \in Seq(Frames) /\ accepted'[l] \in Seq(Frames)
        /\ backend[l].file \in Seq(Frames) /\ backend'[l].file \in Seq(Frames)
    BY DEF IInv, TypeOK, LogsMove, BackendType
  <2>2. Grows(state[l], backend[l], state'[l], backend'[l]) /\ LiesAt(accepted[l], accepted'[l], 0)
    BY DEF LogsMove, Moved
  <2>3. LiesAt(covered[c][l], accepted[l], 0)
    BY DEF IInv, StrictCovered
  <2>4. LiesAt(covered[c][l], accepted'[l], 0)
    BY <2>1, <2>2, <2>3, LiesTransitive
  <2>5. LiesAt(covered[c][l], backend[l].file, 0) => LiesAt(covered[c][l], backend'[l].file, 0)
    BY <2>1, <2>2, LiesTransitive DEF Grows
  <2>6. /\ state[l].warned # "no" => state'[l].warned = state[l].warned
        /\ backend[l].complete => backend'[l].complete
    BY <2>2 DEF Grows
  <2>7. call[c].pc # "idle" /\ call[c].log # l =>
          LiesAt(covered[c][l], backend[l].file, 0) \/ state[l].warned # "no"
    BY DEF IInv, StrictCovered
  <2>8. call[c].pc = "ended" /\ call[c].log = l =>
          \/ LiesAt(covered[c][l], backend[l].file, 0) /\ backend[l].complete
          \/ state[l].warned = "overflow"
    BY DEF IInv, StrictHonest
  <2> QED BY <2>4, <2>5, <2>6, <2>7, <2>8
<1>2. ASSUME NEW c \in Strict, call'[c].pc = "drained"
      PROVE  state'[call'[c].log].terminal = "settled" \/ state'[call'[c].log].failed
  <2>1. CASE call'[c] = call[c]
    <3>1. state[call[c].log].terminal = "settled" \/ state[call[c].log].failed
      BY <1>2, <2>1 DEF IInv, StrictCovered
    <3>2. c \in Calls
      BY CallsAssumption DEF Calls
    <3>3. call[c].log \in Logs
      BY <1>2, <2>1, <3>2 DEF IInv, CallsInv, WaitsForLog, TypeOK, CallType
    <3> QED BY <2>1, <3>1, <3>3 DEF LogsMove, Moved, Grows
  <2>2. CASE call'[c] # call[c]
    BY <1>2, <2>2
  <2> QED BY <2>1, <2>2
<1> QED BY <1>1, <1>2 DEF StrictCovered, StrictHonest

\* Calls go on only when the log they wait for is over, and is installed no more.
CallsDrain ==
  /\ call' \in [Calls -> CallType]
  /\ \A c \in Calls :
       \/ call'[c] = call[c]
       \/ /\ call[c].pc = "draining" /\ call'[c] = [call[c] EXCEPT !.pc = "drained"]
          /\ state'[call[c].log].terminal = "settled" \/ state'[call[c].log].failed
          /\ current' # call[c].log

\* The installed log stays, or is over.
CurrentStep ==
  /\ current' \in {current, NoLog}
  /\ current' = NoLog /\ current # NoLog =>
       state'[current].terminal = "settled" \/ state'[current].mode = "abort"
  /\ current' # NoLog => state'[current'].terminal # "settled"

\* Only a log that has begun moves, and only the installed one accepts.
BegunMove ==
  /\ \A k \in Logs : call[k].pc # "ended" =>
       /\ state'[k] = state[k]
       /\ backend'[k] = [backend[k] EXCEPT !.session = backend'[k].session]
  /\ \A k \in Logs : k # current => accepted'[k] = accepted[k]

\* Such a step keeps the invariant.
LEMMA LogStepKeeps ==
  ASSUME IInv, LogsMove, CallsDrain, CurrentStep, BegunMove, UNCHANGED <<generation, covered>>,
         frames' \in 0..MaxFrames, target' \in Logs \cup {NoLog}, TargetIsTrue'
  PROVE  IInv'
<1>1. NoLog \notin Logs /\ Logs \subseteq Calls /\ Strict \subseteq Calls /\ Enables = Logs
  BY CallsAssumption DEF Logs, Calls
<1>2. TypeOK'
  BY DEF IInv, TypeOK, LogsMove, CallsDrain, CurrentStep
<1>3. LogsOK'
  BY LogsStayOK
<1>4. \A c \in Calls :
        /\ call[c] \in CallType
        /\ call'[c].log = call[c].log /\ call'[c].generation = call[c].generation
        /\ call'[c].pc = call[c].pc \/ (call[c].pc = "draining" /\ call'[c].pc = "drained")
        /\ call'[c] # call[c] =>
             /\ call[c].pc = "draining" /\ call'[c].pc = "drained" /\ current' # call[c].log
             /\ state'[call[c].log].terminal = "settled" \/ state'[call[c].log].failed
  BY DEF IInv, TypeOK, CallsDrain, CallType
<1>5. \A l \in Logs : call[l].pc # "ended" => l # current
  BY <1>1 DEF IInv, CallsInv, WaitsForLog
<1>6. NotBegun'
  <2> SUFFICES ASSUME NEW l \in Logs, call'[l].pc # "ended"
               PROVE  /\ state'[l] = NewState /\ accepted'[l] = <<>>
                      /\ backend'[l] = [NewBackend EXCEPT !.session = backend'[l].session]
    BY DEF NotBegun
  <2>1. call[l].pc # "ended"
    BY <1>1, <1>4
  <2>2. /\ state[l] = NewState /\ accepted[l] = <<>>
        /\ backend[l] = [NewBackend EXCEPT !.session = backend[l].session]
    BY <2>1 DEF IInv, CallsInv, NotBegun
  <2>3. /\ state'[l] = state[l] /\ accepted'[l] = accepted[l]
        /\ backend'[l] = [backend[l] EXCEPT !.session = backend'[l].session]
    BY <1>5, <2>1 DEF BegunMove
  <2>4. backend'[l] = [NewBackend EXCEPT !.session = backend'[l].session]
    BY <2>2, <2>3 DEF NewBackend
  <2> QED BY <2>2, <2>3, <2>4
<1>7. OneCurrent'
  <2>1. \A c \in Calls : call'[c].generation <= generation'
    BY <1>4 DEF IInv, CallsInv, OneCurrent
  <2>2. ASSUME NEW e \in Enables, NEW f \in Enables, call'[e].generation = generation',
               call'[f].generation = generation', call'[e].pc # "idle", call'[f].pc # "idle"
        PROVE  e = f
    BY <2>2, <1>1, <1>4 DEF IInv, CallsInv, OneCurrent, IsCurrent
  <2>3. ASSUME NEW e \in Enables, call'[e].generation = generation'
        PROVE  /\ call'[e].pc = "draining" => current' \in {call'[e].log, NoLog}
               /\ call'[e].pc \in {"drained", "begin", "begun"} => current' = NoLog
    <3>1. e \in Calls /\ call[e].generation = generation
      BY <1>1, <1>4, <2>3
    <3>2. /\ call[e].pc = "draining" => current \in {call[e].log, NoLog}
          /\ call[e].pc \in {"drained", "begin", "begun"} => current = NoLog
      BY <3>1 DEF IInv, CallsInv, OneCurrent, IsCurrent
    <3>3. CASE call'[e] = call[e]
      BY <3>2, <3>3 DEF CurrentStep
    <3>4. CASE call'[e] # call[e]
      <4>1. call[e].pc = "draining" /\ call'[e].pc = "drained" /\ current' # call[e].log
        BY <3>1, <3>4, <1>4
      <4> QED BY <3>2, <4>1 DEF CurrentStep
    <3> QED BY <3>3, <3>4
  <2> QED BY <2>1, <2>2, <2>3 DEF OneCurrent, IsCurrent
<1>8. WaitsForLog'
  <2>1. current' # NoLog => call'[current'].pc = "ended" /\ state'[current'].terminal # "settled"
    BY <1>1, <1>4 DEF CurrentStep, IInv, CallsInv, WaitsForLog, TypeOK
  <2>2. ASSUME NEW c \in Calls
        PROVE  /\ call'[c].pc = "idle" => call'[c].log = NoLog
               /\ call'[c].pc \in {"draining", "drained"} => call'[c].log # NoLog
               /\ call'[c].log # NoLog =>
                    call'[call'[c].log].pc = "ended" /\ state'[call'[c].log].mode # "none"
    <3>1. /\ call[c].pc = "idle" => call[c].log = NoLog
          /\ call[c].pc \in {"draining", "drained"} => call[c].log # NoLog
          /\ call[c].log # NoLog =>
               call[call[c].log].pc = "ended" /\ state[call[c].log].mode # "none"
          /\ call[c].log \in Logs \cup {NoLog}
      BY DEF IInv, CallsInv, WaitsForLog, TypeOK, CallType
    <3>2. call[c].log \in Logs => Grows(state[call[c].log], backend[call[c].log],
                                        state'[call[c].log], backend'[call[c].log])
      BY DEF LogsMove, Moved
    <3> QED BY <1>1, <1>4, <3>1, <3>2 DEF Grows
  <2> QED BY <2>1, <2>2 DEF WaitsForLog
<1>9. LeftSettled'
  <2> SUFFICES ASSUME NEW l \in Logs, l # current', state'[l].mode # "abort"
               PROVE  accepted'[l] = <<>> \/ state'[l].terminal = "settled"
    BY DEF LeftSettled
  <2>1. CASE l = current
    BY <2>1, <1>1 DEF CurrentStep
  <2>2. CASE l # current
    <3>1. Grows(state[l], backend[l], state'[l], backend'[l]) /\ accepted'[l] = accepted[l]
      BY <2>2 DEF LogsMove, Moved, BegunMove
    <3> QED BY <2>2, <3>1 DEF IInv, CallsInv, LeftSettled, Grows
  <2> QED BY <2>1, <2>2
<1>10. StrictCovered' /\ StrictHonest'
  <2>1. \A c \in Strict :
            \/ call'[c] = call[c]
            \/ /\ call[c].pc # "idle" /\ call'[c].log = call[c].log
               /\ call'[c].pc \in {"drained", "failed"}
               /\ call'[c].pc = "drained" =>
                    state'[call[c].log].terminal = "settled" \/ state'[call[c].log].failed
    BY <1>1, <1>4
  <2> QED BY <2>1, StrictKept
<1> QED BY <1>2, <1>3, <1>6, <1>7, <1>8, <1>9, <1>10 DEF IInv, CallsInv

-----------------------------------------------------------------------------
(* The steps of the worker and of the backend.                             *)

\* A log in whose state something has happened has begun.
LEMMA MovingHasBegun ==
  ASSUME IInv, NEW l \in Logs, state[l] # NewState \/ backend[l].append # "none" \/ backend[l].terminal # "none"
  PROVE  call[l].pc = "ended"
<1>1. [NewBackend EXCEPT !.session = backend[l].session].append = "none"
      /\ [NewBackend EXCEPT !.session = backend[l].session].terminal = "none"
  BY DEF NewBackend
<1> QED BY <1>1 DEF IInv, CallsInv, NotBegun

\* Works(l, t) with a move to t, and what becomes of the installed log.
LEMMA WorksKeeps ==
  ASSUME IInv, NEW l \in Logs, NEW t, call[l].pc = "ended", Works(l, t),
         Moved(state[l], backend[l], t, SentOf(state[l], backend[l], t), accepted[l], frames),
         t.accepting => state[l].accepting,
         t.worker = "none" /\ t.mode # "none" => t.terminal = "settled",
         \/ current' = current /\ (t.terminal = "settled" => state[l].terminal = "settled")
         \/ Forgets(l) /\ ~t.accepting /\ t.terminal = "settled"
  PROVE  IInv'
<1>1. NoLog \notin Logs /\ Logs \subseteq Calls
  BY CallsAssumption DEF Logs, Calls
<1>2. /\ state' = [state EXCEPT ![l] = t]
      /\ backend' = [backend EXCEPT ![l] = SentOf(state[l], backend[l], t)]
      /\ target' = IF state[l].accepting /\ ~t.accepting THEN NoLog ELSE target
      /\ UNCHANGED <<generation, frames, accepted, covered>>
  BY SentIs DEF Works, Becomes
<1>3. TypeOK /\ LogsOK /\ TargetIsTrue /\ t \in StateType
  BY DEF IInv, CallsInv, Moved
<1>4. LogsMove
  BY <1>2, <1>3, OneLogMoves
<1>5. TargetIsTrue' /\ target' \in Logs \cup {NoLog}
  BY <1>2, <1>3, TargetKept
<1>6. state'[l] = t
  BY <1>2, <1>3 DEF TypeOK
<1>7. Grows(state[l], backend[l], t, SentOf(state[l], backend[l], t))
  BY DEF Moved
<1>8. CurrentStep
  <2>1. current' \in {current, NoLog}
    BY DEF Forgets
  <2>2. current # NoLog => state[current].terminal # "settled" /\ current \in Logs
    BY <1>3 DEF IInv, CallsInv, WaitsForLog, TypeOK
  <2>3. \A k \in Logs : k # l => state'[k] = state[k]
    BY <1>2, <1>3 DEF TypeOK
  <2> QED BY <1>6, <2>1, <2>2, <2>3 DEF CurrentStep, Forgets
<1>9. CallsDrain
  <2>1. call' = [c \in Calls |->
             IF t.worker = "none" /\ call[c].pc = "draining" /\ call[c].log = l
               THEN [call[c] EXCEPT !.pc = "drained"] ELSE call[c]]
    BY DEF Works, WorkerEnds
  <2>2. call' \in [Calls -> CallType]
    <3> SUFFICES ASSUME NEW c \in Calls
                 PROVE  [call[c] EXCEPT !.pc = "drained"] \in CallType /\ call[c] \in CallType
      BY <2>1
    <3> QED BY <1>3 DEF TypeOK, CallType
  <2>3. ASSUME NEW c \in Calls, call'[c] # call[c]
        PROVE  /\ call[c].pc = "draining" /\ call'[c] = [call[c] EXCEPT !.pc = "drained"]
               /\ state'[call[c].log].terminal = "settled" \/ state'[call[c].log].failed
               /\ current' # call[c].log
    <3>1. t.worker = "none" /\ call[c].pc = "draining" /\ call[c].log = l
          /\ call'[c] = [call[c] EXCEPT !.pc = "drained"]
      BY <2>1, <2>3
    <3>2. state[l].mode # "none"
      BY <1>1, <3>1 DEF IInv, CallsInv, WaitsForLog
    <3>3. t.terminal = "settled"
      BY <3>1, <3>2, <1>7 DEF Grows
    <3>4. current' # l
      BY <1>1, <3>3 DEF Forgets, IInv, CallsInv, WaitsForLog
    <3> QED BY <1>6, <3>1, <3>3, <3>4
  <2> QED BY <2>2, <2>3 DEF CallsDrain
<1>10. BegunMove
  <2>1. \A k \in Logs : k # l => state'[k] = state[k] /\ backend'[k] = backend[k]
    BY <1>2, <1>3 DEF TypeOK
  <2>2. \A k \in Logs : [backend[k] EXCEPT !.session = backend[k].session] = backend[k]
    BY <1>3 DEF TypeOK, BackendType
  <2> QED BY <1>2, <2>1, <2>2 DEF BegunMove
<1>11. frames' \in 0..MaxFrames
  BY <1>2, <1>3 DEF TypeOK
<1> QED BY <1>2, <1>4, <1>5, <1>8, <1>9, <1>10, <1>11, LogStepKeeps

\* What the lemmas about one log need to know of it.
LEMMA LogFacts ==
  ASSUME IInv, NEW l \in Logs
  PROVE  /\ state[l] \in StateType /\ backend[l] \in BackendType /\ accepted[l] \in Seq(Frames)
         /\ LogOK(state[l], backend[l], accepted[l], frames)
BY DEF IInv, TypeOK, LogsOK

LEMMA DebounceFiresKeeps ==
  ASSUME IInv, NEW l \in Logs, DebounceFires(l)
  PROVE  IInv'
<1> DEFINE t == EnsureWorker(state[l])
<1>1. call[l].pc = "ended"
  <2>1. state[l] # NewState
    BY DEF DebounceFires, NewState
  <2> QED BY <2>1, MovingHasBegun
<1>2. /\ Moved(state[l], backend[l], t, SentOf(state[l], backend[l], t), accepted[l], frames)
      /\ t.accepting = state[l].accepting /\ t.terminal = state[l].terminal /\ t.worker # "none"
  BY LogFacts, EnsureWorkerOK
<1>3. Works(l, t) /\ current' = current
  BY DEF DebounceFires
<1> HIDE DEF t
<1> QED BY <1>1, <1>2, <1>3, WorksKeeps

LEMMA WorkerStartsKeeps ==
  ASSUME IInv, NEW l \in Logs, WorkerStarts(l)
  PROVE  IInv'
<1> DEFINE t == DrainOn(state[l])
<1>0. state[l].worker = "due" /\ Works(l, t) /\ current' = current
  BY DEF WorkerStarts
<1>1. call[l].pc = "ended"
  <2>1. state[l] # NewState
    BY <1>0 DEF NewState
  <2> QED BY <2>1, MovingHasBegun
<1>2. /\ Moved(state[l], backend[l], t, SentOf(state[l], backend[l], t), accepted[l], frames)
      /\ t.accepting = state[l].accepting /\ (t.terminal = "settled" <=> state[l].terminal = "settled")
      /\ (t.worker = "none" /\ t.mode # "none" => t.terminal = "settled")
  BY <1>0, LogFacts, StartOK
<1> HIDE DEF t
<1> QED BY <1>0, <1>1, <1>2, WorksKeeps

LEMMA AppendSucceedsKeeps ==
  ASSUME IInv, NEW l \in Logs, AppendSucceeds(l)
  PROVE  IInv'
<1> DEFINE t == DrainOn(BatchOver(state[l]))
<1>0. state[l].worker = "append" /\ backend[l].append = "written" /\ Works(l, t) /\ current' = current
  BY DEF AppendSucceeds
<1>1. call[l].pc = "ended"
  BY <1>0, MovingHasBegun
<1>2. /\ Moved(state[l], backend[l], t, SentOf(state[l], backend[l], t), accepted[l], frames)
      /\ t.accepting = state[l].accepting /\ (t.terminal = "settled" <=> state[l].terminal = "settled")
      /\ (t.worker = "none" /\ t.mode # "none" => t.terminal = "settled")
  BY <1>0, LogFacts, SucceedOK
<1> HIDE DEF t
<1> QED BY <1>0, <1>1, <1>2, WorksKeeps

LEMMA AppendFailsKeeps ==
  ASSUME IInv, NEW l \in Logs, AppendFails(l)
  PROVE  IInv'
<1> DEFINE t == DrainOn(BatchOver(MarkAborted([state[l] EXCEPT !.failed = TRUE], "append-failure")))
<1>0. state[l].worker = "append" /\ Works(l, t) /\ current' = current
  BY DEF AppendFails
<1>1. call[l].pc = "ended"
  <2>1. state[l] # NewState
    BY <1>0 DEF NewState
  <2> QED BY <2>1, MovingHasBegun
<1>2. /\ Moved(state[l], backend[l], t, SentOf(state[l], backend[l], t), accepted[l], frames)
      /\ ~t.accepting /\ (t.terminal = "settled" <=> state[l].terminal = "settled")
      /\ (t.worker = "none" /\ t.mode # "none" => t.terminal = "settled")
  BY <1>0, LogFacts, FailOK
<1> HIDE DEF t
<1> QED BY <1>0, <1>1, <1>2, WorksKeeps

LEMMA TerminalSettlesKeeps ==
  ASSUME IInv, NEW l \in Logs, TerminalSettles(l)
  PROVE  IInv'
<1>0. PICK ok \in BOOLEAN :
       /\ ok => backend[l].terminal = "done"
       /\ Works(l, [state[l] EXCEPT !.terminal = "settled", !.failed = @ \/ ~ok,
                                    !.worker = IF @ = "terminal" THEN "none" ELSE @])
  BY DEF TerminalSettles
<1> DEFINE t == [state[l] EXCEPT !.terminal = "settled", !.failed = @ \/ ~ok,
                                 !.worker = IF @ = "terminal" THEN "none" ELSE @]
<1>1. state[l].terminal \in {"finish", "abort"} /\ Forgets(l) /\ Works(l, t)
  BY <1>0 DEF TerminalSettles
<1>2. call[l].pc = "ended"
  <2>1. state[l] # NewState
    BY <1>1 DEF NewState
  <2> QED BY <2>1, MovingHasBegun
<1>3. /\ Moved(state[l], backend[l], t, SentOf(state[l], backend[l], t), accepted[l], frames)
      /\ t.terminal = "settled" /\ ~t.accepting
  BY <1>0, <1>1, LogFacts, SettleOK
<1> HIDE DEF t
<1> QED BY <1>1, <1>2, <1>3, WorksKeeps

\* Backend(l, c) with a move to c.
LEMMA BackendKeeps ==
  ASSUME IInv, NEW l \in Logs, NEW c, Backend(l, c),
         Moved(state[l], backend[l], state[l], c, accepted[l], frames),
         call[l].pc = "ended" \/ c = [backend[l] EXCEPT !.session = c.session]
  PROVE  IInv'
<1>1. /\ state' = [state EXCEPT ![l] = state[l]] /\ backend' = [backend EXCEPT ![l] = c]
      /\ UNCHANGED <<generation, current, target, call, state, frames, accepted, covered>>
  BY DEF Backend, IInv, TypeOK
<1>2. TypeOK /\ LogsOK /\ TargetIsTrue
  BY DEF IInv, CallsInv
<1>3. LogsMove
  BY <1>1, <1>2, OneLogMoves
<1>4. TargetIsTrue' /\ target' \in Logs \cup {NoLog} /\ frames' \in 0..MaxFrames
  BY <1>1, <1>2 DEF TargetIsTrue, TypeOK
<1>5. CurrentStep
  BY <1>1 DEF CurrentStep, IInv, CallsInv, WaitsForLog
<1>6. CallsDrain
  BY <1>1, <1>2 DEF CallsDrain, TypeOK
<1>7. BegunMove
  <2>1. \A k \in Logs : k # l => backend'[k] = backend[k]
    BY <1>1, <1>2 DEF TypeOK
  <2>2. backend'[l] = c
    BY <1>1, <1>2 DEF TypeOK
  <2>3. \A k \in Logs : [backend[k] EXCEPT !.session = backend[k].session] = backend[k]
    BY <1>2 DEF TypeOK, BackendType
  <2> QED BY <1>1, <2>1, <2>2, <2>3 DEF BegunMove
<1> QED BY <1>1, <1>3, <1>4, <1>5, <1>6, <1>7, LogStepKeeps

LEMMA BackendAppendsKeeps ==
  ASSUME IInv, NEW l \in Logs, BackendAppends(l)
  PROVE  IInv'
<1>1. backend[l].append = "sent" /\ call[l].pc = "ended"
  BY MovingHasBegun DEF BackendAppends
<1>2. CASE \E n \in 0..Len(backend[l].batch) :
             Backend(l, [backend[l] EXCEPT
                           !.file = @ \o SubSeq(backend[l].batch, 1, n),
                           !.append = IF n = Len(backend[l].batch) THEN "written" ELSE "refused"])
  <2>1. PICK n \in 0..Len(backend[l].batch) :
             Backend(l, [backend[l] EXCEPT
                           !.file = @ \o SubSeq(backend[l].batch, 1, n),
                           !.append = IF n = Len(backend[l].batch) THEN "written" ELSE "refused"])
    BY <1>2
  <2> DEFINE c == [backend[l] EXCEPT
                     !.file = @ \o SubSeq(backend[l].batch, 1, n),
                     !.append = IF n = Len(backend[l].batch) THEN "written" ELSE "refused"]
  <2>2. Moved(state[l], backend[l], state[l], c, accepted[l], frames)
    BY <1>1, LogFacts, WriteOK
  <2>3. Backend(l, c)
    BY <2>1
  <2> HIDE DEF c
  <2> QED BY <1>1, <2>2, <2>3, BackendKeeps
<1>3. CASE Backend(l, [backend[l] EXCEPT !.append = "refused"])
  BY <1>1, <1>3, LogFacts, RefuseOK, BackendKeeps
<1> QED BY <1>2, <1>3 DEF BackendAppends

LEMMA BackendFinishesKeeps ==
  ASSUME IInv, NEW l \in Logs, BackendFinishes(l)
  PROVE  IInv'
<1>1. backend[l].terminal = "finish" /\ call[l].pc = "ended"
  BY MovingHasBegun DEF BackendFinishes
<1>2. PICK ok \in BOOLEAN :
        Backend(l, [backend[l] EXCEPT !.session = "closed", !.complete = ok,
                                      !.terminal = IF ok THEN "done" ELSE "refused"])
  BY DEF BackendFinishes
<1> DEFINE s == state[l]
           b == backend[l]
           c == [backend[l] EXCEPT !.session = "closed", !.complete = ok,
                                   !.terminal = IF ok THEN "done" ELSE "refused"]
<1>3. /\ s \in StateType /\ b \in BackendType /\ LogOK(s, b, accepted[l], frames)
      /\ b.terminal = "finish" /\ Backend(l, c)
  BY <1>1, <1>2, LogFacts
<1>4. /\ c \in BackendType /\ c.file = b.file /\ c.append = b.append /\ c.batch = b.batch
      /\ c.complete = ok /\ c.terminal = IF ok THEN "done" ELSE "refused"
  BY <1>3 DEF BackendType
<1> HIDE DEF s, b, c
<1>5. EndOK(s, c) /\ (b.complete => c.complete)
  BY <1>3, <1>4 DEF LogOK, EndOK
<1>6. Moved(s, b, s, c, accepted[l], frames)
  BY <1>3, <1>4, <1>5, EndsOK
<1> QED BY <1>1, <1>3, <1>6, BackendKeeps DEF s, b

LEMMA BackendAbortsKeeps ==
  ASSUME IInv, NEW l \in Logs, BackendAborts(l)
  PROVE  IInv'
<1> DEFINE s == state[l]
           b == backend[l]
           c == [backend[l] EXCEPT !.session = "closed", !.terminal = "done"]
<1>1. b.terminal = "abort" /\ call[l].pc = "ended" /\ Backend(l, c)
  BY MovingHasBegun DEF BackendAborts
<1>2. s \in StateType /\ b \in BackendType /\ LogOK(s, b, accepted[l], frames)
  BY LogFacts
<1>3. /\ c \in BackendType /\ c.file = b.file /\ c.append = b.append /\ c.batch = b.batch
      /\ c.complete = b.complete /\ c.terminal = "done"
  BY <1>2 DEF BackendType
<1> HIDE DEF s, b, c
<1>4. EndOK(s, c)
  BY <1>1, <1>2, <1>3 DEF LogOK, EndOK
<1>5. Moved(s, b, s, c, accepted[l], frames)
  BY <1>2, <1>3, <1>4, EndsOK
<1> QED BY <1>1, <1>5, BackendKeeps DEF s, b

LEMMA BackendExpiresKeeps ==
  ASSUME IInv, NEW l \in Logs, BackendExpires(l)
  PROVE  IInv'
<1> DEFINE s == state[l]
           b == backend[l]
           c == [backend[l] EXCEPT !.session = "closed"]
<1>1. Backend(l, c)
  BY DEF BackendExpires
<1>2. s \in StateType /\ b \in BackendType /\ LogOK(s, b, accepted[l], frames)
  BY LogFacts
<1>3. /\ c \in BackendType /\ c.file = b.file /\ c.append = b.append /\ c.batch = b.batch
      /\ c.complete = b.complete /\ c.terminal = b.terminal /\ c = [b EXCEPT !.session = c.session]
  BY <1>2 DEF BackendType
<1> HIDE DEF s, b, c
<1>4. EndOK(s, c)
  BY <1>2, <1>3 DEF LogOK, EndOK
<1>5. Moved(s, b, s, c, accepted[l], frames)
  BY <1>2, <1>3, <1>4, EndsOK
<1> QED BY <1>1, <1>3, <1>5, BackendKeeps DEF s, b

LEMMA DrainTimesOutKeeps ==
  ASSUME IInv, NEW d \in Calls, DrainTimesOut(d)
  PROVE  IInv'
<1> DEFINE l == call[d].log
           t == TerminalOnce(MarkAborted([state[l] EXCEPT !.failed = TRUE], "drain-timeout"))
<1>1. /\ call[d].pc = "draining" /\ Becomes(l, t) /\ Forgets(l) /\ Goes(d, "drained")
      /\ UNCHANGED <<generation, frames, accepted, covered>>
  BY DEF DrainTimesOut
<1>2. NoLog \notin Logs /\ Logs \subseteq Calls
  BY CallsAssumption DEF Logs, Calls
<1>3. TypeOK /\ LogsOK /\ TargetIsTrue
  BY DEF IInv, CallsInv
<1>4. l \in Logs /\ call[l].pc = "ended" /\ state[l].mode # "none"
  BY <1>1 DEF IInv, CallsInv, WaitsForLog, TypeOK, CallType
<1>5. /\ Moved(state[l], backend[l], t, SentOf(state[l], backend[l], t), accepted[l], frames)
      /\ t.failed /\ t.mode = "abort" /\ ~t.accepting
      /\ (t.terminal = "settled" <=> state[l].terminal = "settled")
  BY <1>4, LogFacts, TimeoutOK
<1> HIDE DEF t, l
<1>6. /\ state' = [state EXCEPT ![l] = t]
      /\ backend' = [backend EXCEPT ![l] = SentOf(state[l], backend[l], t)]
      /\ target' = IF state[l].accepting /\ ~t.accepting THEN NoLog ELSE target
  BY <1>1, <1>4, SentIs DEF Becomes
<1>7. t \in StateType /\ state'[l] = t
  BY <1>3, <1>4, <1>5, <1>6 DEF Moved, TypeOK
<1>8. LogsMove
  BY <1>1, <1>3, <1>4, <1>5, <1>6, OneLogMoves
<1>9. TargetIsTrue' /\ target' \in Logs \cup {NoLog}
  BY <1>1, <1>3, <1>4, <1>5, <1>6, <1>7, TargetKept
<1>10. CurrentStep
  <2>1. \A k \in Logs : k # l => state'[k] = state[k]
    BY <1>3, <1>6 DEF TypeOK
  <2>2. current # NoLog => state[current].terminal # "settled" /\ current \in Logs
    BY <1>3 DEF IInv, CallsInv, WaitsForLog, TypeOK
  <2> QED BY <1>1, <1>5, <1>7, <2>1, <2>2 DEF CurrentStep, Forgets
<1>11. CallsDrain
  <2>1. call[d] \in CallType /\ call' = [call EXCEPT ![d] = [call[d] EXCEPT !.pc = "drained"]]
    BY <1>1, <1>3 DEF Goes, TypeOK
  <2>2. [call[d] EXCEPT !.pc = "drained"] \in CallType
    BY <2>1 DEF CallType
  <2>3. call' \in [Calls -> CallType] /\ call'[d] = [call[d] EXCEPT !.pc = "drained"]
        /\ \A c \in Calls : c # d => call'[c] = call[c]
    BY <1>3, <2>1, <2>2 DEF TypeOK
  <2>4. current' # l
    BY <1>1, <1>2, <1>4 DEF Forgets
  <2>5. state'[call[d].log].failed /\ current' # call[d].log
    BY <1>5, <1>7, <2>4 DEF l
  <2> QED BY <1>1, <2>3, <2>5 DEF CallsDrain
<1>12. BegunMove
  <2>1. \A k \in Logs : k # l => state'[k] = state[k] /\ backend'[k] = backend[k]
    BY <1>3, <1>6 DEF TypeOK
  <2>2. \A k \in Logs : [backend[k] EXCEPT !.session = backend[k].session] = backend[k]
    BY <1>3 DEF TypeOK, BackendType
  <2> QED BY <1>1, <1>4, <2>1, <2>2 DEF BegunMove
<1>13. frames' \in 0..MaxFrames
  BY <1>1, <1>3 DEF TypeOK
<1> QED BY <1>1, <1>8, <1>9, <1>10, <1>11, <1>12, <1>13, LogStepKeeps

-----------------------------------------------------------------------------
(* appendFrame().                                                          *)

\* A log that gets no frame is as consistent with one frame more.
LEMMA NextFrame ==
  ASSUME NEW a \in Seq(Frames), NEW n \in 0..MaxFrames, Ordered(a, n), n < MaxFrames
  PROVE  Ordered(a, n + 1) /\ n + 1 \in Frames /\ Ordered(Append(a, n + 1), n + 1)
<1>0. MaxFrames \in Nat
  BY CallsAssumption
<1>1. n \in Nat /\ n + 1 \in Frames
  BY <1>0 DEF Frames
<1>2. Len(a) \in Nat /\ \A i \in 1..Len(a) : a[i] \in Nat /\ a[i] <= n
  BY SeqFacts DEF Ordered, Frames
<1>3. Ordered(a, n + 1)
  BY <1>1, <1>2 DEF Ordered
<1> DEFINE r == Append(a, n + 1)
<1>4. Len(r) = Len(a) + 1 /\ r[Len(a) + 1] = n + 1 /\ \A i \in 1..Len(a) : r[i] = a[i]
  BY <1>1, AppendProperties
<1> HIDE DEF r
<1>5. \A i \in 1..Len(r) : i \in 1..Len(a) \/ i = Len(a) + 1
  BY <1>2, <1>4
<1>6. \A i \in 1..Len(r) : r[i] <= n + 1
  BY <1>1, <1>2, <1>4, <1>5
<1>7. ASSUME NEW i \in 1..Len(r), NEW j \in 1..Len(r), i < j PROVE r[i] < r[j]
  <2>1. i \in 1..Len(a)
    BY <1>2, <1>4, <1>7
  <2>2. CASE j = Len(a) + 1
    BY <1>1, <1>2, <1>4, <2>1, <2>2
  <2>3. CASE j \in 1..Len(a)
    BY <1>4, <1>7, <2>1, <2>3 DEF Ordered
  <2> QED BY <1>5, <2>2, <2>3
<1>8. Ordered(r, n + 1)
  BY <1>6, <1>7 DEF Ordered
<1> QED BY <1>1, <1>3, <1>8 DEF r

LEMMA AppendFrameKeeps ==
  ASSUME IInv, AppendFrame
  PROVE  IInv'
<1> DEFINE f == frames + 1
<1>1. /\ frames < MaxFrames /\ frames' = f /\ UNCHANGED <<generation, current, covered, call>>
  BY DEF AppendFrame
<1>2. NoLog \notin Logs /\ Logs \subseteq Calls
  BY CallsAssumption DEF Logs, Calls
<1>3. TypeOK /\ LogsOK /\ TargetIsTrue
  BY DEF IInv, CallsInv
<1>4. f \in 0..MaxFrames /\ f \in Frames
  BY <1>1, <1>3, CallsAssumption DEF TypeOK, Frames
<1>5. \A k \in Logs : Ordered(accepted[k], f) /\ Ordered(Append(accepted[k], f), f)
  BY <1>1, <1>3, NextFrame DEF TypeOK, LogsOK, LogOK
<1> HIDE DEF f
<1>6. CallsDrain
  BY <1>1, <1>3 DEF CallsDrain, TypeOK
<1>7. ASSUME NEW k \in Logs
      PROVE  /\ Moved(state[k], backend[k], state[k], backend[k], accepted[k], frames')
             /\ LiesAt(accepted[k], accepted[k], 0)
  <2>1. LogOK(state[k], backend[k], accepted[k], frames')
    BY <1>1, <1>5, LogFacts DEF LogOK
  <2> QED BY <2>1, LogFacts, Stays, LiesSelf
<1>8. \A k \in Logs : [backend[k] EXCEPT !.session = backend[k].session] = backend[k]
  BY <1>3 DEF TypeOK, BackendType
<1>9. CASE current = NoLog \/ ~state[current].accepting
  <2>1. UNCHANGED <<target, state, backend, accepted>>
    BY <1>9 DEF AppendFrame
  <2>2. LogsMove
    BY <1>3, <1>7, <2>1 DEF LogsMove, TypeOK
  <2>3. CurrentStep
    BY <1>1, <2>1 DEF CurrentStep, IInv, CallsInv, WaitsForLog
  <2>4. BegunMove
    BY <1>8, <2>1 DEF BegunMove
  <2>5. TargetIsTrue' /\ target' \in Logs \cup {NoLog}
    BY <1>1, <1>3, <2>1 DEF TargetIsTrue, TypeOK
  <2> QED BY <1>1, <1>4, <1>6, <2>2, <2>3, <2>4, <2>5, LogStepKeeps
<1>10. CASE ~(current = NoLog \/ ~state[current].accepting)
  <2> DEFINE l == current
             t == IF ExceedsLimit(state[l], f)
                    THEN EnsureWorker(MarkAborted(state[l], "overflow")) ELSE Queued(state[l], f)
             c == SentOf(state[l], backend[l], t)
  <2>1. l \in Logs /\ state[l].accepting
    BY <1>3, <1>10 DEF TypeOK
  <2>2. Becomes(l, t) /\ accepted' = [accepted EXCEPT ![l] = Append(@, f)]
    BY <1>10 DEF AppendFrame, f
  <2>3. /\ Moved(state[l], backend[l], t, c, Append(accepted[l], f), f)
        /\ t.terminal = state[l].terminal
    <3>1. CASE ExceedsLimit(state[l], f)
      BY <3>1, <1>4, <1>5, <2>1, LogFacts, OverflowOK
    <3>2. CASE ~ExceedsLimit(state[l], f)
      BY <3>2, <1>4, <1>5, <2>1, LogFacts, QueuedOK
    <3> QED BY <3>1, <3>2
  <2> HIDE DEF t
  <2>4. /\ state' = [state EXCEPT ![l] = t] /\ backend' = [backend EXCEPT ![l] = c]
        /\ target' = IF state[l].accepting /\ ~t.accepting THEN NoLog ELSE target
    BY <2>1, <2>2, SentIs DEF Becomes
  <2>5. t \in StateType /\ c \in BackendType /\ Append(accepted[l], f) \in Seq(Frames)
    BY <1>4, <2>1, <2>3, LogFacts, AppendProperties DEF Moved
  <2> HIDE DEF c
  <2>6. /\ state' \in [Logs -> StateType] /\ backend' \in [Logs -> BackendType]
        /\ accepted' \in [Logs -> Seq(Frames)]
        /\ state'[l] = t /\ backend'[l] = c /\ accepted'[l] = Append(accepted[l], f)
        /\ \A k \in Logs : k # l => state'[k] = state[k] /\ backend'[k] = backend[k] /\ accepted'[k] = accepted[k]
    BY <1>3, <2>1, <2>2, <2>4, <2>5 DEF TypeOK
  <2>7. LogsMove
    <3>1. LiesAt(accepted[l], Append(accepted[l], f), 0)
      BY <1>4, <2>1, LogFacts, LiesSelf, LiesAppend
    <3> QED BY <1>1, <1>7, <2>3, <2>6, <3>1 DEF LogsMove
  <2>8. CurrentStep
    BY <1>1, <2>1, <2>3, <2>6 DEF CurrentStep, IInv, CallsInv, WaitsForLog
  <2>9. BegunMove
    BY <1>2, <1>8, <2>1, <2>6 DEF BegunMove, IInv, CallsInv, WaitsForLog
  <2>10. TargetIsTrue' /\ target' \in Logs \cup {NoLog}
    BY <1>1, <1>3, <2>1, <2>4, <2>5, TargetKept
  <2> QED BY <1>1, <1>4, <1>6, <2>7, <2>8, <2>9, <2>10, LogStepKeeps
<1> QED BY <1>9, <1>10

-----------------------------------------------------------------------------
(* enable().                                                               *)

\* A step of an enable() that moves no log but may open its session.
LEMMA EnableStepKeeps ==
  ASSUME IInv, NEW e \in Enables, NEW r \in CallType, call' = [call EXCEPT ![e] = r],
         call[e].pc # "ended", r.pc \notin {"idle", "draining", "drained"}, r.log = call[e].log,
         \/ generation' = generation /\ r.generation = call[e].generation /\ call[e].pc # "idle"
         \/ generation' = generation + 1 /\ r.generation = generation + 1,
         r.pc \in {"begin", "begun"} /\ r.generation = generation' => current = NoLog,
         LogsMove, \A k \in Logs : backend'[k] = [backend[k] EXCEPT !.session = backend'[k].session],
         UNCHANGED <<current, target, state, frames, accepted, covered>>
  PROVE  IInv'
<1>1. NoLog \notin Logs /\ Logs \subseteq Calls /\ Strict \subseteq Calls /\ Enables = Logs
      /\ e \in Calls /\ e \notin Strict
  BY CallsAssumption DEF Logs, Calls
<1>2. /\ call' \in [Calls -> CallType] /\ call'[e] = r
      /\ \A c \in Calls : c # e => call'[c] = call[c]
      /\ generation \in Nat /\ \A c \in Calls : call[c].generation \in Nat
  BY <1>1 DEF IInv, TypeOK, CallType
<1>3. TypeOK'
  BY <1>2 DEF IInv, TypeOK, LogsMove
<1>4. LogsOK'
  BY LogsStayOK
<1>5. NotBegun'
  <2> SUFFICES ASSUME NEW l \in Logs, call'[l].pc # "ended"
               PROVE  /\ state'[l] = NewState /\ accepted'[l] = <<>>
                      /\ backend'[l] = [NewBackend EXCEPT !.session = backend'[l].session]
    BY DEF NotBegun
  <2>1. call[l].pc # "ended"
    BY <1>1, <1>2
  <2>2. /\ state[l] = NewState /\ accepted[l] = <<>>
        /\ backend[l] = [NewBackend EXCEPT !.session = backend[l].session]
    BY <2>1 DEF IInv, CallsInv, NotBegun
  <2>3. backend'[l] = [NewBackend EXCEPT !.session = backend'[l].session]
    BY <2>2 DEF NewBackend
  <2> QED BY <2>2, <2>3
<1>6. OneCurrent'
  <2>1. \A c \in Calls : call[c].generation <= generation
    BY DEF IInv, CallsInv, OneCurrent
  <2>2. \A c \in Calls : call'[c].generation <= generation'
    BY <1>1, <1>2, <2>1
  <2>3. ASSUME NEW f \in Enables, call'[f].generation = generation', f # e
        PROVE  generation' = generation /\ call'[f] = call[f]
    BY <1>1, <1>2, <2>1, <2>3
  <2>4. ASSUME NEW f \in Enables, NEW g \in Enables, call'[f].generation = generation',
               call'[g].generation = generation', call'[f].pc # "idle", call'[g].pc # "idle"
        PROVE  f = g
    <3>1. CASE generation' = generation
      <4>1. call[f].pc # "idle" /\ call[g].pc # "idle" /\ call[f].generation = generation
            /\ call[g].generation = generation
        BY <1>1, <1>2, <2>4, <3>1
      <4> QED BY <4>1 DEF IInv, CallsInv, OneCurrent, IsCurrent
    <3>2. CASE generation' # generation
      BY <2>3, <2>4, <3>2
    <3> QED BY <3>1, <3>2
  <2>5. ASSUME NEW f \in Enables, call'[f].generation = generation'
        PROVE  /\ call'[f].pc = "draining" => current' \in {call'[f].log, NoLog}
               /\ call'[f].pc \in {"drained", "begin", "begun"} => current' = NoLog
    <3>1. CASE f = e
      BY <1>2, <2>5, <3>1
    <3>2. CASE f # e
      BY <2>3, <2>5, <3>2 DEF IInv, CallsInv, OneCurrent, IsCurrent
    <3> QED BY <3>1, <3>2
  <2> QED BY <2>2, <2>4, <2>5 DEF OneCurrent, IsCurrent
<1>7. WaitsForLog'
  <2>1. \A c \in Calls :
          /\ call[c].pc = "idle" => call[c].log = NoLog
          /\ call[c].pc \in {"draining", "drained"} => call[c].log # NoLog
          /\ call[c].log # NoLog =>
               call[call[c].log].pc = "ended" /\ state[call[c].log].mode # "none"
          /\ call[c].log \in Logs \cup {NoLog}
    BY DEF IInv, CallsInv, WaitsForLog, TypeOK, CallType
  <2>2. \A k \in Logs : call[k].pc = "ended" => call'[k] = call[k]
    BY <1>1, <1>2
  <2>3. ASSUME NEW c \in Calls
        PROVE  /\ call'[c].pc = "idle" => call'[c].log = NoLog
               /\ call'[c].pc \in {"draining", "drained"} => call'[c].log # NoLog
               /\ call'[c].log # NoLog =>
                    call'[call'[c].log].pc = "ended" /\ state'[call'[c].log].mode # "none"
    <3>1. call'[c].log = call[c].log
      BY <1>2
    <3>2. call'[c].log # NoLog =>
            call'[call'[c].log].pc = "ended" /\ state'[call'[c].log].mode # "none"
      BY <2>1, <2>2, <3>1
    <3> QED BY <1>2, <2>1, <3>1, <3>2
  <2>4. current # NoLog => call[current].pc = "ended" /\ state[current].terminal # "settled" /\ current \in Logs
    BY DEF IInv, CallsInv, WaitsForLog, TypeOK
  <2> QED BY <2>2, <2>3, <2>4 DEF WaitsForLog
<1>8. TargetIsTrue' /\ LeftSettled'
  BY DEF IInv, CallsInv, TargetIsTrue, LeftSettled
<1>9. StrictCovered' /\ StrictHonest'
  BY <1>1, <1>2, StrictKept
<1> QED BY <1>3, <1>4, <1>5, <1>6, <1>7, <1>8, <1>9 DEF IInv, CallsInv

LEMMA EnableKeeps ==
  ASSUME IInv, NEW e \in Enables, Enable(e)
  PROVE  IInv'
<1> DEFINE g == generation + 1
           r == [call[e] EXCEPT !.pc = "choosing", !.generation = g]
<1>1. e \in Calls /\ call[e] \in CallType /\ g \in Nat
  BY DEF IInv, TypeOK, Calls
<1>2. /\ r \in CallType /\ r.pc = "choosing" /\ r.generation = g /\ r.log = call[e].log
  <2> HIDE DEF g
  <2> QED BY <1>1 DEF CallType
<1>3. /\ call' = [call EXCEPT ![e] = r] /\ call[e].pc = "idle" /\ generation' = generation + 1
      /\ UNCHANGED <<current, target, state, backend, frames, accepted, covered>>
  BY DEF Enable, MayCall
<1> HIDE DEF r
<1>4. LogsMove
  BY <1>3, NoLogMoves DEF IInv
<1>5. \A k \in Logs : backend'[k] = [backend[k] EXCEPT !.session = backend'[k].session]
  BY <1>3 DEF IInv, TypeOK, BackendType
<1> QED BY <1>2, <1>3, <1>4, <1>5, EnableStepKeeps

\* A step to another place of enable() that is neither a drain nor a new call.
LEMMA GoesKeeps ==
  ASSUME IInv, NEW e \in Enables, NEW pc \in {"begin", "begun", "ended"}, Goes(e, pc),
         call[e].pc \notin {"idle", "ended"},
         pc # "ended" /\ IsCurrent(e) => current = NoLog,
         LogsMove, \A k \in Logs : backend'[k] = [backend[k] EXCEPT !.session = backend'[k].session],
         UNCHANGED <<generation, current, target, state, frames, accepted, covered>>
  PROVE  IInv'
<1> DEFINE r == [call[e] EXCEPT !.pc = pc]
<1>1. e \in Calls /\ call[e] \in CallType
  BY DEF IInv, TypeOK, Calls
<1>2. /\ r \in CallType /\ r.pc = pc /\ r.generation = call[e].generation /\ r.log = call[e].log
  BY <1>1 DEF CallType
<1>3. call' = [call EXCEPT ![e] = r]
  BY DEF Goes
<1> HIDE DEF r
<1> QED BY <1>2, <1>3, EnableStepKeeps DEF IsCurrent

LEMMA PreviousDrainedKeeps ==
  ASSUME IInv, NEW e \in Enables, PreviousDrained(e)
  PROVE  IInv'
<1> DEFINE pc == IF IsCurrent(e) THEN "begin" ELSE "ended"
<1>1. /\ call[e].pc = "drained" /\ Goes(e, pc)
      /\ UNCHANGED <<generation, current, target, state, backend, frames, accepted, covered>>
  BY DEF PreviousDrained
<1>2. LogsMove
  BY <1>1, NoLogMoves DEF IInv
<1>3. \A k \in Logs : backend'[k] = [backend[k] EXCEPT !.session = backend'[k].session]
  BY <1>1 DEF IInv, TypeOK, BackendType
<1>4. pc \in {"begin", "begun", "ended"} /\ (pc # "ended" /\ IsCurrent(e) => current = NoLog)
  BY <1>1 DEF IInv, CallsInv, OneCurrent
<1> HIDE DEF pc
<1> QED BY <1>1, <1>2, <1>3, <1>4, GoesKeeps

LEMMA BackendBeginsKeeps ==
  ASSUME IInv, NEW e \in Enables, BackendBegins(e)
  PROVE  IInv'
<1>1. /\ call[e].pc = "begin" /\ e \in Logs
      /\ UNCHANGED <<generation, current, target, state, frames, accepted, covered>>
  BY DEF BackendBegins, Logs
<1>2. IsCurrent(e) => current = NoLog
  BY <1>1 DEF IInv, CallsInv, OneCurrent
<1>3. CASE Goes(e, "begun") /\ backend' = [backend EXCEPT ![e].session = "open"]
  <2> DEFINE c == [backend[e] EXCEPT !.session = "open"]
  <2>1. backend[e] \in BackendType /\ LogOK(state[e], backend[e], accepted[e], frames) /\ state[e] \in StateType
    BY <1>1, LogFacts
  <2>2. /\ c \in BackendType /\ c.file = backend[e].file /\ c.append = backend[e].append
        /\ c.batch = backend[e].batch /\ c.complete = backend[e].complete
        /\ c.terminal = backend[e].terminal /\ c = [backend[e] EXCEPT !.session = c.session]
    BY <2>1 DEF BackendType
  <2>3. backend' = [backend EXCEPT ![e] = c] /\ state' = [state EXCEPT ![e] = state[e]]
    BY <1>1, <1>3 DEF IInv, TypeOK
  <2> HIDE DEF c
  <2>4. EndOK(state[e], c)
    BY <2>1, <2>2 DEF LogOK, EndOK
  <2>5. Moved(state[e], backend[e], state[e], c, accepted[e], frames)
    BY <2>1, <2>2, <2>4, EndsOK
  <2>6. LogsMove
    BY <1>1, <2>3, <2>5, OneLogMoves DEF IInv
  <2>7. \A k \in Logs : backend'[k] = [backend[k] EXCEPT !.session = backend'[k].session]
    <3>1. \A k \in Logs : [backend[k] EXCEPT !.session = backend[k].session] = backend[k]
      BY DEF IInv, TypeOK, BackendType
    <3>2. backend'[e] = c /\ \A k \in Logs : k # e => backend'[k] = backend[k]
      BY <1>1, <2>3 DEF IInv, TypeOK
    <3> QED BY <2>2, <3>1, <3>2
  <2> QED BY <1>1, <1>2, <1>3, <2>6, <2>7, GoesKeeps
<1>4. CASE Goes(e, "ended") /\ UNCHANGED backend
  <2>1. LogsMove
    BY <1>1, <1>4, NoLogMoves DEF IInv
  <2>2. \A k \in Logs : backend'[k] = [backend[k] EXCEPT !.session = backend'[k].session]
    BY <1>4 DEF IInv, TypeOK, BackendType
  <2> QED BY <1>1, <1>4, <2>1, <2>2, GoesKeeps
<1> QED BY <1>3, <1>4 DEF BackendBegins

\* A call begins to drain the installed log.
LEMMA DrainBegins ==
  ASSUME IInv, NEW d \in Calls, NEW r \in CallType, call' = [call EXCEPT ![d] = r],
         call[d].pc \in {"idle", "choosing"}, current # NoLog,
         r.pc = "draining", r.log = current, r.generation = call[d].generation,
         \/ generation' = generation /\ call[d].pc # "idle"
         \/ generation' = generation + 1 /\ d \in Stops,
         Becomes(current, ShutdownState(state[current])),
         UNCHANGED <<current, frames, accepted>>
  PROVE  /\ LogsMove /\ LogsOK' /\ CallsInv'
         /\ covered' \in [Strict -> [Logs -> Seq(Frames)]] => TypeOK'
<1> DEFINE l == current
           t == ShutdownState(state[l])
<1>1. NoLog \notin Logs /\ Logs \subseteq Calls /\ Strict \subseteq Calls /\ Enables = Logs
      /\ Stops \subseteq Calls /\ Stops \cap Enables = {}
  BY CallsAssumption DEF Logs, Calls
<1>2. TypeOK /\ LogsOK /\ TargetIsTrue
  BY DEF IInv, CallsInv
<1>3. l \in Logs /\ call[l].pc = "ended" /\ state[l].terminal # "settled" /\ l # d
  BY <1>2 DEF TypeOK, IInv, CallsInv, WaitsForLog
<1>4. /\ Moved(state[l], backend[l], t, SentOf(state[l], backend[l], t), accepted[l], frames)
      /\ ~t.accepting /\ t.mode # "none" /\ t.terminal = state[l].terminal
  BY <1>3, LogFacts, ShutdownOK
<1> HIDE DEF t
<1>5. /\ state' = [state EXCEPT ![l] = t]
      /\ backend' = [backend EXCEPT ![l] = SentOf(state[l], backend[l], t)]
      /\ target' = IF state[l].accepting /\ ~t.accepting THEN NoLog ELSE target
  BY <1>3, SentIs DEF Becomes, t
<1>6. LogsMove
  BY <1>2, <1>3, <1>4, <1>5, OneLogMoves
<1>7. LogsOK'
  BY <1>6, LogsStayOK
<1>8. t \in StateType
  BY <1>4 DEF Moved
<1>9. TargetIsTrue' /\ target' \in Logs \cup {NoLog}
  BY <1>2, <1>3, <1>4, <1>5, <1>8, TargetKept
<1>10. /\ call' \in [Calls -> CallType] /\ call'[d] = r
       /\ \A c \in Calls : c # d => call'[c] = call[c]
       /\ generation \in Nat /\ \A c \in Calls : call[c].generation \in Nat
       /\ call[d] \in CallType
  BY <1>2 DEF TypeOK, CallType
<1>11. /\ state'[l] = t
       /\ \A k \in Logs : k # l => state'[k] = state[k] /\ backend'[k] = backend[k]
  BY <1>2, <1>3, <1>5 DEF TypeOK
<1> HIDE DEF l
<1>12. NotBegun'
  <2> SUFFICES ASSUME NEW k \in Logs, call'[k].pc # "ended"
               PROVE  /\ state'[k] = NewState /\ accepted'[k] = <<>>
                      /\ backend'[k] = [NewBackend EXCEPT !.session = backend'[k].session]
    BY DEF NotBegun
  <2>1. call[k].pc # "ended" /\ k # l
    BY <1>1, <1>3, <1>10
  <2> QED BY <1>11, <2>1 DEF IInv, CallsInv, NotBegun
<1>13. OneCurrent'
  <2>1. \A c \in Calls : call[c].generation <= generation
    BY DEF IInv, CallsInv, OneCurrent
  <2>2. \A c \in Calls : call'[c].generation = call[c].generation
    BY <1>10
  <2>3. \A c \in Calls : call'[c].generation <= generation'
    BY <1>10, <2>1, <2>2
  <2>4. ASSUME NEW f \in Enables, call'[f].generation = generation'
        PROVE  generation' = generation /\ call[f].generation = generation
               /\ (call[f].pc = "idle" <=> call'[f].pc = "idle")
    BY <1>1, <1>10, <2>1, <2>2, <2>4
  <2>5. ASSUME NEW f \in Enables, NEW g \in Enables, call'[f].generation = generation',
               call'[g].generation = generation', call'[f].pc # "idle", call'[g].pc # "idle"
        PROVE  f = g
    BY <2>4, <2>5 DEF IInv, CallsInv, OneCurrent, IsCurrent
  <2>6. ASSUME NEW f \in Enables, call'[f].generation = generation'
        PROVE  /\ call'[f].pc = "draining" => current' \in {call'[f].log, NoLog}
               /\ call'[f].pc \in {"drained", "begin", "begun"} => current' = NoLog
    <3>1. CASE f = d
      BY <1>10, <3>1
    <3>2. CASE f # d
      BY <1>1, <1>10, <2>4, <2>6, <3>2 DEF IInv, CallsInv, OneCurrent, IsCurrent
    <3> QED BY <3>1, <3>2
  <2> QED BY <2>3, <2>5, <2>6 DEF OneCurrent, IsCurrent
<1>14. WaitsForLog'
  <2>1. \A c \in Calls :
          /\ call[c].pc = "idle" => call[c].log = NoLog
          /\ call[c].pc \in {"draining", "drained"} => call[c].log # NoLog
          /\ call[c].log # NoLog =>
               call[call[c].log].pc = "ended" /\ state[call[c].log].mode # "none"
          /\ call[c].log \in Logs \cup {NoLog}
    BY DEF IInv, CallsInv, WaitsForLog, TypeOK, CallType
  <2>2. \A k \in Logs : call[k].pc = "ended" => call'[k] = call[k]
    BY <1>1, <1>10
  <2>3. \A k \in Logs : state[k].mode # "none" => state'[k].mode # "none"
    BY <1>4, <1>11
  <2>4. ASSUME NEW c \in Calls
        PROVE  /\ call'[c].pc = "idle" => call'[c].log = NoLog
               /\ call'[c].pc \in {"draining", "drained"} => call'[c].log # NoLog
               /\ call'[c].log # NoLog =>
                    call'[call'[c].log].pc = "ended" /\ state'[call'[c].log].mode # "none"
    <3>1. CASE c = d
      BY <1>3, <1>4, <1>10, <1>11, <2>2, <3>1 DEF l
    <3>2. CASE c # d
      BY <1>10, <2>1, <2>2, <2>3, <3>2
    <3> QED BY <3>1, <3>2
  <2>5. call'[current'].pc = "ended" /\ state'[current'].terminal # "settled"
    BY <1>3, <1>4, <1>11, <2>2 DEF l
  <2> QED BY <2>4, <2>5 DEF WaitsForLog
<1>15. LeftSettled'
  BY <1>11 DEF IInv, CallsInv, LeftSettled, l
<1>16. covered' \in [Strict -> [Logs -> Seq(Frames)]] => TypeOK'
  <2>1. generation' \in Nat
    BY <1>10
  <2> QED BY <1>2, <1>6, <1>9, <1>10, <2>1 DEF TypeOK, LogsMove
<1> QED BY <1>6, <1>7, <1>9, <1>12, <1>13, <1>14, <1>15, <1>16 DEF CallsInv

LEMMA TargetChosenKeeps ==
  ASSUME IInv, NEW e \in Enables, NEW chosen \in BOOLEAN, TargetChosen(e, chosen)
  PROVE  IInv'
<1>1. /\ call[e].pc = "choosing" /\ e \in Calls /\ e \notin Strict
      /\ UNCHANGED <<generation, current, frames, accepted, covered>>
  BY CallsAssumption DEF TargetChosen, Calls
<1>2. ASSUME UNCHANGED <<target, state, backend>>
      PROVE  LogsMove /\ \A k \in Logs : backend'[k] = [backend[k] EXCEPT !.session = backend'[k].session]
  <2>1. LogsMove
    BY <1>1, <1>2, NoLogMoves DEF IInv
  <2> QED BY <1>2, <2>1 DEF IInv, TypeOK, BackendType
<1>3. CASE ~chosen \/ ~IsCurrent(e)
  <2>1. Goes(e, "ended") /\ UNCHANGED <<target, state, backend>>
    BY <1>3 DEF TargetChosen
  <2> QED BY <1>1, <1>2, <2>1, GoesKeeps
<1>4. CASE ~(~chosen \/ ~IsCurrent(e)) /\ current = NoLog
  <2>1. Goes(e, "begin") /\ UNCHANGED <<target, state, backend>>
    BY <1>4 DEF TargetChosen
  <2> QED BY <1>1, <1>2, <1>4, <2>1, GoesKeeps
<1>5. CASE ~(~chosen \/ ~IsCurrent(e)) /\ current # NoLog
  <2> DEFINE r == [call[e] EXCEPT !.pc = "draining", !.log = current]
  <2>1. call' = [call EXCEPT ![e] = r] /\ Becomes(current, ShutdownState(state[current]))
    BY <1>5 DEF TargetChosen
  <2>2. call[e] \in CallType /\ current \in Logs \cup {NoLog}
    BY <1>1 DEF IInv, TypeOK
  <2>3. r \in CallType /\ r.pc = "draining" /\ r.log = current /\ r.generation = call[e].generation
    BY <2>2 DEF CallType
  <2> HIDE DEF r
  <2>4. /\ LogsMove /\ LogsOK' /\ CallsInv'
        /\ covered' \in [Strict -> [Logs -> Seq(Frames)]] => TypeOK'
    BY <1>1, <1>5, <2>1, <2>3, DrainBegins
  <2>5. TypeOK'
    BY <1>1, <2>4 DEF IInv, TypeOK
  <2>6. \A c \in Strict : call'[c] = call[c]
    BY <1>1, <2>1, CallsAssumption DEF Calls, IInv, TypeOK
  <2>7. StrictCovered' /\ StrictHonest'
    BY <1>1, <2>4, <2>6, StrictKept
  <2> QED BY <2>4, <2>5, <2>7 DEF IInv
<1> QED BY <1>3, <1>4, <1>5

LEMMA InstallKeeps ==
  ASSUME IInv, NEW e \in Enables, Install(e)
  PROVE  IInv'
<1>1. /\ call[e].pc = "begun" /\ Goes(e, "ended") /\ UNCHANGED <<generation, frames, accepted, covered>>
      /\ e \in Logs /\ e \in Calls /\ e \notin Strict /\ Logs = Enables /\ Logs \subseteq Calls
      /\ NoLog \notin Logs /\ Strict \subseteq Calls
  BY CallsAssumption DEF Install, Logs, Calls
<1>2. TypeOK /\ LogsOK /\ TargetIsTrue /\ NotBegun /\ OneCurrent /\ WaitsForLog /\ LeftSettled
  BY DEF IInv, CallsInv
<1>3. /\ state[e] = NewState /\ accepted[e] = <<>>
      /\ backend[e] = [NewBackend EXCEPT !.session = backend[e].session]
  BY <1>1, <1>2 DEF NotBegun
<1>4. /\ call' \in [Calls -> CallType] /\ call'[e].pc = "ended" /\ call'[e].log = call[e].log
      /\ call'[e].generation = call[e].generation
      /\ \A c \in Calls : c # e => call'[c] = call[c]
  <2>1. call[e] \in CallType /\ call' = [call EXCEPT ![e] = [call[e] EXCEPT !.pc = "ended"]]
    BY <1>1, <1>2 DEF TypeOK, Goes
  <2>2. [call[e] EXCEPT !.pc = "ended"] \in CallType
    BY <2>1 DEF CallType
  <2>3. call'[e] = [call[e] EXCEPT !.pc = "ended"] /\ call' \in [Calls -> CallType]
        /\ \A c \in Calls : c # e => call'[c] = call[c]
    BY <1>1, <1>2, <2>1, <2>2 DEF TypeOK
  <2> QED BY <2>1, <2>3 DEF CallType
<1>5. state[e] \in StateType /\ backend[e] \in BackendType /\ LogOK(state[e], backend[e], accepted[e], frames)
  BY <1>1, LogFacts
<1>6. \A c \in Calls : call[c].log # e
  BY <1>1, <1>2 DEF WaitsForLog
<1>7. \A c \in Strict : call'[c] = call[c]
  BY <1>1, <1>4
<1>8. ASSUME LogsMove, \A k \in Logs : k # e => state'[k] = state[k] /\ backend'[k] = backend[k],
             current' \in {current, e}, current' # current => current = NoLog /\ IsCurrent(e),
             state'[e].terminal = "none", target' \in Logs \cup {NoLog}, TargetIsTrue'
      PROVE  IInv'
  <2>1. TypeOK' /\ LogsOK'
    BY <1>1, <1>2, <1>4, <1>8, LogsStayOK DEF TypeOK, LogsMove
  <2>2. NotBegun'
    BY <1>1, <1>2, <1>4, <1>8 DEF NotBegun
  <2>3. OneCurrent'
    <3>1. \A c \in Calls : call'[c].generation = call[c].generation
                           /\ (call'[c].pc = "idle" <=> call[c].pc = "idle")
      BY <1>1, <1>4
    <3>2. \A c \in Calls : call'[c].generation <= generation'
      BY <1>1, <1>2, <3>1 DEF OneCurrent
    <3>3. ASSUME NEW f \in Enables, NEW g \in Enables, call'[f].generation = generation',
                 call'[g].generation = generation', call'[f].pc # "idle", call'[g].pc # "idle"
          PROVE  f = g
      BY <1>1, <1>2, <3>1, <3>3 DEF OneCurrent, IsCurrent
    <3>4. ASSUME NEW f \in Enables, call'[f].generation = generation'
          PROVE  /\ call'[f].pc = "draining" => current' \in {call'[f].log, NoLog}
                 /\ call'[f].pc \in {"drained", "begin", "begun"} => current' = NoLog
      <4>1. CASE f = e
        BY <1>4, <4>1
      <4>2. CASE f # e /\ current' = current
        BY <1>1, <1>2, <1>4, <3>4, <4>2 DEF OneCurrent, IsCurrent
      <4>3. CASE f # e /\ current' # current
        <5>1. IsCurrent(e) /\ call[e].pc # "idle"
          BY <1>1, <1>8, <4>3
        <5>2. call[f].pc = "idle"
          BY <1>1, <1>2, <3>1, <3>4, <4>3, <5>1 DEF OneCurrent, IsCurrent
        <5> QED BY <1>1, <1>4, <4>3, <5>2
      <4> QED BY <4>1, <4>2, <4>3
    <3> QED BY <3>2, <3>3, <3>4 DEF OneCurrent, IsCurrent
  <2>4. WaitsForLog'
    <3>1. current' # NoLog => call'[current'].pc = "ended" /\ state'[current'].terminal # "settled"
      <4>1. CASE current' = e
        BY <1>4, <1>8, <4>1
      <4>2. CASE current' # e
        <5>1. current' = current /\ current \in Logs \cup {NoLog}
          BY <1>2, <1>8, <4>2 DEF TypeOK
        <5> QED BY <1>1, <1>2, <1>4, <1>8, <4>2, <5>1 DEF WaitsForLog
      <4> QED BY <4>1, <4>2
    <3>2. ASSUME NEW c \in Calls
          PROVE  /\ call'[c].pc = "idle" => call'[c].log = NoLog
                 /\ call'[c].pc \in {"draining", "drained"} => call'[c].log # NoLog
                 /\ call'[c].log # NoLog =>
                      call'[call'[c].log].pc = "ended" /\ state'[call'[c].log].mode # "none"
      <4>1. /\ call[c].pc = "idle" => call[c].log = NoLog
            /\ call[c].pc \in {"draining", "drained"} => call[c].log # NoLog
            /\ call[c].log # NoLog =>
                 call[call[c].log].pc = "ended" /\ state[call[c].log].mode # "none"
            /\ call[c].log \in Logs \cup {NoLog} /\ call[c].log # e
        BY <1>2, <1>6 DEF WaitsForLog, TypeOK, CallType
      <4>2. call'[c].log = call[c].log
        BY <1>4
      <4>3. call'[c].log # NoLog =>
              call'[call'[c].log].pc = "ended" /\ state'[call'[c].log].mode # "none"
        BY <1>1, <1>4, <1>8, <4>1, <4>2
      <4> QED BY <1>4, <4>1, <4>2, <4>3
    <3> QED BY <3>1, <3>2 DEF WaitsForLog
  <2>5. LeftSettled'
    <3> SUFFICES ASSUME NEW k \in Logs, k # current', state'[k].mode # "abort"
                 PROVE  accepted'[k] = <<>> \/ state'[k].terminal = "settled"
      BY DEF LeftSettled
    <3>1. CASE k = e
      BY <1>1, <1>3, <3>1
    <3>2. CASE k # e
      BY <1>1, <1>2, <1>8, <3>2 DEF LeftSettled
    <3> QED BY <3>1, <3>2
  <2>6. StrictCovered' /\ StrictHonest'
    BY <1>1, <1>7, <1>8, StrictKept
  <2> QED BY <1>8, <2>1, <2>2, <2>3, <2>4, <2>5, <2>6 DEF IInv, CallsInv
<1>9. CASE IsCurrent(e)
  <2> DEFINE t == [state[e] EXCEPT !.accepting = TRUE]
             s == state[e]
             b == backend[e]
  <2>1. /\ state' = [state EXCEPT ![e] = t] /\ backend' = [backend EXCEPT ![e] = b]
        /\ current' = e /\ target' = e /\ backend' = backend
    BY <1>2, <1>9 DEF Install, TypeOK
  <2>2. current = NoLog
    BY <1>1, <1>2, <1>9 DEF OneCurrent
  <2>3. /\ t \in StateType /\ t.accepting /\ t.queue = s.queue /\ t.batch = s.batch /\ t.mode = s.mode
        /\ t.warned = s.warned /\ t.failed = s.failed /\ t.worker = s.worker /\ t.debounce = s.debounce
        /\ t.terminal = s.terminal
    BY <1>5 DEF StateType
  <2>4. s.mode = "none" /\ s.terminal = "none" /\ s \in StateType /\ b \in BackendType
        /\ LogOK(s, b, accepted[e], frames)
    BY <1>3, <1>5 DEF NewState
  <2> HIDE DEF t, s, b
  <2>5. StateOK(t)
    BY <2>3, <2>4 DEF LogOK, StateOK
  <2>6. DataOK(t, b, accepted[e])
    BY <2>3, <2>4, SameData DEF LogOK
  <2>7. EndOK(t, b) /\ Grows(s, b, t, b)
    BY <2>3, <2>4, LiesSelf DEF LogOK, EndOK, Grows, BackendType
  <2>8. Moved(s, b, t, b, accepted[e], frames)
    BY <2>3, <2>4, <2>5, <2>6, <2>7 DEF LogOK, Moved
  <2>9. LogsMove
    BY <1>1, <1>2, <2>1, <2>8, OneLogMoves DEF s, b
  <2>10. /\ state'[e] = t
         /\ \A k \in Logs : k # e => state'[k] = state[k] /\ backend'[k] = backend[k]
    BY <1>1, <1>2, <2>1 DEF TypeOK
  <2>11. TargetIsTrue'
    <3>1. ASSUME NEW k \in Logs
          PROVE  /\ (target' = k) <=> state'[k].accepting
                 /\ state'[k].accepting => current' = k
      <4>1. CASE k = e
        BY <2>1, <2>3, <2>10, <4>1
      <4>2. CASE k # e
        BY <1>1, <1>2, <2>1, <2>2, <2>10, <4>2 DEF TargetIsTrue
      <4> QED BY <4>1, <4>2
    <3>2. \A k \in Logs : state'[k].accepting \in BOOLEAN
      BY <2>9 DEF LogsMove, StateType
    <3> QED BY <3>1, <3>2 DEF TargetIsTrue
  <2> QED BY <1>1, <1>8, <1>9, <2>1, <2>2, <2>3, <2>4, <2>9, <2>10, <2>11
<1>10. CASE ~IsCurrent(e)
  <2> DEFINE s == state[e]
             b == backend[e]
             c == [backend[e] EXCEPT !.terminal = "abort"]
  <2>1. /\ backend' = [backend EXCEPT ![e] = c] /\ state' = [state EXCEPT ![e] = s]
        /\ UNCHANGED <<state, current, target>>
    BY <1>2, <1>10 DEF Install, TypeOK
  <2>2. /\ c \in BackendType /\ c.file = b.file /\ c.append = b.append /\ c.batch = b.batch
        /\ c.complete = b.complete /\ c.terminal = "abort"
    BY <1>5 DEF BackendType
  <2>3. s.terminal = "none" /\ s \in StateType /\ b \in BackendType /\ LogOK(s, b, accepted[e], frames)
    BY <1>3, <1>5 DEF NewState
  <2>4. b.complete = FALSE
    BY <1>3 DEF NewBackend
  <2> HIDE DEF s, b, c
  <2>5. EndOK(s, c)
    BY <2>2, <2>3, <2>4 DEF EndOK
  <2>6. Moved(s, b, s, c, accepted[e], frames)
    BY <2>2, <2>3, <2>5, EndsOK
  <2>7. LogsMove
    BY <1>1, <1>2, <2>1, <2>6, OneLogMoves DEF s, b
  <2>8. /\ state'[e] = s
        /\ \A k \in Logs : k # e => state'[k] = state[k] /\ backend'[k] = backend[k]
    BY <1>1, <1>2, <2>1 DEF TypeOK, s
  <2>9. TargetIsTrue' /\ target' \in Logs \cup {NoLog}
    BY <1>2, <2>1 DEF TargetIsTrue, TypeOK
  <2> QED BY <1>8, <2>1, <2>3, <2>7, <2>8, <2>9
<1> QED BY <1>9, <1>10

-----------------------------------------------------------------------------
(* disable() and prepareShutdown().                                        *)

\* A log that is over without having been aborted holds all it accepted.
LEMMA SettledIsLogged ==
  ASSUME NEW s \in StateType, NEW b \in BackendType, NEW a \in Seq(Frames), NEW n,
         LogOK(s, b, a, n), s.mode # "abort", s.terminal # "none"
  PROVE  Len(b.file) = Len(a) /\ LiesAt(b.file, a, 0)
<1>1. s.queue = <<>> /\ s.batch = <<>>
  BY DEF LogOK, StateOK
<1>2. Len(a) - 0 = Len(a) /\ Len(a) \in Nat /\ Len(b.file) \in Nat
  BY SeqFacts DEF BackendType
<1>3. LiesAt(b.file, a, 0) /\ (Len(a) - 0) - 0 <= Len(b.file) /\ Len(b.file) <= Len(a) - 0
  BY <1>1, NoFrames DEF LogOK, DataOK
<1> QED BY <1>2, <1>3

\* What a log has accepted when it is not installed is in its file, or was reported.
LEMMA LeftIsLogged ==
  ASSUME IInv, NEW l \in Logs, l # current
  PROVE  LiesAt(accepted[l], backend[l].file, 0) \/ state[l].warned # "no"
<1>1. CASE state[l].mode = "abort"
  BY <1>1, LogFacts DEF LogOK, StateOK
<1>2. CASE state[l].mode # "abort" /\ accepted[l] = <<>>
  <2>1. backend[l].file \in Seq(Frames) /\ Len(backend[l].file) \in Nat
    BY LogFacts, SeqFacts DEF BackendType
  <2> QED BY <1>2, <2>1, EmptyLies
<1>3. CASE state[l].mode # "abort" /\ state[l].terminal = "settled"
  <2>1. backend[l].file \in Seq(Frames) /\ accepted[l] \in Seq(Frames)
    BY LogFacts DEF BackendType
  <2>2. Len(backend[l].file) = Len(accepted[l]) /\ LiesAt(backend[l].file, accepted[l], 0)
    BY <1>3, LogFacts, SettledIsLogged
  <2>3. LiesAt(accepted[l], accepted[l], 0)
    BY <2>1, LiesSelf
  <2> QED BY <2>1, <2>2, <2>3, LiesCovers
<1> QED BY <1>1, <1>2, <1>3 DEF IInv, CallsInv, LeftSettled

LEMMA StopKeeps ==
  ASSUME IInv, NEW d \in Stops, Stop(d)
  PROVE  IInv'
<1>1. /\ call[d].pc = "idle" /\ generation' = generation + 1
      /\ covered' = [x \in DOMAIN covered |-> IF x = d THEN accepted ELSE covered[x]]
      /\ UNCHANGED <<current, frames, accepted>> /\ d \in Calls /\ d \notin Enables
      /\ Logs = Enables /\ Logs \subseteq Calls /\ NoLog \notin Logs /\ Strict \subseteq Calls
  BY CallsAssumption DEF Stop, MayCall, Calls, Logs
<1>2. TypeOK /\ LogsOK /\ TargetIsTrue /\ NotBegun /\ OneCurrent /\ WaitsForLog /\ LeftSettled
  BY DEF IInv, CallsInv
<1>3. /\ covered' \in [Strict -> [Logs -> Seq(Frames)]]
      /\ \A c \in Strict : covered'[c] = IF c = d THEN accepted ELSE covered[c]
  BY <1>1, <1>2 DEF TypeOK
<1>4. call[d] \in CallType /\ call[d].log = NoLog /\ generation \in Nat
  BY <1>1, <1>2 DEF TypeOK, WaitsForLog
\* The strict calls, whatever became of the installed log.
<1>5. ASSUME LogsMove, NEW r \in CallType, call' = [call EXCEPT ![d] = r], r.log = current,
             r.pc = "draining" \/ (r.pc = "ended" /\ current = NoLog)
      PROVE  StrictCovered' /\ StrictHonest'
  <2>1. /\ call'[d] = r /\ \A c \in Strict : c # d => call'[c] = call[c]
    BY <1>1, <1>2, <1>5 DEF TypeOK
  <2>2. ASSUME NEW c \in Strict, NEW l \in Logs
        PROVE  /\ LiesAt(covered'[c][l], accepted'[l], 0)
               /\ call'[c].pc # "idle" /\ call'[c].log # l =>
                    LiesAt(covered'[c][l], backend'[l].file, 0) \/ state'[l].warned # "no"
               /\ call'[c].pc = "ended" /\ call'[c].log = l =>
                    \/ LiesAt(covered'[c][l], backend'[l].file, 0) /\ backend'[l].complete
                    \/ state'[l].warned = "overflow"
    <3>1. /\ covered[c][l] \in Seq(Frames) /\ accepted[l] \in Seq(Frames)
          /\ backend[l].file \in Seq(Frames) /\ backend'[l].file \in Seq(Frames)
      BY <1>2, <1>5 DEF TypeOK, LogsMove, BackendType
    <3>2. Grows(state[l], backend[l], state'[l], backend'[l]) /\ accepted'[l] = accepted[l]
      BY <1>1, <1>5 DEF LogsMove, Moved
    <3>3. CASE c = d
      <4>1. covered'[c][l] = accepted[l] /\ LiesAt(accepted[l], accepted[l], 0)
        BY <1>3, <3>1, <3>3, LiesSelf
      <4>2. l # current =>
              LiesAt(accepted[l], backend'[l].file, 0) \/ state'[l].warned # "no"
        BY <3>1, <3>2, LeftIsLogged, LiesTransitive DEF Grows
      <4> QED BY <1>1, <1>5, <2>1, <3>2, <3>3, <4>1, <4>2
    <3>4. CASE c # d
      <4>1. covered'[c][l] = covered[c][l] /\ call'[c] = call[c]
        BY <1>3, <2>1, <3>4
      <4>2. LiesAt(covered[c][l], accepted[l], 0)
        BY DEF IInv, StrictCovered
      <4>3. LiesAt(covered[c][l], backend[l].file, 0) => LiesAt(covered[c][l], backend'[l].file, 0)
        BY <3>1, <3>2, LiesTransitive DEF Grows
      <4>4. call[c].pc # "idle" /\ call[c].log # l =>
              LiesAt(covered[c][l], backend[l].file, 0) \/ state[l].warned # "no"
        BY DEF IInv, StrictCovered
      <4>5. call[c].pc = "ended" /\ call[c].log = l =>
              \/ LiesAt(covered[c][l], backend[l].file, 0) /\ backend[l].complete
              \/ state[l].warned = "overflow"
        BY DEF IInv, StrictHonest
      <4>6. /\ state[l].warned # "no" => state'[l].warned = state[l].warned
            /\ backend[l].complete => backend'[l].complete
        BY <3>2 DEF Grows
      <4> QED BY <3>2, <4>1, <4>2, <4>3, <4>4, <4>5, <4>6
    <3> QED BY <3>3, <3>4
  <2>3. ASSUME NEW c \in Strict, call'[c].pc = "drained"
        PROVE  state'[call'[c].log].terminal = "settled" \/ state'[call'[c].log].failed
    <3>1. c # d /\ call'[c] = call[c]
      BY <1>5, <2>1, <2>3
    <3>2. state[call[c].log].terminal = "settled" \/ state[call[c].log].failed
      BY <2>3, <3>1 DEF IInv, StrictCovered
    <3>3. call[c].log \in Logs
      BY <1>1, <1>2, <2>3, <3>1 DEF WaitsForLog, TypeOK, CallType
    <3> QED BY <1>5, <3>1, <3>2, <3>3 DEF LogsMove, Moved, Grows
  <2> QED BY <2>2, <2>3 DEF StrictCovered, StrictHonest
<1>6. CASE current # NoLog
  <2> DEFINE r == [call[d] EXCEPT !.pc = "draining", !.log = current]
  <2>1. call' = [call EXCEPT ![d] = r] /\ Becomes(current, ShutdownState(state[current]))
    BY <1>6 DEF Stop
  <2>2. current \in Logs \cup {NoLog}
    BY <1>2 DEF TypeOK
  <2>3. r \in CallType /\ r.pc = "draining" /\ r.log = current /\ r.generation = call[d].generation
    BY <1>4, <2>2 DEF CallType
  <2> HIDE DEF r
  <2>4. LogsMove /\ LogsOK' /\ CallsInv' /\ TypeOK'
    BY <1>1, <1>3, <1>6, <2>1, <2>3, DrainBegins
  <2>5. StrictCovered' /\ StrictHonest'
    BY <1>5, <2>1, <2>3, <2>4
  <2> QED BY <2>4, <2>5 DEF IInv
<1>7. CASE current = NoLog
  <2> DEFINE r == [call[d] EXCEPT !.pc = "ended"]
  <2>1. call' = [call EXCEPT ![d] = r] /\ target' = NoLog /\ UNCHANGED <<state, backend>>
    BY <1>7 DEF Stop
  <2>2. r \in CallType /\ r.pc = "ended" /\ r.log = NoLog /\ r.generation = call[d].generation
    BY <1>4 DEF CallType
  <2> HIDE DEF r
  <2>3. LogsMove
    BY <1>1, <1>2, <2>1, NoLogMoves
  <2>4. StrictCovered' /\ StrictHonest'
    BY <1>5, <1>7, <2>1, <2>2, <2>3
  <2>5. /\ call' \in [Calls -> CallType] /\ call'[d] = r
        /\ \A c \in Calls : c # d => call'[c] = call[c]
        /\ \A c \in Calls : call'[c].generation = call[c].generation /\ call[c].generation \in Nat
    BY <1>1, <1>2, <2>1, <2>2 DEF TypeOK, CallType
  <2>6. TypeOK' /\ LogsOK'
    BY <1>1, <1>2, <1>3, <1>4, <2>1, <2>3, <2>5, LogsStayOK DEF TypeOK, LogsMove
  <2>7. NotBegun'
    BY <1>1, <1>2, <2>1, <2>5 DEF NotBegun
  <2>8. OneCurrent'
    <3>1. \A c \in Calls : call'[c].generation <= generation /\ generation < generation'
      BY <1>1, <1>2, <1>4, <2>5 DEF OneCurrent
    <3>2. \A c \in Calls : call'[c].generation <= generation' /\ call'[c].generation # generation'
      BY <1>1, <1>4, <2>5, <3>1
    <3> QED BY <1>1, <3>2 DEF OneCurrent, IsCurrent
  <2>9. WaitsForLog'
    <3>1. ASSUME NEW c \in Calls
          PROVE  /\ call'[c].pc = "idle" => call'[c].log = NoLog
                 /\ call'[c].pc \in {"draining", "drained"} => call'[c].log # NoLog
                 /\ call'[c].log # NoLog =>
                      call'[call'[c].log].pc = "ended" /\ state'[call'[c].log].mode # "none"
      <4>1. /\ call[c].pc = "idle" => call[c].log = NoLog
            /\ call[c].pc \in {"draining", "drained"} => call[c].log # NoLog
            /\ call[c].log # NoLog =>
                 call[call[c].log].pc = "ended" /\ state[call[c].log].mode # "none"
            /\ call[c].log \in Logs \cup {NoLog}
        BY <1>2 DEF WaitsForLog, TypeOK, CallType
      <4>2. \A k \in Logs : call'[k] = call[k]
        BY <1>1, <2>5
      <4>3. CASE c = d
        BY <2>2, <2>5, <4>3
      <4>4. CASE c # d
        BY <2>1, <2>5, <4>1, <4>2, <4>4
      <4> QED BY <4>3, <4>4
    <3> QED BY <1>1, <1>7, <3>1 DEF WaitsForLog
  <2>10. TargetIsTrue'
    <3>1. \A k \in Logs : state[k].accepting \in BOOLEAN
      BY <1>2 DEF TypeOK, StateType
    <3>2. \A k \in Logs : ~state[k].accepting
      BY <1>1, <1>2, <1>7, <3>1 DEF TargetIsTrue
    <3>3. \A k \in Logs : state[k].accepting = FALSE /\ target' # k
      BY <1>1, <2>1, <3>1, <3>2
    <3> QED BY <2>1, <3>3, Zenon DEF TargetIsTrue
  <2>11. LeftSettled'
    BY <1>1, <1>2, <2>1 DEF LeftSettled
  <2> QED BY <2>4, <2>6, <2>7, <2>8, <2>9, <2>10, <2>11 DEF IInv, CallsInv
<1> QED BY <1>6, <1>7

LEMMA StopSettlesKeeps ==
  ASSUME IInv, NEW d \in Stops, StopSettles(d)
  PROVE  IInv'
<1> DEFINE pc == IF d \in Strict /\ state[call[d].log].failed THEN "failed" ELSE "ended"
<1>1. /\ call[d].pc = "drained" /\ Goes(d, pc) /\ d \in Calls /\ d \notin Enables
      /\ UNCHANGED <<generation, current, target, state, backend, frames, accepted, covered>>
      /\ Logs = Enables /\ Logs \subseteq Calls /\ NoLog \notin Logs /\ Strict \subseteq Calls
  BY CallsAssumption DEF StopSettles, Calls, Logs
<1>2. TypeOK /\ LogsOK /\ TargetIsTrue /\ NotBegun /\ OneCurrent /\ WaitsForLog /\ LeftSettled
      /\ StrictCovered /\ StrictHonest
  BY DEF IInv, CallsInv
<1>3. pc \in {"failed", "ended"}
  OBVIOUS
<1>4. /\ call' \in [Calls -> CallType]
      /\ \A c \in Calls : /\ call'[c].log = call[c].log /\ call'[c].generation = call[c].generation
                          /\ c # d => call'[c] = call[c]
      /\ call'[d].pc = pc
  <2> HIDE DEF pc
  <2>1. call[d] \in CallType /\ call' = [call EXCEPT ![d] = [call[d] EXCEPT !.pc = pc]]
    BY <1>1, <1>2 DEF TypeOK, Goes
  <2>2. [call[d] EXCEPT !.pc = pc] \in CallType
    BY <1>3, <2>1 DEF CallType
  <2>3. call'[d] = [call[d] EXCEPT !.pc = pc] /\ call' \in [Calls -> CallType]
        /\ \A c \in Calls : c # d => call'[c] = call[c]
    BY <1>1, <1>2, <2>1, <2>2 DEF TypeOK
  <2> QED BY <2>1, <2>3 DEF CallType
<1>5. TypeOK' /\ LogsOK'
  BY <1>1, <1>2, <1>4 DEF TypeOK, LogsOK
<1>6. NotBegun' /\ OneCurrent' /\ TargetIsTrue' /\ LeftSettled'
  BY <1>1, <1>2, <1>4 DEF NotBegun, OneCurrent, IsCurrent, TargetIsTrue, LeftSettled
<1>7. WaitsForLog'
  <2>1. \A k \in Logs : call'[k] = call[k]
    BY <1>1, <1>4
  <2>2. \A c \in Calls : call[c].log \in Logs \cup {NoLog}
    BY <1>2 DEF TypeOK, CallType
  <2>3. current \in Logs \cup {NoLog}
    BY <1>2 DEF TypeOK
  <2> HIDE DEF pc
  <2> QED BY <1>1, <1>2, <1>3, <1>4, <2>1, <2>2, <2>3 DEF WaitsForLog
<1>8. StrictCovered'
  <2> HIDE DEF pc
  <2> QED BY <1>1, <1>2, <1>3, <1>4 DEF StrictCovered
<1>9. StrictHonest'
  <2> SUFFICES ASSUME NEW c \in Strict, NEW l \in Logs, call'[c].pc = "ended", call'[c].log = l
               PROVE  \/ LiesAt(covered[c][l], backend[l].file, 0) /\ backend[l].complete
                      \/ state[l].warned = "overflow"
    BY <1>1 DEF StrictHonest
  <2>1. CASE c # d
    BY <1>1, <1>2, <1>4, <2>1 DEF StrictHonest
  <2>2. CASE c = d
    <3>1. call[d].log = l /\ ~state[l].failed
      BY <1>1, <1>4, <2>2
    <3>2. state[l].terminal = "settled" /\ state[l].mode # "none"
      BY <1>1, <1>2, <2>2, <3>1 DEF StrictCovered, WaitsForLog
    <3>3. state[l] \in StateType /\ StateOK(state[l]) /\ EndOK(state[l], backend[l])
      BY LogFacts DEF LogOK
    <3>4. CASE state[l].mode = "abort"
      BY <3>1, <3>3, <3>4 DEF StateOK, StateType
    <3>5. CASE state[l].mode # "abort"
      <4>1. backend[l].complete
        BY <3>1, <3>2, <3>3, <3>5 DEF EndOK
      <4>2. Len(backend[l].file) = Len(accepted[l]) /\ LiesAt(backend[l].file, accepted[l], 0)
        BY <3>2, <3>5, LogFacts, SettledIsLogged
      <4>3. backend[l].file \in Seq(Frames) /\ accepted[l] \in Seq(Frames) /\ covered[c][l] \in Seq(Frames)
        BY <1>2 DEF TypeOK, BackendType
      <4>4. LiesAt(covered[c][l], accepted[l], 0)
        BY <1>2 DEF StrictCovered
      <4>5. LiesAt(covered[c][l], backend[l].file, 0)
        BY <4>2, <4>3, <4>4, LiesCovers
      <4> QED BY <4>1, <4>5
    <3> QED BY <3>4, <3>5
  <2> QED BY <2>1, <2>2
<1> QED BY <1>5, <1>6, <1>7, <1>8, <1>9 DEF IInv, CallsInv

-----------------------------------------------------------------------------
(* The theorems.                                                           *)

LEMMA InitInv == Init => IInv
<1> SUFFICES ASSUME Init PROVE IInv
  OBVIOUS
<1>1. NoLog \notin Logs /\ Logs \subseteq Calls /\ Strict \subseteq Calls /\ Enables = Logs
      /\ MaxFrames \in Nat
  BY CallsAssumption DEF Logs, Calls
<1>2. NewState \in StateType /\ NewBackend \in BackendType /\ NewCall \in CallType
  BY NoFrames DEF NewState, StateType, NewBackend, BackendType, NewCall, CallType
<1>3. TypeOK
  BY <1>1, <1>2, NoFrames DEF Init, TypeOK
<1>4. LogOK(NewState, NewBackend, <<>>, 0)
  <2>1. StateOK(NewState)
    BY DEF StateOK, NewState
  <2>2. LiesAt(<<>>, <<>>, 0) /\ Len(<<>>) = 0
    BY NoFrames, LiesSelf
  <2>3. DataOK(NewState, NewBackend, <<>>)
    BY <2>2 DEF DataOK, NewState, NewBackend
  <2>4. EndOK(NewState, NewBackend)
    BY DEF EndOK, NewState, NewBackend
  <2>5. Ordered(<<>>, 0)
    BY NoFrames DEF Ordered
  <2> QED BY <2>1, <2>3, <2>4, <2>5 DEF LogOK
<1>5. LogsOK
  BY <1>4 DEF Init, LogsOK
<1>6. [NewBackend EXCEPT !.session = NewBackend.session] = NewBackend
  BY DEF NewBackend
<1>7. NotBegun
  BY <1>6 DEF Init, NotBegun
<1>8. OneCurrent
  BY <1>1 DEF Init, OneCurrent, NewCall, IsCurrent
<1>9. WaitsForLog
  BY DEF Init, WaitsForLog, NewCall
<1>10. TargetIsTrue
  BY <1>1 DEF Init, TargetIsTrue, NewState
<1>11. LeftSettled
  BY DEF Init, LeftSettled
<1>12. StrictCovered /\ StrictHonest
  <2>1. LiesAt(<<>>, <<>>, 0)
    BY NoFrames, LiesSelf
  <2> QED BY <1>1, <2>1 DEF Init, StrictCovered, StrictHonest, NewCall
<1> QED BY <1>3, <1>5, <1>7, <1>8, <1>9, <1>10, <1>11, <1>12 DEF IInv, CallsInv

LEMMA NextInv ==
  ASSUME IInv, [Next]_vars
  PROVE  IInv'
<1>1. CASE AppendFrame
  BY <1>1, AppendFrameKeeps
<1>2. ASSUME NEW l \in Logs, LogStep(l)
      PROVE  IInv'
  BY <1>2, DebounceFiresKeeps, WorkerStartsKeeps, AppendSucceedsKeeps, AppendFailsKeeps,
     TerminalSettlesKeeps DEF LogStep
<1>3. ASSUME NEW l \in Logs,
             BackendAppends(l) \/ BackendFinishes(l) \/ BackendAborts(l) \/ BackendExpires(l)
      PROVE  IInv'
  BY <1>3, BackendAppendsKeeps, BackendFinishesKeeps, BackendAbortsKeeps, BackendExpiresKeeps
<1>4. ASSUME NEW e \in Enables,
             \/ Enable(e) \/ TargetChosen(e, TRUE) \/ TargetChosen(e, FALSE)
             \/ PreviousDrained(e) \/ BackendBegins(e) \/ Install(e)
      PROVE  IInv'
  BY <1>4, EnableKeeps, TargetChosenKeeps, PreviousDrainedKeeps, BackendBeginsKeeps, InstallKeeps
<1>5. ASSUME NEW c \in Stops, Stop(c) \/ StopSettles(c)
      PROVE  IInv'
  BY <1>5, StopKeeps, StopSettlesKeeps
<1>6. ASSUME NEW c \in Calls, DrainTimesOut(c)
      PROVE  IInv'
  BY <1>6, DrainTimesOutKeeps
<1>7. CASE UNCHANGED vars
  <2>1. UNCHANGED <<generation, current, target, call, state, backend, frames, accepted, covered>>
    BY <1>7 DEF vars
  <2>2. TypeOK' /\ LogsOK'
    BY <2>1 DEF IInv, TypeOK, LogsOK
  <2>3. CallsInv'
    BY <2>1 DEF IInv, CallsInv, NotBegun, OneCurrent, IsCurrent, WaitsForLog, TargetIsTrue, LeftSettled
  <2>4. StrictCovered' /\ StrictHonest'
    BY <2>1 DEF IInv, StrictCovered, StrictHonest
  <2> QED BY <2>2, <2>3, <2>4 DEF IInv
<1> QED BY <1>1, <1>2, <1>3, <1>4, <1>5, <1>6, <1>7 DEF Next

\* Every log is consistent with the calls that wait for it, in every reachable state of the
\* bridge and the backend's log sessions.
THEOREM AutoLogInvariance == Spec => []IInv
<1>1. Init => IInv
  BY InitInv
<1>2. IInv /\ [Next]_vars => IInv'
  BY NextInv
<1> QED BY <1>1, <1>2, PTL DEF Spec

\* TargetIsTrue for any number of calls of enable(), disable() and prepareShutdown(): the
\* session shows a log exactly while appendFrame() may add to it, and an enable() that was
\* overtaken never brings its log back.
THEOREM SessionShowsTheLog == Spec => []TargetIsTrue
<1>1. IInv => TargetIsTrue
  BY DEF IInv, CallsInv
<1> QED BY <1>1, AutoLogInvariance, PTL

\* NothingUnlogged for any number of frames, any sizes and any limits: what appendFrame()
\* accepted is in the file, in order, or on its way, or the user was notified; whatever
\* takeNextBatch() makes of it, and whether append() is answered, refused or late.
THEOREM NoFrameUnlogged == Spec => []NothingUnlogged
<1>1. ASSUME IInv PROVE NothingUnlogged
  <2> SUFFICES ASSUME NEW l \in Logs
               PROVE  /\ IsPrefix(backend[l].file, accepted[l])
                      /\ state[l].queue # <<>> => state[l].debounce \/ state[l].worker # "none"
                      /\ \/ state[l].warned # "no"
                         \/ ToSet(accepted[l]) \subseteq ToSet(backend[l].file \o state[l].batch \o state[l].queue)
    BY DEF NothingUnlogged
  <2> DEFINE a == accepted[l]
             file == backend[l].file
             batch == state[l].batch
             queue == state[l].queue
             w == file \o batch \o queue
  <2>1. /\ a \in Seq(Frames) /\ file \in Seq(Frames) /\ batch \in Seq(Frames) /\ queue \in Seq(Frames)
        /\ StateOK(state[l]) /\ DataOK(state[l], backend[l], a)
    BY <1>1, LogFacts DEF StateType, BackendType, LogOK
  <2>2. IsPrefix(file, a)
    BY <2>1, LiesIsPrefix DEF DataOK
  <2>3. queue # <<>> => state[l].debounce \/ state[l].worker # "none"
    BY <2>1 DEF StateOK
  <2>4. ASSUME state[l].warned = "no" PROVE ToSet(a) \subseteq ToSet(w)
    <3> DEFINE base == Len(a) - Len(queue)
               k == base - Len(batch)
    <3>1. /\ LiesAt(queue, a, base) /\ LiesAt(batch, a, k) /\ k <= Len(file) /\ Len(file) <= base
          /\ LiesAt(file, a, 0)
      BY <2>1, <2>4 DEF StateOK, DataOK
    <3>2. /\ Len(a) \in Nat /\ Len(file) \in Nat /\ Len(batch) \in Nat /\ Len(queue) \in Nat
          /\ base \in Nat /\ k \in Nat /\ Len(a) = base + Len(queue) /\ base = k + Len(batch)
      <4>1. /\ Len(a) \in Nat /\ Len(file) \in Nat /\ Len(batch) \in Nat /\ Len(queue) \in Nat
        BY <2>1, SeqFacts
      <4>2. base \in Nat /\ k \in Nat
        BY <3>1 DEF LiesAt
      <4>3. \A i, j, m \in Nat : i = (i - j) + j /\ (i - j \in Nat => i - j = ((i - j) - m) + m)
        OBVIOUS
      <4> QED BY <4>1, <4>2, <4>3
    <3>3. DOMAIN a = 1..Len(a)
      BY <2>1, SeqFacts
    <3> HIDE DEF base, k, a, file, batch, queue
    <3>4. file \o batch \in Seq(Frames) /\ Len(file \o batch) = Len(file) + Len(batch)
      BY <2>1, ConcatProperties
    <3>5. w \in Seq(Frames) /\ Len(w) = Len(file) + Len(batch) + Len(queue) /\ DOMAIN w = 1..Len(w)
      <4>1. w \in Seq(Frames) /\ Len(w) = Len(file \o batch) + Len(queue)
        BY <2>1, <3>4, ConcatProperties
      <4> HIDE DEF w
      <4> QED BY <3>4, <4>1, SeqFacts
    <3>6. ASSUME NEW i \in 1..Len(a) PROVE \E j \in 1..Len(w) : w[j] = a[i]
      <4>1. CASE i <= Len(file)
        <5>1. i \in 1..Len(w) /\ i \in 1..Len(file) /\ i \in 1..(Len(file) + Len(batch))
          BY <3>2, <3>5, <4>1
        <5>2. w[i] = (file \o batch)[i]
          <6>1. i \in 1..(Len(file \o batch) + Len(queue)) /\ i <= Len(file \o batch)
            BY <3>2, <3>4, <5>1
          <6> QED BY <2>1, <3>4, <6>1, ConcatProperties
        <5>3. (file \o batch)[i] = file[i]
          BY <2>1, <5>1, <4>1, ConcatProperties
        <5>4. file[i] = a[i]
          <6>1. file[i] = a[0 + i] /\ 0 + i = i
            BY <3>1, <5>1 DEF LiesAt
          <6> QED BY <6>1
        <5> QED BY <5>1, <5>2, <5>3, <5>4
      <4>2. CASE i > Len(file) /\ i <= base
        <5> DEFINE m == i - k
                   j == Len(file) + m
        <5>1. m \in 1..Len(batch) /\ j \in 1..Len(w) /\ j > Len(file) /\ j - Len(file) = m /\ k + m = i
              /\ j \in 1..(Len(file) + Len(batch))
          BY <3>1, <3>2, <3>5, <4>2
        <5> HIDE DEF m, j
        <5>2. w[j] = (file \o batch)[j]
          <6>1. j \in 1..(Len(file \o batch) + Len(queue)) /\ j <= Len(file \o batch)
            BY <3>2, <3>4, <5>1
          <6> QED BY <2>1, <3>4, <6>1, ConcatProperties
        <5>3. (file \o batch)[j] = batch[m]
          <6>1. ~(j <= Len(file))
            BY <3>2, <5>1
          <6> QED BY <2>1, <5>1, <6>1, ConcatProperties
        <5>4. batch[m] = a[i]
          BY <3>1, <5>1 DEF LiesAt
        <5> QED BY <5>1, <5>2, <5>3, <5>4
      <4>3. CASE i > base
        <5> DEFINE m == i - base
                   j == Len(file) + Len(batch) + m
        <5>1. m \in 1..Len(queue) /\ j \in 1..Len(w) /\ j - Len(file \o batch) = m /\ base + m = i
              /\ j > Len(file \o batch) /\ j \in 1..(Len(file \o batch) + Len(queue))
          BY <3>1, <3>2, <3>4, <3>5, <4>3
        <5> HIDE DEF m, j
        <5>2. w[j] = queue[m]
          <6>1. ~(j <= Len(file \o batch))
            BY <3>2, <3>4, <5>1
          <6> QED BY <2>1, <3>4, <5>1, <6>1, ConcatProperties
        <5>3. queue[m] = a[i]
          BY <3>1, <5>1 DEF LiesAt
        <5> QED BY <5>1, <5>2, <5>3
      <4> QED BY <3>2, <4>1, <4>2, <4>3
    <3> HIDE DEF w
    <3> QED BY <3>3, <3>5, <3>6 DEF ToSet
  <2> QED BY <2>2, <2>3, <2>4
<1> QED BY <1>1, AutoLogInvariance, PTL

\* ShutdownIsHonest for any number of calls: a prepareShutdown() that does not throw has left
\* a finished file with every frame accepted before it, whichever call began the shutdown.
THEOREM PrepareShutdownIsHonest == Spec => []ShutdownIsHonest
<1>1. ASSUME IInv PROVE ShutdownIsHonest
  <2> SUFFICES ASSUME NEW c \in Strict, NEW l \in Logs, call[c].pc = "ended"
               PROVE  IF call[c].log = l
                        THEN \/ IsPrefix(covered[c][l], backend[l].file) /\ backend[l].complete
                             \/ state[l].warned = "overflow"
                        ELSE IsPrefix(covered[c][l], backend[l].file) \/ state[l].warned # "no"
    BY DEF ShutdownIsHonest
  <2>1. covered[c][l] \in Seq(Frames) /\ backend[l].file \in Seq(Frames)
    BY <1>1 DEF IInv, TypeOK, BackendType
  <2>2. LiesAt(covered[c][l], backend[l].file, 0) => IsPrefix(covered[c][l], backend[l].file)
    BY <2>1, LiesIsPrefix
  <2> QED BY <1>1, <2>2 DEF IInv, StrictCovered, StrictHonest
<1> QED BY <1>1, AutoLogInvariance, PTL
=============================================================================
