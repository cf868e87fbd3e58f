------------------------ MODULE SerialWriteScheduler ------------------------
(***************************************************************************)
(* The single-flight FIFO that carries every write of one serial           *)
(* connection (lib/serial-write-scheduler.ts).                             *)
(*                                                                         *)
(* A JavaScript turn, the code between two awaits, is one step.  A payload *)
(* is the ticket of the enqueue() call that brought it, so FIFO order is   *)
(* the order of the tickets, and byte i of payload o is the pair <<o, i>>. *)
(* The driver, the admission gate and the onWriteStarted callback are      *)
(* external: their answers are chosen by \E or a disjunction.              *)
(***************************************************************************)
EXTENDS Naturals, Sequences, FiniteSets

CONSTANTS
  MaxTickets,       \* bound of the model: how many times enqueue() is called
  PayloadLens,      \* the payload lengths the callers use
  Waiters,          \* the waitForIdle() calls
  MaxOperations,    \* limits.maxOperations
  MaxQueuedBytes,   \* limits.maxQueuedBytes
  ChunkBytes        \* limits.chunkBytes

ASSUME LimitsAssumption ==
  /\ MaxTickets \in Nat
  /\ PayloadLens \subseteq Nat
  /\ MaxOperations \in Nat \ {0}
  /\ MaxQueuedBytes \in Nat \ {0}
  /\ ChunkBytes \in Nat \ {0}

Ops == 1 .. MaxTickets
None == 0           \* no active operation

VARIABLES
  next,       \* ticket of the next enqueue()
  len, sent,  \* payload.length and sentBytes of each operation
  result,     \* what the caller's promise resolved with, NoResult before
  queue,      \* this.queue
  active,     \* this.activeOperation
  pc,         \* where drain() is: "off" (draining = false), awaiting the
              \* "driver", or writeOperation() has "returned"
  call,       \* the bytes [from, to) of the driver call in flight
  ret,        \* what writeOperation() returned
  accepting,
  outOps,     \* this.outstandingOperations
  outBytes,   \* this.outstandingBytes
  waiter,     \* state of each waitForIdle() promise
  closing,    \* state of shutdown()
  closeOp,    \* the operation shutdown() waits for
  wire        \* the bytes the driver has put on the line, in order

opVars == <<next, len, sent, result>>
drainVars == <<queue, active, pc, call, ret>>
vars == <<opVars, drainVars, accepting, outOps, outBytes, waiter, closing,
          closeOp, wire>>

-----------------------------------------------------------------------------
(* Results.                                                                *)

NoResult == [outcome |-> "none", error |-> "none", sent |-> 0]
Failed(error) == [outcome |-> "failed", error |-> error, sent |-> 0]
PartialOrFailed(n) == IF n > 0 THEN "partial" ELSE "failed"
WriteFailure(n) ==
  [outcome |-> PartialOrFailed(n), error |-> "SERIAL_PARTIAL_WRITE", sent |-> n]
Cancelled(n) == [outcome |-> "cancelled", error |-> "CANCELLED", sent |-> n]
Denied(n) ==
  [outcome |-> PartialOrFailed(n), error |-> "SECURITY_DENIED", sent |-> n]
Complete(n) == [outcome |-> "complete", error |-> "none", sent |-> n]

Settled(o) == result[o] # NoResult
Admitted == {o \in Ops : o < next /\ len[o] > 0}
Unsettled == {o \in Ops : o < next /\ ~Settled(o)}

\* The bytes of the operations in S that sentBytes does not count yet.
Unsent(S) == UNION {{o} \X ((sent[o] + 1) .. len[o]) : o \in S}

Lower(a, b) == IF a < b THEN a ELSE b
Monus(a, b) == IF a > b THEN a - b ELSE 0

-----------------------------------------------------------------------------
(* drain() and writeOperation().                                           *)

\* Seeded bug: the bytes of a settled operation are never given back.
SettleForgetsBytes(S, r) ==
  /\ result' = [o \in Ops |-> IF o \in S /\ ~Settled(o) THEN r[o] ELSE result[o]]
  /\ outOps' = Monus(outOps, Cardinality({o \in S : ~Settled(o)}))
  /\ UNCHANGED outBytes

\* settle() of every operation of S, with the results r.
Settle(S, r) ==
  LET open == {o \in S : ~Settled(o)} IN
  /\ result' = [o \in Ops |-> IF o \in open THEN r[o] ELSE result[o]]
  /\ outOps' = Monus(outOps, Cardinality(open))
  /\ outBytes' = Monus(outBytes, Cardinality(Unsent(open)))

Idle == queue = <<>> /\ active = None /\ pc = "off"

Return(r) == pc' = "returned" /\ ret' = r /\ UNCHANGED call

CallDriver(from, to) ==
  pc' = "driver" /\ call' = [from |-> from, to |-> to] /\ UNCHANGED ret

\* The two loops of writeOperation() from a point where s of total bytes are
\* sent and end is the current logicalChunkEnd: an unfinished logical chunk
\* is continued, otherwise a new one of at most ChunkBytes begins.
NextChunk(s, total, end) ==
  IF s = total THEN Return(Complete(total))
  ELSE IF ~accepting THEN Return(Cancelled(s))
  ELSE \/ Return(Denied(s))     \* the admission gate refuses
       \/ CallDriver(s, IF s < end THEN end ELSE Lower(s + ChunkBytes, total))

\* The head of drain()'s loop: take the first operation of q and run
\* writeOperation() up to its first await.  lengths is this turn's len.
StartNext(q, lengths) ==
  /\ active' = Head(q)
  /\ queue' = Tail(q)
  /\ \/ Return(Denied(0))
     \/ Return(WriteFailure(0))  \* onWriteStarted() throws
     \/ NextChunk(0, lengths[Head(q)], 0)

-----------------------------------------------------------------------------
(* Callers.                                                                *)

\* enqueue() that ends in an immediately resolved promise.
Refuse(n, r) ==
  /\ len' = [len EXCEPT ![next] = n]
  /\ result' = [result EXCEPT ![next] = r]
  /\ next' = next + 1
  /\ UNCHANGED <<sent, drainVars, accepting, outOps, outBytes, waiter, closing,
                 closeOp, wire>>

QueueFull(n) ==
  \/ outOps >= MaxOperations
  \/ outBytes + n > MaxQueuedBytes

EnqueueRefused(n) ==
  /\ next <= MaxTickets
  /\ \/ n = 0 /\ Refuse(n, Failed("INVALID_INPUT"))
     \/ n > 0 /\ ~accepting /\ Refuse(n, Cancelled(0))
     \/ n > 0 /\ accepting /\ Refuse(n, Denied(0))
     \/ n > 0 /\ accepting /\ QueueFull(n) /\ Refuse(n, Failed("SERIAL_QUEUE_FULL"))

\* Seeded bug: the queue is not kicked.
EnqueueWithoutDrain(n) ==
  /\ next <= MaxTickets /\ n > 0 /\ accepting /\ ~QueueFull(n)
  /\ next' = next + 1
  /\ len' = [len EXCEPT ![next] = n]
  /\ outOps' = outOps + 1
  /\ outBytes' = outBytes + n
  /\ queue' = Append(queue, next)
  /\ UNCHANGED <<active, pc, call, ret>>
  /\ UNCHANGED <<sent, result, accepting, waiter, closing, closeOp, wire>>

\* enqueue() that admits the payload; drain() begins at once unless it runs.
EnqueueAdmitted(n) ==
  /\ next <= MaxTickets /\ n > 0 /\ accepting /\ ~QueueFull(n)
  /\ next' = next + 1
  /\ len' = [len EXCEPT ![next] = n]
  /\ outOps' = outOps + 1
  /\ outBytes' = outBytes + n
  /\ IF pc = "off"
     THEN StartNext(Append(queue, next), [len EXCEPT ![next] = n])
     ELSE queue' = Append(queue, next) /\ UNCHANGED <<active, pc, call, ret>>
  /\ UNCHANGED <<sent, result, accepting, waiter, closing, closeOp, wire>>

\* waitForIdle(): resolved at once, refused by an aborted signal, or parked.
WaitForIdle(w) ==
  /\ waiter[w] = "none"
  /\ \E s \in {"resolved", "rejected", "waiting"} :
       /\ Idle <=> s = "resolved"
       /\ waiter' = [waiter EXCEPT ![w] = s]
  /\ UNCHANGED <<opVars, drainVars, accepting, outOps, outBytes, closing,
                 closeOp, wire>>

AbortWait(w) ==
  /\ waiter[w] = "waiting"
  /\ waiter' = [waiter EXCEPT ![w] = "rejected"]
  /\ UNCHANGED <<opVars, drainVars, accepting, outOps, outBytes, closing,
                 closeOp, wire>>

\* shutdown() up to its await: nothing is admitted any more, everything that
\* has not started is cancelled, only the active operation may still finish.
Shutdown ==
  /\ closing = "none"
  /\ accepting' = FALSE
  /\ Settle({queue[i] : i \in DOMAIN queue}, [o \in Ops |-> Cancelled(0)])
  /\ queue' = <<>>
  /\ closeOp' = active
  /\ closing' = IF active = None THEN "clean"
                ELSE IF Settled(active) THEN "clean" ELSE "waiting"
  /\ UNCHANGED <<next, len, sent, active, pc, call, ret, waiter, wire>>

ShutdownCompleted ==
  /\ closing = "waiting" /\ Settled(closeOp)
  /\ closing' = "clean"
  /\ UNCHANGED <<opVars, drainVars, accepting, outOps, outBytes, waiter,
                 closeOp, wire>>

\* Seeded bug: the operation in flight is left to the driver.
TimeoutKeepsOperation ==
  /\ closing = "waiting" /\ ~Settled(closeOp)
  /\ closing' = "timedOut"
  /\ UNCHANGED <<opVars, drainVars, accepting, outOps, outBytes, waiter, closeOp, wire>>

\* The grace period ends first.  The promise of a settled operation resumes
\* shutdown() in a microtask, before any timer, hence ~Settled.
ShutdownTimeout ==
  /\ closing = "waiting" /\ ~Settled(closeOp)
  /\ closing' = "timedOut"
  /\ Settle({closeOp}, [o \in Ops |-> Cancelled(sent[o])])
  /\ UNCHANGED <<next, len, sent, drainVars, accepting, waiter, closeOp, wire>>

-----------------------------------------------------------------------------
(* The driver answers, and drain() goes on.                                *)

Transmit(k) == wire' = wire \o [i \in 1 .. k |-> <<active, call.from + i>>]

FailureOrCancelled(n) == IF accepting THEN WriteFailure(n) ELSE Cancelled(n)

\* Seeded bug: a failed chunk is tried again.
RetryAfterThrow(k) ==
  /\ pc = "driver"
  /\ Transmit(k)
  /\ NextChunk(sent[active], len[active], call.to)
  /\ UNCHANGED <<opVars, queue, active, accepting, outOps, outBytes, waiter, closing,
                 closeOp>>

\* writeChunk() rejects, k bytes of the chunk being on the line already.
DriverThrows(k) ==
  /\ pc = "driver"
  /\ Transmit(k)
  /\ Return(FailureOrCancelled(sent[active]))
  /\ UNCHANGED <<opVars, queue, active, accepting, outOps, outBytes, waiter,
                 closing, closeOp>>

\* writeChunk() resolves with a count that is no progress: zero or more than
\* was asked for.  k bytes are on the line nevertheless.
DriverReportsNonsense(k) ==
  /\ pc = "driver"
  /\ Transmit(k)
  /\ Return(IF Settled(active) THEN Cancelled(sent[active])
            ELSE FailureOrCancelled(sent[active]))
  /\ UNCHANGED <<opVars, queue, active, accepting, outOps, outBytes, waiter,
                 closing, closeOp>>

\* Seeded bug: a short write is taken for the whole chunk.
SentAssumesAll(w) == call.to

\* sentBytes after the driver has written w more bytes.
SentAfter(w) == sent[active] + w

\* writeChunk() resolves with w bytes written.  The completion of an operation
\* that shutdown() has settled meanwhile is ignored.
DriverWrote(w) ==
  LET s == SentAfter(w) IN
  /\ pc = "driver"
  /\ Transmit(w)
  /\ \/ /\ Settled(active)
        /\ Return(Cancelled(sent[active]))
        /\ UNCHANGED <<sent, outBytes>>
     \/ /\ ~Settled(active)
        /\ sent' = [sent EXCEPT ![active] = s]
        /\ outBytes' = outBytes - w
        /\ IF accepting THEN NextChunk(s, len[active], call.to)
           ELSE Return(Cancelled(s))
  /\ UNCHANGED <<next, len, result, queue, active, accepting, outOps, waiter,
                 closing, closeOp>>

\* resolveIdleWaiters(), when the turn leaves the scheduler idle.
ResolveIdleWaiters ==
  waiter' = IF queue = <<>>
            THEN [w \in Waiters |->
                    IF waiter[w] = "waiting" THEN "resolved" ELSE waiter[w]]
            ELSE waiter

\* drain() after its await: settle the operation, then start the next one or
\* leave the loop.
DrainResumes ==
  /\ pc = "returned"
  /\ Settle({active}, [o \in Ops |-> ret])
  /\ \/ queue # <<>> /\ StartNext(queue, len)
     \/ /\ queue = <<>>
        /\ active' = None /\ pc' = "off"
        /\ UNCHANGED <<queue, call, ret>>
  /\ ResolveIdleWaiters
  /\ UNCHANGED <<next, len, sent, accepting, closing, closeOp, wire>>

-----------------------------------------------------------------------------
Init ==
  /\ next = 1
  /\ len = [o \in Ops |-> 0] /\ sent = [o \in Ops |-> 0]
  /\ result = [o \in Ops |-> NoResult]
  /\ queue = <<>> /\ active = None /\ pc = "off"
  /\ call = [from |-> 0, to |-> 0] /\ ret = NoResult
  /\ accepting = TRUE
  /\ outOps = 0 /\ outBytes = 0
  /\ waiter = [w \in Waiters |-> "none"]
  /\ closing = "none" /\ closeOp = None
  /\ wire = <<>>

Callers ==
  \/ \E n \in PayloadLens : EnqueueRefused(n) \/ EnqueueAdmitted(n)
  \/ \E w \in Waiters : WaitForIdle(w) \/ AbortWait(w)
  \/ Shutdown

ShutdownEnds == ShutdownCompleted \/ ShutdownTimeout

Driver ==
  \/ \E k \in 0 .. (call.to - call.from) : DriverThrows(k) \/ DriverReportsNonsense(k)
  \/ \E w \in 1 .. (call.to - call.from) : DriverWrote(w)

Next == Callers \/ ShutdownEnds \/ Driver \/ DrainResumes

Spec == Init /\ [][Next]_vars

\* Turns that are ready are run and timers fire; the driver may hang for ever.
FairSpec == Spec /\ WF_vars(ShutdownEnds) /\ WF_vars(DrainResumes)

\* The driver answers every call.
DriverAnswers == WF_vars(Driver)

-----------------------------------------------------------------------------
(* Properties.                                                             *)

Outcomes == {"none", "complete", "partial", "failed", "cancelled"}
Errors == {"none", "INVALID_INPUT", "CANCELLED", "SECURITY_DENIED",
           "SERIAL_QUEUE_FULL", "SERIAL_PARTIAL_WRITE"}
Results == [outcome : Outcomes, error : Errors, sent : Nat]

\* Every variable has its type; sentBytes never exceeds the payload, and the
\* driver call in flight is a non-empty range of the active payload.
TypeOK ==
  /\ next \in 1 .. MaxTickets + 1
  /\ len \in [Ops -> Nat] /\ sent \in [Ops -> Nat]
  /\ \A o \in Ops : sent[o] <= len[o]
  /\ result \in [Ops -> Results]
  /\ queue \in Seq(Ops)
  /\ active \in Ops \cup {None} /\ closeOp \in Ops \cup {None}
  /\ pc \in {"off", "driver", "returned"}
  /\ call \in [from : Nat, to : Nat] /\ ret \in Results
  /\ accepting \in BOOLEAN
  /\ outOps \in Nat /\ outBytes \in Nat
  /\ waiter \in [Waiters -> {"none", "waiting", "resolved", "rejected"}]
  /\ closing \in {"none", "waiting", "clean", "timedOut"}
  /\ wire \in Seq(Ops \X Nat)

\* The counters enqueue() checks the limits against are exact whatever order
\* short writes, failures, shutdown and late driver answers come in: the
\* operations not settled yet, and the bytes of them not counted as sent.
Accounting ==
  /\ outOps = Cardinality(Unsettled)
  /\ outBytes = Cardinality(Unsent(Unsettled))

\* The limits hold for the operations themselves, not just for the counters.
QuotaHeld ==
  /\ Cardinality(Unsettled) <= MaxOperations
  /\ Cardinality(Unsent(Unsettled)) <= MaxQueuedBytes

\* No lost wake-up: whatever waits to be written has a drain() running that
\* will come to it, in the order of the tickets.
QueueIsServed ==
  /\ pc = "off" <=> active = None
  /\ pc = "off" => queue = <<>>
  /\ \A i \in DOMAIN queue : ~Settled(queue[i]) /\ active < queue[i]
  /\ \A i, j \in DOMAIN queue : i < j => queue[i] < queue[j]

OnWire(o) == Cardinality({j \in DOMAIN wire : wire[j][1] = o})

\* Payloads reach the line whole prefixes at a time: in the order they were
\* enqueued, never interleaved, no byte skipped and no byte sent twice, even
\* when a driver call fails after it has sent something.
WireInOrder ==
  \A j \in DOMAIN wire :
    LET b == wire[j] IN
    \/ b[2] = 1 /\ (j > 1 => wire[j - 1][1] < b[1])
    \/ j > 1 /\ wire[j - 1] = <<b[1], b[2] - 1>>

\* A result never claims more than the line has seen, and "complete" is
\* answered only for a payload that is on the line to its last byte.
HonestResults ==
  \A o \in Ops : Settled(o) =>
    /\ result[o].sent <= OnWire(o)
    /\ result[o].outcome = "complete" => OnWire(o) = len[o]

NewDriverCall ==
  pc' = "driver" /\ <<pc, active, call>>' # <<pc, active, call>>

\* A driver call is issued only while the scheduler accepts writes and for an
\* operation whose caller still waits: nothing follows the call that was in
\* flight when shutdown() came or its grace period ended.
NoCallAfterShutdown ==
  [][NewDriverCall => accepting /\ accepting' /\ ~Settled(active)']_vars

\* waitForIdle() resolves only when no driver call and no operation is left.
IdleIsPhysical ==
  [][\A w \in Waiters :
       waiter'[w] = "resolved" /\ waiter[w] # "resolved" => Idle']_vars

\* shutdown() ends, and with it every promise of enqueue(), even when the
\* driver never answers again.
ShutdownSettlesAll ==
  closing # "none" ~> closing \in {"clean", "timedOut"} /\ Unsettled = {}

\* With a driver that answers, every admitted payload gets its result, and
\* nobody waits for idleness after shutdown().
EveryWriteSettles ==
  DriverAnswers =>
    /\ \A o \in Ops : o \in Unsettled ~> Settled(o)
    /\ \A w \in Waiters : closing # "none" /\ waiter[w] = "waiting"
                            ~> waiter[w] \in {"resolved", "rejected"}
=============================================================================
