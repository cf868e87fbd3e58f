--------------------------- MODULE SerialReceive ---------------------------
(***************************************************************************)
(* The receive path of one session: from the native hub through the        *)
(* Channel callbacks into the bounded queue (lib/serial-rx-queue.ts), to   *)
(* the frames of the session by the drain scheduler and to the screen by   *)
(* the publish scheduler (lib/serial-rx-scheduler.ts), with the mirror     *)
(* that a transaction lease reads from and the stop-and-drain boundary     *)
(* (serial-shutdown-evidence.ts, commands/serial_drain.rs).                *)
(*                                                                         *)
(* A byte is its number in the order in which the device sent it.  The     *)
(* queue's dead prefix and its running byte count are representations of   *)
(* the sequence of live chunks and are left out.  A queued microtask runs  *)
(* before any other event, as in a browser.                                *)
(***************************************************************************)
EXTENDS Naturals, Sequences, FiniteSets, SequencesExt

CONSTANTS
  MaxBytes, MaxChunks,              \* limits of the queue
  DrainBytes, DrainChunks,          \* limits that drain it at once
  MirrorBytes, MirrorChunks,        \* limits of the lease's mirror
  DrainLimit,                       \* MAX_SERIAL_DRAIN_BYTES
  Sizes,                            \* sizes of native chunks and of reads
  MaxSent, MaxConnections, MaxLeases  \* bounds of the model

ASSUME LimitsAssumption ==
  /\ {MaxBytes, MaxChunks, DrainBytes, DrainChunks, MirrorBytes, MirrorChunks} \subseteq Nat \ {0}
  /\ DrainLimit \in Nat \ {0} /\ Sizes \subseteq Nat \ {0}
  /\ {MaxSent, MaxConnections, MaxLeases} \subseteq Nat
  /\ DrainBytes <= MaxBytes /\ DrainChunks <= MaxChunks

VARIABLES
  sent,        \* number of bytes the device has sent
  hub,         \* native chunks not yet read
  channel,     \* Channel events queued for the renderer
  attempt,     \* the connection attempt, with the progress of drainAttemptRx()
  connections, leases,   \* numbers of connections and leases so far
  pipe,        \* queue, schedulers and what they have produced
  mirror,      \* RX mirror of the lease
  received,    \* history: bytes given to enqueueReceivedBytes(), in order
  dropped,     \* history: bytes the queue discarded
  base,        \* history: how many of them before the last resetQueue()
  owed,        \* history: bytes of this connection the native side received
  boundary     \* history: owed when the native idle gap was observed

vars == <<sent, hub, channel, attempt, connections, leases, pipe, mirror,
          received, dropped, base, owed, boundary>>

NoMirror == [open |-> FALSE, chunks |-> <<>>, reader |-> 0, offered |-> <<>>, got |-> <<>>]
NoAttempt == [phase |-> "closed", watching |-> FALSE, accepting |-> FALSE,
              read |-> <<>>, before |-> 0, idle |-> FALSE, evidence |-> "none"]

Bytes(chunks) == FlattenSeq(chunks)
Least(a, b) == IF a < b THEN a ELSE b
LastBytes(s, n) == SubSeq(s, Len(s) - n + 1, Len(s))

\* The bytes of s that are not in gone, in order.
Kept(s, gone) ==
  LET kept[i \in 0..Len(s)] ==
        IF i = 0 THEN <<>> ELSE IF s[i] \in gone THEN kept[i - 1] ELSE Append(kept[i - 1], s[i])
  IN kept[Len(s)]

-----------------------------------------------------------------------------
(* SerialRxQueue.                                                          *)

\* How many chunks enqueue() drops from the front for n more bytes.
DropCount(queue, n) ==
  CHOOSE k \in 0..Len(queue) :
    LET Fits(j) == \/ j = Len(queue)
                   \/ /\ Len(Bytes(SubSeq(queue, j + 1, Len(queue)))) + n <= MaxBytes
                      /\ Len(queue) - j < MaxChunks
    IN Fits(k) /\ \A j \in 0..(k - 1) : ~Fits(j)

\* Seeded bug: the head of an oversized chunk is cut off uncounted.
DiscardedWholeChunks(queue, bytes) == Bytes(SubSeq(queue, 1, DropCount(queue, Len(bytes))))

\* The bytes enqueue(bytes) discards: whole chunks, and the head of a chunk
\* that is larger than the queue.
Discarded(queue, bytes) ==
  Bytes(SubSeq(queue, 1, DropCount(queue, Len(bytes))))
    \o SubSeq(bytes, 1, Len(bytes) - Least(Len(bytes), MaxBytes))

EnqueueBytes(p, bytes) ==
  LET gone == Discarded(p.queue, bytes)
      kept == SubSeq(p.queue, DropCount(p.queue, Len(bytes)) + 1, Len(p.queue))
  IN [p EXCEPT !.queue = Append(kept, LastBytes(bytes, Least(Len(bytes), MaxBytes))),
               !.total = @ + Len(gone),
               !.notified = @ \/ gone # <<>>]

-----------------------------------------------------------------------------
(* SerialRxDrainScheduler and SerialUiPublishScheduler.                    *)

\* Seeded bug: a second burst does not re-arm the cancelled timer.
NotifyOnce(p) ==
  IF p.queue = <<>> THEN p
  ELSE IF Len(Bytes(p.queue)) >= DrainBytes \/ Len(p.queue) >= DrainChunks
       THEN [p EXCEPT !.timer = FALSE, !.microtask = TRUE]
       ELSE [p EXCEPT !.timer = ~p.microtask /\ Len(p.queue) = 1]

Notify(p) ==
  IF p.queue = <<>> THEN p
  ELSE IF Len(Bytes(p.queue)) >= DrainBytes \/ Len(p.queue) >= DrainChunks
       THEN [p EXCEPT !.timer = FALSE, !.microtask = TRUE]
       ELSE [p EXCEPT !.timer = ~p.microtask]

\* markDirty(): the publish timer is armed once.
MarkDirty(p) == [p EXCEPT !.dirty = TRUE, !.uiTimer = TRUE]

\* flushQueue(): one frame of all that is pending.
FlushQueue(p) ==
  IF p.queue = <<>> THEN p
  ELSE MarkDirty([p EXCEPT !.captured = @ \o Bytes(p.queue), !.queue = <<>>,
                        !.behind = TRUE, !.stranded = FALSE])

DrainPending(p) == Notify(FlushQueue(p))

\* cancel() of the drain scheduler.
CancelDrain(p) == [p EXCEPT !.timer = FALSE, !.microtask = FALSE]

Publish(p) == [p EXCEPT !.dirty = FALSE, !.uiTimer = FALSE, !.behind = FALSE, !.shown = p.total]

\* flushNow() of the publish scheduler.
PublishNow(p) == IF p.dirty THEN Publish(p) ELSE [p EXCEPT !.uiTimer = FALSE]

CancelPublisher(p) == [p EXCEPT !.dirty = FALSE, !.uiTimer = FALSE]

\* flushRxAndPublish(), resetRxDrain(), cancelPublishers(), clearPendingQueue()
\* and resetQueue() of the pipeline.
FlushRxAndPublish(p) == PublishNow(DrainPending(CancelDrain(p)))
ResetRxDrain(p) == [CancelDrain(p) EXCEPT !.stranded = @ \/ p.queue # <<>>]
CancelPublishers(p) == CancelPublisher(CancelDrain(p))
ClearPendingQueue(p) == [p EXCEPT !.queue = <<>>]
ResetQueue(p) == [p EXCEPT !.queue = <<>>, !.total = 0, !.notified = FALSE]

\* The pipeline part of start(): flush what the last connection left, then
\* start from nothing.
StartPipeline(p) ==
  LET flushed == FlushRxAndPublish(ResetRxDrain(p))
  IN [ResetQueue(CancelPublisher(CancelDrain(flushed))) EXCEPT !.shown = 0, !.stranded = FALSE]

-----------------------------------------------------------------------------
(* BoundedRxMirror and offerRx().                                          *)

\* Seeded bug: what a waiting reader does not take is not buffered.
OfferForgetsRest(m, bytes) ==
  LET now == Least(m.reader, Len(bytes))
  IN IF ~m.open THEN m
     ELSE [m EXCEPT !.offered = @ \o bytes, !.got = @ \o SubSeq(bytes, 1, now), !.reader = 0,
                    !.chunks = IF m.reader = 0 THEN Append(@, bytes) ELSE @]

\* A waiting read takes the front, the rest is buffered; what does not fit is
\* refused as a whole and ends the lease.
Offer(m, bytes) ==
  LET now  == Least(m.reader, Len(bytes))
      rest == SubSeq(bytes, now + 1, Len(bytes))
      size == Len(m.chunks) + (IF rest = <<>> THEN 0 ELSE 1)
  IN IF ~m.open THEN m
     ELSE IF Len(Bytes(m.chunks)) + Len(rest) > MirrorBytes \/ size > MirrorChunks
          THEN [m EXCEPT !.open = FALSE, !.chunks = <<>>, !.reader = 0]
          ELSE [m EXCEPT !.offered = @ \o bytes, !.got = @ \o SubSeq(bytes, 1, now),
                         !.reader = 0,
                         !.chunks = IF rest = <<>> THEN @ ELSE Append(@, rest)]

\* take(): the first n bytes over as many chunks as they span.
Take(chunks, n) ==
  LET gone == CHOOSE k \in 0..Len(chunks) :
                /\ Len(Bytes(SubSeq(chunks, 1, k))) <= n
                /\ k < Len(chunks) => Len(Bytes(SubSeq(chunks, 1, k + 1))) > n
      cut == n - Len(Bytes(SubSeq(chunks, 1, gone)))
      left == SubSeq(chunks, gone + 1, Len(chunks))
  IN IF left = <<>> THEN <<>>
     ELSE <<SubSeq(Head(left), cut + 1, Len(Head(left)))>> \o Tail(left)

CloseMirror(m) == [m EXCEPT !.open = FALSE, !.chunks = <<>>, !.reader = 0]

\* enqueueReceivedBytes(): the mirror first, then the queue, then the scheduler.
EnqueueReceivedBytes(bytes) ==
  /\ mirror' = Offer(mirror, bytes)
  /\ pipe' = Notify(EnqueueBytes([pipe EXCEPT !.stranded = FALSE], bytes))
  /\ received' = received \o bytes
  /\ dropped' = dropped \cup (ToSet(Bytes(pipe.queue) \o bytes) \ ToSet(Bytes(pipe'.queue)))

history == <<received, dropped>>

-----------------------------------------------------------------------------
(* The device, the native watch and the browser's events.                  *)

DeviceSends(n) ==
  /\ attempt.phase # "closed" /\ sent + n <= MaxSent
  /\ sent' = sent + n
  /\ hub' = Append(hub, [i \in 1..n |-> sent + i])
  /\ owed' = owed \cup (sent + 1)..(sent + n)
  /\ UNCHANGED <<channel, attempt, connections, leases, pipe, mirror, history, base, boundary>>

WatchReads ==
  /\ attempt.watching /\ hub # <<>>
  /\ channel' = Append(channel, Head(hub)) /\ hub' = Tail(hub)
  /\ UNCHANGED <<sent, attempt, connections, leases, pipe, mirror, history, base, owed, boundary>>

\* onData() of the watch.
OnData ==
  /\ channel # <<>> /\ channel' = Tail(channel)
  /\ IF attempt.accepting THEN EnqueueReceivedBytes(Head(channel))
                          ELSE UNCHANGED <<mirror, pipe, history>>
  /\ UNCHANGED <<sent, hub, attempt, connections, leases, base, owed, boundary>>

Becomes(p) ==
  /\ pipe' = p
  /\ UNCHANGED <<sent, hub, channel, attempt, connections, leases, mirror, history, base, owed, boundary>>

\* The callbacks of the drain scheduler and of the publish scheduler.
DrainMicrotask == pipe.microtask /\ Becomes(DrainPending([pipe EXCEPT !.microtask = FALSE]))
DrainTimer == pipe.timer /\ Becomes(DrainPending([pipe EXCEPT !.timer = FALSE]))
PublishTimer == pipe.uiTimer /\ Becomes(Publish(pipe))

\* visibilityChanged(): the publish timer is armed again with the other delay.
VisibilityChanged == pipe.dirty /\ Becomes([pipe EXCEPT !.uiTimer = TRUE])

-----------------------------------------------------------------------------
(* The lease's side.                                                       *)

MirrorBecomes(m, p) ==
  /\ mirror' = m /\ pipe' = p
  /\ UNCHANGED <<sent, channel, attempt, connections, history, base, boundary>>

\* A lease is granted with an empty mirror.
Grant ==
  /\ attempt.phase = "open" /\ ~mirror.open /\ leases < MaxLeases
  /\ leases' = leases + 1
  /\ MirrorBecomes([NoMirror EXCEPT !.open = TRUE], pipe) /\ UNCHANGED <<hub, owed>>

\* read(): buffered bytes at once, else wait; one reader at a time.
Read(n) ==
  /\ mirror.open
  /\ LET all == Bytes(mirror.chunks)
     IN \/ /\ all # <<>>
           /\ MirrorBecomes([mirror EXCEPT !.got = @ \o SubSeq(all, 1, Least(n, Len(all))),
                                           !.chunks = Take(@, Least(n, Len(all)))], pipe)
        \/ /\ all = <<>> /\ mirror.reader = 0
           /\ MirrorBecomes([mirror EXCEPT !.reader = n], pipe)
  /\ UNCHANGED <<hub, leases, owed>>

\* The timeout or the abort signal of a waiting read.
ReadEnds ==
  /\ mirror.reader # 0
  /\ MirrorBecomes([mirror EXCEPT !.reader = 0], pipe) /\ UNCHANGED <<hub, leases, owed>>

\* clearBuffers("input"): the native input, then what the mirror holds.
ClearBuffers ==
  /\ mirror.open
  /\ hub' = <<>> /\ owed' = owed \ ToSet(Bytes(hub))
  /\ MirrorBecomes([mirror EXCEPT !.chunks = <<>>, !.offered = mirror.got], pipe)
  /\ UNCHANGED leases

\* reconfigure() succeeds, under the lease it has acquired.
Reconfigured ==
  /\ mirror.open /\ Becomes(ResetRxDrain(pipe))

\* beginRelease(); a reconfigure() that failed then returns to the old gap.
ReleaseLease ==
  /\ mirror.open
  /\ \E failed \in BOOLEAN :
       MirrorBecomes(CloseMirror(mirror), IF failed THEN ResetRxDrain(pipe) ELSE pipe)
  /\ UNCHANGED <<hub, leases, owed>>

-----------------------------------------------------------------------------
(* drainAttemptRx() and drain_from_source().                               *)

Attempt(a) == attempt' = a /\ UNCHANGED <<sent, connections, leases, base, owed>>

\* The lease was revoked before; unwatch() is called.
StopBegins ==
  /\ attempt.phase = "open"
  /\ Attempt([attempt EXCEPT !.phase = "unwatch", !.before = pipe.total])
  /\ mirror' = CloseMirror(mirror)
  /\ UNCHANGED <<hub, channel, pipe, history, boundary>>

\* unwatch() is acknowledged, or fails and leaves the watch as it is.
Unwatched(acknowledged) ==
  /\ attempt.phase = "unwatch"
  /\ Attempt([attempt EXCEPT !.phase = IF acknowledged THEN "drain" ELSE "yield",
                             !.watching = @ /\ ~acknowledged])
  /\ UNCHANGED <<hub, channel, pipe, mirror, history, boundary>>

\* One turn of the native loop that finds bytes and room for them.
NativeRead ==
  /\ attempt.phase = "drain" /\ hub # <<>> /\ Len(attempt.read) < DrainLimit
  /\ LET n == Least(Len(Head(hub)), DrainLimit - Len(attempt.read))
         rest == SubSeq(Head(hub), n + 1, Len(Head(hub)))
     IN /\ Attempt([attempt EXCEPT !.read = @ \o SubSeq(Head(hub), 1, n)])
        /\ hub' = IF rest = <<>> THEN Tail(hub) ELSE <<rest>> \o Tail(hub)
  /\ UNCHANGED <<channel, pipe, mirror, history, boundary>>

MayEnd(completion) ==
  CASE completion = "idle-gap-observed" -> hub = <<>>
    [] completion = "byte-limit-reached" -> hub # <<>> /\ Len(attempt.read) >= DrainLimit
    [] OTHER -> TRUE

Completions == {"idle-gap-observed", "deadline-reached", "byte-limit-reached",
                "native-read-failed", "native-command-failed"}

\* The native answer.  It may overtake Channel events that are still queued.
NativeDrained(completion) ==
  /\ attempt.phase = "drain" /\ MayEnd(completion)
  /\ Attempt([attempt EXCEPT !.phase = "yield", !.read = <<>>,
                             !.idle = (completion = "idle-gap-observed")])
  /\ boundary' = IF completion = "idle-gap-observed" THEN owed ELSE boundary
  /\ IF attempt.read # <<>> /\ completion # "native-command-failed"
       THEN EnqueueReceivedBytes(attempt.read) ELSE UNCHANGED <<mirror, pipe, history>>
  /\ UNCHANGED <<hub, channel>>

\* Seeded bug: the queued Channel events are not waited for.
YieldedAtOnce(ok) ==
  /\ attempt.phase = "yield"
  /\ LET p == FlushRxAndPublish(pipe)
         good == ok /\ attempt.idle /\ p.total = attempt.before
     IN /\ pipe' = p
        /\ Attempt([attempt EXCEPT !.phase = "stopped", !.accepting = FALSE,
                                   !.evidence = IF good THEN "guaranteed" ELSE "not-guaranteed"])
  /\ UNCHANGED <<hub, channel, mirror, history, boundary>>

\* The Channel events queued before have run, or the yield failed; the renderer
\* flushes and only then stops accepting.
Yielded(ok) ==
  /\ attempt.phase = "yield" /\ (ok => channel = <<>>)
  /\ LET p == FlushRxAndPublish(pipe)
         good == ok /\ attempt.idle /\ p.total = attempt.before
     IN /\ pipe' = p
        /\ Attempt([attempt EXCEPT !.phase = "stopped", !.accepting = FALSE,
                                   !.evidence = IF good THEN "guaranteed" ELSE "not-guaranteed"])
  /\ UNCHANGED <<hub, channel, mirror, history, boundary>>

-----------------------------------------------------------------------------
(* The connection's calls.                                                 *)

\* A new attempt has a port, a watch and a Channel of its own.
NewAttempt ==
  /\ connections < MaxConnections /\ connections' = connections + 1
  /\ attempt' = [NoAttempt EXCEPT !.phase = "open", !.watching = TRUE, !.accepting = TRUE]
  /\ hub' = <<>> /\ channel' = <<>> /\ owed' = {} /\ boundary' = {}
  /\ UNCHANGED <<sent, leases, mirror, history>>

\* start(), of a closed session or over a connection it has just stopped.
Start ==
  /\ attempt.phase = "closed" \/ attempt.evidence = "guaranteed"
  /\ pipe' = StartPipeline(pipe) /\ base' = Cardinality(dropped)
  /\ NewAttempt

\* attemptReconnect() after a disconnection with a proven boundary.
Reconnect ==
  /\ attempt.evidence = "guaranteed"
  /\ pipe' = ResetRxDrain(pipe) /\ UNCHANGED base
  /\ NewAttempt

\* The end of stop() with a proven close.
StopEnds ==
  /\ attempt.phase = "stopped"
  /\ pipe' = ClearPendingQueue(CancelPublishers(pipe))
  /\ attempt' = NoAttempt /\ hub' = <<>> /\ channel' = <<>>
  /\ UNCHANGED <<sent, connections, leases, mirror, history, base, owed, boundary>>

Init ==
  /\ sent = 0 /\ hub = <<>> /\ channel = <<>> /\ attempt = NoAttempt
  /\ connections = 0 /\ leases = 0
  /\ pipe = [queue |-> <<>>, total |-> 0, notified |-> FALSE, captured |-> <<>>,
             timer |-> FALSE, microtask |-> FALSE, dirty |-> FALSE, uiTimer |-> FALSE,
             behind |-> FALSE, shown |-> 0, stranded |-> FALSE]
  /\ mirror = NoMirror
  /\ received = <<>> /\ dropped = {} /\ base = 0 /\ owed = {} /\ boundary = {}

\* Everything but a microtask waits for the microtasks.
Event ==
  /\ ~pipe.microtask
  /\ \/ \E n \in Sizes : DeviceSends(n) \/ Read(n)
     \/ WatchReads \/ OnData \/ DrainTimer \/ PublishTimer \/ VisibilityChanged
     \/ Grant \/ ReadEnds \/ ClearBuffers \/ Reconfigured \/ ReleaseLease
     \/ StopBegins \/ NativeRead
     \/ \E ok \in BOOLEAN : Unwatched(ok) \/ Yielded(ok)
     \/ \E completion \in Completions : NativeDrained(completion)
     \/ Start \/ Reconnect \/ StopEnds

Next == DrainMicrotask \/ Event

Spec == Init /\ [][Next]_vars

-----------------------------------------------------------------------------
(* Properties.                                                             *)

\* Whatever is flushed, reset, cleared or restarted in between, the frames
\* followed by the queue are the bytes received, in order and without a gap,
\* except for those the queue discarded, which are exactly the ones counted.
StreamAccounted ==
  /\ pipe.captured \o Bytes(pipe.queue) = Kept(received, dropped)
  /\ pipe.total = Cardinality(dropped) - base
  /\ pipe.notified = (pipe.total > 0)

\* "Prove the final RX boundary": with the evidence "guaranteed", every byte the
\* native side had received when it observed the idle gap is in a frame or in
\* the count of discarded bytes, and on the screen.
BoundaryIsProven ==
  attempt.evidence = "guaranteed" =>
    /\ boundary \subseteq ToSet(pipe.captured) \cup dropped
    /\ ~pipe.behind

\* The owner of the lease reads the stream as it was received since the grant
\* or since it cleared the input: nothing is missing, doubled or out of place,
\* even when the mirror overflows; and no reader waits next to buffered bytes.
MirrorIntact ==
  /\ IsPrefix(mirror.got, mirror.offered)
  /\ mirror.open => mirror.got \o Bytes(mirror.chunks) = mirror.offered
  /\ mirror.reader # 0 => mirror.chunks = <<>>

\* Pending bytes have a timer or a microtask that frames them, unless a
\* reconfiguration cancelled it; frames and counts that are not on the screen
\* have a publish timer, or pending bytes that will arm it.
NothingForgotten ==
  /\ pipe.queue # <<>> /\ ~pipe.stranded => pipe.timer \/ pipe.microtask
  /\ pipe.behind => pipe.uiTimer
  /\ pipe.shown # pipe.total => pipe.uiTimer \/ pipe.queue # <<>>

\* "Small bursts are framed after a configurable period of RX inactivity": not
\* so after a reconfiguration, whose resetRxDrain() cancels the timer of bytes
\* that are pending; they wait for the next byte or for the end.
BurstIsFramed == pipe.queue # <<>> => pipe.timer \/ pipe.microtask
=============================================================================
