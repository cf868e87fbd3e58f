------------------------------ MODULE AutoLog ------------------------------
(***************************************************************************)
(* The automatic log of one session: AutoLogBridge of                      *)
(* features/sessions/application/automation-bridge.ts with its bounded     *)
(* queue, debounce, append worker, timeouts and generations, over the      *)
(* backend's log sessions (src-tauri/src/commands/log.rs).                 *)
(*                                                                         *)
(* Every log that begins has a number; the renderer's state of it, the     *)
(* backend's session and its file share that number.  Frames are numbered  *)
(* in the order in which they reach appendFrame().  Every backend command  *)
(* runs under the lock of its session and is one step; its answer is       *)
(* another, and either may come after the renderer gave up on it.          *)
(***************************************************************************)
EXTENDS Naturals, Sequences, FiniteSets, SequencesExt

CONSTANTS
  Enables,       \* calls of enable()
  NoLog,         \* stands for no log
  Stops,         \* calls of disable() and prepareShutdown()
  Strict,        \* those of prepareShutdown()
  MaxFrames,     \* bound on the frames of the session
  MaxCalls,      \* bound on the calls made
  SizeOf,        \* raw bytes of each frame
  MaxBatchFrames, MaxBatchBytes, MaxQueuedEntries, MaxQueuedBytes, ImmediateBytes

ASSUME CallsAssumption ==
  /\ Strict \subseteq Stops /\ Enables \cap Stops = {} /\ NoLog \notin Enables /\ {MaxFrames, MaxCalls} \subseteq Nat
  /\ SizeOf \in [1..MaxFrames -> Nat]
  /\ {MaxBatchFrames, MaxBatchBytes, MaxQueuedEntries, MaxQueuedBytes, ImmediateBytes}
       \subseteq Nat \ {0}

\* A log is named by the enable() that began it.
Logs == Enables
Calls == Enables \cup Stops

VARIABLES
  generation,    \* of the session
  current,       \* the state in sessionStates, or NoLog
  target,        \* the log the session store shows, or NoLog
  call,          \* progress of each call
  state,         \* SessionAutoLogState of each log
  backend,       \* session and file of each log
  frames,        \* number of frames the session has captured
  accepted,      \* history: frames each log accepted
  covered        \* history: accepted when each prepareShutdown() was called

vars == <<generation, current, target, call, state, backend, frames, accepted, covered>>

NewCall == [pc |-> "idle", generation |-> 0, log |-> NoLog]
NewState == [queue |-> <<>>, batch |-> <<>>, accepting |-> FALSE, mode |-> "none",
             warned |-> "no", failed |-> FALSE, worker |-> "none", debounce |-> FALSE,
             terminal |-> "none"]
NewBackend == [session |-> "none", file |-> <<>>, append |-> "none", batch |-> <<>>,
               terminal |-> "none", complete |-> FALSE]

RawBytes(s) == FoldLeft(LAMBDA n, f : n + SizeOf[f], 0, s)

-----------------------------------------------------------------------------
(* SessionAutoLogState.  An operator takes the state and returns it changed. *)

OutstandingBytes(s) == RawBytes(s.queue) + RawBytes(s.batch)
OutstandingEntries(s) == Len(s.queue) + Len(s.batch)

\* Seeded bug: the user is told only about frames that are still queued.
MarkAbortedQuietly(s, reason) ==
  [s EXCEPT !.accepting = FALSE, !.mode = "abort", !.debounce = FALSE,
            !.queue = <<>>, !.warned = IF s.queue # <<>> /\ @ = "no" THEN reason ELSE @]

\* The queue is dropped and the user notified, once.
MarkAborted(s, reason) ==
  [s EXCEPT !.accepting = FALSE, !.mode = "abort", !.debounce = FALSE,
            !.queue = <<>>, !.warned = IF @ = "no" THEN reason ELSE @]

EnsureWorker(s) ==
  [s EXCEPT !.debounce = FALSE, !.worker = IF @ = "none" THEN "due" ELSE @]

ArmDebounce(s) == [s EXCEPT !.debounce = @ \/ (s.worker = "none" /\ s.accepting)]

\* How many entries takeNextBatch() takes.
BatchLength(queue) ==
  CHOOSE n \in 1..Len(queue) :
    LET Fits(k) == k = 1 \/ (k <= MaxBatchFrames /\ RawBytes(SubSeq(queue, 1, k)) <= MaxBatchBytes)
    IN Fits(n) /\ (n < Len(queue) => ~Fits(n + 1))

TerminalOnce(s) ==
  [s EXCEPT !.terminal = IF @ # "none" THEN @ ELSE IF s.mode = "abort" THEN "abort" ELSE "finish"]

\* drainState() from the head of its loop to its next await or its end.
DrainOn(s) ==
  IF s.queue # <<>> /\ s.mode # "abort"
    THEN LET n == BatchLength(s.queue)
         IN [s EXCEPT !.batch = SubSeq(s.queue, 1, n),
                      !.queue = SubSeq(s.queue, n + 1, Len(s.queue)), !.worker = "append"]
  ELSE IF s.mode = "none" THEN [s EXCEPT !.worker = "none"]
  ELSE [TerminalOnce(s) EXCEPT !.worker = IF s.terminal = "settled" THEN "none" ELSE "terminal"]

\* The batch is accounted for, whatever became of it.
BatchOver(s) == [s EXCEPT !.batch = <<>>]

\* The synchronous part of shutdownState(state, 'graceful').
ShutdownState(s) ==
  EnsureWorker([s EXCEPT !.accepting = FALSE, !.debounce = FALSE,
                         !.mode = IF @ = "none" THEN "graceful" ELSE @])

\* What the backend is sent when the state becomes s: the append of a new batch,
\* or the terminal command.
Sent(l, s) ==
  [backend[l] EXCEPT
     !.append = IF s.worker = "append" /\ state[l].batch # s.batch THEN "sent" ELSE @,
     !.batch = IF s.worker = "append" THEN s.batch ELSE @,
     !.terminal = IF state[l].terminal = "none" THEN s.terminal ELSE @]

\* The log's state becomes s.  Whoever waits for a worker that ends goes on, and
\* the store's target is cleared with accepting.
Becomes(l, s) ==
  /\ state' = [state EXCEPT ![l] = s]
  /\ backend' = [backend EXCEPT ![l] = Sent(l, s)]
  /\ target' = IF state[l].accepting /\ ~s.accepting THEN NoLog ELSE target

WorkerEnds(l, s) ==
  call' = [c \in Calls |->
             IF s.worker = "none" /\ call[c].pc = "draining" /\ call[c].log = l
               THEN [call[c] EXCEPT !.pc = "drained"] ELSE call[c]]

-----------------------------------------------------------------------------
(* The worker.                                                             *)

Works(l, s) ==
  /\ Becomes(l, s) /\ WorkerEnds(l, s)
  /\ UNCHANGED <<generation, frames, accepted, covered>>

DebounceFires(l) ==
  /\ state[l].debounce
  /\ Works(l, EnsureWorker(state[l])) /\ UNCHANGED current

WorkerStarts(l) ==
  /\ state[l].worker = "due"
  /\ Works(l, DrainOn(state[l])) /\ UNCHANGED current

\* append() is answered.
AppendSucceeds(l) ==
  /\ state[l].worker = "append" /\ backend[l].append = "written"
  /\ Works(l, DrainOn(BatchOver(state[l]))) /\ UNCHANGED current

\* append() is refused, times out, or the wait is cancelled by a drain timeout.
AppendFails(l) ==
  /\ state[l].worker = "append"
  /\ Works(l, DrainOn(BatchOver(MarkAborted([state[l] EXCEPT !.failed = TRUE], "append-failure"))))
  /\ UNCHANGED current

Forgets(l) == current' = IF current = l THEN NoLog ELSE current

\* finish() or abort() is answered, refused or times out.
TerminalSettles(l) ==
  /\ state[l].terminal \in {"finish", "abort"}
  /\ \E ok \in BOOLEAN :
       /\ ok => backend[l].terminal = "done"
       /\ LET s == [state[l] EXCEPT !.terminal = "settled", !.failed = @ \/ ~ok,
                                    !.worker = IF @ = "terminal" THEN "none" ELSE @]
          IN Works(l, s)
  /\ Forgets(l)

-----------------------------------------------------------------------------
(* appendFrame().  TargetIsTrue shows that its test of autoLogEnabled never *)
(* fails for a log that accepts frames.                                     *)

ExceedsLimit(s, f) ==
  \/ SizeOf[f] > MaxBatchBytes
  \/ OutstandingBytes(s) + SizeOf[f] > MaxQueuedBytes
  \/ OutstandingEntries(s) + 1 > MaxQueuedEntries

Queued(s, f) ==
  LET q == [s EXCEPT !.queue = Append(@, f)]
  IN IF OutstandingBytes(q) >= ImmediateBytes THEN EnsureWorker(q) ELSE ArmDebounce(q)

AppendFrame ==
  /\ frames < MaxFrames /\ frames' = frames + 1
  /\ LET l == current
         f == frames + 1
     IN IF l = NoLog \/ ~state[l].accepting
          THEN UNCHANGED <<target, call, state, backend, accepted>>
        ELSE /\ Becomes(l, IF ExceedsLimit(state[l], f)
                             THEN EnsureWorker(MarkAborted(state[l], "overflow")) ELSE Queued(state[l], f))
             /\ accepted' = [accepted EXCEPT ![l] = Append(@, f)]
             /\ UNCHANGED call
  /\ UNCHANGED <<generation, current, covered>>

-----------------------------------------------------------------------------
(* enable().                                                               *)

\* Every call of enable(), disable() or prepareShutdown() is a generation.
MayCall(c) == call[c].pc = "idle" /\ generation < MaxCalls

Enable(e) ==
  /\ MayCall(e)
  /\ generation' = generation + 1
  /\ call' = [call EXCEPT ![e] = [@ EXCEPT !.pc = "choosing", !.generation = generation + 1]]
  /\ UNCHANGED <<current, target, state, backend, frames, accepted, covered>>

IsCurrent(e) == call[e].generation = generation

Goes(e, pc) == call' = [call EXCEPT ![e].pc = pc]

\* The user chose a target, or none; an outdated call ends.
TargetChosen(e, chosen) ==
  /\ call[e].pc = "choosing"
  /\ IF ~chosen \/ ~IsCurrent(e)
       THEN Goes(e, "ended") /\ UNCHANGED <<target, state, backend>>
     ELSE IF current = NoLog THEN Goes(e, "begin") /\ UNCHANGED <<target, state, backend>>
     ELSE /\ call' = [call EXCEPT ![e] = [@ EXCEPT !.pc = "draining", !.log = current]]
          /\ Becomes(current, ShutdownState(state[current]))
  /\ UNCHANGED <<generation, current, frames, accepted, covered>>

\* The previous log is shut down; begin() is called if the call is current.
PreviousDrained(e) ==
  /\ call[e].pc = "drained" /\ e \in Enables
  /\ Goes(e, IF IsCurrent(e) THEN "begin" ELSE "ended")
  /\ UNCHANGED <<generation, current, target, state, backend, frames, accepted, covered>>

\* begin_auto_log: the file is open and the session in the table, or not.
BackendBegins(e) ==
  /\ call[e].pc = "begin"
  /\ \/ Goes(e, "begun") /\ backend' = [backend EXCEPT ![e].session = "open"]
     \/ Goes(e, "ended") /\ UNCHANGED backend
  /\ UNCHANGED <<generation, current, target, state, frames, accepted, covered>>

\* Seeded bug: the call installs its log although it was overtaken.
InstallOvertaken(e) ==
  /\ call[e].pc = "begun" /\ Goes(e, "ended")
  /\ state' = [state EXCEPT ![e].accepting = TRUE]
  /\ current' = e /\ target' = e
  /\ UNCHANGED <<generation, backend, frames, accepted, covered>>

\* begin() is answered: the log is installed, or aborted again by a call that
\* was overtaken.
Install(e) ==
  /\ call[e].pc = "begun" /\ Goes(e, "ended")
  /\ IF IsCurrent(e)
       THEN /\ state' = [state EXCEPT ![e].accepting = TRUE]
            /\ current' = e /\ target' = e /\ UNCHANGED backend
       ELSE /\ backend' = [backend EXCEPT ![e].terminal = "abort"]
            /\ UNCHANGED <<state, current, target>>
  /\ UNCHANGED <<generation, frames, accepted, covered>>

-----------------------------------------------------------------------------
(* disable(), prepareShutdown() and shutdownState().                       *)

Stop(c) ==
  /\ MayCall(c)
  /\ generation' = generation + 1
  /\ covered' = [x \in DOMAIN covered |-> IF x = c THEN accepted ELSE covered[x]]
  /\ IF current = NoLog
       THEN /\ call' = [call EXCEPT ![c].pc = "ended"] /\ target' = NoLog
            /\ UNCHANGED <<state, backend>>
       ELSE /\ call' = [call EXCEPT ![c] = [@ EXCEPT !.pc = "draining", !.log = current]]
            /\ Becomes(current, ShutdownState(state[current]))
  /\ UNCHANGED <<current, frames, accepted>>

\* The drain of a caller times out: the log is aborted and forgotten.
DrainTimesOut(c) ==
  /\ call[c].pc = "draining"
  /\ LET l == call[c].log
         s == TerminalOnce(MarkAborted([state[l] EXCEPT !.failed = TRUE], "drain-timeout"))
     IN /\ Becomes(l, s) /\ Forgets(l)
  /\ Goes(c, "drained")
  /\ UNCHANGED <<generation, frames, accepted, covered>>

\* Seeded bug: a strict caller does not look at what failed.
StopSettlesLoosely(c) ==
  /\ call[c].pc = "drained" /\ c \in Stops
  /\ Goes(c, "ended")
  /\ UNCHANGED <<generation, current, target, state, backend, frames, accepted, covered>>

\* disable() ends; prepareShutdown() throws what failed.
StopSettles(c) ==
  /\ call[c].pc = "drained" /\ c \in Stops
  /\ Goes(c, IF c \in Strict /\ state[call[c].log].failed THEN "failed" ELSE "ended")
  /\ UNCHANGED <<generation, current, target, state, backend, frames, accepted, covered>>

-----------------------------------------------------------------------------
(* The backend.                                                            *)

Backend(l, b) ==
  /\ backend' = [backend EXCEPT ![l] = b]
  /\ UNCHANGED <<generation, current, target, call, state, frames, accepted, covered>>

\* append_auto_log: written and flushed, or a part of it; refused once the
\* session is sealed or gone.
BackendAppends(l) ==
  /\ backend[l].append = "sent"
  /\ \/ /\ backend[l].session = "open"
        /\ \E n \in 0..Len(backend[l].batch) :
             Backend(l, [backend[l] EXCEPT
                           !.file = @ \o SubSeq(backend[l].batch, 1, n),
                           !.append = IF n = Len(backend[l].batch) THEN "written" ELSE "refused"])
     \/ /\ backend[l].session # "open"
        /\ Backend(l, [backend[l] EXCEPT !.append = "refused"])

\* finish_auto_log: the footer is written and synced, or that fails.
BackendFinishes(l) ==
  /\ backend[l].terminal = "finish"
  /\ \E ok \in BOOLEAN :
       /\ ok => backend[l].session = "open"
       /\ Backend(l, [backend[l] EXCEPT !.session = "closed", !.complete = ok,
                                        !.terminal = IF ok THEN "done" ELSE "refused"])

\* abort_auto_log: idempotent.
BackendAborts(l) ==
  /\ backend[l].terminal = "abort"
  /\ Backend(l, [backend[l] EXCEPT !.session = "closed", !.terminal = "done"])

\* The sweep of another begin() expires a session that was idle for its TTL.
BackendExpires(l) ==
  /\ backend[l].session = "open" /\ backend[l].append # "sent"
  /\ Backend(l, [backend[l] EXCEPT !.session = "closed"])

Init ==
  /\ generation = 0 /\ current = NoLog /\ target = NoLog
  /\ call = [c \in Calls |-> NewCall]
  /\ state = [l \in Logs |-> NewState]
  /\ backend = [l \in Logs |-> NewBackend]
  /\ frames = 0 /\ accepted = [l \in Logs |-> <<>>]
  /\ covered = [c \in Strict |-> [l \in Logs |-> <<>>]]

LogStep(l) ==
  \/ DebounceFires(l) \/ WorkerStarts(l) \/ AppendSucceeds(l) \/ AppendFails(l)
  \/ TerminalSettles(l)

Next ==
  \/ AppendFrame
  \/ \E l \in Logs :
       \/ LogStep(l)
       \/ BackendAppends(l) \/ BackendFinishes(l) \/ BackendAborts(l) \/ BackendExpires(l)
  \/ \E e \in Enables :
       \/ Enable(e) \/ TargetChosen(e, TRUE) \/ TargetChosen(e, FALSE)
       \/ PreviousDrained(e) \/ BackendBegins(e) \/ Install(e)
  \/ \E c \in Stops : Stop(c) \/ StopSettles(c)
  \/ \E c \in Calls : DrainTimesOut(c)

Spec == Init /\ [][Next]_vars

-----------------------------------------------------------------------------
(* Properties.                                                             *)

\* The file holds the frames the log accepted, each once and in order, up to
\* some frame; every accepted frame is in the file or still on its way, or the
\* user was told that the log failed; and what waits in the queue has a timer
\* or a worker that will take it.
NothingUnlogged ==
  \A l \in Logs :
    /\ IsPrefix(backend[l].file, accepted[l])
    /\ state[l].queue # <<>> => state[l].debounce \/ state[l].worker # "none"
    /\ \/ state[l].warned # "no"
       \/ ToSet(accepted[l]) \subseteq ToSet(backend[l].file \o state[l].batch \o state[l].queue)

\* prepareShutdown() that does not throw means that the log it found holds every
\* frame accepted before the call and is finished and synced, unless the queue
\* overflowed, which the user was told; and that no other log lost a frame
\* unreported, also when a disable() or an enable() had begun the shutdown.
ShutdownIsHonest ==
  \A c \in Strict, l \in Logs : call[c].pc = "ended" =>
    LET logged == IsPrefix(covered[c][l], backend[l].file)
    IN IF call[c].log = l
         THEN (logged /\ backend[l].complete) \/ state[l].warned = "overflow"
         ELSE logged \/ state[l].warned # "no"

\* The session shows a log exactly while that log accepts frames, and only the
\* newest log does: no call that was overtaken brings its log back.
TargetIsTrue ==
  \A l \in Logs : (target = l) = state[l].accepting /\ (state[l].accepting => current = l)
=============================================================================
