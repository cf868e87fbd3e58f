---------------------------- MODULE WorkspaceSaving ----------------------------
(***************************************************************************)
(* How an accepted mutation of a project reaches the native store: the     *)
(* debounced save queues, the single save tail of the application service, *)
(* the write epoch of the coordinator, the native transaction, and the     *)
(* barriers (flush, export, workspace switch) that wait for them.          *)
(*                                                                         *)
(* Promise continuations run to completion before the next event, so a     *)
(* native answer, the bookkeeping of the epoch and the continuation of the *)
(* caller that awaits it are one step.  Timers are untimed: an armed timer *)
(* may fire at any moment.                                                 *)
(***************************************************************************)
EXTENDS Naturals, FiniteSets, SequencesExt

CONSTANTS Workspaces,    \* projects of the library
          Sessions,      \* sessions of a project
          Sizes,         \* byte sizes of a frame or of a structured mutation
          BatchBytes,    \* MAX_WORKSPACE_BATCH_BYTES and WORKSPACE_FRAME_AUTOSAVE_MAX_BYTES
          MaxFrames,     \* WORKSPACE_FRAME_AUTOSAVE_MAX_FRAMES
          MaxCaptured,   \* MAX_WORKSPACE_FRAMES_PER_SESSION
          MaxAccepted,   \* bound: mutations accepted in a behaviour
          MaxLarge,      \* bound: those above the batch budget, since the epoch opened
          MaxSwitches,   \* bound: workspace switches in a behaviour
          MaxBarriers,   \* bound: flush() and exportWorkspace() calls in a behaviour
          MaxCalls       \* bound: all of these together

VARIABLES
  \* WorkspaceSaveCoordinator and its queues
  epoch, configQueue, frameQueue, configTimer, frameTimer,
  saveTail, run, failure, retained, accounting,
  \* the switch in progress and the current workspace of the application
  phase, current,
  \* WorkspaceWriteEpochEngine and the coordinator's active document
  engine, active, revision, health, tickets,
  \* the native side: the open project, the committed mutations, the revisions
  native, store, storeRevision,
  \* callers of flush()
  flush,
  \* history: mutations accepted since the epoch opened, the bounds' counters, and
  \* the epoch of the work whose failure is latched
  log, accepted, switches, barriers, failedWork

queueVars == <<configQueue, frameQueue, configTimer, frameTimer>>
saveVars == <<saveTail, run, failure, retained>>
engineVars == <<engine, active, revision, health, tickets>>
nativeVars == <<native, store, storeRevision>>
switchVars == <<epoch, phase, current, switches>>
vars == <<epoch, configQueue, frameQueue, configTimer, frameTimer, saveTail, run,
          failure, retained, accounting, phase, current, engine, active, revision,
          health, tickets, native, store, storeRevision, flush, log, accepted,
          switches, barriers, failedWork>>

None == "none"
Callers == {"user", "drain"}
Ordered == {"clear", "trim", "ordered"}
IdleRun == [pc |-> "idle", epoch |-> 0, batches |-> <<>>, size |-> 0, done |-> 0, covers |-> {}]
NoFrames == [next |-> 0, count |-> 0, held |-> 0]  \* next number, counted, shown in the session
NoFlush == [pc |-> "idle", ahead |-> 0, epoch |-> 0, covers |-> {}]
CallsLeft == accepted + switches + barriers < MaxCalls

-------------------------------------------------------------------------------
(* Commands and batches.  An item is one accepted mutation; a command is   *)
(* the sequence of the items it carries.                                   *)

Joins(a, b) == a.session = b.session /\ b.seq = a.seq + 1

\* Consecutive frames of one session become one append-frames command.
FrameAppendCommands(frames) ==
  FoldLeft(LAMBDA acc, f :
             IF acc # <<>> /\ Joins(Last(Last(acc)), f)
             THEN [acc EXCEPT ![Len(acc)] = Append(@, f)]
             ELSE Append(acc, <<f>>),
           <<>>, frames)

ConfigCommands(items) == [i \in DOMAIN items |-> <<items[i]>>]

Bytes(cmd) == FoldLeft(LAMBDA n, i : n + i.size, 0, cmd)
BytesOf(batch) == FoldLeft(LAMBDA n, c : n + Bytes(c), 0, batch)
SingleLargeFrame(cmd) == Len(cmd) = 1 /\ cmd[1].kind = "frame" /\ cmd[1].size > BatchBytes
Oversized(cmd) == Bytes(cmd) > BatchBytes /\ ~SingleLargeFrame(cmd)

\* The native batches of a save group; the caller handles the null answer (Oversized).
Partition(cmds) ==
  FoldLeft(LAMBDA acc, c :
             IF \/ acc = <<>>
                \/ SingleLargeFrame(c) \/ SingleLargeFrame(Last(acc)[1])
                \/ BytesOf(Last(acc)) + Bytes(c) > BatchBytes
             THEN Append(acc, <<c>>)
             ELSE [acc EXCEPT ![Len(acc)] = Append(@, c)],
           <<>>, cmds)

Items(cmds) == UNION {Range(cmds[i]) : i \in DOMAIN cmds}
ItemsOf(batches) == UNION {Items(batches[i]) : i \in DOMAIN batches}

-------------------------------------------------------------------------------
(* The native store: the committed mutations in the order they were        *)
(* applied, and the frames they leave for a session.                       *)

ApplyItem(frames, i) ==
  CASE i.kind = "frame" -> frames \cup {i.seq}
    [] i.kind = "clear" -> {}
    [] i.kind = "trim"  -> frames \ {CHOOSE q \in frames : \A r \in frames : q <= r}
    [] OTHER            -> frames

Capture(items, s) ==
  FoldLeft(LAMBDA fr, i : IF i.session = s THEN ApplyItem(fr, i) ELSE fr, {}, items)

Flat(batch) == FlattenSeq(batch)

\* Appending a frame at a sequence number that is taken violates the primary key.
Clashes(items, w) ==
  \E k \in DOMAIN items :
    /\ items[k].kind = "frame"
    /\ items[k].seq \in Capture(store[w] \o SubSeq(items, 1, k - 1), items[k].session)

Stored(w) == Range(store[w])

-------------------------------------------------------------------------------
(* Save health, the gate and the failure latch.                            *)

SaveInFlight == run.pc # "idle"
Scheduled == saveTail # <<>> \/ SaveInFlight

\* Seeded bug: the latched failure is forgotten once the queues are empty.
HealthWithoutLatch ==
  IF active = current /\ health = "readOnly" THEN "readOnly"
  ELSE IF health = "degraded" THEN "degraded"
  ELSE IF SaveInFlight THEN "saving"
  ELSE IF configQueue # <<>> \/ frameQueue # <<>> \/ Scheduled THEN "pending"
  ELSE health

CurrentSaveHealth ==
  IF active = current /\ health = "readOnly" THEN "readOnly"
  ELSE IF failure = "conflict" THEN "readOnly"
  ELSE IF failure # None \/ health = "degraded" THEN "degraded"
  ELSE IF SaveInFlight THEN "saving"
  ELSE IF configQueue # <<>> \/ frameQueue # <<>> \/ Scheduled THEN "pending"
  ELSE health

\* acceptingSaveContext(): the gate for user edits and captured frames.
Accepting ==
  phase = "open" /\ failure = None /\ active = current /\ health # "readOnly"

\* Seeded bug: the internal capability stays open until the switch ends.
DrainAcceptingLate ==
  phase \in {"quiescing", "draining", "activating"} /\ failure = None /\ active = current
  /\ health # "readOnly"

\* internalSaveContext(): the capability handed to the runtimes while they quiesce.
DrainAccepting ==
  phase = "quiescing" /\ failure = None /\ active = current /\ health # "readOnly"

\* Seeded bug: the queues are cleared before they are counted.
LatchUncounted(kind, of, extra) ==
  /\ failure' = IF failure = None THEN kind ELSE failure
  /\ failedWork' = IF failure = None THEN of ELSE failedWork
  /\ retained' = retained + extra
  /\ configQueue' = <<>> /\ frameQueue' = <<>>
  /\ configTimer' = FALSE /\ frameTimer' = FALSE

\* latchSaveFailure(): the first failure stays, the queues are abandoned and counted.
Latch(kind, of, extra) ==
  /\ failure' = IF failure = None THEN kind ELSE failure
  /\ failedWork' = IF failure = None THEN of ELSE failedWork
  /\ retained' = retained + extra + Len(configQueue) + Len(FrameAppendCommands(frameQueue))
  /\ configQueue' = <<>> /\ frameQueue' = <<>>
  /\ configTimer' = FALSE /\ frameTimer' = FALSE

-------------------------------------------------------------------------------
(* Accepting mutations.                                                    *)

Group(cmds) == [kind |-> "save", epoch |-> epoch, ws |-> current, commands |-> cmds,
                covers |-> {}]
ConfigGroup == IF configQueue = <<>> THEN <<>> ELSE <<Group(ConfigCommands(configQueue))>>
FrameGroup == IF frameQueue = <<>> THEN <<>> ELSE <<Group(FrameAppendCommands(frameQueue))>>

\* releaseAll(): configuration first, then frames, both behind the save tail.
Released == saveTail \o ConfigGroup \o FrameGroup
QueuesReleased ==
  configQueue' = <<>> /\ frameQueue' = <<>> /\ configTimer' = FALSE /\ frameTimer' = FALSE

NewItem(kind, s, q, size) ==
  [id |-> accepted + 1, kind |-> kind, session |-> s, seq |-> q, size |-> size,
   epoch |-> epoch, ws |-> current]

Large(items) == {i \in items : i.size > BatchBytes}

Accepted(item) ==
  /\ log' = Append(log, item) /\ accepted' = accepted + 1
  /\ Cardinality(Large(Range(log) \cup {item})) <= MaxLarge

\* Seeded bug: a further edit clears the debounce timer and does not arm it again.
QueueConfigUnarmed(size) ==
  /\ accepted < MaxAccepted /\ CallsLeft
  /\ Accepting \/ DrainAccepting
  /\ LET item == NewItem("config", None, 0, size)
     IN  configQueue' = Append(configQueue, item) /\ Accepted(item)
  /\ configTimer' = (configQueue = <<>>)
  /\ UNCHANGED <<frameQueue, frameTimer, saveVars, accounting, switchVars, engineVars,
                 nativeVars, flush, barriers, failedWork>>

QueueConfigMutation(size) ==
  /\ accepted < MaxAccepted /\ CallsLeft
  /\ Accepting \/ DrainAccepting
  /\ LET item == NewItem("config", None, 0, size)
     IN  configQueue' = Append(configQueue, item) /\ Accepted(item)
  /\ configTimer' = TRUE
  /\ UNCHANGED <<frameQueue, frameTimer, saveVars, accounting, switchVars, engineVars,
                 nativeVars, flush, barriers, failedWork>>

FrameBytes == Bytes(frameQueue)

\* A frame that would overflow the queue releases it first; one that fills it releases it after.
QueueCapturedFrame(s, size) ==
  /\ accepted < MaxAccepted /\ CallsLeft
  /\ Accepting \/ DrainAccepting
  /\ accounting[s].count + 1 <= MaxCaptured
  /\ LET item == NewItem("frame", s, accounting[s].next, size)
         overflow == /\ frameQueue # <<>>
                     /\ \/ Len(frameQueue) + 1 > MaxFrames
                        \/ FrameBytes + size > BatchBytes
         tail == IF overflow THEN saveTail \o FrameGroup ELSE saveTail
         queue == IF overflow THEN <<item>> ELSE Append(frameQueue, item)
         full == Len(queue) >= MaxFrames \/ Bytes(queue) >= BatchBytes
     IN  /\ Accepted(item)
         /\ saveTail' = IF full THEN Append(tail, Group(FrameAppendCommands(queue))) ELSE tail
         /\ frameQueue' = IF full THEN <<>> ELSE queue
         /\ frameTimer' = ~full
  /\ accounting' = [accounting EXCEPT ![s] = [next |-> @.next + 1, count |-> @.count + 1,
                                                 held |-> @.held + 1]]
  /\ UNCHANGED <<configQueue, configTimer, run, failure, retained, switchVars, engineVars,
                 nativeVars, flush, barriers, failedWork>>

\* Seeded bug: the clear overtakes the frames that are still queued.
CaptureResetOvertakes(s) ==
  /\ accepted < MaxAccepted /\ CallsLeft
  /\ Accepting
  /\ LET item == NewItem("clear", s, 0, 1)
     IN  saveTail' = Append(saveTail, Group(<<<<item>>>>)) /\ Accepted(item)
  /\ accounting' = [accounting EXCEPT ![s] = NoFrames]
  /\ UNCHANGED <<queueVars, run, failure, retained, switchVars, engineVars, nativeVars, flush,
                 barriers, failedWork>>

\* queueCaptureReset(): everything accepted so far goes ahead, numbering restarts.  During
\* a switch the adapter queues the clear as an ordered mutation, without that restart.
QueueCaptureReset(s) ==
  /\ accepted < MaxAccepted /\ CallsLeft
  /\ Accepting \/ DrainAccepting
  /\ LET item == NewItem("clear", s, 0, 1)
     IN  saveTail' = Append(Released, Group(<<<<item>>>>)) /\ Accepted(item)
  /\ QueuesReleased
  /\ accounting' = [accounting EXCEPT ![s] =
                      IF Accepting THEN NoFrames ELSE [@ EXCEPT !.held = 0]]
  /\ UNCHANGED <<run, failure, retained, switchVars, engineVars, nativeVars, flush,
                 barriers, failedWork>>

\* queueOrderedMutations() and the waveform replacements and ingests: a group of its own
\* behind everything accepted so far.
QueueOrderedMutation ==
  /\ accepted < MaxAccepted /\ CallsLeft
  /\ Accepting \/ DrainAccepting
  /\ LET item == NewItem("ordered", None, 0, 1)
     IN  saveTail' = Append(Released, Group(<<<<item>>>>)) /\ Accepted(item)
  /\ QueuesReleased
  /\ UNCHANGED <<run, failure, retained, accounting, switchVars, engineVars, nativeVars, flush,
                 barriers, failedWork>>

\* queueCaptureTrim(): the oldest frame was dropped from the renderer's buffer.
QueueCaptureTrim(s) ==
  /\ accepted < MaxAccepted /\ CallsLeft
  /\ Accepting \/ DrainAccepting
  /\ accounting[s].held >= 1
  /\ LET item == NewItem("trim", s, 0, 1)
     IN  saveTail' = Append(Released, Group(<<<<item>>>>)) /\ Accepted(item)
  /\ QueuesReleased
  /\ accounting' = [accounting EXCEPT ![s].count = @ - 1, ![s].held = @ - 1]
  /\ UNCHANGED <<run, failure, retained, switchVars, engineVars, nativeVars, flush,
                 barriers, failedWork>>

\* A frame beyond the capture limit is refused by enqueueCapturedFrame(), and the adapter
\* turns the refusal into a latched failure: the workspace fails closed.
RejectPersistence(s) ==
  /\ Accepting \/ DrainAccepting
  /\ accounting[s].count + 1 > MaxCaptured
  /\ Latch("failed", epoch, 0)
  /\ UNCHANGED <<saveTail, run, accounting, switchVars, engineVars, nativeVars, flush,
                 log, accepted, barriers>>

ConfigTimer ==
  /\ configTimer
  /\ configTimer' = FALSE
  /\ configQueue' = <<>>
  /\ saveTail' = saveTail \o ConfigGroup
  /\ UNCHANGED <<frameQueue, frameTimer, run, failure, retained, accounting, switchVars,
                 engineVars, nativeVars, flush, log, accepted, barriers, failedWork>>

FrameTimer ==
  /\ frameTimer
  /\ frameTimer' = FALSE
  /\ frameQueue' = <<>>
  /\ saveTail' = saveTail \o FrameGroup
  /\ UNCHANGED <<configQueue, configTimer, run, failure, retained, accounting, switchVars,
                 engineVars, nativeVars, flush, log, accepted, barriers, failedWork>>

-------------------------------------------------------------------------------
(* The save tail.  run() of the group at its head, and the export barrier. *)

Ticket(owner, kind, batch) ==
  [owner |-> owner, kind |-> kind, batch |-> batch, eng |-> engine, ws |-> active,
   base |-> 0, st |-> "queued"]

InFlight == \E k \in DOMAIN tickets : tickets[k].eng = engine /\ tickets[k].st # "queued"

\* The promise of the group is settled: whoever waits behind it is one step closer.
OneLessAhead ==
  flush' = [c \in Callers |->
             IF flush[c].pc = "barrier" /\ flush[c].ahead > 0
             THEN [flush[c] EXCEPT !.ahead = @ - 1] ELSE flush[c]]

IsCurrentSaveContext(g) == g.epoch = epoch /\ g.ws = current /\ active = current

HeadIs(kind) == run.pc = "idle" /\ saveTail # <<>> /\ Head(saveTail).kind = kind

\* The group belongs to another epoch, or a failure is latched: its commands are retained.
RunSkipped ==
  /\ HeadIs("save")
  /\ ~IsCurrentSaveContext(Head(saveTail)) \/ failure # None
  /\ retained' = retained + Len(Head(saveTail).commands)
  /\ saveTail' = Tail(saveTail)
  /\ OneLessAhead
  /\ UNCHANGED <<queueVars, run, failure, accounting, switchVars, engineVars, nativeVars,
                 log, accepted, barriers, failedWork>>

\* A command no native batch can carry: the group is refused as a whole.
RunRejected ==
  /\ HeadIs("save")
  /\ IsCurrentSaveContext(Head(saveTail)) /\ failure = None
  /\ \E k \in DOMAIN Head(saveTail).commands : Oversized(Head(saveTail).commands[k])
  /\ Latch("failed", epoch, Len(Head(saveTail).commands))
  /\ saveTail' = Tail(saveTail)
  /\ OneLessAhead
  /\ UNCHANGED <<run, accounting, switchVars, engineVars, nativeVars, log, accepted, barriers>>

RunCommits ==
  /\ HeadIs("save")
  /\ IsCurrentSaveContext(Head(saveTail)) /\ failure = None
  /\ \A k \in DOMAIN Head(saveTail).commands : ~Oversized(Head(saveTail).commands[k])
  /\ LET batches == Partition(Head(saveTail).commands)
     IN  /\ run' = [pc |-> "commit", epoch |-> Head(saveTail).epoch, batches |-> batches,
                    size |-> Len(Head(saveTail).commands), done |-> 0, covers |-> {}]
         /\ tickets' = Append(tickets, Ticket("run", "batch", Head(batches)))
  /\ health' = IF InFlight THEN health ELSE "pending"
  /\ saveTail' = Tail(saveTail)
  /\ UNCHANGED <<queueVars, failure, retained, accounting, switchVars, engine, active,
                 revision, nativeVars, flush, log, accepted, barriers, failedWork>>

\* exportWorkspace(): the export takes its place on the save tail.
ExportWorkspace ==
  /\ barriers < MaxBarriers /\ CallsLeft
  /\ Accepting
  /\ ~\E k \in DOMAIN saveTail : saveTail[k].kind = "export"
  /\ run.pc \notin {"flush", "native"}
  /\ saveTail' = Append(Released, [Group(<<>>) EXCEPT !.kind = "export", !.covers = Range(log)])
  /\ QueuesReleased
  /\ barriers' = barriers + 1
  /\ UNCHANGED <<run, failure, retained, accounting, switchVars, engineVars, nativeVars,
                 flush, log, accepted, failedWork>>

ExportSkipped ==
  /\ HeadIs("export")
  /\ ~IsCurrentSaveContext(Head(saveTail)) \/ failure # None
  /\ saveTail' = Tail(saveTail)
  /\ OneLessAhead
  /\ UNCHANGED <<queueVars, run, failure, retained, accounting, switchVars, engineVars,
                 nativeVars, log, accepted, barriers, failedWork>>

ExportFlushes ==
  /\ HeadIs("export")
  /\ IsCurrentSaveContext(Head(saveTail)) /\ failure = None
  /\ run' = [IdleRun EXCEPT !.pc = "flush", !.epoch = Head(saveTail).epoch,
                            !.covers = Head(saveTail).covers]
  /\ tickets' = Append(tickets, Ticket("export", "flush", <<>>))
  /\ saveTail' = Tail(saveTail)
  /\ UNCHANGED <<queueVars, failure, retained, accounting, switchVars, engine, active,
                 revision, health, nativeVars, flush, log, accepted, barriers, failedWork>>

\* The native export of the active project ends; the save tail goes on.
ExportEnds ==
  /\ run.pc = "native"
  /\ run' = IdleRun
  /\ OneLessAhead
  /\ UNCHANGED <<queueVars, saveTail, failure, retained, accounting, switchVars, engineVars,
                 nativeVars, log, accepted, barriers, failedWork>>

-------------------------------------------------------------------------------
(* The write epoch: tickets run one at a time, in order.                   *)

FirstOfEpoch(k) ==
  /\ k \in DOMAIN tickets
  /\ \A j \in 1 .. k - 1 : tickets[j].eng # tickets[k].eng

\* The continuation of the save group that awaits commitBatch().
SettleRun(k, outcome) ==
  LET rest == RemoveAt(tickets, k)
      left == Tail(run.batches)
      done == run.done + Len(Head(run.batches))
  IN  CASE outcome = "ok" /\ left # <<>> ->
             /\ run' = [run EXCEPT !.batches = left, !.done = done]
             /\ tickets' = Append(rest, Ticket("run", "batch", Head(left)))
             /\ UNCHANGED <<queueVars, failure, retained, flush, failedWork>>
        [] outcome = "ok" /\ left = <<>> ->
             /\ run' = IdleRun /\ tickets' = rest /\ OneLessAhead
             /\ UNCHANGED <<queueVars, failure, retained, failedWork>>
        [] OTHER ->
             /\ run' = IdleRun /\ tickets' = rest /\ OneLessAhead
             /\ Latch(outcome, run.epoch, run.size - run.done)

\* The continuation of the export barrier.
SettleExport(k, outcome) ==
  /\ tickets' = RemoveAt(tickets, k)
  /\ IF outcome = "ok"
     THEN /\ run' = [run EXCEPT !.pc = "native"]
          /\ UNCHANGED <<queueVars, failure, retained, flush, failedWork>>
     ELSE /\ run' = IdleRun /\ OneLessAhead
          /\ Latch(outcome, run.epoch, 0)

\* The continuation of flush() and of the drain of a switch: applySaveOutcome().
SettleFlush(c, k, outcome) ==
  /\ tickets' = RemoveAt(tickets, k)
  /\ flush' = [flush EXCEPT ![c].pc = IF outcome = "ok" THEN "completed" ELSE "failed"]
  /\ UNCHANGED run
  /\ IF outcome = "ok"
     THEN UNCHANGED <<queueVars, failure, retained, failedWork>>
     ELSE Latch(outcome, flush[c].epoch, 0)

Settle(k, outcome) ==
  CASE tickets[k].owner = "run"    -> SettleRun(k, outcome)
    [] tickets[k].owner = "export" -> SettleExport(k, outcome)
    [] OTHER                       -> SettleFlush(tickets[k].owner, k, outcome)

\* executeBatch() and executeFlush() up to the native call.
EngineSend(k) ==
  /\ FirstOfEpoch(k)
  /\ tickets[k].st = "queued"
  /\ tickets[k].eng = engine /\ health # "readOnly"
  /\ tickets' = [tickets EXCEPT ![k].st = "sent", ![k].base = revision]
  /\ health' = "saving"
  /\ UNCHANGED <<queueVars, saveVars, accounting, switchVars, engine, active, revision,
                 nativeVars, flush, log, accepted, barriers, failedWork>>

\* Its epoch was replaced, before the call or while the call was in flight: stale.
EngineStale(k) ==
  /\ FirstOfEpoch(k)
  /\ tickets[k].eng # engine
  /\ tickets[k].kind = "batch" => tickets[k].st # "sent"
  /\ Settle(k, "failed")
  /\ UNCHANGED <<saveTail, accounting, switchVars, engine, active, revision, health,
                 nativeVars, log, accepted, barriers>>

\* The document became read-only while the ticket was queued.
EngineReadOnly(k) ==
  /\ FirstOfEpoch(k)
  /\ tickets[k].st = "queued"
  /\ tickets[k].eng = engine /\ health = "readOnly"
  /\ Settle(k, "failed")
  /\ UNCHANGED <<saveTail, accounting, switchVars, engine, active, revision, health,
                 nativeVars, log, accepted, barriers>>

\* What the native command answers to a batch it does not apply.
Refusal(k) ==
  LET t == tickets[k] IN
  IF native # t.ws THEN "error"
  ELSE IF t.base # storeRevision[t.ws] THEN "conflict"
  ELSE IF Clashes(Flat(t.batch), t.ws) THEN "clash"
  ELSE None

\* apply_batch(): one transaction under the lock of the active project.  It may fail
\* before the commit (I/O, limits, a read-only file), and the answer of a committed
\* batch may still be lost on its way to the renderer.
NativeApply(k) ==
  /\ k \in DOMAIN tickets /\ tickets[k].st = "sent" /\ tickets[k].kind = "batch"
  /\ LET t == tickets[k] IN
     \/ /\ Refusal(k) # None
        /\ tickets' = [tickets EXCEPT ![k].st = Refusal(k)]
        /\ UNCHANGED <<store, storeRevision>>
     \/ /\ Refusal(k) = None
        /\ \E answer \in {"error", "readOnly"} : tickets' = [tickets EXCEPT ![k].st = answer]
        /\ UNCHANGED <<store, storeRevision>>
     \/ /\ Refusal(k) = None
        /\ \E answer \in {"ok", "error"} : tickets' = [tickets EXCEPT ![k].st = answer]
        /\ store' = [store EXCEPT ![t.ws] = @ \o Flat(t.batch)]
        /\ storeRevision' = [storeRevision EXCEPT ![t.ws] = @ + 1]
  /\ UNCHANGED <<queueVars, saveVars, accounting, switchVars, engine, active, revision,
                 health, native, flush, log, accepted, barriers, failedWork>>

OtherBatches(k) ==
  \E j \in DOMAIN tickets : j # k /\ tickets[j].kind = "batch" /\ tickets[j].eng = engine

\* The answer to a batch of the current epoch: document, health, then the continuation.
BatchAnswer(k) ==
  /\ FirstOfEpoch(k)
  /\ tickets[k].eng = engine /\ tickets[k].kind = "batch"
  /\ tickets[k].st \notin {"queued", "sent"}
  /\ LET t == tickets[k]
     IN  /\ revision' = IF t.st = "ok" THEN t.base + 1 ELSE revision
         /\ health' = CASE t.st = "readOnly" -> "readOnly"
                        [] t.st \notin {"ok", "readOnly"} -> "degraded"
                        [] OTHER -> IF Len(run.batches) > 1 THEN "pending" ELSE "clean"
         /\ Settle(k, IF t.st \in {"ok", "conflict"} THEN t.st ELSE "failed")
  /\ UNCHANGED <<saveTail, accounting, switchVars, engine, active, nativeVars, log,
                 accepted, barriers>>

\* The native flush() is a checkpoint that changes no data and answers the health it
\* found; the epoch adopts it unless batches are still pending.
FlushAnswer(k) ==
  /\ FirstOfEpoch(k)
  /\ tickets[k].eng = engine /\ tickets[k].kind = "flush"
  /\ tickets[k].st = "sent"
  /\ \/ /\ native = tickets[k].ws
        /\ health' \in {IF OtherBatches(k) THEN "pending" ELSE "clean", "degraded"}
        /\ Settle(k, "ok")
     \/ /\ health' = "degraded"
        /\ Settle(k, "failed")
  /\ UNCHANGED <<saveTail, accounting, switchVars, engine, active, revision, nativeVars, log,
                 accepted, barriers>>

-------------------------------------------------------------------------------
(* flush(), and the switch of workspaces.                                  *)

Ahead(tail) == Len(tail) + (IF run.pc = "idle" THEN 0 ELSE 1)

\* Seeded bug: the barrier is taken without releasing the debounced queues.
FlushUnreleased ==
  /\ barriers < MaxBarriers /\ CallsLeft
  /\ flush["user"].pc = "idle"
  /\ flush' = [flush EXCEPT !["user"] = [pc |-> "barrier", ahead |-> Ahead(saveTail),
                                         epoch |-> epoch, covers |-> Range(log)]]
  /\ barriers' = barriers + 1
  /\ UNCHANGED <<queueVars, saveVars, accounting, switchVars, engineVars, nativeVars,
                 log, accepted, failedWork>>

\* flush(): release the queues and take the current save tail as the barrier.
Flush ==
  /\ barriers < MaxBarriers /\ CallsLeft
  /\ flush["user"].pc = "idle"
  /\ saveTail' = Released /\ QueuesReleased
  /\ flush' = [flush EXCEPT !["user"] = [pc |-> "barrier", ahead |-> Ahead(Released),
                                         epoch |-> epoch, covers |-> Range(log)]]
  /\ barriers' = barriers + 1
  /\ UNCHANGED <<run, failure, retained, accounting, switchVars, engineVars, nativeVars,
                 log, accepted, failedWork>>

\* Behind the barrier: a latched failure, a project that is not the active one, or the
\* checkpoint on the tail of the write epoch.
FlushBarrier(c) ==
  /\ flush[c].pc = "barrier" /\ flush[c].ahead = 0
  /\ IF failure # None \/ active # current
     THEN flush' = [flush EXCEPT ![c].pc = "failed"] /\ UNCHANGED tickets
     ELSE /\ flush' = [flush EXCEPT ![c].pc = "engine"]
          /\ tickets' = Append(tickets, Ticket(c, "flush", <<>>))
  /\ UNCHANGED <<queueVars, saveVars, accounting, switchVars, engine, active, revision,
                 health, nativeVars, log, accepted, barriers, failedWork>>

\* flush() returns its outcome.
FlushReturns ==
  /\ flush["user"].pc \in {"completed", "failed"}
  /\ flush' = [flush EXCEPT !["user"] = NoFlush]
  /\ UNCHANGED <<queueVars, saveVars, accounting, switchVars, engineVars, nativeVars, log,
                 accepted, barriers, failedWork>>

\* activate(): the gate closes, the runtimes quiesce with the internal capability.
SwitchBegins ==
  /\ phase = "open" /\ switches < MaxSwitches /\ CallsLeft
  /\ phase' = "quiescing" /\ switches' = switches + 1
  /\ UNCHANGED <<queueVars, saveVars, accounting, epoch, current, engineVars, nativeVars,
                 flush, log, accepted, barriers, failedWork>>

\* performActivationDrain(): the capability closes before the queues are released.
SwitchDrains ==
  /\ phase = "quiescing"
  /\ phase' = "draining"
  /\ saveTail' = Released /\ QueuesReleased
  /\ flush' = [flush EXCEPT !["drain"] = [pc |-> "barrier", ahead |-> Ahead(Released),
                                          epoch |-> epoch, covers |-> Range(log)]]
  /\ UNCHANGED <<run, failure, retained, accounting, epoch, current, switches, engineVars,
                 nativeVars, log, accepted, barriers, failedWork>>

\* The drain decides: the runtimes are restored, or the native activation is requested.
SwitchDrained ==
  /\ phase = "draining"
  /\ flush["drain"].pc \in {"completed", "failed"}
  /\ phase' = IF flush["drain"].pc = "completed" THEN "activating" ELSE "open"
  /\ flush' = [flush EXCEPT !["drain"] = NoFlush]
  /\ UNCHANGED <<queueVars, saveVars, accounting, epoch, current, switches, engineVars,
                 nativeVars, log, accepted, barriers, failedWork>>

\* beginEpoch() with the header the native side answers.
EpochBegins(w) ==
  /\ engine' = engine + 1 /\ active' = w /\ revision' = storeRevision[w] /\ health' = "clean"
  /\ native' = w
  /\ UNCHANGED <<tickets, store, storeRevision>>

\* The native activation completes and the document is hydrated next.
SwitchActivates(w) ==
  /\ phase = "activating"
  /\ phase' = "hydrating"
  /\ EpochBegins(w)
  /\ UNCHANGED <<queueVars, saveVars, accounting, epoch, current, switches, flush, log,
                 accepted, barriers, failedWork>>

\* The attempt is cancelled or its hydration fails: the previous project is opened again.
SwitchRollsBack ==
  /\ phase \in {"activating", "hydrating"}
  /\ phase' = "open"
  /\ EpochBegins(current)
  /\ UNCHANGED <<queueVars, saveVars, accounting, epoch, current, switches, flush, log,
                 accepted, barriers, failedWork>>

\* The native activation is answered with an error, although it may have taken place:
\* the runtimes are restored and the previous project stays the active document.
SwitchFails(w) ==
  /\ phase = "activating"
  /\ phase' = "open"
  /\ native' \in {native, w}
  /\ UNCHANGED <<queueVars, saveVars, accounting, epoch, current, switches, engineVars, store,
                 storeRevision, flush, log, accepted, barriers, failedWork>>

\* Sequence numbers go on behind the hydrated frames.
HydratedAccounting(w) ==
  [s \in Sessions |->
    LET frames == Capture(store[w], s)
    IN  [next |-> IF frames = {} THEN 0 ELSE 1 + CHOOSE q \in frames : \A r \in frames : r <= q,
         count |-> Cardinality(frames), held |-> Cardinality(frames)]]

\* installHydratedWorkspace() and openEpoch(): the queues, the tail and the latch start over.
SwitchInstalls ==
  /\ phase = "hydrating"
  /\ phase' = "open"
  /\ epoch' = epoch + 1
  /\ current' = active
  /\ configQueue' = <<>> /\ frameQueue' = <<>>
  /\ saveTail' = <<>> /\ run' = IdleRun /\ failure' = None /\ retained' = 0
  /\ accounting' = HydratedAccounting(active)
  /\ log' = <<>>
  /\ failedWork' = 0
  /\ UNCHANGED <<configTimer, frameTimer, switches, engineVars, nativeVars, flush, accepted,
                 barriers>>

-------------------------------------------------------------------------------
Init ==
  /\ epoch = 1 /\ engine = 1
  /\ configQueue = <<>> /\ frameQueue = <<>> /\ configTimer = FALSE /\ frameTimer = FALSE
  /\ saveTail = <<>> /\ run = IdleRun /\ failure = None /\ retained = 0
  /\ accounting = [s \in Sessions |-> NoFrames]
  /\ phase = "open"
  /\ current = CHOOSE w \in Workspaces : TRUE
  /\ active = current /\ native = current
  /\ revision = 0 /\ health = "clean" /\ tickets = <<>>
  /\ store = [w \in Workspaces |-> <<>>] /\ storeRevision = [w \in Workspaces |-> 0]
  /\ flush = [c \in Callers |-> NoFlush]
  /\ log = <<>> /\ accepted = 0 /\ switches = 0 /\ barriers = 0 /\ failedWork = 0

\* Promise continuations that are due: they run before the next event is handled.
Microtask ==
  \/ RunSkipped
  \/ RunRejected
  \/ RunCommits
  \/ ExportSkipped
  \/ ExportFlushes
  \/ \E k \in DOMAIN tickets : EngineSend(k)
  \/ \E k \in DOMAIN tickets : EngineStale(k)
  \/ \E k \in DOMAIN tickets : EngineReadOnly(k)
  \/ \E c \in Callers : FlushBarrier(c)
  \/ FlushReturns
  \/ SwitchDrained

\* No continuation is due.
Settled ==
  /\ run.pc = "idle" => saveTail = <<>>
  /\ \A k \in DOMAIN tickets : FirstOfEpoch(k) => tickets[k].st # "queued"
  /\ \A c \in Callers : flush[c].pc = "barrier" => flush[c].ahead > 0
  /\ \A c \in Callers : flush[c].pc \notin {"completed", "failed"}

\* What users, runtimes and devices cause.
Producer ==
  \/ \E n \in Sizes : QueueConfigMutation(n)
  \/ \E s \in Sessions, n \in Sizes : QueueCapturedFrame(s, n)
  \/ QueueOrderedMutation
  \/ \E s \in Sessions : QueueCaptureReset(s)
  \/ \E s \in Sessions : QueueCaptureTrim(s)
  \/ \E s \in Sessions : RejectPersistence(s)
  \/ ExportWorkspace
  \/ Flush
  \/ SwitchBegins

\* Timers and native answers that reach the event loop.
Event ==
  \/ ConfigTimer
  \/ FrameTimer
  \/ \E k \in DOMAIN tickets : BatchAnswer(k)
  \/ \E k \in DOMAIN tickets : FlushAnswer(k)
  \/ ExportEnds
  \/ SwitchDrains
  \/ \E w \in Workspaces : SwitchActivates(w)
  \/ \E w \in Workspaces : SwitchFails(w)
  \/ SwitchRollsBack
  \/ SwitchInstalls

\* The native commands, on threads of their own.
Native == \E k \in DOMAIN tickets : NativeApply(k)

Next ==
  \/ Microtask
  \/ Settled /\ Producer
  \/ Settled /\ Event
  \/ Native

Spec == Init /\ [][Next]_vars

\* Timers fire, continuations run and native commands return.
FairSpec ==
  Spec /\ WF_vars(Microtask) /\ WF_vars(Native) /\ WF_vars(Settled /\ ConfigTimer)
       /\ WF_vars(Settled /\ FrameTimer) /\ WF_vars(Settled /\ Event)

-------------------------------------------------------------------------------
(* Properties.                                                             *)

DurableNow == {i \in Range(log) : i \in Stored(i.ws)}

\* Where a mutation that is not stored yet may still be.
Buffered ==
  Range(configQueue) \cup Range(frameQueue)
    \cup UNION {Items(saveTail[k].commands) : k \in DOMAIN saveTail}
    \cup ItemsOf(run.batches)

\* No mutation is lost without a trace: one that is neither stored nor on its way is
\* counted as unsaved and a failure is latched (scheduleSaveGroup, latchSaveFailure,
\* openEpoch).
NothingLostSilently ==
  Range(log) \ (DurableNow \cup Buffered) # {} => failure # None /\ retained > 0

\* A project shown as clean has every accepted mutation in the store (currentSaveHealth
\* against the queues, the tail, the epoch and the native commits).
HonestHealth == CurrentSaveHealth = "clean" => Range(log) = DurableNow

\* A completed flush(), the drain of a switch and the native export start with every
\* mutation accepted before the call in the store.
BarrierCovers ==
  /\ \A c \in Callers : flush[c].pc = "completed" =>
       \A i \in flush[c].covers : i \in Stored(i.ws)
  /\ run.pc = "native" => \A i \in run.covers : i \in Stored(i.ws)

\* The renderer numbers frames so that the stored capture is the one it shows: when
\* everything is stored both agree, the accounting never counts too few, and no append
\* ever hits a taken number.
CaptureAgrees ==
  /\ \A k \in DOMAIN tickets : tickets[k].st \notin {"clash", "conflict"}
  /\ phase = "open" /\ failure = None /\ Range(log) = DurableNow =>
       \A s \in Sessions :
         LET frames == Capture(store[current], s)
         IN  /\ Cardinality(frames) = accounting[s].held
             /\ accounting[s].held <= accounting[s].count
             /\ \A q \in frames : q < accounting[s].next

\* A latched failure is about work of the epoch it closes: nothing an earlier epoch left
\* behind makes the newly opened project refuse its saves.
FailureIsOwn == failure # None => failedWork = epoch

\* Saved in order, without holes, and a project is left only with everything saved: the
\* save path implements the log of DurableLog.
Precedes(i, j) ==
  /\ i.id < j.id
  /\ i.kind = j.kind \/ i.kind \in Ordered \/ j.kind \in Ordered

Log == INSTANCE DurableLog WITH accepted <- Range(log), durable <- DurableNow
ImplementsLog == Log!LogSpec

\* Once producers pause, everything accepted is stored or a failure is shown, and every
\* flush() is answered: no timer, tail or epoch is left waiting for a step nobody takes.
SavesSettle ==
  []<>( /\ failure # None \/ Range(log) = DurableNow
        /\ flush["user"].pc = "idle" )
===============================================================================
