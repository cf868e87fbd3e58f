# A TLA+ verification project for bbcom

bbcom is a serial-port workbench: a TypeScript/Vue front end in a Tauri shell
with a Rust backend.  This directory keeps TLA+ models of the parts of it where
the order of events decides whether it is right, TLC configurations that check
them on small instances, and TLAPS proofs for every instance.  Paths below are
relative to the repository root.

## 1. The system

Everything the front end does runs on one event loop.  Concurrency comes from
`await`: a handler stops in the middle, others run, and it goes on with what it
read before.  Native calls (open, write, close) may be slow, fail, or never
answer; native events (data, disconnect) come at any time.

| Component | State | Operations | Talks to |
|---|---|---|---|
| Write scheduler `src/lib/serial-write-scheduler.ts` | queue, active payload, outstanding counters, idle waiters | `enqueue`, `waitForIdle`, `shutdown`, the drain loop | one per connection; called by the TX pipeline, shut down by the teardown |
| Connection lifecycle `src/features/serial/application/{connect-lifecycle,shutdown-evidence,reconnect-policy,serial-shutdown-evidence}.ts` | generation, intentional close, flags, active and pending attempt, reconnect timer, evidence of each teardown | `start`, `stop`, `openConnection`, `handleDisconnect`, `scheduleReconnect`, `attemptReconnect`, `shutdownConnection` | port leases, write scheduler, RX pipeline, transaction lease |
| Port leases `.../port-lease-registry.ts`, `.../serial-port-lease.ts` | one lease per port in the process; the lease a session holds | `acquire`, `transition`, `release`, `adoptGeneration`, `failAndRelease` | every session |
| RX pipeline `.../rx-pipeline.ts`, `src/lib/serial-rx-{queue,scheduler}.ts`, `src-tauri/src/commands/serial_drain.rs` | bounded queue, drop counters, drain and publish timers, the native idle proof | enqueue, drain, publish, reset, stop and drain | connection lifecycle, session store, transaction lease's mirror |
| Transaction lease `.../serial-transaction-lease.ts` | phase, acquisition or lease, manual writes in flight, suspensions, baseline of the control lines, fault, RX mirror | `acquire`, lease I/O, `release`, `runManualWrite`, `notifyDisconnected`, `synchronizeConnection`, `dispose` | automations through ports, connection, TX pipeline |
| Session automations `src/features/sessions/runtime/session-runtime-controller.ts`, `src/features/serial-shell/...`, `.../automation-bridge.ts`, `.../async-send-loop.ts` | cyclic send, shell, macro runner, trigger responses, Modbus master | `pause`, `restore`, start/stop, tick, the watcher on `isConnected` | transaction lease |
| Automatic log `.../automation-bridge.ts`, `src-tauri/src/commands/log.rs` | generation, queue, worker, debounce, shutdown mode; backend log sessions | `enable`, `disable`, `prepareShutdown`, `appendFrame`; begin, append, finish, abort, expire | session store, backend |
| Workspace saving `src/features/workspace/` (save queues, save coordinator, write epoch) and the batch transaction of `crates/bbcom-workspace` | queues, timers, save tail, epoch, tickets, save health, capture accounting; revisions and frames of the store | queue a mutation, frame, reset, trim; flush, export, drain; commit | backend storage, activation |
| Workspace activation `.../activation/`, `.../workspace-coordinator.ts` | attempts by generation, navigation call, runtime transition, recovery lockout | open, create, delete, cancel, roll back | saving, runtimes, native project slot |
| Export `.../use-export.ts`, `src-tauri/src/export/session.rs`, `.../streaming_sessions.rs`, `.../file_grants.rs` | export flow; session table, temporary files, target reservations, slots | begin, append, finish, abort, sweep | saving, file system |
| Application shutdown `src/features/platform/shutdown/`, `src-tauri/src/commands/shutdown.rs` | attempt, rounds, participants, publications; the native gate | close, wait, cancel, force, confirm | all components |
| Registries, AI assistant, MCUmgr bridge, Modbus master, protocol parser, storage crate, user interface | see `PROJECT.json` | | |

`PROJECT.json` lists every component, also the ones with no model, with the
reason, and the hazards, each at its line.

What is hard here: superseded attempts that answer late; teardowns joined by
several callers; closes that are never acknowledged; a reservation that must
outlive the object that made it; pausing several parties one after the other and
undoing it in reverse at any point of failure; drivers that hang while a user
waits for *stop*; saves that commit after the renderer gave up on them; a second
switch that aborts the first at any await; a crash between two file operations.
What makes the components correct:

* writes: bytes on the line in FIFO order without gaps or repetition, honest
  results, exact quotas, no lost wake-up, an end even if the driver hangs;
* reads: every byte is framed or counted as dropped, once and in order, and the
  boundary a stop reports is proven by what was framed;
* connections and port leases: a port that may be open is reserved, a session has
  one handle, nothing leaks, what is shown is true, `stop` ends and tells the truth;
* transactions: exclusive, granted only on the connection they began on, and
  undone completely, or failed in a way that sticks;
* automations: silent under a lease and running after it; the log complete or the
  user told;
* saving: nothing accepted is lost unnoticed, saves keep their order, barriers
  cover what came before, health is honest, a project is left only when saved;
* activation: one owner, no stray runtimes or saves, every attempt ends;
* export: a target is never half written, the outcome shown is the outcome,
  nothing stays behind;
* shutdown: the process exits only on a decision the gate can justify, and every
  drain comes to one.

## 2. The modules

A step of a model is one **turn** of the event loop: the code between two awaits,
with every synchronous call it makes.  What an await waits for is a variable
(`pc`, `opener`, `task`, `stopPc`, `where`, `run`, `flow`), so every other handler
can run in between.  Driver, device, backend and user are external to the
renderer: their answers are nondeterministic and a call may also never be
answered.  Timers are untimed: an armed timer may fire at any moment.
Definitions called "Seeded bug" are never part of a specification.  They are
plausible mistakes in the definition that follows; put in its place, they make
TLC report a violation of the property they belong to, which shows that the
property can fail.

**SerialWriteScheduler.**  A payload is the ticket of its `enqueue` call, a byte
is a pair of a ticket and a position, and `wire` is the history of what the driver
sent.  `EnqueueRefused`, `EnqueueAdmitted`, `WaitForIdle`, `AbortWait` and
`Shutdown` are the calls; `NextChunk` and `StartNext` are the two loops of
`writeOperation()` and the head of `drain()`; `DriverWrote`, `DriverThrows` and
`DriverReportsNonsense` the driver's answers; `DrainResumes` the rest of
`drain()`; `ShutdownCompleted` and `ShutdownTimeout` the two ends of `shutdown()`.
The real chunk size and quotas are constants.  The admission gate and
`onWriteStarted` may refuse or throw.

**SerialConnection.**  An attempt is named by the value of `connectionGeneration`
it was opened with.  `opener[a]` says where `openConnection()` of `a` is,
`task[a]` where its shared `shutdownTask` is, `disc[a]` where `handleDisconnect()`
is, and `stopPc` where `performStop()` is.  A continuation whose promise is
resolved is a microtask and runs before any timer, native answer or user call;
`Quiet` says that none is left, and guards those.  `late` holds the callbacks of
opens that outlived a `stop()`.  The session is bound to one valid port; all
other sessions are the owner `"other"`, which obeys the registry.
`open` is what cannot be seen from the code: the attempts whose native handle may
be open, from the call of `open()` until it rejects or a close is acknowledged.

**PortOwnership** is the abstract specification: whoever has a handle has reserved
the port, and a reservation passes on only when its holder has no handle.
`SerialConnection` maps `reserved` to the registry's entry and `handles` to
`open`, and is shown to implement it (`KeepsOwnership`).

**SerialTransactionLease.**  An acquisition turns into its lease, and at most one
of either exists, so both share their variables.  `where` is the await it is at:
`drain`, `manual`, `pause`, `undo` while acquiring, `held`, then `op`, `redrain`,
`lines`, `restore` while releasing.  `turn` and `suspended` are the list of
automations walked forward and back; `mutedIn` is the history the properties
compare with.  `touched` and `lines` stand for DTR, RTS and Break against their
baseline.  The overflow of the RX mirror is the action `RxBackpressure`; its
contents are in SerialReceive.

**SessionAutomations** extends the coordinator with four of the five automations:
every coordinator step is conjoined with what its calls of `pause()` and
`restore()` do to them.  `loop` is `AsyncSendLoop` (running, timer, the send in
flight and whether it belongs to an older generation), `macro` is
`MacroRunnerBridge`; their sends are manual writes of the coordinator.  Starting,
stopping, ticking, typing and the watcher on `isConnected` are actions.  The owner
of the lease is `reconfigure()`, which gives no abort signal and issues no lease
operation.

**SerialReceive.**  A byte is its number in the order the device sent it.
`pipe` is the bounded queue with both schedulers and what was framed and shown,
`mirror` the lease holder's buffer with its reader, `attempt` the stop of a
connection with the native idle proof and the evidence it yields.  Microtasks run
before any other event, so the queue can overflow only through chunks larger than
the drain limit.  The answer of the native drain may overtake Channel events that
are still queued; the renderer's yield lets the events queued before it run.

**AutoLog.**  A log is named by the `enable()` that began it.  `state[l]` is the
renderer's `SessionAutoLogState` (queue, batch being appended, mode, worker,
debounce, terminal command), `backend[l]` the backend's session and file.  Backend
commands run under the session's lock and are one step; their answers are another
and may come after the renderer gave up.  `appendFrame`, `enable` at each of its
awaits, `disable`, `prepareShutdown`, the worker, the three timeouts, and the
backend's append, finish, abort and expiry are actions.  The session's removal and
the revocation of unused grants are left out; the dialog and `begin` have no
timeout, as in the code.

**WorkspaceSaving.**  A mutation is a record with a number, kind, size, workspace
and session.  It goes from `configQueue` or `frameQueue` (debounced) through
`saveTail` (the serialized jobs of the save coordinator) and `run` (the job that
executes, with its native batches) to `tickets` of the write epoch and the native
`store`.  `Flush`, `ExportWorkspace` and the drain of a switch are barriers on the
same tail.  The native commit may succeed, fail, conflict or answer late; a failure
is latched and counted in `retained`.  `accounting` is the renderer's numbering of
the captured frames.

**DurableLog** is its abstract specification: accepted mutations become durable in
an order that respects `Precedes`, without holes, and a workspace is left only with
everything durable.  WorkspaceSaving implements it (`ImplementsLog`).

**WorkspaceActivation.**  Attempts are serialized on the activation tail and named
by their generation; `attempts[g].pc` is the await of attempt `g`.  The navigation
call of the coordinator, the native project slot, and the runtime transaction
(quiesce, dispose, activate, restore, commit) are explicit, and each can fail.
Saving is reduced to whether edits are accepted; WorkspaceSaving has the other side
of the same drain.

**ExportSessions.**  `flow` is the renderer's `exportData()`, `main` and `aborter`
the backend calls of an export with their program counters, `sweep` the expiry
sweep that a begin runs.  Session mutex, table, slots, target reservation,
`active_temps`, temporary files, rename and directory sync are modelled, with
cancellation, reload, expiry, failing or torn writes and crashes.  File semantics
are POSIX: a rename replaces its target atomically.  The setup of a begin is assumed
shorter than the session's time to live.

**ApplicationShutdown.**  The native gate, the coordinator with its groups by
priority, the drain window and rounds, and the adapter that publishes reports and
decisions and retries them.  A participant may succeed, fail, hang or settle late.  A
command may be refused by the gate, fail before it reached it, or be obeyed and its
answer lost.  Three fields of a participant are history, which no guard reads: the
invocations running now (`open`), those of each round (`count`), and whether the higher
priorities had settled when it began (`ordered`).

The modules whose names begin with `MC` define the constants a cfg cannot write.

## 3. The runs

| Run | States | Bounds | What it shows |
|---|---|---|---|
| `write_scheduler` | 331,269 | 3 calls of `enqueue`, lengths 0, 1, 3; quota 2 payloads and 4 bytes; chunks of 2; one waiter | `Accounting`, `WireInOrder`, `HonestResults`; `ShutdownSettlesAll` with a driver that may hang, `EveryWriteSettles` with one that answers |
| `connection` | 240,096 | 3 generations, 2 stops, 4 calls, 1 reconnect attempt | `ShownIsTrue`, `NothingStranded`, `OpenedIsCurrent`, `StopIsHonest`, refinement of PortOwnership (`KeepsOwnership`), `StopEnds` |
| `transaction_lease` | 23,995 | 2 automations, 2 generations, 2 manual writes | `OneOwner`, `GateOpensClean`, `TransactionsEnd` |
| `session_automations` | 1,338,574 | 4 automations, 2 generations, 1 manual write | `SilentUnderLease`, `AutomationsResume`, `LoopKeepsTicking` |
| `serial_receive` | 631,867 | 5 bytes in chunks of 1, 2, 4; queue of 3, mirror of 3 bytes in 2 chunks; 2 connections, 1 lease | `StreamAccounted`, `BoundaryIsProven`, `MirrorIntact`, `NothingForgotten` |
| `auto_log` | 1,409,088 | 2 `enable`, 1 `disable`, 1 `prepareShutdown`, 3 of them in a behaviour; 3 frames; queue of 2 entries and 3 bytes | `NothingUnlogged`, `ShutdownIsHonest`, `TargetIsTrue` |
| `workspace_saving` | 320,050 | 2 workspaces, 1 session, 3 mutations (1 large), 1 switch, 1 barrier, 4 calls | `NothingLostSilently`, `HonestHealth`, `BarrierCovers`, `CaptureAgrees`, `ImplementsLog`, `SavesSettle` |
| `workspace_activation` | 569,321 | 2 workspaces, 3 attempts, 1 deletion of another project, 1 cancellation | `SavesGoHome`, `SettledConsistently`, `AttemptsEnd` |
| `export_sessions` | 617,618 | 2 exports, 2 targets, 1 or 2 slots, 2 batches, 2 troubles | `TargetIsWhole`, `OutcomeIsHonest`, `NothingLeftBehind`, `NobodyIsStuck` |
| `shutdown` | 1,400,279 | 2 participants of which 1 barrier, 2 closes, 1 further round, 1 failing command or lost answer | `ExitIsEarned`, `NoReplay`, `DrainsDecide` |
| `workspace_stale_flush`, `workspace_transition_reused` | | | violations, see section 4 |

Why the bounds are enough for the cases that matter.  *Writes:* length 3 against
chunks of 2 gives a short last chunk and continuation after a short write; three
calls against a quota of two hit both limits with payloads active, queued and
refused, and length 0 the empty payload.  *Connections:* three generations are a
superseded attempt, its successor and a reconnect; two stops let one overlap,
follow, or find what the first left behind; one reconnect attempt reaches an
exhausted budget.  *Transactions:* two automations are the least that have an order
of undoing; two generations the least in which something old meets something new.
*Receiving:* a chunk above the limit overflows the queue, two connections let bytes
of one meet the reset of the other.  *Logging:* three frames fill a batch, overflow
the queue, and arrive after a shutdown began.  *Saving:* three mutations are one
stored, one in a batch and one queued; one above the batch budget is split off; one
switch lets the work of an epoch outlive it.  *Activation:* three attempts are one
that rolls back, one that supersedes it, and one that meets the result.  *Export:*
two exports contend for a slot and a target, two troubles make a failure meet a
cancellation, an expiry or a crash.  *Shutdown:* two priorities, two rounds and two
closes let a late participant meet the next round or attempt; the third
registered participant, `settings`, is another barrier of the lower priority with a
synchronous drain, and is left to the theorems.  In all of them the
state graph is finished, not sampled.  `SYMMETRY` is used in `auto_log`, which has
invariants only.  Deadlock is not checked: a session may rest, and calls end at the
bounds.

**Fairness.**  Weak fairness only, and only for what the platform guarantees:
resolved promises are resumed, timers fire, and awaits the code bounds by a grace
period end.  The driver may hang in SerialConnection, SerialWriteScheduler and
SerialTransactionLease; where a property needs a driver or device that answers, that
is its hypothesis (`DriverAnswers`, `DeviceAnswers`), because the release awaits a
running lease operation without a timeout.  In `SerialConnection` the revocation of a
transaction is assumed to end, which is the first part of `TransactionsEnd`, and
for a lease its second part.  In WorkspaceSaving and WorkspaceActivation native
commands answer, which the backend guarantees unless the process dies; debounce
timers are fair once no producer runs (`Settled`), since every new edit re-arms the
configuration timer.  In ApplicationShutdown only timers, microtasks and the native
gate are fair: participants may hang for ever.  The other modules claim no liveness;
`NobodyIsStuck` of ExportSessions says instead that some step of a call is always
enabled.

## 4. What disagrees with the code's own words

Two runs expect a violation; `PROJECT.json` quotes the lines.

* **A flush overtaken by a switch fails the new project** (`workspace_stale_flush`).
  `flush()` keeps no save context: its stale answer is latched as a failure of the
  epoch that has been opened meanwhile.
* **Two transitions under one identifier** (`workspace_transition_reused`).  A
  transition is named after the newest generation, not after its own attempt; a
  superseded one that still runs uses up the name, and the quiesce of the next is
  skipped as already done.

The following statements are in the modules, are taken from comments or tests, and
do not hold; put into a cfg, TLC shows how.

* `LoopSurvives` (SessionAutomations): a paused cyclic send does not come back,
  because `restore()` calls `startSendLoop()` while the phase is still `releasing`.
  The test at `src/features/sessions/__tests__/session-runtime-controller.test.ts:1113`
  says that suspensions preserve cyclic work; its coordinator is a stub.
* `NothingTypedIsLost`: keys typed during a transaction are sent by `restore()`
  through the gate that is still closed.
* `ShellResumes`: a shell paused when the connection is lost stays paused; the
  watcher resumes every automation but the shell.
* `MacroResumes`: a macro that was aborted while it sent, then paused, keeps the
  pause if the connection is lost before the restoration, since a second `abort()`
  returns early; the next macro waits.  `AutomationsResume` excepts exactly this.
* `BurstIsFramed` (SerialReceive): `reconfigure()` cancels the drain timer of bytes
  that are pending; they are framed with the next chunk or at the end.
* `BarriersRunLast` (ApplicationShutdown): a participant that times out in its group
  does not hold back the groups of lower priority.

Smaller observations, without a property: `captureSeqCeiling` of an export is read
before the flush that its comment puts first; a clear during a switch that is rolled
back leaves the renderer's frame count too high, so the capture limit is reached
early; a close request that arrives after an acknowledged cancellation may restart a
drain for an attempt the gate has cleared; a `cancel_exit` that the gate obeyed and
whose answer is lost leaves the renderer in `confirming`: the gate refuses the retry,
and the renderer refuses the new attempt of the next close request;
`prepareShutdown()` of the automatic log succeeds after an overflow, of which the
user was notified; a stop() during which an earlier late open settles may leave an
attempt that is proven closed as the active connection, and a later start() then
gives up until stop() is called once more.

## 5. The proofs

The theorems hold for every value of the constants that satisfies the assumptions
their modules name.  They say that bounds are natural numbers, that limits, chunk sizes
and batches are positive and a drain slice fits the queue (`LimitsAssumption`,
`BoundsAssumption`, `BatchesAssumption`), that the lists of calls and of automations are
what their types say (`CallsAssumption`, `CoordinatorAssumption`, `RegisteredAssumption`),
that a dialog offers a target (`ChoicesAssumption`) and that no workspace is named by the
value that stands for none (`NoneAssumption`).

**SerialWriteScheduler_proofs.**  `Accounting` is not inductive by itself: the
counters are decreased with `Math.max(0, ...)`, modelled by `Monus`, and that is
exact only if what is given back was counted.  The inductive invariant `IInv` adds

* that tickets not yet issued have neither length nor result (`FreshTickets`), and
  that the queue, the active operation and the one that `shutdown()` waits for are
  issued (`KnownTickets`);
* the shape of the drain loop: what is queued is unsettled and in ticket order
  (`QueueIsServed`), a call in flight starts at `sentBytes` of the active payload
  (`DrainState`), and after `shutdown()` the queue is empty (`ShutdownEmpties`);
* that the sets whose cardinalities are the counters are finite (`FiniteUnsent`),
  and the limits on the counters (`Limits`).

`TypeCorrect`, `CountersExact`, `WithinQuota`, `NoLostWakeUp`,
`SilentAfterShutdown` and `IdleMeansIdle` follow.  A second invariant, `WireInv`,
is proved on top of it: the last byte on the line belongs to no later payload than
the active one (`WireBehind`), a driver call continues where the line ends
(`CallContinues`), and `sentBytes` and the value a write is about to return never
exceed what the line has seen (`SentOnWire`, `ReturnHonest`).  `LineInOrder` and
`ResultsHonest` follow.

**SessionAutomations_proofs**, first part: the coordinator of SerialTransactionLease on
its own.  `IInv` is the type invariant, `Control` and
`Undo`.  `Control` ties the phase the callers see to the await the coordinator is
at and says that a lease implies silence.  `Undo` is what restoration rests on: an
automation muted in the current generation is in the list of suspensions that
is still to be walked, and a changed line is marked as touched, as long as the
restoration is allowed.  From it follow `TransactionExclusive`,
`RestoredBeforeIdle`, `GrantedOnCurrent`, `FaultSticks` and `DisposalFinal`.

**SessionAutomations_proofs**, second part.  Every step of the session is a step of the
coordinator or leaves it alone (`SessionRefinesCoordinator`), so the coordinator's
invariant holds in the session and `SessionInv` is proved on top of it.  Its core is
`SilencedSoFar`: the automations that `acquire()` has already called are silent, in
the order in which they are registered; `TriggersNoted` and `MacroNoted` say that
what is paused in the current generation is still in the list of suspensions.
`RegisteredAssumption` (the registered automations are the ones the session has) is
the only assumption added.

**AutoLog_proofs.**  Each log on its own keeps `LogOK`: its state is one its worker
can be in, the file, the batch on its way and the queue are consecutive parts of
what it accepted (`DataOK`), and its end in the backend is the end the renderer takes
it for (`EndOK`).  Parts of a sequence are given by their offset (`LiesAt`), which
keeps the argument free of induction; only the length of a batch needs a least
element (`BatchLengthInRange`).  `CallsInv` relates the calls: one enable() is
current at most, a call waits for a log that has begun and is being shut down, and a
log that is no longer installed is settled or aborted.

**ApplicationShutdown_proofs.**  `ExitIsEarned` is not inductive, because the
decision travels from the end of the window through coordinator, adapter and a
command to the gate.  The invariant follows it: what is awaited is open and what is
completed has settled (`Settling`), a ready or unforced confirmed drain stays complete
(`ReadyIsDone`), and the attempt makes one decision, which every command on its way
carries (`OneDecision`).  `NoReplay` is about counts, while the code decides from the
flags and the round of a participant whether to invoke it; `Counted` ties the two: an
invocation is open exactly while it has not settled, no round has more than one or is
later than the last one invoked, and only a barrier has several.  `ExitEarned` and
`DrainsNotReplayed` need only that the bound on rounds is a natural number
(`BoundsAssumption`).

**SerialConnection_proofs.**  An attempt is live when it was begun and is not proven
closed.  The core of the invariant is `LiveOK`: at most one attempt is live, the
registry holds the session's lease for it, and somebody refers to it, the session
through `active` or `pending` or `performStop()` through what it has taken.  That
survives a stop() that gives up on a hanging open only together with the callback it
leaves behind, and the steps that could break it are excluded by who runs beside whom:
`StartOK`, `DiscOK` and `TimerOK` say that a teardown and the timer run only while no
opener does, `RunningOK` that an opener is current or stop() was called, `LeaseOK` that
registry, session and stop() hold the same lease and none is held for nothing.  That
microtasks precede native answers (`Quiet`) is used in three places: a close is
acknowledged, a start() or a disconnect begins only when no opener or callback is about
to be resumed.  The refinement follows from `LiveOK` and from the fact that every step
passes the lease on by way of the free port (`NextPasses`); `StopAnswersHonestly` from
`LiveOK` at the four steps in which stop() can end.  What PortOwnership promises holds
of every behaviour that implements it, because its handles are a subset of a
reservation that names at most one session, hence `OnlyOneHandle` for the connection.

**ExportSessions_proofs.**  The invariant follows one export through the flow of the
renderer, the backend call it awaits and the abort beside it (`FlowAwaits`), while
sweeps of other exports may take the session away.  Nobody knows a session before it is
inserted (`SetUpAlone`); whoever seals it has its file and its entry left to clear
(`SealedIsOwned`); the temporary file holds exactly the counted frames as long as
finish() may still install it (`FileMatches`); and once the target is replaced that
news is with the call, the answer or the flow (`InstalledIsTold`).  `TargetsStayWhole`,
`OutcomesAreHonest` and `NoSessionLeftBehind` follow, from `BatchesAssumption` and
`ChoicesAssumption` only.  How many frames of a batch are written is a cardinality, so
the lemmas on finite intervals carry that part; no induction over data is needed.

**WorkspaceActivation_proofs.**  `SavesGoHome` and `SettledConsistently` speak of
states in which no attempt works, and which are reached by attempts that were aborted
at any await, so the invariant follows the one attempt that works.  `InOrder` says that
the older attempts are done and the newer ones queued, and that an attempt nobody
aborted is the newest; `Gate` that the gate stays closed until the last of them has
ended.  `Holds` is what the working attempt knows at each await: the native side and the
coordinator are at the installed project (`Home`) unless it is this attempt that moves
them, in which case it knows where they are and what it has to reopen.  `Ledger` is about
the runtime transaction, whose id is that of the newest request when it began and may be
newer than the attempt using it: what the progress of an id still has to restore is the
installed project, and what it has disposed is no longer resident.  `Unspent` (an attempt
that will begin a transaction finds nothing disposed under its id) is what keeps a
transition that was once finished from being taken for a new one.  `EditsGoHome` and
`SettlesConsistently` follow, from `NoneAssumption` and `BoundsAssumption`.

**SerialReceive_proofs.**  The model concatenates, cuts and filters sequences of any
length, so half of the module is about its operators: what `Bytes` makes of a
concatenation, which suffix the queue keeps for a chunk that does not fit
(`EnqueueSplits`), that a drain slice is a prefix (`TakeSplits`), that `Kept` distributes
over concatenation and forgets exactly what is discarded (`KeptConcat`,
`KeptWithoutFront`), that the mirror's take and offer lose nothing (`OfferSound`).  Those
need induction.  The library's induction theorems take a predicate as an operator, which
the provers cannot instantiate; the same argument over a *set* is first order.  The
library's `WFMin` gives the least element of a set of naturals, and from it `Induction`
and `StrInduction` say that a set with the first element that is closed under the
successor, or under `Append`, is all of them.  Recursive functions are treated the same
way: `PrefixesExist` and `SelectionsExist` say that the function is defined.

The invariant of the model says where a byte is.  `OnePlace`: the bytes received, in the
Channel, in the native answer and in the hub are pairwise disjoint and without repetition,
without which the count of discarded bytes could not be compared with the stream.
`Ledger`: what is framed followed by what is queued is the stream without what was
discarded, and the totals are its count.  `Owed`: before the boundary is drawn every byte
of the connection is in the hub, the Channel, the native answer or behind the queue; once
the native side saw the line idle, the bytes of the boundary are in the Channel or behind
the queue, and with the evidence `guaranteed` they are behind the queue.  `Phases` ties
that to where stop() is, `Pending` and `Screen` are the two promises of the schedulers,
and `MirrorSound` relates the buffer, its counts, its reader and what the owner has
read.  From them follow `StreamIsAccounted`, `BoundaryProven`, `MirrorKeepsStream` and
`NothingIsForgotten`, from `LimitsAssumption` only.

**Only model-checked:** liveness, fairness and ENABLED (beyond the prover), which
includes `NobodyIsStuck` of ExportSessions; and WorkspaceSaving: its four invariants and
the refinement of DurableLog.  What `FrameAppendCommands`, `Partition` and `Capture` of
that module compute is a fold with an operator as its argument over sequences of
batches of records, which would have to become recursive functions before it can be
reasoned about like SerialReceive's streams.

## 6. What is not modelled

Payload contents, encodings, logging, error texts and rendering.  Within the
components above: a change of the configured port while a reconnect is pending,
tracked output lines outside a lease, `releaseSession()` and `shutdown()` of the
lease registry, the automation port of the Modbus master (the same two flags as the
trigger responses), frames refused because their session was removed, the limit on
active file grants, import of projects, the pages of a hydration.  The vendored
serial plugin and the IPC layer appear as an environment that may answer, fail or
hang.

Most of the repository's lines are outside these models for one of four reasons.
About a third are presentation: Vue components, locale tables, styles, waveform
rendering, formatting.  Codecs and parsers (MCUmgr SMP, Modbus frames, protocol
templates, export formats) are sequential functions of their input that unit tests
reach.  The storage crate is mostly SQL, schema migration and file-library
bookkeeping behind the one transaction that is modelled.  Contracts and bindings
declare types.  What remains and would be worth a model of its own is the Modbus
polling engine, the MCUmgr bridge's hand-over of the port, and the request binding
of the assistant.

## 7. Plan

What is left to prove is WorkspaceSaving, in this order:

1. Its folds as recursive functions, with the lemmas that `Partition` keeps every frame
   once and in order and that `Capture` numbers them without a gap.
2. `CaptureAgrees` and `HonestHealth`, which concern the renderer alone: the numbers it
   gave out against those in its queues, and the failures it reports against `retained`.
3. `BarrierCovers` and `NothingLostSilently`, which need to say for every accepted
   mutation where it is: queued, in a job on `saveTail`, in `run`, durable, or counted.
4. The refinement of DurableLog (`ImplementsLog`), whose order follows from the same
   invariant together with the order of the tail.
