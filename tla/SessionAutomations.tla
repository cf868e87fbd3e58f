------------------------- MODULE SessionAutomations -------------------------
(***************************************************************************)
(* The automations of a session under the serial transaction lease         *)
(* (features/sessions/runtime/session-runtime-controller.ts and            *)
(* features/serial-shell/application/session-shell-controller.ts).         *)
(*                                                                         *)
(* The coordinator pauses and restores them through the ports they         *)
(* register.  The owner of the lease is reconfigure(), which passes no     *)
(* abort signal and issues no lease operation.                             *)
(* Four of the five automations are modelled: the shell, the cyclic send   *)
(* (serial/application/async-send-loop.ts), the macro runner               *)
(* (sessions/application/automation-bridge.ts) and the trigger responses.  *)
(* The Modbus master follows the trigger responses' pattern.  What the     *)
(* loop and the macro send are manual writes of the coordinator.           *)
(***************************************************************************)
EXTENDS SerialTransactionLease

\* The runtime of the session registers each of them.
ASSUME RegisteredAssumption ==
  {"serial-shell", "cyclic-send", "macro-runner", "trigger-responses"} \subseteq Names

VARIABLES
  loop,         \* AsyncSendLoop: running, the timer of the next tick, and the
                \* send in flight, of this or of an older generation
  macro,        \* MacroRunnerBridge: running, sending, aborted, paused, and
                \* (history) whether its pause came after an abort
  saved,        \* the pause() in progress found its automation running
  shellPaused,
  typed,        \* keys typed into the shell wait for its restore()
  triggersPaused,
  watchDue      \* the watcher on isConnected is queued

ownVars == <<loop, macro, saved, shellPaused, typed, triggersPaused, watchDue>>
allVars == <<vars, ownVars>>

\* snapshot().manualWriteAllowed, and assertIdle() of runManualWrite().
ManualWriteAllowed == phase = "idle" /\ ~disposed

\* This step calls pause() of the automation called name.
Pauses(name) ==
  /\ where' = "pause" /\ Automations[turn'] = name
  /\ where # "pause" \/ turn' # turn

\* This step calls restore() of the automation called name.
Restores(name) == RestoreNext /\ Last(suspended) = name

-----------------------------------------------------------------------------
(* AsyncSendLoop.                                                          *)

\* A send in flight cannot be cancelled: the next start() waits for it.
LoopStart(l) == [l EXCEPT !.running = TRUE, !.timer = (l.flight = "none")]
LoopStop(l) ==
  [l EXCEPT !.running = FALSE, !.timer = FALSE, !.flight = IF @ = "none" THEN @ ELSE "old"]

\* Seeded bug: a tick of an older generation just ends.
LoopSettlesOld(l) ==
  [l EXCEPT !.flight = "none", !.timer = l.running /\ l.flight = "own"]

\* The send settles: a restarted loop ticks at once, a running one is scheduled.
LoopSettles(l) == [l EXCEPT !.flight = "none", !.timer = l.running]

-----------------------------------------------------------------------------
(* MacroRunnerBridge.                                                      *)

\* A second abort() returns at once.
MacroAbort(m) ==
  IF m.aborted THEN m ELSE [m EXCEPT !.aborted = TRUE, !.paused = FALSE, !.late = FALSE]
MacroPause(m) == [m EXCEPT !.paused = TRUE, !.late = m.aborted]
MacroResume(m) == [m EXCEPT !.paused = FALSE, !.late = FALSE]

-----------------------------------------------------------------------------
(* The automations' ports.                                                 *)

\* cyclic-send: pause() stops the loop, restore() is startSendLoop().
CyclicSend ==
  /\ saved' = CASE Pauses("cyclic-send") -> loop.running
                [] Pauses("macro-runner") -> macro.running
                [] OTHER -> saved
  /\ loop' = IF Pauses("cyclic-send") THEN LoopStop(loop)
             ELSE IF Restores("cyclic-send") /\ connected /\ ManualWriteAllowed
                  THEN LoopStart(loop) ELSE loop

\* macro-runner: pause() of a running macro; a pause() that rejects is undone.
MacroRunner(rejects) ==
  macro' = CASE Pauses("macro-runner") /\ macro.running -> MacroPause(macro)
             [] Restores("macro-runner") \/ rejects = "macro-runner" -> MacroResume(macro)
             [] OTHER -> macro

\* serial-shell: pause() defers what is typed, restore() sends it.
SerialShell ==
  /\ shellPaused' = (Pauses("serial-shell")
                       \/ (shellPaused /\ ~Restores("serial-shell")))
  /\ typed' = (typed /\ ~Restores("serial-shell"))

\* trigger-responses: pause() and resume() set a flag; a pause() that rejects
\* clears it again.
TriggerResponses(rejects) ==
  triggersPaused' = (\/ Pauses("trigger-responses")
                     \/ /\ triggersPaused /\ ~Restores("trigger-responses")
                        /\ rejects # "trigger-responses")

\* The effect of a step of the coordinator on the automations, one of which may
\* reject its pause().
Follow(rejects) ==
  /\ CyclicSend /\ MacroRunner(rejects) /\ SerialShell /\ TriggerResponses(rejects)
  /\ watchDue' = (watchDue \/ (connected /\ ~connected'))

\* What pause() of the automation may answer: the shell and the triggers always
\* suspend, the cyclic send and the macro if they were running; the macro waits
\* for its send, and it and the triggers heed the signal.
MayAnswer(name, answer) ==
  LET optional == {"cyclic-send", "macro-runner"}
  IN \/ /\ answer = "suspension" /\ (name \in optional => saved)
        /\ ~(name = "macro-runner" /\ macro.sending)
     \/ answer = "null" /\ name \in optional /\ ~saved
     \/ /\ answer = "rejected" /\ aborted
        /\ name = "trigger-responses" \/ (name = "macro-runner" /\ saved)

AutomationAnswers ==
  /\ where = "pause"
  /\ \E answer \in PauseAnswers :
       /\ MayAnswer(Automations[turn], answer)
       /\ AcquirePaused(answer)
       /\ Follow(IF answer = "rejected" THEN Automations[turn] ELSE "nobody")

SessionCalls ==
  \/ RunManualWrite \/ Acquire \/ Release \/ RevokeStale \/ RxBackpressure
  \/ NotifyDisconnected \/ SynchronizeConnection \/ Dispose

\* The manual writes in flight that belong to the loop and to the macro.
OwnWrites == (IF loop.flight = "none" THEN 0 ELSE 1) + (IF macro.sending THEN 1 ELSE 0)

\* A connection comes up only after the old one's revocation and the watcher.
CoordinatorStep ==
  /\ \/ Continue \/ AcquireDrained
     \/ SessionCalls \/ (manual > OwnWrites /\ ManualWriteEnds)
     \/ ConnectionDrops
     \/ where = "none" /\ ~watchDue /\ ConnectionOpens
  /\ Follow("nobody")

-----------------------------------------------------------------------------
\* Only these parts of the session change.
Only(l, m) ==
  /\ loop' = l /\ macro' = m
  /\ UNCHANGED <<saved, shellPaused, typed, triggersPaused, watchDue>>

\* Seeded bug: the loop starts without a look at the gate.
StartSendLoopAnyPhase ==
  /\ connected /\ ~loop.running
  /\ Only(LoopStart(loop), macro) /\ UNCHANGED vars

StartSendLoop ==
  /\ connected /\ ManualWriteAllowed /\ ~loop.running
  /\ Only(LoopStart(loop), macro) /\ UNCHANGED vars

StopSendLoop ==
  /\ loop.running
  /\ Only(LoopStop(loop), macro) /\ UNCHANGED vars

\* tick(): the send is admitted, or refused by the gate and tried again later.
LoopTick ==
  /\ loop.timer
  /\ \/ connected /\ RunManualWrite /\ Only([loop EXCEPT !.timer = FALSE, !.flight = "own"], macro)
     \/ /\ ~connected \/ ~ManualWriteAllowed
        /\ Only(loop, macro) /\ UNCHANGED vars

LoopSent ==
  /\ loop.flight # "none" /\ ManualWriteEnds
  /\ Only(LoopSettles(loop), macro)

\* run() of a macro, unless one runs.
RunMacro ==
  /\ ~macro.running
  /\ Only(loop, [macro EXCEPT !.running = TRUE, !.aborted = FALSE])
  /\ UNCHANGED vars

AbortMacro ==
  /\ macro.running /\ ~macro.aborted
  /\ Only(loop, MacroAbort(macro)) /\ UNCHANGED vars

\* The head of the run's loop, when it neither waits nor delays: it sends, fails
\* at the gate, or breaks off.
MacroStep ==
  /\ macro.running /\ ~macro.sending /\ (macro.paused => macro.aborted)
  /\ \/ /\ ~macro.aborted /\ connected /\ RunManualWrite
        /\ Only(loop, [macro EXCEPT !.sending = TRUE])
     \/ /\ macro.aborted \/ ~connected \/ ~ManualWriteAllowed
        /\ Only(loop, [macro EXCEPT !.running = FALSE]) /\ UNCHANGED vars

\* The step's send settles; it was the last, it failed, or there is another.
MacroSent(more) ==
  /\ macro.sending /\ ManualWriteEnds
  /\ Only(loop, [macro EXCEPT !.sending = FALSE, !.running = more /\ ~macro.aborted])

\* handleTerminalData() while the shell is paused.
HandleTerminalData ==
  /\ shellPaused
  /\ typed' = TRUE
  /\ UNCHANGED <<vars, loop, macro, saved, shellPaused, triggersPaused, watchDue>>

\* Seeded bug: the watcher does not resume the trigger responses.
WatchForgetsTriggers ==
  /\ watchDue /\ watchDue' = FALSE
  /\ loop' = LoopStop(loop) /\ macro' = MacroAbort(macro)
  /\ UNCHANGED <<vars, saved, shellPaused, typed, triggersPaused>>

\* The watcher on isConnected.
ConnectionWatch ==
  /\ watchDue /\ watchDue' = FALSE
  /\ loop' = LoopStop(loop) /\ macro' = MacroAbort(macro)
  /\ triggersPaused' = FALSE
  /\ UNCHANGED <<vars, saved, shellPaused, typed>>

SessionInit ==
  /\ Init
  /\ loop = [running |-> FALSE, timer |-> FALSE, flight |-> "none"]
  /\ macro = [running |-> FALSE, sending |-> FALSE, aborted |-> FALSE,
              paused |-> FALSE, late |-> FALSE]
  /\ saved = FALSE
  /\ shellPaused = FALSE /\ typed = FALSE
  /\ triggersPaused = FALSE /\ watchDue = FALSE

SessionNext ==
  \/ CoordinatorStep \/ AutomationAnswers
  \/ StartSendLoop \/ StopSendLoop \/ LoopTick \/ LoopSent
  \/ RunMacro \/ AbortMacro \/ MacroStep \/ MacroSent(TRUE) \/ MacroSent(FALSE)
  \/ HandleTerminalData \/ ConnectionWatch

SessionSpec == SessionInit /\ [][SessionNext]_allVars

-----------------------------------------------------------------------------
(* Properties.                                                             *)

\* The session is connected, no transaction is in progress and nothing of a
\* disconnection is still to be done.
BackToNormal == phase = "idle" /\ connected /\ revoked # gen /\ ~watchDue

\* Neither trigger responses nor macros are left paused, whichever of release,
\* failed acquisition, disconnection and watcher comes first; the exception is a
\* macro that was aborted before it was paused.
AutomationsResume ==
  BackToNormal => ~triggersPaused /\ (macro.paused => macro.late)

\* While the lease is held on a live connection every automation is silent,
\* whatever the user started, stopped or restarted meanwhile, and nothing of
\* theirs is on its way to the device.
SilentUnderLease ==
  where = "held" /\ Current =>
    /\ ~loop.running /\ loop.flight = "none"
    /\ shellPaused /\ triggersPaused
    /\ ~macro.sending

\* "Stopping invalidates the active generation", "coalesce restarts until that
\* write settles": however often it is stopped and restarted, a running loop has
\* exactly one of a timer and a send in flight, so it neither dies nor doubles.
LoopKeepsTicking ==
  /\ loop.running => (loop.timer # (loop.flight # "none"))
  /\ ~loop.running => ~loop.timer /\ loop.flight # "own"
  /\ OwnWrites <= manual

\* "automation suspensions preserve cyclic and macro work": the restore() of the
\* cyclic send starts it again.  Not so: restore() runs while the gate is closed.
LoopSurvives == [][Restores("cyclic-send") /\ connected => loop'.running]_allVars

\* Every suspension is lifted: not so for a macro that the user aborts and the
\* coordinator then pauses, when the connection goes before the restore(); the
\* next macro waits for ever.
MacroResumes == BackToNormal => ~macro.paused

\* A suspension "must later be restored": the shell transmits again.  Not so
\* after a disconnection: restore() is skipped and the watcher leaves it paused.
ShellResumes == BackToNormal => ~shellPaused

\* "automation pause defers coalesced writes until restore": what was typed
\* during the transaction is sent after it.  Not so: the gate refuses it.
NothingTypedIsLost ==
  [][typed /\ Restores("serial-shell") => ManualWriteAllowed]_allVars
=============================================================================
