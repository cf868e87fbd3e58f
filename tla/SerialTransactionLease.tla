----------------------- MODULE SerialTransactionLease -----------------------
(***************************************************************************)
(* The exclusive transaction over one connected session: the coordinator   *)
(* of features/serial/application/serial-transaction-lease.ts.             *)
(*                                                                         *)
(* acquire() closes the gate for manual writes, lets the admitted ones     *)
(* finish and pauses the automations one after the other; release() undoes *)
(* all of it in the opposite order.  Disconnection, cancellation by the    *)
(* owner, RX backpressure and dispose() may come at any await of either.   *)
(*                                                                         *)
(* At most one acquisition or lease exists at a time, so both share one    *)
(* set of variables: the lease goes on where its acquisition ended.  The   *)
(* connection, the driver calls and the automations are ports, external to *)
(* the coordinator: their answers are chosen by \E or a disjunction.       *)
(***************************************************************************)
EXTENDS Naturals, Sequences, FiniteSets, SequencesExt

CONSTANTS
  Automations,       \* the registered automations, in order of registration
  MaxGenerations,    \* bound of the model: the last connection generation
  MaxManualWrites    \* bound of the model: manual writes in flight at once

ASSUME CoordinatorAssumption ==
  /\ Automations \in Seq(STRING)
  /\ MaxGenerations \in Nat
  /\ MaxManualWrites \in Nat

Names == Range(Automations)
NoGeneration == 0

VARIABLES
  gen, connected,   \* io.snapshot(): the physical connection
  revoked,          \* the last generation announced by notifyDisconnected()
  phase, disposed,
  faultedGen,       \* faultedGeneration
  manual,           \* manualWritesInFlight
  where,            \* the await that acquire() or performRelease() is at
  holderGen,        \* generation of the acquisition or of its lease
  aborted,          \* the acquisition's controller is aborted
  restoreAllowed,
  faulting,         \* the acquisition failed before the drain was complete
  turn,             \* index of the automation that acquire() is pausing
  suspended,        \* paused automations that are still to be restored
  mutedIn,          \* generation in which each automation was paused, if it
                    \* was not restored since
  op,               \* the lease operation in flight
  touched,          \* outputLinesTouched
  lines             \* DTR, RTS and Break against their state at connection

connectionVars == <<gen, connected, revoked>>
holderVars == <<holderGen, aborted, restoreAllowed, faulting, turn>>
automationVars == <<suspended, mutedIn>>
lineVars == <<op, touched, lines>>
vars == <<connectionVars, phase, disposed, faultedGen, manual, where, holderVars,
          automationVars, lineVars>>

-----------------------------------------------------------------------------
Acquiring == {"drain", "manual", "pause", "undo"}
Releasing == {"op", "redrain", "lines", "restore"}

\* isGenerationCurrent() of the acquisition or the lease.
Current == connected /\ gen = holderGen

\* assertIdle() does not throw.
Idle == phase = "idle" /\ ~disposed

\* The end of acquire() that fails, and of performRelease().
Finish(faulted) ==
  /\ where' = "none"
  /\ phase' = IF disposed THEN "disposed" ELSE IF faulted THEN "faulted" ELSE "idle"
  /\ faultedGen' = IF faulted THEN holderGen ELSE NoGeneration

Stay(pc) == where' = pc /\ UNCHANGED <<phase, faultedGen>>

-----------------------------------------------------------------------------
(* Manual writes.                                                          *)

\* Seeded bug: the gate closes only when the lease is granted.
RunManualWriteAnyPhase ==
  /\ ~disposed /\ phase \in {"idle", "acquiring"}
  /\ manual < MaxManualWrites
  /\ manual' = manual + 1
  /\ UNCHANGED <<connectionVars, phase, disposed, faultedGen, where, holderVars,
                 automationVars, lineVars>>

\* runManualWrite(): the gate admits it only when no transaction is about.
RunManualWrite ==
  /\ Idle
  /\ manual < MaxManualWrites
  /\ manual' = manual + 1
  /\ UNCHANGED <<connectionVars, phase, disposed, faultedGen, where, holderVars,
                 automationVars, lineVars>>

ManualWriteEnds ==
  /\ manual > 0
  /\ manual' = manual - 1
  /\ UNCHANGED <<connectionVars, phase, disposed, faultedGen, where, holderVars,
                 automationVars, lineVars>>

-----------------------------------------------------------------------------
(* acquire().                                                              *)

\* acquire() up to its first await, waitForWriteDrain().
Acquire ==
  /\ Idle /\ connected
  /\ phase' = "acquiring" /\ where' = "drain"
  /\ holderGen' = gen /\ restoreAllowed' = TRUE
  /\ aborted' = FALSE /\ faulting' = FALSE
  /\ suspended' = <<>> /\ turn' = 0
  /\ op' = "none" /\ touched' = FALSE
  /\ UNCHANGED <<connectionVars, disposed, faultedGen, manual, mutedIn, lines>>

\* Seeded bug: a failed acquisition leaves the automations paused.
AcquireFailsWithoutUndo(paused, fault) ==
  faulting' = fault /\ suspended' = <<>> /\ Finish(fault)

\* The catch block: the automations paused so far are restored, those of a
\* generation that is gone or revoked are not.
AcquireFails(paused, fault) ==
  /\ faulting' = fault
  /\ IF restoreAllowed /\ Current
     THEN suspended' = paused /\ Stay("undo")
     ELSE suspended' = <<>> /\ Finish(fault)

\* assertAcquisitionGeneration() throws.
AcquisitionLost == aborted \/ ~Current

\* waitForWriteDrain() answers.  A failure that means neither cancelled nor
\* stale, but unavailable, faults the gate.
AcquireDrained ==
  /\ where = "drain"
  /\ \/ Stay("manual") /\ UNCHANGED <<faulting, suspended>>
     \/ \E fault \in BOOLEAN : AcquireFails(<<>>, fault)
  /\ UNCHANGED <<connectionVars, disposed, manual, holderGen, aborted, restoreAllowed,
                 turn, mutedIn, lineVars>>

\* The lease begins.
Grant ==
  /\ phase' = "active" /\ where' = "held" /\ UNCHANGED faultedGen

\* Pause automation i, or grant the lease when none is left.
PauseFrom(i) ==
  IF i <= Len(Automations)
  THEN turn' = i /\ Stay("pause")
  ELSE turn' = turn /\ Grant

\* waitForManualWriteDrain() is over: no manual write is left, or it was aborted.
ManualDrainOver == manual = 0 \/ aborted

\* acquire() goes on from there.  The output lines are read in the same turn
\* and may be unavailable.
AcquireManualDrained ==
  /\ where = "manual" /\ ManualDrainOver
  /\ \/ /\ ~AcquisitionLost
        /\ \/ PauseFrom(1) /\ UNCHANGED <<faulting, suspended>>
           \/ AcquireFails(<<>>, FALSE) /\ UNCHANGED turn
     \/ /\ AcquisitionLost
        /\ AcquireFails(<<>>, FALSE)
        /\ UNCHANGED turn
  /\ UNCHANGED <<connectionVars, disposed, manual, holderGen, aborted, restoreAllowed,
                 mutedIn, lineVars>>

\* pause() of automation turn answers: with a suspension if it was running,
\* with null if it was not, or it rejects, having undone its own part.
AcquirePaused(answer) ==
  LET name == Automations[turn]
      paused == IF answer = "suspension" THEN Append(suspended, name) ELSE suspended
  IN
  /\ where = "pause"
  /\ mutedIn' = IF answer = "suspension" THEN [mutedIn EXCEPT ![name] = holderGen]
                ELSE mutedIn
  /\ \/ /\ answer # "rejected" /\ ~AcquisitionLost
        /\ suspended' = paused
        /\ PauseFrom(turn + 1)
        /\ UNCHANGED faulting
     \/ /\ answer = "rejected" \/ AcquisitionLost
        /\ AcquireFails(paused, FALSE)
        /\ UNCHANGED turn
  /\ UNCHANGED <<connectionVars, disposed, manual, holderGen, aborted, restoreAllowed,
                 lineVars>>

AcquireEnds ==
  /\ where = "undo" /\ suspended = <<>>
  /\ Finish(faulting)
  /\ UNCHANGED <<connectionVars, disposed, manual, holderVars, automationVars, lineVars>>

-----------------------------------------------------------------------------
(* beginRelease() and performRelease().                                    *)

\* performRelease() from the point where no operation is in flight; it runs to
\* its end in the same turn when there is nothing to restore.
ReleaseDrain(allowed) ==
  IF allowed
  THEN where' = "redrain" /\ phase' = "releasing" /\ UNCHANGED <<faultedGen, suspended>>
  ELSE Finish(FALSE) /\ suspended' = <<>>

\* beginRelease(): join the release that runs or begin one.
BeginRelease(allowed) ==
  LET may == restoreAllowed /\ allowed IN
  /\ restoreAllowed' = may
  /\ \/ where \in Releasing /\ UNCHANGED <<where, phase, faultedGen, suspended>>
     \/ /\ where = "held" /\ op # "none"
        /\ where' = "op" /\ phase' = "releasing" /\ UNCHANGED <<faultedGen, suspended>>
     \/ where = "held" /\ op = "none" /\ ReleaseDrain(may)

\* release() and cancel() by the owner, and its abort signal.
Release ==
  /\ where \in Releasing \cup {"held"}
  /\ BeginRelease(TRUE)
  /\ UNCHANGED <<connectionVars, disposed, manual, holderGen, aborted, faulting, turn,
                 mutedIn, lineVars>>

\* Seeded bug: a release that became a revocation meanwhile is not finished.
OperationSettledReturnsEarly ==
  /\ where = "op" /\ op = "none" /\ restoreAllowed
  /\ ReleaseDrain(restoreAllowed)
  /\ UNCHANGED <<connectionVars, disposed, manual, holderVars, mutedIn, lineVars>>

\* performRelease() after the operation that was in flight.
ReleaseOperationSettled ==
  /\ where = "op" /\ op = "none"
  /\ ReleaseDrain(restoreAllowed)
  /\ UNCHANGED <<connectionVars, disposed, manual, holderVars, mutedIn, lineVars>>

\* waitForWriteDrain() answers.
ReleaseDrained ==
  /\ where = "redrain"
  /\ \/ /\ restoreAllowed /\ Current
        /\ Stay(IF touched THEN "lines" ELSE "restore")
        /\ UNCHANGED <<restoreAllowed, suspended>>
     \/ /\ ~(restoreAllowed /\ Current)
        /\ Finish(FALSE) /\ suspended' = <<>>
        /\ UNCHANGED restoreAllowed
     \/ Finish(TRUE) /\ suspended' = <<>> /\ restoreAllowed' = FALSE  \* it rejected
  /\ UNCHANGED <<connectionVars, disposed, manual, holderGen, aborted, faulting, turn,
                 mutedIn, lineVars>>

\* restoreOutputLines() answers.
ReleaseLines ==
  /\ where = "lines"
  /\ \/ Current /\ lines' = "base" /\ Stay("restore") /\ UNCHANGED suspended
     \/ ~Current /\ UNCHANGED lines /\ Finish(TRUE) /\ suspended' = <<>>
     \/ /\ Current /\ lines' \in {lines, "base"}     \* it rejected
        /\ Finish(TRUE) /\ suspended' = <<>>
  /\ UNCHANGED <<connectionVars, disposed, manual, holderVars, mutedIn, op, touched>>

\* restoreAutomations(): the automation paused last is restored first.  Whether
\* its restore() resolves or rejects, the next one follows.
RestoreNext ==
  /\ where \in {"undo", "restore"} /\ suspended # <<>>
  /\ mutedIn' = [mutedIn EXCEPT ![Last(suspended)] = NoGeneration]
  /\ suspended' = Front(suspended)
  /\ UNCHANGED <<connectionVars, phase, disposed, faultedGen, manual, where, holderVars,
                 lineVars>>

ReleaseEnds ==
  /\ where = "restore" /\ suspended = <<>>
  /\ Finish(FALSE)
  /\ UNCHANGED <<connectionVars, disposed, manual, holderVars, automationVars, lineVars>>

-----------------------------------------------------------------------------
(* The owner of the lease and the device.                                  *)

\* requireActiveLease() found the connection changed: revoke the lease.
RevokeStale ==
  /\ where = "held" /\ ~Current
  /\ BeginRelease(FALSE)
  /\ UNCHANGED <<connectionVars, disposed, manual, holderGen, aborted, faulting, turn,
                 mutedIn, lineVars>>

\* write(), clearBuffers(), pendingBytes(), readInputLines(), one at a time.
StartOperation ==
  /\ where = "held" /\ Current /\ op = "none"
  /\ op' = "io"
  /\ UNCHANGED <<connectionVars, phase, disposed, faultedGen, manual, where, holderVars,
                 automationVars, touched, lines>>

\* setOutputLines() marks the lines as touched before the driver is called.
SetOutputLines ==
  /\ where = "held" /\ Current /\ op = "none"
  /\ op' = "lines" /\ touched' = TRUE
  /\ lines' \in {lines, "changed"}
  /\ UNCHANGED <<connectionVars, phase, disposed, faultedGen, manual, where, holderVars,
                 automationVars>>

\* The driver answers, having changed the lines at the latest now.
OperationEnds ==
  /\ op # "none"
  /\ op' = "none"
  /\ lines' \in IF op = "lines" /\ Current THEN {lines, "changed"} ELSE {lines}
  /\ UNCHANGED <<connectionVars, phase, disposed, faultedGen, manual, where, holderVars,
                 automationVars, touched>>

\* offerRx() whose bytes do not fit into the mirror.
RxBackpressure ==
  /\ where = "held" /\ Current
  /\ BeginRelease(TRUE)
  /\ UNCHANGED <<connectionVars, disposed, manual, holderGen, aborted, faulting, turn,
                 mutedIn, lineVars>>

\* The owner's signal aborts while acquire() runs.
AbortAcquisition ==
  /\ where \in Acquiring /\ ~aborted
  /\ aborted' = TRUE
  /\ UNCHANGED <<connectionVars, phase, disposed, faultedGen, manual, where, holderGen,
                 restoreAllowed, faulting, turn, automationVars, lineVars>>

-----------------------------------------------------------------------------
(* The connection and the end of the coordinator.                          *)

\* The acquisition or the lease of generation g is revoked for good.
Revoke ==
  \/ /\ where \in Acquiring
     /\ aborted' = TRUE /\ restoreAllowed' = FALSE
     /\ UNCHANGED <<where, phase, faultedGen, suspended>>
  \/ /\ where \in Releasing \cup {"held"}
     /\ BeginRelease(FALSE)
     /\ UNCHANGED aborted

\* notifyDisconnected(), by stop() before it detaches the connection, or when
\* the connection is lost already.
NotifyDisconnected ==
  /\ where # "none" /\ gen = holderGen
  /\ revoked' = gen
  /\ Revoke
  /\ UNCHANGED <<gen, connected, disposed, manual, holderGen, faulting, turn, mutedIn,
                 lineVars>>

\* The connection goes away.
ConnectionDrops ==
  /\ connected
  /\ connected' = FALSE
  /\ UNCHANGED <<gen, revoked, phase, disposed, faultedGen, manual, where, holderVars,
                 automationVars, lineVars>>

\* A connection of the next generation is up, its lines as configured.
ConnectionOpens ==
  /\ ~connected /\ gen < MaxGenerations
  /\ connected' = TRUE /\ gen' = gen + 1
  /\ lines' = "base"
  /\ UNCHANGED <<revoked, phase, disposed, faultedGen, manual, where, holderVars,
                 automationVars, op, touched>>

\* synchronizeConnection(): a fault ends with the generation it happened in,
\* what is left of an older generation is revoked.
SynchronizeConnection ==
  \/ /\ phase = "faulted" /\ connected /\ gen # faultedGen
     /\ phase' = "idle" /\ faultedGen' = NoGeneration
     /\ UNCHANGED <<connectionVars, disposed, manual, where, holderVars, automationVars,
                    lineVars>>
  \/ /\ where # "none" /\ ~Current
     /\ Revoke
     /\ UNCHANGED <<connectionVars, disposed, manual, holderGen, faulting, turn, mutedIn,
                    lineVars>>

\* dispose(): what runs is cancelled, with its automations restored.
Dispose ==
  /\ ~disposed /\ disposed' = TRUE
  /\ \/ where = "none" /\ phase' = "disposed" /\ faultedGen' = NoGeneration
        /\ UNCHANGED <<where, aborted, restoreAllowed, suspended>>
     \/ where \in Acquiring /\ aborted' = TRUE
        /\ UNCHANGED <<where, phase, faultedGen, restoreAllowed, suspended>>
     \/ where \in Releasing \cup {"held"} /\ BeginRelease(TRUE) /\ UNCHANGED aborted
  /\ UNCHANGED <<connectionVars, manual, holderGen, faulting, turn, mutedIn, lineVars>>

-----------------------------------------------------------------------------
Init ==
  /\ gen = NoGeneration /\ connected = FALSE /\ revoked = NoGeneration
  /\ phase = "idle" /\ disposed = FALSE /\ faultedGen = NoGeneration
  /\ manual = 0
  /\ where = "none" /\ holderGen = NoGeneration
  /\ aborted = FALSE /\ restoreAllowed = FALSE /\ faulting = FALSE /\ turn = 0
  /\ suspended = <<>> /\ mutedIn = [a \in Names |-> NoGeneration]
  /\ op = "none" /\ touched = FALSE /\ lines = "base"

PauseAnswers == {"suspension", "null", "rejected"}

\* What an acquisition or a release does next, once its await is over.
Continue ==
  \/ AcquireManualDrained \/ AcquireEnds
  \/ ReleaseOperationSettled \/ ReleaseDrained \/ ReleaseLines
  \/ RestoreNext \/ ReleaseEnds

PauseAnswered == \E answer \in PauseAnswers : AcquirePaused(answer)

Calls ==
  \/ RunManualWrite \/ Acquire \/ Release \/ AbortAcquisition
  \/ StartOperation \/ SetOutputLines \/ RevokeStale \/ RxBackpressure
  \/ NotifyDisconnected \/ SynchronizeConnection \/ Dispose

Next ==
  \/ Continue \/ AcquireDrained \/ PauseAnswered
  \/ Calls \/ ManualWriteEnds \/ OperationEnds
  \/ ConnectionDrops \/ ConnectionOpens

Spec == Init /\ [][Next]_vars

\* Resolved promises are resumed, line and automation restores answer, and
\* what an acquisition awaits heeds its abort signal.  The writes that were
\* admitted and the operation of the lease may never end.
FairSpec ==
  /\ Spec
  /\ WF_vars(Continue)
  /\ WF_vars(aborted /\ AcquireDrained) /\ WF_vars(aborted /\ PauseAnswered)

\* The device answers every call.
DeviceAnswers ==
  /\ WF_vars(AcquireDrained) /\ WF_vars(PauseAnswered)
  /\ WF_vars(ManualWriteEnds) /\ WF_vars(OperationEnds)

-----------------------------------------------------------------------------
(* Properties.                                                             *)

\* Every variable has its type.
TypeOK ==
  /\ gen \in Nat /\ revoked \in Nat /\ faultedGen \in Nat /\ holderGen \in Nat
  /\ phase \in {"idle", "acquiring", "active", "releasing", "faulted", "disposed"}
  /\ where \in {"none", "held"} \cup Acquiring \cup Releasing
  /\ connected \in BOOLEAN /\ disposed \in BOOLEAN /\ aborted \in BOOLEAN
  /\ restoreAllowed \in BOOLEAN /\ faulting \in BOOLEAN /\ touched \in BOOLEAN
  /\ manual \in 0 .. MaxManualWrites
  /\ turn \in 0 .. Len(Automations)
  /\ suspended \in Seq(Names)
  /\ mutedIn \in [Names -> Nat]
  /\ op \in {"none", "io", "lines"}
  /\ lines \in {"base", "changed"}

\* The transaction is exclusive: from the moment the lease is granted to the
\* end of its release no manual write is in flight, and none is admitted.
Exclusive == where \in Releasing \cup {"held"} => manual = 0 /\ ~Idle

\* No device operation of a lease outlives it: when the gate opens again, or
\* another owner comes, nothing is in flight.
NothingInFlight == op # "none" => where \in {"held", "op"}

\* Every automation that was paused is restored before the gate opens again,
\* except when its connection is gone or was revoked.
NobodyForgotten ==
  phase = "idle" /\ connected /\ revoked # gen =>
    \A a \in Names : mutedIn[a] # gen

\* Manual writes find DTR, RTS and Break as they were before the lease, even
\* if the lease was cancelled in the midst of changing them.
LinesAreBack ==
  phase = "idle" /\ connected /\ revoked # gen => lines = "base"

\* The gate opens on a wire as the lease found it: nobody is left muted and
\* the control lines are back.
GateOpensClean == NobodyForgotten /\ LinesAreBack

\* The wire belongs to one owner at a time: no manual write under a lease, and
\* no operation of a lease outside it.
OneOwner == Exclusive /\ NothingInFlight

\* A lease is granted only on the connection its acquisition began on, after
\* every automation had its turn.
GrantIsCurrent ==
  [][where' = "held" /\ where # "held" =>
       /\ connected' /\ gen' = holderGen'
       /\ turn' = Len(Automations)]_vars

\* A fault is left only with a new connection, or by dispose().
FaultIsSticky ==
  [][phase = "faulted" /\ phase' # "faulted" =>
       phase' = "disposed" \/ (connected' /\ gen' # faultedGen)]_vars

\* A disposed coordinator never opens its gate again.
DisposedIsFinal ==
  [][(disposed => phase' \in {phase, "releasing", "disposed"})
     /\ (phase = "disposed" => phase' = "disposed")]_vars

\* A cancelled or revoked acquisition, which stop() awaits, ends although the
\* writes it waits for may never do; if the device answers, every acquire()
\* ends, and so does release(), also when a revocation joins it.
TransactionsEnd ==
  /\ where \in Acquiring /\ aborted ~> where \notin Acquiring
  /\ DeviceAnswers => /\ where \in Acquiring ~> where \notin Acquiring
                      /\ where \in Releasing ~> where \notin Releasing
=============================================================================
