-------------------------- MODULE WorkspaceActivation --------------------------
(***************************************************************************)
(* Opening, creating, cancelling and deleting projects: the serialized     *)
(* activation attempts of the application service, the navigation calls of *)
(* the workspace coordinator, the native project slot, and the runtime     *)
(* transaction (quiesce, dispose, activate, restore, commit) around them.  *)
(*                                                                         *)
(* At most one attempt executes, the oldest that is not done; newer ones   *)
(* wait on the activation tail and may abort it at each of its awaits.     *)
(***************************************************************************)
EXTENDS Naturals, Sequences

CONSTANTS Workspaces,     \* project identities
          Library,        \* the projects that exist at the start
          MaxAttempts,    \* bound: activation and deletion requests in a behaviour
          MaxDeletes,     \* bound: deletions of a project that is not the current one
          MaxCancels      \* bound: cancelActivation() calls

VARIABLES
  attempts,       \* ActivationTracker: every attempt by its generation
  latest,         \* ActivationTracker.attempt, 0 when null
  app,            \* current, recoveryRequired, switching, hydrating, status
  transition,     \* runtimeTransition, NoTransition when null
  progress,       \* WorkspaceTransitionCoordinator.progress and its snapshots, by id
  resident,       \* the project whose session runtimes are resident
  quiet,          \* whether they are prepared for the switch
  active,         \* WorkspaceCoordinator.active
  navigation,     \* WorkspaceCoordinator.navigationAction
  call,           \* the navigation call the executing attempt awaits
  other,          \* the deletion of a project that was not the current one
  native,         \* the open project of the native side
  library,        \* the projects of the native library
  deletes, cancels   \* the bounds' counters

vars == <<attempts, latest, app, transition, progress, resident, quiet, active, navigation,
          call, other, native, library, deletes, cancels>>

None == "none"

ASSUME NoneAssumption == None \notin Workspaces
ASSUME BoundsAssumption == MaxAttempts \in Nat

NoCall == [st |-> "idle", kind |-> None, ws |-> None, current |-> FALSE]
NoTransition ==
  [id |-> 0, prev |-> None, quiesceStarted |-> FALSE, quiesceFailed |-> FALSE,
   disposeStarted |-> FALSE, disposeCompleted |-> FALSE, stopped |-> None]
NoProgress ==
  [started |-> FALSE, quiesced |-> FALSE, disposed |-> FALSE, restored |-> FALSE,
   snapshot |-> None]

-------------------------------------------------------------------------------
(* The tracker.                                                            *)

Generation == Len(attempts)
Generations == 1 .. Len(attempts)
IsLatest(g) == latest = g /\ g = Generation

\* The activation tail: an attempt executes when every earlier one is done.
Executing(g) ==
  /\ g \in Generations /\ attempts[g].pc # "done"
  /\ \A h \in 1 .. g - 1 : attempts[h].pc = "done"

At(g, pc) == Executing(g) /\ attempts[g].pc = pc
AtRest == \A g \in Generations : attempts[g].pc = "done"

\* isActive(), asked only before the rollback of the attempt.
IsActive(g) == ~attempts[g].aborted

Goto(g, pc) == attempts' = [attempts EXCEPT ![g].pc = pc]

\* The application accepts edits and captured frames: acceptsSaves of the snapshot.
AcceptsSaves ==
  /\ app.current # None /\ active = app.current
  /\ ~app.switching /\ ~app.hydrating /\ ~app.recoveryRequired

Closing(a) == [a EXCEPT !.switching = TRUE, !.hydrating = FALSE, !.status = "loading"]
Opening(a, status) == [a EXCEPT !.switching = FALSE, !.hydrating = FALSE, !.status = status]
RestStatus == IF app.current # None THEN "ready" ELSE "idle"

-------------------------------------------------------------------------------
(* Requests of the user interface.                                         *)

\* A request aborts its predecessor, and the coordinator's call if that is what it awaits.
Superseded ==
  IF latest = 0 THEN attempts ELSE [attempts EXCEPT ![latest].aborted = TRUE]
CallCancelled == latest # 0 /\ Executing(latest) /\ attempts[latest].pc = "invoking"

\* Seeded bug: a cancelled call is forgotten, and its answer with it.
CancelCallForgets ==
  IF CallCancelled THEN call' = NoCall /\ navigation' = None
  ELSE UNCHANGED <<call, navigation>>

CancelCall ==
  IF CallCancelled
  THEN call' = [call EXCEPT !.current = FALSE] /\ navigation' = None
  ELSE UNCHANGED <<call, navigation>>

Attempt(kind, w) ==
  [kind |-> kind, target |-> w, prev |-> None, nativeStarted |-> FALSE, activated |-> None,
   aborted |-> FALSE, pc |-> "queued", why |-> None]

Request(kind, w) ==
  /\ Generation < MaxAttempts
  /\ attempts' = Append(Superseded, Attempt(kind, w))
  /\ latest' = Generation + 1
  /\ app' = Closing(app)
  /\ CancelCall
  /\ UNCHANGED <<transition, progress, resident, quiet, active, other, native, library,
                 deletes, cancels>>

OpenWorkspace(w) == w \in library /\ Request("open", w)
CreateWorkspace(w) == w \notin library /\ Request("create", w)

IsCurrent(w) == app.current = w \/ active = w

DeleteCurrent(w) == IsCurrent(w) /\ Request("delete", w)

\* A project that is not the current one is deleted without an attempt.
DeleteOther(w) ==
  /\ deletes < MaxDeletes
  /\ w \in library /\ ~IsCurrent(w)
  /\ navigation = None /\ other = NoCall
  /\ other' = [st |-> "sent", kind |-> "delete", ws |-> w, current |-> TRUE]
  /\ navigation' = "delete"
  /\ deletes' = deletes + 1
  /\ UNCHANGED <<attempts, latest, app, transition, progress, resident, quiet, active, call,
                 native, library, cancels>>

CancelActivation ==
  /\ cancels < MaxCancels /\ latest # 0
  /\ attempts' = [attempts EXCEPT ![latest].aborted = TRUE]
  /\ app' = Closing(app)
  /\ CancelCall
  /\ cancels' = cancels + 1
  /\ UNCHANGED <<latest, transition, progress, resident, quiet, active, other, native,
                 library, deletes>>

\* The user opens a session: its runtime becomes resident.
EnsureRuntime ==
  /\ AcceptsSaves /\ resident = None
  /\ resident' = app.current /\ quiet' = FALSE
  /\ UNCHANGED <<attempts, latest, app, transition, progress, active, navigation, call, other,
                 native, library, deletes, cancels>>

-------------------------------------------------------------------------------
(* How an attempt ends.                                                    *)

\* An attempt that is done is never looked at again.
Done(g) == [attempts EXCEPT ![g] = [Attempt(None, None) EXCEPT !.pc = "done"]]

\* finishActivationFailure()
FinishFailure(g) ==
  /\ attempts' = Done(g)
  /\ app' = IF IsLatest(g)
            THEN Opening(app, IF app.current # None /\ active = app.current THEN "ready"
                              ELSE "failed")
            ELSE app
  /\ latest' = IF IsLatest(g) THEN 0 ELSE latest

\* finishAbortedQueuedAttempt(), and finishActivationOutcome() of a cancelled call.
FinishAborted(g) ==
  /\ attempts' = Done(g)
  /\ app' = IF IsLatest(g) THEN Opening(app, RestStatus) ELSE app
  /\ latest' = IF IsLatest(g) THEN 0 ELSE latest

\* Seeded bug: the owner of the failed rollback stays the latest attempt.
LockoutKeepsOwner(g) ==
  /\ attempts' = IF latest \notin {0, g} THEN [Done(g) EXCEPT ![latest].aborted = TRUE]
                 ELSE Done(g)
  /\ app' = [Opening(app, "failed") EXCEPT !.recoveryRequired = TRUE]
  /\ UNCHANGED latest

\* markRecoveryRequired() and enterRecoveryLockout(): a queued successor is aborted.
Lockout(g) ==
  /\ attempts' = IF latest \notin {0, g} THEN [Done(g) EXCEPT ![latest].aborted = TRUE]
                 ELSE Done(g)
  /\ app' = [Opening(app, "failed") EXCEPT !.recoveryRequired = TRUE]
  /\ latest' = IF latest = g THEN 0 ELSE latest

-------------------------------------------------------------------------------
(* The runtime transaction.                                                *)

Progress(id) == progress[id]
Record(id, p) == progress' = [progress EXCEPT ![id] = p]

\* ensureRuntimeTransition(): the id is that of the newest request.
EnsureTransition(prev) ==
  IF transition # NoTransition THEN transition
  ELSE [NoTransition EXCEPT !.id = Generation, !.prev = prev]

Touched ==
  transition.quiesceStarted \/ transition.disposeStarted \/ transition.stopped # None

\* restore() of the participants: skipped by the ones already restored under this id, and
\* by the ones nothing was done to.
RestoreRuns ==
  LET p == Progress(transition.id)
  IN  Touched /\ ~p.restored /\ (p.started \/ p.disposed)

\* restoreRuntimeAfterAbortedTransition(): the snapshot becomes resident again.
Restored ==
  /\ transition' = NoTransition
  /\ IF transition # NoTransition /\ RestoreRuns
     THEN /\ resident' = Progress(transition.id).snapshot /\ quiet' = FALSE
          /\ Record(transition.id, [Progress(transition.id) EXCEPT !.restored = TRUE,
                                                                   !.snapshot = None])
     ELSE UNCHANGED <<resident, quiet, progress>>

\* It may fail where it runs: the runtimes are gone and the transition stays.
RestoreFails ==
  /\ transition # NoTransition /\ RestoreRuns
  /\ resident' = None /\ quiet' = FALSE
  /\ UNCHANGED <<transition, progress>>

-------------------------------------------------------------------------------
(* An attempt starts, drains and calls the native side.                    *)

Drains(g, prev) ==
  /\ transition' = [EnsureTransition(prev) EXCEPT !.quiesceStarted = @ \/ prev # None]
  /\ attempts' = [attempts EXCEPT ![g].prev = prev,
                    ![g].pc = IF prev # None /\ ~EnsureTransition(prev).quiesceStarted
                              THEN "quiescing" ELSE "draining"]

\* performActivation() up to the first await.
StartActivation(g) ==
  /\ At(g, "queued") /\ attempts[g].kind # "delete"
  /\ \/ /\ app.recoveryRequired
        /\ FinishFailure(g)
        /\ UNCHANGED transition
     \/ /\ ~app.recoveryRequired /\ attempts[g].aborted
        /\ FinishAborted(g)
        /\ UNCHANGED transition
     \/ /\ ~app.recoveryRequired /\ ~attempts[g].aborted
        /\ Drains(g, app.current)
        /\ UNCHANGED <<app, latest>>
  /\ UNCHANGED <<progress, resident, quiet, active, navigation, call, other, native, library,
                 deletes, cancels>>

\* performCurrentDeletion() up to the first await: no check of the abort, nor of the
\* lockout it is the way out of; a transition of another owner is restored first.
StartDeletion(g) ==
  /\ At(g, "queued") /\ attempts[g].kind = "delete"
  /\ \/ /\ ~IsCurrent(attempts[g].target)
        /\ FinishFailure(g)
        /\ UNCHANGED transition
     \/ /\ IsCurrent(attempts[g].target)
        /\ transition # NoTransition /\ transition.prev # attempts[g].target
        /\ attempts' = [attempts EXCEPT ![g].prev = attempts[g].target,
                                        ![g].pc = "restoring", ![g].why = "clear"]
        /\ UNCHANGED <<transition, app, latest>>
     \/ /\ IsCurrent(attempts[g].target)
        /\ transition = NoTransition \/ transition.prev = attempts[g].target
        /\ Drains(g, attempts[g].target)
        /\ UNCHANGED <<app, latest>>
  /\ UNCHANGED <<progress, resident, quiet, active, navigation, call, other, native, library,
                 deletes, cancels>>

\* quiesce() ends: done before under this id, done now, or failed half way.
Quiesced(g) ==
  /\ At(g, "quiescing")
  /\ LET id == transition.id
         snapshot == IF Progress(id).snapshot = None THEN resident ELSE Progress(id).snapshot
     IN  \/ /\ Progress(id).quiesced
            /\ UNCHANGED <<progress, quiet, transition>>
         \/ /\ ~Progress(id).quiesced
            /\ Record(id, [Progress(id) EXCEPT !.started = TRUE, !.quiesced = TRUE,
                                               !.snapshot = snapshot])
            /\ quiet' = TRUE
            /\ UNCHANGED transition
         \/ /\ ~Progress(id).quiesced
            /\ Record(id, [Progress(id) EXCEPT !.started = TRUE, !.snapshot = snapshot])
            /\ quiet' \in {quiet, TRUE}
            /\ transition' = [transition EXCEPT !.quiesceFailed = TRUE]
  /\ Goto(g, "draining")
  /\ UNCHANGED <<latest, app, resident, active, navigation, call, other, native, library,
                 deletes, cancels>>

\* The call of the attempt is over; the coordinator still navigates if it was replaced.
Answered == call' = NoCall /\ navigation' = IF call.current THEN None ELSE navigation

\* Seeded bug: the rollback trusts the coordinator's cached document.
ReopensByCache(a) == a.prev # None /\ active # a.prev

\* Where an attempt that lost its ownership goes: reopen the previous project if the
\* native side may have left it, else restore the runtimes.
Reopens(a) == a.prev # None /\ (a.nativeStarted \/ active # a.prev)

Recovers(g) ==
  LET a == [attempts[g] EXCEPT !.why = "abort"]
  IN  IF Reopens(a)
      THEN /\ attempts' = [attempts EXCEPT ![g] = [a EXCEPT !.pc = "reopening"]]
           /\ call' = [st |-> "sent", kind |-> "open", ws |-> a.prev, current |-> TRUE]
           /\ navigation' = "open"
      ELSE /\ attempts' = [attempts EXCEPT ![g] = [a EXCEPT !.pc = "restoring"]]
           /\ Answered

\* The drain (WorkspaceSaving) ends; a deletion goes on whatever its outcome.
Drained(g) ==
  /\ At(g, "draining")
  /\ \/ /\ ~IsActive(g)
        /\ Recovers(g)
     \/ /\ IsActive(g) /\ attempts[g].kind = "delete"
        /\ Goto(g, "disposing")
        /\ UNCHANGED <<call, navigation>>
     \/ /\ IsActive(g) /\ attempts[g].kind # "delete"
        /\ attempts' = [attempts EXCEPT ![g].pc = "restoring", ![g].why = "drain"]
        /\ UNCHANGED <<call, navigation>>
     \/ /\ IsActive(g) /\ attempts[g].kind # "delete" /\ ~transition.quiesceFailed
        /\ attempts' = [attempts EXCEPT ![g].pc = "invoking", ![g].nativeStarted = TRUE]
        /\ call' = [st |-> "sent", kind |-> attempts[g].kind, ws |-> attempts[g].target,
                    current |-> TRUE]
        /\ navigation' = attempts[g].kind
  /\ UNCHANGED <<latest, app, transition, progress, resident, quiet, active, other, native,
                 library, deletes, cancels>>

\* The native activation is answered to the attempt.
Invoked(g) ==
  /\ At(g, "invoking") /\ call.st \in {"ok", "error"}
  /\ LET completed == call.current /\ call.st = "ok"
     IN  /\ active' = IF completed THEN call.ws ELSE active
         /\ \/ /\ IsActive(g) /\ completed
               /\ attempts' = [attempts EXCEPT ![g].pc = "hydrating", ![g].activated = call.ws]
               /\ app' = [app EXCEPT !.hydrating = TRUE]
               /\ Answered
            \/ /\ IsActive(g) /\ ~completed
               /\ attempts' = [attempts EXCEPT ![g].pc = "restoring", ![g].why = "invoke"]
               /\ UNCHANGED app
               /\ Answered
            \/ /\ ~IsActive(g)
               /\ Recovers(g)
               /\ UNCHANGED app
  /\ UNCHANGED <<latest, transition, progress, resident, quiet, other, native, library,
                 deletes, cancels>>

-------------------------------------------------------------------------------
(* Hydration, the swap of the facade, and the deletion.                    *)

\* assertCurrentHydration()
HydrationCurrent(g) == IsActive(g) /\ active = attempts[g].activated

\* An error of the hydration: the owner fails, an attempt that was aborted recovers.
HydrationFails(g) ==
  IF IsActive(g) /\ ~Reopens(attempts[g])
  THEN /\ attempts' = [attempts EXCEPT ![g].pc = "restoring", ![g].why = "hydration"]
       /\ UNCHANGED <<call, navigation>>
  ELSE IF IsActive(g)
  THEN /\ attempts' = [attempts EXCEPT ![g].pc = "reopening", ![g].why = "hydration"]
       /\ call' = [st |-> "sent", kind |-> "open", ws |-> attempts[g].prev, current |-> TRUE]
       /\ navigation' = "open"
  ELSE Recovers(g)

\* The staged pages are complete, the native reads failed, or the abort won the race.
Hydrated(g) ==
  /\ At(g, "hydrating")
  /\ \/ /\ HydrationCurrent(g) /\ native = attempts[g].activated
        /\ Goto(g, IF transition.prev # None /\ ~transition.disposeCompleted
                   THEN "disposing" ELSE "stopping")
        /\ transition' = [transition EXCEPT !.disposeStarted = @ \/ transition.prev # None]
        /\ UNCHANGED <<call, navigation>>
     \/ /\ HydrationFails(g)
        /\ UNCHANGED transition
     \/ /\ ~HydrationCurrent(g)
        /\ Recovers(g)
        /\ UNCHANGED transition
  /\ UNCHANGED <<latest, app, progress, resident, quiet, active, other, native, library,
                 deletes, cancels>>

\* dispose() of the old runtimes: the registry drops them before it awaits their end.
DisposeRuns ==
  IF Progress(transition.id).disposed THEN UNCHANGED <<resident, quiet>>
  ELSE resident' = None /\ quiet' = FALSE

Disposed(g) ==
  /\ At(g, "disposing") /\ attempts[g].kind # "delete"
  /\ DisposeRuns
  /\ \/ /\ Record(transition.id, [Progress(transition.id) EXCEPT !.disposed = TRUE])
        /\ transition' = [transition EXCEPT !.disposeCompleted = TRUE]
        /\ IF IsActive(g) THEN Goto(g, "stopping") /\ UNCHANGED <<call, navigation>>
           ELSE Recovers(g)
     \/ /\ HydrationFails(g)
        /\ UNCHANGED <<progress, transition>>
  /\ UNCHANGED <<latest, app, active, other, native, library, deletes, cancels>>

\* activateStopped() and the commit point: replaceWorkspace(), installHydratedWorkspace().
Install(g) ==
  /\ At(g, "stopping")
  /\ \/ /\ HydrationCurrent(g)
        /\ app' = [app EXCEPT !.current = active, !.recoveryRequired = FALSE,
                              !.hydrating = FALSE, !.switching = latest # g,
                              !.status = IF latest = g THEN "ready" ELSE "loading"]
        /\ latest' = IF latest = g THEN 0 ELSE latest
        /\ attempts' = Done(g)
        /\ transition' = NoTransition
        /\ Record(transition.id, NoProgress)
        /\ resident' = None /\ quiet' = FALSE
        /\ UNCHANGED <<call, navigation>>
     \/ /\ HydrationFails(g) \/ (~HydrationCurrent(g) /\ Recovers(g))
        /\ transition' = [transition EXCEPT !.stopped = attempts[g].activated]
        /\ resident' = None /\ quiet' = FALSE
        /\ UNCHANGED <<app, latest, progress>>
  /\ UNCHANGED <<active, other, native, library, deletes, cancels>>

\* The runtimes of the project to be deleted end, well or not and even if the attempt was
\* aborted meanwhile; then the coordinator is asked, and refuses while it navigates.
DisposedForDeletion(g) ==
  /\ At(g, "disposing") /\ attempts[g].kind = "delete"
  /\ DisposeRuns
  /\ \E ok \in BOOLEAN :
       /\ Record(transition.id, [Progress(transition.id) EXCEPT !.disposed = @ \/ ok])
       /\ transition' = [transition EXCEPT !.disposeStarted = TRUE, !.disposeCompleted = @ \/ ok]
  /\ IF navigation = None
     THEN /\ Goto(g, "deleting")
          /\ call' = [st |-> "sent", kind |-> "delete", ws |-> attempts[g].target,
                      current |-> TRUE]
          /\ navigation' = "delete"
          /\ other' = [other EXCEPT !.current = FALSE]
     ELSE /\ attempts' = [attempts EXCEPT ![g].pc = "restoring", ![g].why = "delete"]
          /\ UNCHANGED <<call, navigation, other>>
  /\ UNCHANGED <<latest, app, active, native, library, deletes, cancels>>

\* The deletion is answered: the commit point of performCurrentDeletion().
Deleted(g) ==
  /\ At(g, "deleting") /\ call.st \in {"ok", "error"}
  /\ call' = NoCall /\ navigation' = None
  /\ IF call.st = "ok"
     THEN /\ active' = IF active = call.ws THEN None ELSE active
          /\ app' = [Opening(app, "idle") EXCEPT !.current = None, !.recoveryRequired = FALSE]
          /\ Record(transition.id, NoProgress)
          /\ transition' = NoTransition
          /\ attempts' = Done(g)
          /\ latest' = IF latest = g THEN 0 ELSE latest
     ELSE /\ attempts' = [attempts EXCEPT ![g].pc = "restoring", ![g].why = "delete"]
          /\ UNCHANGED <<active, app, progress, transition, latest>>
  /\ UNCHANGED <<resident, quiet, other, native, library, deletes, cancels>>

-------------------------------------------------------------------------------
(* The rollback.                                                           *)

\* The previous project is open again, or the attempt cannot recover.
Reopened(g) ==
  /\ At(g, "reopening") /\ call.st \in {"ok", "error"}
  /\ Answered
  /\ IF call.st = "ok"
     THEN /\ active' = call.ws
          /\ Goto(g, "restoring")
          /\ UNCHANGED <<app, latest>>
     ELSE /\ Lockout(g)
          /\ UNCHANGED active
  /\ UNCHANGED <<transition, progress, resident, quiet, other, native, library, deletes,
                 cancels>>

\* The runtimes are restored; where the attempt goes depends on why.
RestoreEnds(g) ==
  /\ At(g, "restoring") /\ attempts[g].why # "clear"
  /\ \/ /\ Restored
        /\ CASE attempts[g].why = "drain" /\ ~IsActive(g) ->
                  Recovers(g) /\ UNCHANGED <<app, latest>>
             [] attempts[g].why = "abort" -> FinishAborted(g) /\ UNCHANGED <<call, navigation>>
             [] attempts[g].why = "invoke" ->
                  (FinishFailure(g) \/ FinishAborted(g)) /\ UNCHANGED <<call, navigation>>
             [] OTHER -> FinishFailure(g) /\ UNCHANGED <<call, navigation>>
     \/ /\ RestoreFails
        /\ IF attempts[g].why = "drain" /\ ~IsActive(g)
           THEN Recovers(g) /\ UNCHANGED <<app, latest>>
           ELSE Lockout(g) /\ UNCHANGED <<call, navigation>>
  /\ UNCHANGED <<active, other, native, library, deletes, cancels>>

\* The foreign transition a deletion found is cleared, restored or not.
ForeignCleared(g) ==
  /\ At(g, "restoring") /\ attempts[g].why = "clear"
  /\ LET p == Progress(transition.id)
     IN  \/ /\ RestoreRuns
            /\ resident' = p.snapshot /\ quiet' = FALSE
            /\ Record(transition.id, [p EXCEPT !.restored = TRUE, !.snapshot = None])
         \/ /\ RestoreRuns
            /\ resident' = None /\ quiet' = FALSE /\ UNCHANGED progress
         \/ ~RestoreRuns /\ UNCHANGED <<resident, quiet, progress>>
  /\ transition' = [NoTransition EXCEPT !.id = Generation, !.prev = attempts[g].prev,
                                        !.quiesceStarted = TRUE]
  /\ Goto(g, "quiescing")
  /\ UNCHANGED <<latest, app, active, navigation, call, other, native, library, deletes,
                 cancels>>

-------------------------------------------------------------------------------
(* The coordinator's other deletion, and the native commands.              *)

\* A deletion that a newer one replaced is stale; otherwise it may clear the document.
OtherDeleted ==
  /\ other.st \in {"ok", "error"}
  /\ active' = IF other.current /\ other.st = "ok" /\ active = other.ws THEN None ELSE active
  /\ navigation' = IF other.current THEN None ELSE navigation
  /\ other' = NoCall
  /\ UNCHANGED <<attempts, latest, app, transition, progress, resident, quiet, call, native,
                 library, deletes, cancels>>

\* open_workspace and create_workspace: the slot is set last, under the lock, if the
\* library still has the project.
NativeOpen ==
  /\ call.st = "sent" /\ call.kind \in {"open", "create"}
  /\ \/ /\ call.kind = "create" \/ call.ws \in library
        /\ native' = call.ws /\ library' = library \cup {call.ws}
        /\ call' = [call EXCEPT !.st = "ok"]
     \/ /\ library' \in {library} \cup (IF call.kind = "create" THEN {library \cup {call.ws}}
                                        ELSE {})
        /\ call' = [call EXCEPT !.st = "error"]
        /\ UNCHANGED native
  /\ UNCHANGED <<attempts, latest, app, transition, progress, resident, quiet, active,
                 navigation, other, deletes, cancels>>

\* delete_workspace closes the project first; when the file cannot be removed it is opened
\* again, if it can be.
NativeDeletes(w, ok) ==
  IF ok THEN library' = library \ {w} /\ native' = IF native = w THEN None ELSE native
  ELSE UNCHANGED library /\ native' \in {native} \cup (IF native = w THEN {None} ELSE {})

NativeDelete ==
  /\ \E ok \in BOOLEAN :
       \/ /\ call.st = "sent" /\ call.kind = "delete"
          /\ NativeDeletes(call.ws, ok)
          /\ call' = [call EXCEPT !.st = IF ok THEN "ok" ELSE "error"]
          /\ UNCHANGED other
       \/ /\ other.st = "sent"
          /\ NativeDeletes(other.ws, ok)
          /\ other' = [other EXCEPT !.st = IF ok THEN "ok" ELSE "error"]
          /\ UNCHANGED call
  /\ UNCHANGED <<attempts, latest, app, transition, progress, resident, quiet, active,
                 navigation, deletes, cancels>>

-------------------------------------------------------------------------------
Init ==
  /\ attempts = <<>> /\ latest = 0
  /\ app = [current |-> None, recoveryRequired |-> FALSE, switching |-> FALSE,
            hydrating |-> FALSE, status |-> "idle"]
  /\ transition = NoTransition
  /\ progress = [id \in 0 .. MaxAttempts |-> NoProgress]
  /\ resident = None /\ quiet = FALSE
  /\ active = None /\ navigation = None /\ call = NoCall /\ other = NoCall
  /\ native \in {None, CHOOSE w \in Library : TRUE} /\ library = Library
  /\ deletes = 0 /\ cancels = 0

\* An attempt whose turn has come starts before the next event.
Starting == \E g \in Generations : At(g, "queued")

User ==
  \/ \E w \in Workspaces : OpenWorkspace(w)
  \/ \E w \in Workspaces : CreateWorkspace(w)
  \/ \E w \in Workspaces : DeleteCurrent(w)
  \/ \E w \in Workspaces : DeleteOther(w)
  \/ CancelActivation
  \/ EnsureRuntime

Step(g) ==
  \/ StartActivation(g)
  \/ StartDeletion(g)
  \/ Quiesced(g)
  \/ Drained(g)
  \/ Invoked(g)
  \/ Hydrated(g)
  \/ Disposed(g)
  \/ Install(g)
  \/ DisposedForDeletion(g)
  \/ Deleted(g)
  \/ Reopened(g)
  \/ RestoreEnds(g)
  \/ ForeignCleared(g)

Native == NativeOpen \/ NativeDelete

Next ==
  \/ ~Starting /\ User
  \/ \E g \in Generations : Step(g)
  \/ ~Starting /\ OtherDeleted
  \/ Native

Spec == Init /\ [][Next]_vars

\* Continuations run and native commands return.
FairSpec ==
  Spec /\ WF_vars(\E g \in Generations : Step(g)) /\ WF_vars(Native)
       /\ WF_vars(~Starting /\ OtherDeleted)

-------------------------------------------------------------------------------
(* Properties.                                                             *)

\* Saves go home: edits are accepted only while no attempt works, and then the native side
\* has the current project open (or none, when deleting it failed or is about to be
\* answered), whatever attempts, aborts and rollbacks came before; and session runtimes,
\* which produce them, live only with the installed project.
SavesGoHome ==
  /\ AcceptsSaves =>
       /\ native \in {app.current, None}
       /\ \A g \in Generations : Executing(g) => attempts[g].pc = "queued"
  /\ resident \in {None, app.current}

\* Once every attempt has ended, nothing is left half switched: the gate and the tracker
\* are free, a transition is left only under the recovery lockout, and the coordinator's
\* document is the native one and the installed one.
SettledConsistently ==
  AtRest =>
    /\ latest = 0 /\ ~app.switching /\ ~app.hydrating /\ app.status # "loading"
    /\ call = NoCall
    /\ ~app.recoveryRequired =>
         /\ transition = NoTransition
         /\ app.current # None /\ active # None => app.current = active
         /\ app.current # None /\ other = NoCall => native \in {app.current, None}

\* Every attempt ends: no hand-off of the tail, abort or rollback waits for ever.
AttemptsEnd == []<>AtRest

\* Behind the drain no producer of the old project is left: the runtimes of a project
\* that is being replaced are quiet when the native activation begins.
QuietBehindBarrier ==
  \A g \in Generations :
    Executing(g) /\ attempts[g].pc = "invoking" /\ resident # None => quiet
================================================================================
