--------------------------- MODULE ApplicationShutdown ---------------------------
(***************************************************************************)
(* The prevented close of the main window: the native gate that owns the   *)
(* close attempt, the renderer's coordinator that drains the participants  *)
(* in order of priority, and the adapter that publishes reports and        *)
(* decisions and retries them.                                             *)
(*                                                                         *)
(* Timers are untimed: a participant or the drain window may run out of    *)
(* time at any moment.                                                     *)
(***************************************************************************)
EXTENDS Naturals, FiniteSets

CONSTANTS Participants,     \* registered drain participants
          Priority,         \* their priorities, higher ones first
          Barriers,         \* the repeatable barriers among them
          MaxCloses,        \* bound: times the window is asked to close
          MaxRounds,        \* bound: wait() calls of an attempt
          MaxFaults         \* bound: commands that fail for no reason of the gate

ASSUME BoundsAssumption == MaxRounds \in Nat

VARIABLES
  gate,       \* ShutdownGate: active attempt, last result, exiting
  closes,     \* times the window was asked to close; the number names the attempt
  requests,   \* close-request events on their way to the renderer
  state,      \* ShutdownCoordinator.state
  attempt,    \* its attempt: id, round, closed, forced, decision
  part,       \* AttemptParticipant of each participant
  window,     \* runDrainWindow(): the level it is at and the participants it awaits
  result,     \* latestDrain: the outcome of each round of the attempt
  pub,        \* publications of the adapter, by round: none, waiting, sent, ok
  calls,      \* commands on their way to the native side, or answered
  boundary,   \* boundaryError of the controller
  faults

vars == <<gate, closes, requests, state, attempt, part, window, result, pub, calls, boundary,
          faults>>

None == "none"
Rounds == 0 .. MaxRounds
NoAttempt == [id |-> 0, round |-> 0, closed |-> FALSE, forced |-> FALSE, decision |-> None]
NoResult == [round |-> 0, state |-> None]
NoWindow == [level |-> 0, awaits |-> {}]
\* The last three are history: whether the higher priorities had settled when the invocation
\* began, the invocations that run now, and those of each round of the attempt.
Pending ==
  [status |-> "pending", invoked |-> FALSE, settled |-> FALSE, round |-> 0,
   ordered |-> TRUE, open |-> 0, count |-> [r \in Rounds |-> 0]]
Fresh == [p \in Participants |-> Pending]
DecisionStates == {"ready", "timed-out", "failed"}
Levels == {Priority[p] : p \in Participants}

-------------------------------------------------------------------------------
(* The native gate.                                                        *)

\* The window is asked to close: the close is prevented and the renderer told, if the event
\* can be sent at all.
CloseRequested ==
  /\ ~gate.exiting
  /\ closes < MaxCloses /\ closes' = closes + 1
  /\ LET id == IF gate.attempt # 0 THEN gate.attempt ELSE closes'
     IN  /\ gate' = IF gate.attempt # 0 THEN gate
                    ELSE [gate EXCEPT !.attempt = id, !.last = NoResult]
         /\ requests' \in {requests, requests \cup {id}}
  /\ UNCHANGED <<state, attempt, part, window, result, pub, calls, boundary, faults>>

ValidDecision(forced, s) == IF forced THEN s \in {"timed-out", "failed"} ELSE s = "ready"

\* submit(), confirm() and cancel() refuse what does not belong to the active attempt.
Accepts(c) ==
  /\ ~gate.exiting /\ gate.attempt = c.id
  /\ CASE c.kind = "submit"  -> gate.last = NoResult \/ c.round >= gate.last.round
       [] c.kind = "cancel"  -> gate.last # NoResult
       [] c.kind = "confirm" -> gate.last # NoResult /\ ValidDecision(c.forced, gate.last.state)

GateAfter(c) ==
  CASE c.kind = "submit"  -> [gate EXCEPT !.last = [round |-> c.round, state |-> c.state]]
    [] c.kind = "cancel"  -> [gate EXCEPT !.attempt = 0, !.last = NoResult]
    [] c.kind = "confirm" -> [gate EXCEPT !.exiting = TRUE]

\* A command is obeyed or refused, fails before it reached the gate, or is obeyed and its
\* answer lost.
NativeAnswers(c) ==
  /\ c \in calls /\ c.st = "sent"
  /\ \/ /\ Accepts(c)
        /\ gate' = GateAfter(c)
        /\ calls' = (calls \ {c}) \cup {[c EXCEPT !.st = "ok"]}
        /\ UNCHANGED faults
     \/ /\ ~Accepts(c)
        /\ calls' = (calls \ {c}) \cup {[c EXCEPT !.st = "error"]}
        /\ UNCHANGED <<gate, faults>>
     \/ /\ Accepts(c) /\ faults < MaxFaults
        /\ gate' \in {gate, GateAfter(c)}
        /\ calls' = (calls \ {c}) \cup {[c EXCEPT !.st = "error"]}
        /\ faults' = faults + 1
  /\ UNCHANGED <<closes, requests, state, attempt, part, window, result, pub, boundary>>

-------------------------------------------------------------------------------
(* The drain.                                                              *)

ShouldRunInRound(p, round) ==
  IF p \in Barriers
  THEN ~part[p].invoked \/ part[p].round < round \/ ~part[p].settled
  ELSE part[p].status \notin {"completed", "failed"}

HigherSettled(p) == \A q \in Participants : Priority[q] > Priority[p] => part[q].settled

\* The drain of p is called in this round, whatever became of the calls before.
Invocation(q, p, round) ==
  [status |-> "running", invoked |-> TRUE, settled |-> FALSE, round |-> round,
   ordered |-> HigherSettled(p), open |-> q.open + 1, count |-> [q.count EXCEPT ![round] = @ + 1]]

\* Seeded bug: a barrier that an earlier round left running is started over.
StartedOver(p, round) ==
  IF part[p].invoked /\ ~part[p].settled /\ (p \notin Barriers \/ part[p].round >= round)
  THEN [part[p] EXCEPT !.status = "running"]
  ELSE Invocation(part[p], p, round)

\* startParticipant(): an invocation that is still open is awaited, never repeated.
Started(p, round) ==
  IF part[p].invoked /\ ~part[p].settled THEN [part[p] EXCEPT !.status = "running"]
  ELSE Invocation(part[p], p, round)

Group(level) ==
  {p \in Participants : Priority[p] = level /\ ShouldRunInRound(p, attempt.round)}

Highest(S) == CHOOSE n \in S : \A m \in S : m <= n
LevelsBelow(level) == {n \in Levels : n < level /\ Group(n) # {}}

Classify(ps) ==
  IF \E p \in Participants : ps[p].status \in {"pending", "running", "timed-out"}
  THEN "timed-out"
  ELSE IF \E p \in Participants : ps[p].status = "failed" THEN "failed" ELSE "ready"

\* Seeded bug: a barrier that completed in an earlier round still counts.
AtWindowEndLenient ==
  [p \in Participants |->
    IF part[p].status = "running" THEN [part[p] EXCEPT !.status = "timed-out"] ELSE part[p]]

\* The end of the window: what runs on is timed out, and so is a barrier this round missed.
AtWindowEnd ==
  [p \in Participants |->
    IF part[p].status = "running"
       \/ (p \in Barriers /\ (~part[p].invoked \/ part[p].round < attempt.round))
    THEN [part[p] EXCEPT !.status = "timed-out"] ELSE part[p]]

Draining == state = "draining" /\ window.awaits = {}

\* The next level starts.
NextLevel ==
  /\ Draining /\ LevelsBelow(window.level) # {}
  /\ LET level == Highest(LevelsBelow(window.level))
     IN  /\ window' = [level |-> level, awaits |-> Group(level)]
         /\ part' = [p \in Participants |->
                      IF p \in Group(level) THEN Started(p, attempt.round) ELSE part[p]]
  /\ UNCHANGED <<gate, closes, requests, state, attempt, result, pub, calls, boundary, faults>>

\* No level is left, or the deadline of the window has passed.
WindowEnds ==
  /\ Draining
  /\ part' = AtWindowEnd
  /\ state' = Classify(AtWindowEnd)
  /\ result' = [result EXCEPT ![attempt.round] = state']
  /\ window' = NoWindow
  /\ UNCHANGED <<gate, closes, requests, attempt, pub, calls, boundary, faults>>

\* The outcome of an invocation is recorded.
Done(p, outcome) == [part[p] EXCEPT !.settled = TRUE, !.status = outcome, !.open = @ - 1]

\* Seeded bug: a barrier is started again although it ran in this round.
DrainRepeated(p, outcome) ==
  /\ part[p].invoked /\ ~part[p].settled /\ ~attempt.closed
  /\ IF p \in window.awaits /\ p \in Barriers
     THEN /\ part' = [part EXCEPT ![p] = Invocation(Done(p, outcome), p, attempt.round)]
          /\ UNCHANGED window
     ELSE /\ part' = [part EXCEPT ![p] = Done(p, outcome)]
          /\ window' = [window EXCEPT !.awaits = @ \ {p}]
  /\ UNCHANGED <<gate, closes, requests, state, attempt, result, pub, calls, boundary, faults>>

\* A drain settles, in time or late; once the attempt is closed nobody looks at it.  A barrier
\* left over from an earlier round is started again, unless the window has just ended.
DrainSettles(p, outcome) ==
  /\ part[p].invoked /\ ~part[p].settled /\ ~attempt.closed
  /\ \/ /\ part' = [part EXCEPT ![p] = Done(p, outcome)]
        /\ window' = [window EXCEPT !.awaits = @ \ {p}]
     \/ /\ p \in window.awaits /\ p \in Barriers /\ part[p].round < attempt.round
        /\ part' = [part EXCEPT ![p] = Invocation(Done(p, outcome), p, attempt.round)]
        /\ UNCHANGED window
  /\ UNCHANGED <<gate, closes, requests, state, attempt, result, pub, calls, boundary, faults>>

\* Seeded bug: the drain that ran out of time is still awaited.
ParticipantStillAwaited(p) ==
  /\ p \in window.awaits
  /\ part' = [part EXCEPT ![p].status = "timed-out"]
  /\ UNCHANGED <<gate, closes, requests, state, attempt, window, result, pub, calls, boundary,
                 faults>>

\* The time of a participant is over; its invocation goes on.
ParticipantTimesOut(p) ==
  /\ p \in window.awaits
  /\ part' = [part EXCEPT ![p].status = "timed-out"]
  /\ window' = [window EXCEPT !.awaits = @ \ {p}]
  /\ UNCHANGED <<gate, closes, requests, state, attempt, result, pub, calls, boundary, faults>>

-------------------------------------------------------------------------------
(* The adapter and the controller.                                         *)

Call(kind, s) ==
  [kind |-> kind, id |-> attempt.id, round |-> attempt.round, state |-> s,
   forced |-> attempt.forced, st |-> "sent"]
InFlight(kind) == \E c \in calls : c.kind = kind /\ c.id = attempt.id

\* publish() of latestDrain: shared while it is under way or done.
Published == IF pub[attempt.round] = None THEN [pub EXCEPT ![attempt.round] = "waiting"] ELSE pub

\* completeReadyDrain(), after clearBoundaryError(): a ready drain is confirmed, and the
\* confirmation sent unless it is on its way; any other state of the coordinator refuses.
ConfirmsReady ==
  IF result[attempt.round] # "ready"
  THEN boundary' = None /\ UNCHANGED <<state, attempt, calls>>
  ELSE IF attempt.decision = "confirm" \/ state = "ready"
  THEN /\ state' = "confirming"
       /\ attempt' = [attempt EXCEPT !.decision = "confirm", !.closed = TRUE]
       /\ calls' = IF InFlight("confirm") THEN calls ELSE calls \cup {Call("confirm", None)}
       /\ boundary' = None
  ELSE boundary' = "report" /\ UNCHANGED <<state, attempt, calls>>

\* handleCloseRequest() for a first request: the attempt begins and drains.
CloseBegins(id) ==
  /\ id \in requests /\ requests' = requests \ {id}
  /\ attempt.id = 0 /\ state = "idle"
  /\ attempt' = [NoAttempt EXCEPT !.id = id]
  /\ part' = Fresh
  /\ state' = "draining"
  /\ window' = [level |-> Highest(Levels) + 1, awaits |-> {}]
  /\ result' = [r \in Rounds |-> None]
  /\ pub' = [r \in Rounds |-> IF r = 0 THEN "waiting" ELSE None]
  /\ boundary' = None
  /\ UNCHANGED <<gate, closes, calls, faults>>

\* A further request for the same attempt shares its drain; another id is refused.
CloseRepeated(id) ==
  /\ id \in requests /\ requests' = requests \ {id}
  /\ attempt.id # 0
  /\ IF id # attempt.id
     THEN boundary' = "report" /\ UNCHANGED <<state, attempt, pub, calls>>
     ELSE IF pub[attempt.round] = "ok"
     THEN ConfirmsReady /\ UNCHANGED pub
     ELSE boundary' = None /\ pub' = Published /\ UNCHANGED <<state, attempt, calls>>
  /\ UNCHANGED <<gate, closes, part, window, result, faults>>

\* The report of a finished drain is sent.
SubmitReport(r) ==
  /\ pub[r] = "waiting" /\ result[r] # None
  /\ pub' = [pub EXCEPT ![r] = "sent"]
  /\ calls' = calls \cup {[Call("submit", result[r]) EXCEPT !.round = r]}
  /\ UNCHANGED <<gate, closes, requests, state, attempt, part, window, result, boundary, faults>>

\* The report is answered; the caller goes on only with the newest round of its attempt.
Submitted(c) ==
  /\ c \in calls /\ c.kind = "submit" /\ c.st # "sent"
  /\ IF c.id # attempt.id
     THEN /\ calls' = calls \ {c}
          /\ boundary' \in IF c.st = "ok" /\ c.state # "ready" THEN {boundary}
                           ELSE {"report"}
          /\ UNCHANGED <<state, attempt, pub>>
     ELSE IF c.st = "error"
     THEN /\ calls' = calls \ {c}
          /\ pub' = [pub EXCEPT ![c.round] = None]
          /\ boundary' = "report"
          /\ UNCHANGED <<state, attempt>>
     ELSE /\ pub' = [pub EXCEPT ![c.round] = "ok"]
          /\ IF c.state = "ready" /\ (attempt.decision = "confirm" \/ state = "ready")
             THEN /\ state' = "confirming"
                  /\ attempt' = [attempt EXCEPT !.decision = "confirm", !.closed = TRUE]
                  /\ calls' = (calls \ {c}) \cup (IF InFlight("confirm") THEN {}
                                                  ELSE {Call("confirm", None)})
                  /\ UNCHANGED boundary
             ELSE /\ calls' = calls \ {c}
                  /\ boundary' = IF c.state = "ready" THEN "report" ELSE boundary
                  /\ UNCHANGED <<state, attempt>>
  /\ UNCHANGED <<gate, closes, requests, part, window, result, faults>>

\* wait(): another round for the invocations that are still open.
Wait ==
  /\ state \in {"timed-out", "failed"} /\ attempt.round < MaxRounds
  /\ attempt' = [attempt EXCEPT !.round = @ + 1]
  /\ state' = "draining"
  /\ window' = [level |-> Highest(Levels) + 1, awaits |-> {}]
  /\ pub' = [pub EXCEPT ![attempt.round + 1] = "waiting"]
  /\ boundary' = None
  /\ UNCHANGED <<gate, closes, requests, part, result, calls, faults>>

\* cancel(): prepared once, kept until the native side agrees.
Cancel ==
  /\ \/ state \in DecisionStates
     \/ state = "confirming" /\ attempt.decision = "cancel" /\ boundary # None
  /\ state' = "confirming"
  /\ attempt' = [attempt EXCEPT !.decision = "cancel", !.closed = TRUE]
  /\ calls' = IF InFlight("cancel") THEN calls ELSE calls \cup {Call("cancel", None)}
  /\ boundary' = None
  /\ part' = Fresh  \* closeAttempt(): aborted, and observed no longer
  /\ UNCHANGED <<gate, closes, requests, window, result, pub, faults>>

\* force(): exit without the drains that did not complete.
ForceExit ==
  /\ \/ state \in {"timed-out", "failed"}
     \/ state = "confirming" /\ attempt.decision = "confirm" /\ attempt.forced /\ boundary # None
  /\ state' = "confirming"
  /\ attempt' = [attempt EXCEPT !.decision = "confirm", !.forced = TRUE, !.closed = TRUE]
  /\ calls' = IF InFlight("confirm") THEN calls
              ELSE calls \cup {[Call("confirm", None) EXCEPT !.forced = TRUE]}
  /\ boundary' = None
  /\ part' = Fresh  \* closeAttempt(): aborted, and observed no longer
  /\ UNCHANGED <<gate, closes, requests, window, result, pub, faults>>

\* retryPublication() of a report or of a normal confirmation.
Retry ==
  /\ boundary = "report" /\ attempt.id # 0
  /\ IF pub[attempt.round] = "ok"
     THEN ConfirmsReady
     ELSE boundary' = None /\ UNCHANGED <<state, attempt, calls>>
  /\ pub' = Published
  /\ UNCHANGED <<gate, closes, requests, part, window, result, faults>>

\* The cancellation is answered: the coordinator is idle again, or the decision is kept.
Cancelled(c) ==
  /\ c \in calls /\ c.kind = "cancel" /\ c.st # "sent"
  /\ calls' = calls \ {c}
  /\ IF c.st = "ok"
     THEN /\ state' = "idle" /\ attempt' = NoAttempt /\ part' = Fresh
          /\ result' = [r \in Rounds |-> None] /\ pub' = [r \in Rounds |-> None]
          /\ UNCHANGED boundary
     ELSE boundary' = "cancel" /\ UNCHANGED <<state, attempt, part, result, pub>>
  /\ UNCHANGED <<gate, closes, requests, window, faults>>

\* The confirmation is answered; after a success the process is about to end.
Confirmed(c) ==
  /\ c \in calls /\ c.kind = "confirm" /\ c.st # "sent"
  /\ calls' = calls \ {c}
  /\ IF c.st = "ok"
     THEN state' = "confirmed" /\ UNCHANGED boundary
     ELSE /\ boundary' = IF c.forced THEN "force" ELSE "report"
          /\ UNCHANGED state
  /\ UNCHANGED <<gate, closes, requests, attempt, part, window, result, pub, faults>>

-------------------------------------------------------------------------------
Init ==
  /\ gate = [attempt |-> 0, last |-> NoResult, exiting |-> FALSE]
  /\ closes = 0 /\ requests = {} /\ state = "idle" /\ attempt = NoAttempt
  /\ part = Fresh /\ window = NoWindow
  /\ result = [r \in Rounds |-> None] /\ pub = [r \in Rounds |-> None]
  /\ calls = {} /\ boundary = None /\ faults = 0

\* Continuations that run before the next event: the loop over the levels, a report due.
Microtask == NextLevel \/ WindowEnds \/ \E r \in Rounds : SubmitReport(r)
Due == Draining \/ \E r \in Rounds : pub[r] = "waiting" /\ result[r] # None

Decision == Wait \/ Cancel \/ ForceExit \/ Retry

Answer ==
  \/ \E c \in calls : Submitted(c)
  \/ \E c \in calls : Cancelled(c)
  \/ \E c \in calls : Confirmed(c)

Event ==
  \/ \E id \in requests : CloseBegins(id)
  \/ \E id \in requests : CloseRepeated(id)
  \/ \E p \in Participants, o \in {"completed", "failed"} : DrainSettles(p, o)
  \/ \E p \in Participants : ParticipantTimesOut(p)

Native == CloseRequested \/ \E c \in calls : NativeAnswers(c)

\* Once the gate is exiting the process ends; only the answer may still arrive.
Next ==
  \/ ~gate.exiting /\ Microtask
  \/ ~gate.exiting /\ ~Due /\ Decision
  \/ ~Due /\ Answer
  \/ ~gate.exiting /\ ~Due /\ Event
  \/ ~gate.exiting /\ Native

Spec == Init /\ [][Next]_vars

\* Continuations run, commands are answered and the timers of the participants fire; no
\* drain is assumed to settle.
FairSpec ==
  Spec /\ WF_vars(~gate.exiting /\ Microtask)
       /\ WF_vars(~gate.exiting /\ \E c \in calls : NativeAnswers(c))
       /\ WF_vars(~Due /\ Answer)
       /\ WF_vars(~gate.exiting /\ ~Due /\ \E p \in Participants : ParticipantTimesOut(p))

-------------------------------------------------------------------------------
(* Properties.                                                             *)

\* The process exits on its own only when the drains of the attempt did all complete, each
\* barrier in the last round; else the user has forced it, and never after a cancellation.
ExitIsEarned ==
  gate.exiting =>
    /\ attempt.id = gate.attempt /\ attempt.decision = "confirm"
    /\ ~attempt.forced =>
         \A p \in Participants :
           /\ part[p].status = "completed"
           /\ p \in Barriers => part[p].round = attempt.round

\* Nothing that timed out is started over while it is still running: a drain never has two
\* invocations open.  It is called once in an attempt, a barrier once in each of its rounds,
\* over wait(), windows that run out of time and drains that settle late.
NoReplay ==
  \A p \in Participants :
    /\ part[p].open <= 1
    /\ \A r \in Rounds : part[p].count[r] <= 1
    /\ p \notin Barriers =>
         \A r, s \in Rounds : part[p].count[r] > 0 /\ part[p].count[s] > 0 => r = s

\* Every drain comes to a decision, even if no participant ever settles.
DrainsDecide == (state = "draining") ~> (state # "draining" \/ gate.exiting)

\* "Higher numeric priorities run first": an exit nobody forced follows barriers that started
\* after the participants of higher priority had settled.  Not so when one times out in the
\* first round: its drain runs on while the groups below are started.
BarriersRunLast ==
  gate.exiting /\ ~attempt.forced =>
    \A p \in Barriers : part[p].ordered
================================================================================
