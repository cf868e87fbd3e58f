--------------------- MODULE ApplicationShutdown_proofs ---------------------
(***************************************************************************)
(* Proofs about ApplicationShutdown, for every set of participants, every  *)
(* assignment of priorities and any number of closes, rounds and faults:   *)
(* the process exits only when it may, and no drain is invoked twice.      *)
(*                                                                         *)
(* ExitIsEarned is not inductive.  Between the end of the window and the   *)
(* native answer the decision travels through the coordinator, the adapter *)
(* and a command, so the invariant follows it: what has settled stays what *)
(* it is (Settling), a ready drain stays complete (ReadyIsDone), and a     *)
(* command of the adapter carries the decision that is kept (OneDecision). *)
(*                                                                         *)
(* NoReplay counts invocations, while the code decides from the flags and  *)
(* the round of a participant whether to invoke it: the invariant ties the *)
(* counts to these (Counted).                                              *)
(***************************************************************************)
EXTENDS ApplicationShutdown, TLAPS

States == {"idle", "draining", "ready", "timed-out", "failed", "confirming", "confirmed"}

PartType ==
  [status : {"pending", "running", "completed", "failed", "timed-out"}, invoked : BOOLEAN,
   settled : BOOLEAN, round : Nat, ordered : BOOLEAN, open : Nat, count : [Rounds -> Nat]]

AttemptType ==
  [id : Nat, round : Nat, closed : BOOLEAN, forced : BOOLEAN, decision : {None, "cancel", "confirm"}]

CallType ==
  [kind : {"submit", "cancel", "confirm"}, id : Nat, round : Nat, state : States \cup {None},
   forced : BOOLEAN, st : {"sent", "ok", "error"}]

\* The types, as far as the argument needs them: the level of the window and the last report
\* of the gate may be anything.
TypeOK ==
  /\ gate = [attempt |-> gate.attempt, last |-> gate.last, exiting |-> gate.exiting]
  /\ gate.attempt \in Nat /\ gate.exiting \in BOOLEAN /\ closes \in Nat /\ requests \subseteq Nat
  /\ state \in States /\ attempt \in AttemptType /\ attempt.round \in Rounds
  /\ part \in [Participants -> PartType]
  /\ window = [level |-> window.level, awaits |-> window.awaits] /\ window.awaits \subseteq Participants
  /\ result \in [Rounds -> States \cup {None}] /\ calls \subseteq CallType

\* Invocations: what is awaited is open, what is completed has settled, and what has settled
\* is over unless it is a barrier that a later round missed.
Settling ==
  \A p \in Participants :
    /\ p \in window.awaits => part[p].invoked /\ ~part[p].settled
    /\ part[p].status = "completed" => part[p].invoked /\ part[p].settled
    /\ part[p].status = "running" => ~part[p].settled
    /\ part[p].settled /\ p \notin Barriers => part[p].status \in {"completed", "failed"}
    /\ part[p].round <= attempt.round

\* The history of one participant: an invocation is open while it has not settled, each round
\* has at most one, none is of a later round than the last, and only a barrier has several.
Counts(p, q) ==
  /\ q.open = IF q.invoked /\ ~q.settled THEN 1 ELSE 0
  /\ \A r \in Rounds :
       /\ q.count[r] <= 1
       /\ q.count[r] > 0 => q.invoked /\ r <= q.round /\ (p \in Barriers \/ r = q.round)

Counted == \A p \in Participants : Counts(p, part[p])

AllDone ==
  \A p \in Participants :
    /\ part[p].status = "completed"
    /\ p \in Barriers => part[p].round = attempt.round

\* A drain that is ready, or that was confirmed without force, is complete.
ReadyIsDone ==
  /\ window.awaits # {} => state = "draining"
  /\ state = "ready" => AllDone
  /\ attempt.decision = "confirm" /\ ~attempt.forced => AllDone

\* A decision closes the attempt and is the only one it makes; the commands on their way
\* carry it.
OneDecision ==
  /\ attempt.decision # None => attempt.closed /\ state \in {"confirming", "confirmed"}
  /\ \A c \in calls : c.kind \in {"cancel", "confirm"} => c.id = attempt.id /\ attempt.decision = c.kind
  /\ \A c, d \in calls : c.kind = "cancel" /\ d.kind = "cancel" => c = d

IInv == TypeOK /\ Settling /\ Counted /\ ReadyIsDone /\ OneDecision /\ ExitIsEarned

-----------------------------------------------------------------------------
(* Steps that leave the coordinator's decision and its participants alone. *)

LEMMA RoundsAreNat == Rounds \subseteq Nat
BY DEF Rounds

LEMMA FreshType ==
  /\ Fresh \in [Participants -> PartType] /\ NoAttempt \in AttemptType /\ 0 \in Rounds
  /\ \A p \in Participants :
       /\ Fresh[p].status = "pending" /\ ~Fresh[p].invoked /\ ~Fresh[p].settled
       /\ Fresh[p].round = 0 /\ Counts(p, Fresh[p])
<1>1. 0 \in Rounds /\ NoAttempt \in AttemptType
  BY BoundsAssumption DEF Rounds, NoAttempt, AttemptType, None
<1>2. /\ Pending \in PartType /\ Pending.status = "pending" /\ ~Pending.invoked
      /\ ~Pending.settled /\ Pending.round = 0 /\ Pending.open = 0
      /\ \A r \in Rounds : Pending.count[r] = 0
  BY DEF Pending, PartType
<1> HIDE DEF Pending
<1> QED BY <1>1, <1>2 DEF Fresh, Counts

\* The type, the participants and the decision depend on these variables only.
LEMMA SameParts ==
  ASSUME IInv, UNCHANGED <<state, attempt, part, window>>, gate'.exiting = gate.exiting,
         gate'.exiting => gate'.attempt = gate.attempt
  PROVE  Settling' /\ Counted' /\ ReadyIsDone' /\ ExitIsEarned'
BY DEF IInv, Settling, Counted, ReadyIsDone, AllDone, ExitIsEarned

LEMMA CloseRequestedInv ==
  ASSUME IInv, CloseRequested
  PROVE  IInv'
<1> DEFINE id == IF gate.attempt # 0 THEN gate.attempt ELSE closes'
<1>1. /\ ~gate.exiting /\ closes' = closes + 1
      /\ gate' = IF gate.attempt # 0 THEN gate ELSE [gate EXCEPT !.attempt = id, !.last = NoResult]
      /\ requests' \in {requests, requests \cup {id}}
      /\ UNCHANGED <<state, attempt, part, window, result, pub, calls, boundary, faults>>
  BY DEF CloseRequested
<1>2. id \in Nat
  BY <1>1 DEF IInv, TypeOK
<1> HIDE DEF id
<1>3. /\ gate' = [attempt |-> gate'.attempt, last |-> gate'.last, exiting |-> gate'.exiting]
      /\ gate'.attempt \in Nat /\ ~gate'.exiting /\ gate'.exiting \in BOOLEAN
  <2>1. gate = [attempt |-> gate.attempt, last |-> gate.last, exiting |-> gate.exiting]
        /\ gate.attempt \in Nat /\ gate.exiting \in BOOLEAN
    BY DEF IInv, TypeOK
  <2>2. CASE gate.attempt # 0
    BY <1>1, <2>1, <2>2
  <2>3. CASE gate.attempt = 0
    <3>1. gate' = [attempt |-> id, last |-> NoResult, exiting |-> gate.exiting]
      BY <1>1, <2>1, <2>3
    <3> QED BY <1>1, <1>2, <2>1, <3>1
  <2> QED BY <2>2, <2>3
<1>4. TypeOK'
  BY <1>1, <1>2, <1>3 DEF IInv, TypeOK
<1>5. Settling' /\ Counted' /\ ReadyIsDone' /\ OneDecision' /\ ExitIsEarned'
  BY <1>1, <1>3 DEF IInv, Settling, Counted, ReadyIsDone, AllDone, OneDecision, ExitIsEarned
<1> QED BY <1>4, <1>5 DEF IInv

\* The answer to a command keeps its kind and its attempt.
LEMMA AnsweredCalls ==
  ASSUME IInv, NEW c \in calls, NEW st \in {"ok", "error"},
         calls' = (calls \ {c}) \cup {[c EXCEPT !.st = st]}, UNCHANGED <<state, attempt>>
  PROVE  calls' \subseteq CallType /\ OneDecision'
<1> DEFINE a == [c EXCEPT !.st = st]
<1>1. c \in CallType
  BY DEF IInv, TypeOK
<1>2. a \in CallType /\ a.kind = c.kind /\ a.id = c.id
  BY <1>1 DEF CallType
<1> HIDE DEF a
<1>3. calls' = (calls \ {c}) \cup {a}
  BY DEF a
<1>4. \A d \in calls' : d \in calls \ {c} \/ d = a
  BY <1>3
<1>5. \A d, e \in calls' : d.kind = "cancel" /\ e.kind = "cancel" => d = e
  BY <1>2, <1>4 DEF IInv, OneDecision
<1> QED BY <1>2, <1>3, <1>4, <1>5 DEF IInv, TypeOK, OneDecision

LEMMA NativeAnswersInv ==
  ASSUME IInv, NEW c \in calls, NativeAnswers(c), ~gate.exiting
  PROVE  IInv'
<1>1. UNCHANGED <<closes, requests, state, attempt, part, window, result, pub, boundary>>
  BY DEF NativeAnswers
<1>2. c \in CallType /\ gate = [attempt |-> gate.attempt, last |-> gate.last, exiting |-> gate.exiting]
      /\ gate.attempt \in Nat
  BY DEF IInv, TypeOK
<1>3. PICK st \in {"ok", "error"} : calls' = (calls \ {c}) \cup {[c EXCEPT !.st = st]}
  BY DEF NativeAnswers
<1>4. calls' \subseteq CallType /\ OneDecision'
  BY <1>1, <1>3, AnsweredCalls
<1>5. CASE UNCHANGED gate
  BY <1>1, <1>4, <1>5, SameParts DEF IInv, TypeOK
<1>6. CASE Accepts(c) /\ gate' = GateAfter(c)
  <2>1. CASE c.kind = "submit"
    <3>1. gate' = [attempt |-> gate.attempt, last |-> [round |-> c.round, state |-> c.state],
                   exiting |-> gate.exiting]
      BY <1>2, <1>6, <2>1 DEF GateAfter
    <3>2. Settling' /\ Counted' /\ ReadyIsDone' /\ ExitIsEarned'
      BY <1>1, <3>1, SameParts
    <3> QED BY <1>1, <1>4, <3>1, <3>2 DEF IInv, TypeOK
  <2>2. CASE c.kind = "cancel"
    <3>1. gate' = [attempt |-> 0, last |-> NoResult, exiting |-> gate.exiting]
      BY <1>2, <1>6, <2>2 DEF GateAfter
    <3>2. Settling' /\ Counted' /\ ReadyIsDone' /\ ExitIsEarned'
      BY <1>1, <3>1, SameParts
    <3> QED BY <1>1, <1>4, <3>1, <3>2 DEF IInv, TypeOK
  <2>3. CASE c.kind = "confirm"
    <3>1. gate' = [attempt |-> gate.attempt, last |-> gate.last, exiting |-> TRUE]
      BY <1>2, <1>6, <2>3 DEF GateAfter
    <3>2. gate.attempt = attempt.id /\ attempt.decision = "confirm"
      BY <1>6, <2>3 DEF Accepts, IInv, OneDecision
    <3>3. Settling' /\ Counted' /\ ReadyIsDone'
      BY <1>1 DEF IInv, Settling, Counted, ReadyIsDone, AllDone
    <3>4. ExitIsEarned'
      BY <1>1, <3>1, <3>2 DEF ExitIsEarned, IInv, ReadyIsDone, AllDone
    <3> QED BY <1>1, <1>4, <3>1, <3>3, <3>4 DEF IInv, TypeOK
  <2> QED BY <1>2, <2>1, <2>2, <2>3 DEF CallType
<1> QED BY <1>5, <1>6 DEF NativeAnswers

-----------------------------------------------------------------------------
(* The drain.                                                              *)

\* While the attempt drains nothing is decided.
LEMMA UndecidedDrain ==
  ASSUME IInv, state \in {"draining", "timed-out", "failed", "ready", "idle"} \/ ~attempt.closed
  PROVE  attempt.decision = None /\ \A c \in calls : c.kind = "submit"
<1>1. attempt.decision = None
  BY DEF IInv, OneDecision
<1>2. \A c \in calls : c.kind \in {"submit", "cancel", "confirm"}
  BY DEF IInv, TypeOK, CallType
<1> QED BY <1>1, <1>2 DEF IInv, OneDecision, None

\* A drain that was not invoked, or a barrier of an earlier round, may be invoked.
LEMMA InvocationCounts ==
  ASSUME IInv, NEW p \in Participants, NEW q \in PartType, q.open = 0, q.count = part[p].count,
         ~part[p].invoked \/ (p \in Barriers /\ part[p].round < attempt.round)
  PROVE  LET n == Invocation(q, p, attempt.round)
         IN  /\ n \in PartType /\ n.invoked /\ ~n.settled /\ n.status = "running"
             /\ n.round = attempt.round /\ Counts(p, n)
<1> DEFINE n == Invocation(q, p, attempt.round)
<1>1. /\ attempt.round \in Rounds /\ attempt.round \in Nat /\ HigherSettled(p) \in BOOLEAN
      /\ part[p] \in PartType /\ part[p].round \in Nat /\ part[p].count \in [Rounds -> Nat]
  BY DEF IInv, TypeOK, AttemptType, HigherSettled, PartType
<1>2. /\ n.status = "running" /\ n.invoked /\ ~n.settled /\ n.round = attempt.round /\ n.open = 1
      /\ n.count = [part[p].count EXCEPT ![attempt.round] = @ + 1]
  BY DEF Invocation
<1>3. n \in PartType
  BY <1>1 DEF Invocation, PartType
<1> HIDE DEF n
<1>4. \A r \in Rounds : part[p].count[r] > 0 => part[p].invoked /\ r <= part[p].round
  BY DEF IInv, Counted, Counts
<1>5. part[p].count[attempt.round] = 0
  BY <1>1, <1>4
<1>6. ASSUME NEW r \in Rounds
      PROVE  n.count[r] <= 1 /\ (n.count[r] > 0 => r <= attempt.round /\ (p \in Barriers \/ r = attempt.round))
  <2>1. r \in Nat
    BY RoundsAreNat
  <2>2. CASE r = attempt.round
    BY <1>1, <1>2, <1>5, <2>2
  <2>3. CASE r # attempt.round
    <3>1. n.count[r] = part[p].count[r] /\ part[p].count[r] <= 1
      BY <1>1, <1>2, <2>3 DEF IInv, Counted, Counts
    <3> QED BY <1>1, <1>4, <2>1, <3>1
  <2> QED BY <2>2, <2>3
<1>7. Counts(p, n)
  BY <1>2, <1>6 DEF Counts
<1> QED BY <1>2, <1>3, <1>7 DEF n

LEMMA NextLevelInv ==
  ASSUME IInv, NextLevel, ~gate.exiting
  PROVE  IInv'
<1> DEFINE level == Highest(LevelsBelow(window.level))
<1>1. /\ state = "draining" /\ window.awaits = {}
      /\ window' = [level |-> level, awaits |-> Group(level)]
      /\ part' = [p \in Participants |-> IF p \in Group(level) THEN Started(p, attempt.round) ELSE part[p]]
      /\ UNCHANGED <<gate, closes, requests, state, attempt, result, pub, calls, boundary, faults>>
  BY DEF NextLevel, Draining
<1> HIDE DEF level
<1>2. Group(level) \subseteq Participants
      /\ \A p \in Group(level) : ShouldRunInRound(p, attempt.round)
  BY DEF Group
<1>3. ASSUME NEW p \in Group(level)
      PROVE  LET s == Started(p, attempt.round)
             IN /\ s \in PartType /\ s.invoked /\ ~s.settled /\ s.status = "running"
                /\ s.round <= attempt.round /\ Counts(p, s)
  <2>1. /\ p \in Participants /\ part[p] \in PartType /\ attempt.round \in Nat
        /\ part[p].round <= attempt.round /\ Counts(p, part[p])
    BY <1>2 DEF IInv, TypeOK, AttemptType, Settling, Counted
  <2>2. CASE part[p].invoked /\ ~part[p].settled
    <3> DEFINE s == [part[p] EXCEPT !.status = "running"]
    <3>1. /\ s \in PartType /\ s.invoked = part[p].invoked /\ s.settled = part[p].settled
          /\ s.status = "running" /\ s.round = part[p].round /\ s.open = part[p].open
          /\ s.count = part[p].count
      BY <2>1 DEF PartType
    <3>2. Started(p, attempt.round) = s
      BY <2>2 DEF Started
    <3> HIDE DEF s
    <3> QED BY <2>1, <2>2, <3>1, <3>2 DEF Counts
  <2>3. CASE ~(part[p].invoked /\ ~part[p].settled)
    <3>1. Started(p, attempt.round) = Invocation(part[p], p, attempt.round)
      BY <2>3 DEF Started
    <3>2. part[p].open = 0
      BY <2>1, <2>3 DEF Counts
    <3>3. ~part[p].invoked \/ (p \in Barriers /\ part[p].round < attempt.round)
      BY <1>2, <2>1, <2>3 DEF ShouldRunInRound, IInv, Settling
    <3> QED BY <2>1, <3>1, <3>2, <3>3, InvocationCounts
  <2> QED BY <2>2, <2>3
<1>4. part' \in [Participants -> PartType]
  BY <1>1, <1>3 DEF IInv, TypeOK
<1>5. window' = [level |-> window'.level, awaits |-> window'.awaits] /\ window'.awaits = Group(level)
  BY <1>1
<1>6. TypeOK'
  BY <1>1, <1>2, <1>4, <1>5 DEF IInv, TypeOK
<1>7. Settling'
  <2> SUFFICES ASSUME NEW p \in Participants
               PROVE  /\ p \in Group(level) => part'[p].invoked /\ ~part'[p].settled
                      /\ part'[p].status = "completed" => part'[p].invoked /\ part'[p].settled
                      /\ part'[p].status = "running" => ~part'[p].settled
                      /\ part'[p].settled /\ p \notin Barriers => part'[p].status \in {"completed", "failed"}
                      /\ part'[p].round <= attempt.round
    BY <1>1, <1>5 DEF Settling
  <2>1. CASE p \in Group(level)
    <3>1. part'[p] = Started(p, attempt.round)
      BY <1>1, <2>1
    <3> QED BY <1>3, <2>1, <3>1
  <2>2. CASE p \notin Group(level)
    BY <1>1, <2>2 DEF IInv, Settling
  <2> QED BY <2>1, <2>2
<1>8. attempt.decision = None
  BY <1>1, UndecidedDrain
<1>9. ReadyIsDone' /\ OneDecision' /\ ExitIsEarned'
  BY <1>1, <1>8 DEF IInv, ReadyIsDone, OneDecision, ExitIsEarned, None
<1>10. Counted'
  BY <1>1, <1>2, <1>3 DEF IInv, Counted
<1> QED BY <1>6, <1>7, <1>9, <1>10 DEF IInv

LEMMA WindowEndsInv ==
  ASSUME IInv, WindowEnds, ~gate.exiting
  PROVE  IInv'
<1>1. /\ state = "draining" /\ part' = AtWindowEnd /\ state' = Classify(AtWindowEnd)
      /\ result' = [result EXCEPT ![attempt.round] = state'] /\ window' = NoWindow
      /\ UNCHANGED <<gate, closes, requests, attempt, pub, calls, boundary, faults>>
  BY DEF WindowEnds, Draining
<1>2. ASSUME NEW p \in Participants
      PROVE  /\ part'[p] \in PartType /\ part'[p].invoked = part[p].invoked
             /\ part'[p].settled = part[p].settled /\ part'[p].round = part[p].round
             /\ part'[p].open = part[p].open /\ part'[p].count = part[p].count
             /\ part'[p].status =
                  IF part[p].status = "running"
                     \/ (p \in Barriers /\ (~part[p].invoked \/ part[p].round < attempt.round))
                  THEN "timed-out" ELSE part[p].status
  <2>1. part[p] \in PartType
    BY DEF IInv, TypeOK
  <2>2. part'[p] = IF part[p].status = "running"
                      \/ (p \in Barriers /\ (~part[p].invoked \/ part[p].round < attempt.round))
                   THEN [part[p] EXCEPT !.status = "timed-out"] ELSE part[p]
    BY <1>1 DEF AtWindowEnd
  <2> QED BY <2>1, <2>2 DEF PartType
<1>3. part' \in [Participants -> PartType]
  <2>1. part' = [p \in Participants |-> part'[p]]
    BY <1>1 DEF AtWindowEnd
  <2> QED BY <1>2, <2>1
<1>4. state' \in {"timed-out", "failed", "ready"} /\ state' \in States
  BY <1>1 DEF Classify, States
<1>5. window' = [level |-> window'.level, awaits |-> window'.awaits] /\ window'.awaits = {}
  BY <1>1 DEF NoWindow
<1>6. TypeOK'
  <2>1. result' \in [Rounds -> States \cup {None}]
    BY <1>1, <1>4 DEF IInv, TypeOK
  <2> QED BY <1>1, <1>3, <1>4, <1>5, <2>1 DEF IInv, TypeOK
<1>7. Settling'
  BY <1>1, <1>2, <1>5 DEF IInv, Settling
<1>8. attempt.decision = None
  BY <1>1, UndecidedDrain
<1>9. ASSUME state' = "ready" PROVE AllDone'
  <2> SUFFICES ASSUME NEW p \in Participants
               PROVE  /\ part'[p].status = "completed"
                      /\ p \in Barriers => part'[p].round = attempt.round
    BY <1>1 DEF AllDone
  <2>1. part'[p].status \notin {"pending", "running", "timed-out", "failed"}
    BY <1>1, <1>9 DEF Classify
  <2>2. part'[p].status = "completed"
    BY <1>2, <2>1 DEF PartType
  <2>3. ASSUME p \in Barriers PROVE part[p].round = attempt.round
    <3>1. ~(part[p].round < attempt.round) /\ part[p].round <= attempt.round
      BY <1>2, <2>2, <2>3 DEF IInv, Settling
    <3>2. part[p].round \in Nat /\ attempt.round \in Nat
      BY DEF IInv, TypeOK, PartType, AttemptType
    <3> QED BY <3>1, <3>2
  <2> QED BY <1>2, <2>2, <2>3
<1>10. ReadyIsDone' /\ OneDecision' /\ ExitIsEarned'
  BY <1>1, <1>5, <1>8, <1>9 DEF IInv, ReadyIsDone, OneDecision, ExitIsEarned, None
<1>11. Counted'
  BY <1>2 DEF IInv, Counted, Counts
<1> QED BY <1>6, <1>7, <1>10, <1>11 DEF IInv

LEMMA DrainSettlesInv ==
  ASSUME IInv, NEW p \in Participants, NEW outcome \in {"completed", "failed"},
         DrainSettles(p, outcome), ~gate.exiting
  PROVE  IInv'
<1> DEFINE done == Done(p, outcome)
<1>1. /\ part[p].invoked /\ ~part[p].settled /\ ~attempt.closed
      /\ UNCHANGED <<gate, closes, requests, state, attempt, result, pub, calls, boundary, faults>>
  BY DEF DrainSettles
<1>2. /\ part[p] \in PartType /\ attempt.round \in Nat /\ part[p].open = 1 /\ Counts(p, part[p])
      /\ part[p].round <= attempt.round
  BY <1>1 DEF IInv, TypeOK, AttemptType, Counted, Counts, Settling
<1>3. /\ done \in PartType /\ done.invoked /\ done.settled /\ done.status = outcome
      /\ done.round = part[p].round /\ done.open = 0 /\ done.count = part[p].count
  <2> DEFINE q == part[p]
  <2>1. q \in PartType /\ q.open - 1 = 0 /\ q.invoked
    BY <1>1, <1>2
  <2>2. done = [q EXCEPT !.settled = TRUE, !.status = outcome, !.open = 0]
    BY <2>1 DEF Done
  <2> HIDE DEF done, q
  <2>3. /\ done \in PartType /\ done.invoked /\ done.settled /\ done.status = outcome
        /\ done.round = q.round /\ done.open = 0 /\ done.count = q.count
    BY <2>1, <2>2 DEF PartType
  <2> QED BY <2>3 DEF q
<1> HIDE DEF done
<1>4. PICK new \in PartType :
        /\ part' = [part EXCEPT ![p] = new]
        /\ new.invoked /\ new.round <= attempt.round /\ Counts(p, new)
        /\ \/ new.settled /\ new.status = outcome /\ window' = [window EXCEPT !.awaits = @ \ {p}]
           \/ ~new.settled /\ new.status = "running" /\ window' = window
  <2>1. CASE part' = [part EXCEPT ![p] = done] /\ window' = [window EXCEPT !.awaits = @ \ {p}]
    <3>1. Counts(p, done)
      BY <1>1, <1>2, <1>3 DEF Counts
    <3> QED BY <1>2, <1>3, <2>1, <3>1
  <2>2. CASE /\ p \in Barriers /\ part[p].round < attempt.round /\ UNCHANGED window
             /\ part' = [part EXCEPT ![p] = Invocation(done, p, attempt.round)]
    <3> DEFINE n == Invocation(done, p, attempt.round)
    <3>1. n \in PartType /\ n.invoked /\ ~n.settled /\ n.status = "running"
          /\ n.round = attempt.round /\ Counts(p, n)
      BY <1>3, <2>2, InvocationCounts
    <3> HIDE DEF n
    <3>2. part' = [part EXCEPT ![p] = n] /\ n.round <= attempt.round
      BY <1>2, <2>2, <3>1 DEF n
    <3> QED BY <2>2, <3>1, <3>2
  <2> QED BY <2>1, <2>2 DEF DrainSettles, done
<1>5. /\ part' \in [Participants -> PartType] /\ part'[p] = new
      /\ \A q \in Participants : q # p => part'[q] = part[q]
  BY <1>4 DEF IInv, TypeOK
<1>6. /\ window' = [level |-> window'.level, awaits |-> window'.awaits]
      /\ window'.awaits \subseteq window.awaits /\ (new.settled => p \notin window'.awaits)
  <2>1. window = [level |-> window.level, awaits |-> window.awaits]
    BY DEF IInv, TypeOK
  <2>2. CASE window' = window
    BY <1>4, <2>1, <2>2
  <2>3. CASE window' = [window EXCEPT !.awaits = @ \ {p}]
    <3>1. window' = [level |-> window.level, awaits |-> window.awaits \ {p}]
      BY <2>1, <2>3
    <3> QED BY <3>1
  <2> QED BY <1>4, <2>2, <2>3
<1>7. TypeOK'
  BY <1>1, <1>5, <1>6 DEF IInv, TypeOK
<1>8. Settling'
  <2> SUFFICES ASSUME NEW q \in Participants
               PROVE  /\ q \in window'.awaits => part'[q].invoked /\ ~part'[q].settled
                      /\ part'[q].status = "completed" => part'[q].invoked /\ part'[q].settled
                      /\ part'[q].status = "running" => ~part'[q].settled
                      /\ part'[q].settled /\ q \notin Barriers => part'[q].status \in {"completed", "failed"}
                      /\ part'[q].round <= attempt.round
    BY <1>1 DEF Settling
  <2>2. CASE q = p
    BY <1>4, <1>5, <1>6, <2>2
  <2>3. CASE q # p
    BY <1>5, <1>6, <2>3 DEF IInv, Settling
  <2> QED BY <2>2, <2>3
<1>9. attempt.decision = None
  BY <1>1, UndecidedDrain
<1>10. state # "ready"
  BY <1>1 DEF IInv, ReadyIsDone, AllDone, Settling
<1>11. ReadyIsDone' /\ OneDecision' /\ ExitIsEarned'
  BY <1>1, <1>9, <1>10, <1>6 DEF IInv, ReadyIsDone, OneDecision, ExitIsEarned, None
<1>12. Counted'
  BY <1>4, <1>5 DEF IInv, Counted
<1> QED BY <1>7, <1>8, <1>11, <1>12 DEF IInv

LEMMA ParticipantTimesOutInv ==
  ASSUME IInv, NEW p \in Participants, ParticipantTimesOut(p), ~gate.exiting
  PROVE  IInv'
<1> DEFINE new == [part[p] EXCEPT !.status = "timed-out"]
<1>1. /\ p \in window.awaits /\ part' = [part EXCEPT ![p] = new]
      /\ window' = [window EXCEPT !.awaits = @ \ {p}]
      /\ UNCHANGED <<gate, closes, requests, state, attempt, result, pub, calls, boundary, faults>>
  BY DEF ParticipantTimesOut
<1>2. part[p] \in PartType
  BY DEF IInv, TypeOK
<1>3. /\ new \in PartType /\ new.invoked = part[p].invoked /\ new.settled = part[p].settled
      /\ new.round = part[p].round /\ new.status = "timed-out" /\ new.open = part[p].open
      /\ new.count = part[p].count
  BY <1>2 DEF PartType
<1> HIDE DEF new
<1>4. /\ part' \in [Participants -> PartType] /\ part'[p] = new
      /\ \A q \in Participants : q # p => part'[q] = part[q]
  BY <1>1, <1>3 DEF IInv, TypeOK
<1>5. /\ window' = [level |-> window'.level, awaits |-> window'.awaits]
      /\ window'.awaits = window.awaits \ {p}
  <2>1. window = [level |-> window.level, awaits |-> window.awaits]
    BY DEF IInv, TypeOK
  <2>2. window' = [level |-> window.level, awaits |-> window.awaits \ {p}]
    BY <1>1, <2>1
  <2> QED BY <2>2
<1>6. TypeOK'
  BY <1>1, <1>4, <1>5 DEF IInv, TypeOK
<1>7. Settling'
  <2> SUFFICES ASSUME NEW q \in Participants
               PROVE  /\ q \in window'.awaits => part'[q].invoked /\ ~part'[q].settled
                      /\ part'[q].status = "completed" => part'[q].invoked /\ part'[q].settled
                      /\ part'[q].status = "running" => ~part'[q].settled
                      /\ part'[q].settled /\ q \notin Barriers => part'[q].status \in {"completed", "failed"}
                      /\ part'[q].round <= attempt.round
    BY <1>1 DEF Settling
  <2>1. part[p].round <= attempt.round /\ ~part[p].settled
    BY <1>1 DEF IInv, Settling
  <2>2. CASE q = p
    BY <1>3, <1>4, <1>5, <2>1, <2>2
  <2>3. CASE q # p
    BY <1>4, <1>5, <2>3 DEF IInv, Settling
  <2> QED BY <2>2, <2>3
<1>8. state = "draining"
  BY <1>1 DEF IInv, ReadyIsDone
<1>9. attempt.decision = None
  BY <1>8, UndecidedDrain
<1>10. ReadyIsDone' /\ OneDecision' /\ ExitIsEarned'
  BY <1>1, <1>5, <1>8, <1>9 DEF IInv, ReadyIsDone, OneDecision, ExitIsEarned, None
<1>11. Counted'
  BY <1>3, <1>4 DEF IInv, Counted, Counts
<1> QED BY <1>6, <1>7, <1>10, <1>11 DEF IInv

-----------------------------------------------------------------------------
(* The adapter and the controller.                                         *)

\* Steps that take requests and commands away and decide nothing.
LEMMA NothingDecided ==
  ASSUME IInv, requests' \subseteq requests, calls' \subseteq calls,
         UNCHANGED <<gate, closes, state, attempt, part, window, result>>
  PROVE  IInv'
<1>1. TypeOK'
  BY DEF IInv, TypeOK
<1>2. Settling' /\ Counted' /\ ReadyIsDone' /\ ExitIsEarned'
  BY SameParts
<1>3. OneDecision'
  BY DEF IInv, OneDecision
<1> QED BY <1>1, <1>2, <1>3 DEF IInv

\* What Call() makes is a command of the attempt.
LEMMA CallIsTyped ==
  ASSUME IInv, NEW kind \in {"submit", "cancel", "confirm"}, NEW s \in States \cup {None}
  PROVE  LET k == Call(kind, s)
         IN  k \in CallType /\ k.kind = kind /\ k.id = attempt.id
<1>1. attempt \in AttemptType
  BY DEF IInv, TypeOK
<1>2. attempt.id \in Nat /\ attempt.round \in Nat /\ attempt.forced \in BOOLEAN
  BY <1>1 DEF AttemptType
<1> QED BY <1>2 DEF Call, CallType

\* A ready drain, or one confirmed before, is confirmed.
LEMMA ConfirmStep ==
  ASSUME IInv, state = "ready" \/ attempt.decision = "confirm", state' = "confirming",
         attempt' = [attempt EXCEPT !.decision = "confirm", !.closed = TRUE],
         NEW k \in CallType, k.kind = "confirm", k.id = attempt.id,
         calls' \subseteq calls \cup {k}, requests' \subseteq requests,
         UNCHANGED <<gate, closes, part, window, result>>
  PROVE  IInv'
<1>1. attempt \in AttemptType
  BY DEF IInv, TypeOK
<1>2. /\ attempt' \in AttemptType /\ attempt'.decision = "confirm" /\ attempt'.closed
      /\ attempt'.id = attempt.id /\ attempt'.round = attempt.round
      /\ attempt'.forced = attempt.forced
  BY <1>1 DEF AttemptType
<1>3. TypeOK'
  BY <1>2 DEF IInv, TypeOK, States
<1>4. Settling' /\ Counted'
  BY <1>2 DEF IInv, Settling, Counted
<1>5. state # "draining" /\ window.awaits = {}
  BY DEF IInv, OneDecision, ReadyIsDone, None
<1>6. ReadyIsDone'
  BY <1>2, <1>5 DEF IInv, ReadyIsDone, AllDone
<1>7. \A c \in calls : c.kind # "cancel"
  <2>1. CASE attempt.decision = "confirm"
    BY <2>1 DEF IInv, OneDecision
  <2>2. CASE state = "ready"
    BY <2>2, UndecidedDrain
  <2> QED BY <2>1, <2>2
<1>8. OneDecision'
  <2>1. \A c \in calls' : c \in calls \/ c = k
    OBVIOUS
  <2> QED BY <1>2, <1>7, <2>1 DEF IInv, OneDecision, TypeOK, CallType
<1>9. ExitIsEarned'
  BY <1>2 DEF IInv, ExitIsEarned
<1> QED BY <1>3, <1>4, <1>6, <1>8, <1>9 DEF IInv

LEMMA ConfirmsReadyInv ==
  ASSUME IInv, ConfirmsReady, requests' \subseteq requests,
         UNCHANGED <<gate, closes, part, window, result>>
  PROVE  IInv'
<1>1. CASE UNCHANGED <<state, attempt, calls>>
  BY <1>1, NothingDecided
<1>2. CASE /\ attempt.decision = "confirm" \/ state = "ready"
           /\ state' = "confirming"
           /\ attempt' = [attempt EXCEPT !.decision = "confirm", !.closed = TRUE]
           /\ calls' = IF InFlight("confirm") THEN calls ELSE calls \cup {Call("confirm", None)}
  <2> DEFINE k == Call("confirm", None)
  <2>1. k \in CallType /\ k.kind = "confirm" /\ k.id = attempt.id
    BY CallIsTyped
  <2>2. calls' \subseteq calls \cup {k}
    BY <1>2
  <2> HIDE DEF k
  <2> QED BY <1>2, <2>1, <2>2, ConfirmStep
<1> QED BY <1>1, <1>2 DEF ConfirmsReady

LEMMA CloseBeginsInv ==
  ASSUME IInv, NEW id \in requests, CloseBegins(id), ~gate.exiting
  PROVE  IInv'
<1>1. /\ requests' = requests \ {id} /\ state = "idle"
      /\ attempt' = [NoAttempt EXCEPT !.id = id] /\ part' = Fresh /\ state' = "draining"
      /\ window' = [level |-> Highest(Levels) + 1, awaits |-> {}]
      /\ result' = [r \in Rounds |-> None] /\ UNCHANGED <<gate, closes, calls, faults>>
  BY DEF CloseBegins
<1>2. /\ attempt' \in AttemptType /\ attempt'.decision = None /\ attempt'.round = 0
  <2>1. id \in Nat
    BY DEF IInv, TypeOK
  <2> QED BY <1>1, <2>1 DEF NoAttempt, AttemptType
<1>3. window' = [level |-> window'.level, awaits |-> window'.awaits] /\ window'.awaits = {}
  BY <1>1
<1>4. TypeOK'
  BY <1>1, <1>2, <1>3, FreshType DEF IInv, TypeOK, States
<1>5. Settling' /\ Counted'
  BY <1>1, <1>2, <1>3, FreshType DEF Settling, Counted
<1>6. ReadyIsDone' /\ OneDecision' /\ ExitIsEarned'
  <2>1. \A c \in calls : c.kind = "submit"
    BY <1>1, UndecidedDrain
  <2> QED BY <1>1, <1>2, <1>3, <2>1 DEF ReadyIsDone, OneDecision, ExitIsEarned, None
<1> QED BY <1>4, <1>5, <1>6 DEF IInv

LEMMA CloseRepeatedInv ==
  ASSUME IInv, NEW id \in requests, CloseRepeated(id)
  PROVE  IInv'
<1>1. requests' \subseteq requests /\ UNCHANGED <<gate, closes, part, window, result>>
  BY DEF CloseRepeated
<1>2. CASE UNCHANGED <<state, attempt, calls>>
  BY <1>1, <1>2, NothingDecided
<1>3. CASE ConfirmsReady
  BY <1>1, <1>3, ConfirmsReadyInv
<1> QED BY <1>2, <1>3 DEF CloseRepeated

LEMMA RetryInv ==
  ASSUME IInv, Retry
  PROVE  IInv'
<1>1. requests' \subseteq requests /\ UNCHANGED <<gate, closes, part, window, result>>
  BY DEF Retry
<1>2. CASE UNCHANGED <<state, attempt, calls>>
  BY <1>1, <1>2, NothingDecided
<1>3. CASE ConfirmsReady
  BY <1>1, <1>3, ConfirmsReadyInv
<1> QED BY <1>2, <1>3 DEF Retry

LEMMA SubmitReportInv ==
  ASSUME IInv, NEW r \in Rounds, SubmitReport(r)
  PROVE  IInv'
<1> DEFINE k == [Call("submit", result[r]) EXCEPT !.round = r]
<1>1. /\ calls' = calls \cup {k}
      /\ UNCHANGED <<gate, closes, requests, state, attempt, part, window, result>>
  BY DEF SubmitReport
<1>2. result[r] \in States \cup {None} /\ r \in Nat
  BY RoundsAreNat DEF IInv, TypeOK
<1>3. LET c == Call("submit", result[r]) IN c \in CallType /\ c.kind = "submit"
  BY <1>2, CallIsTyped
<1>4. k \in CallType /\ k.kind = "submit"
  BY <1>2, <1>3 DEF CallType
<1> HIDE DEF k
<1>5. \A c \in calls' : c \in calls \/ c = k
  BY <1>1
<1>6. TypeOK'
  BY <1>1, <1>4 DEF IInv, TypeOK
<1>7. OneDecision'
  BY <1>1, <1>4, <1>5 DEF IInv, OneDecision
<1>8. Settling' /\ Counted' /\ ReadyIsDone' /\ ExitIsEarned'
  BY <1>1, SameParts
<1> QED BY <1>6, <1>7, <1>8 DEF IInv

LEMMA SubmittedInv ==
  ASSUME IInv, NEW c \in calls, Submitted(c)
  PROVE  IInv'
<1>1. UNCHANGED <<gate, closes, requests, part, window, result>>
  BY DEF Submitted
<1>2. CASE calls' = calls \ {c} /\ UNCHANGED <<state, attempt>>
  BY <1>1, <1>2, NothingDecided
<1>3. CASE /\ attempt.decision = "confirm" \/ state = "ready"
           /\ state' = "confirming"
           /\ attempt' = [attempt EXCEPT !.decision = "confirm", !.closed = TRUE]
           /\ calls' = (calls \ {c}) \cup (IF InFlight("confirm") THEN {}
                                           ELSE {Call("confirm", None)})
  <2> DEFINE k == Call("confirm", None)
  <2>1. k \in CallType /\ k.kind = "confirm" /\ k.id = attempt.id
    BY CallIsTyped
  <2>2. calls' \subseteq calls \cup {k}
    BY <1>3
  <2> HIDE DEF k
  <2> QED BY <1>1, <1>3, <2>1, <2>2, ConfirmStep
<1> QED BY <1>2, <1>3 DEF Submitted

LEMMA ConfirmedInv ==
  ASSUME IInv, NEW c \in calls, Confirmed(c)
  PROVE  IInv'
<1>1. /\ calls' = calls \ {c} /\ c.kind = "confirm"
      /\ UNCHANGED <<gate, closes, requests, attempt, part, window, result>>
      /\ state' \in {"confirmed", state}
  BY DEF Confirmed
<1>2. CASE state' = state
  BY <1>1, <1>2, NothingDecided
<1>3. CASE state' = "confirmed"
  <2>1. attempt.decision = "confirm" /\ state # "draining" /\ window.awaits = {}
    BY <1>1 DEF IInv, OneDecision, ReadyIsDone, None
  <2>2. TypeOK'
    BY <1>1, <1>3 DEF IInv, TypeOK, States
  <2>3. Settling' /\ Counted' /\ ReadyIsDone' /\ OneDecision' /\ ExitIsEarned'
    BY <1>1, <1>3, <2>1
    DEF IInv, Settling, Counted, ReadyIsDone, AllDone, OneDecision, ExitIsEarned
  <2> QED BY <2>2, <2>3 DEF IInv
<1> QED BY <1>1, <1>2, <1>3

-----------------------------------------------------------------------------
(* The decisions of the user.                                              *)

LEMMA WaitInv ==
  ASSUME IInv, Wait, ~gate.exiting
  PROVE  IInv'
<1>1. /\ state \in {"timed-out", "failed"} /\ attempt' = [attempt EXCEPT !.round = @ + 1]
      /\ attempt.round < MaxRounds
      /\ state' = "draining" /\ window' = [level |-> Highest(Levels) + 1, awaits |-> {}]
      /\ UNCHANGED <<gate, closes, requests, part, result, calls>>
  BY DEF Wait
<1>2. attempt.decision = None /\ \A c \in calls : c.kind = "submit"
  BY <1>1, UndecidedDrain
<1>3. attempt \in AttemptType
  BY DEF IInv, TypeOK
<1>4. /\ attempt' \in AttemptType /\ attempt'.decision = None
      /\ attempt'.round = attempt.round + 1 /\ attempt.round \in Nat /\ attempt'.round \in Rounds
  BY <1>1, <1>2, <1>3, BoundsAssumption DEF AttemptType, Rounds
<1>5. window' = [level |-> window'.level, awaits |-> window'.awaits] /\ window'.awaits = {}
  BY <1>1
<1>6. TypeOK'
  BY <1>1, <1>4, <1>5 DEF IInv, TypeOK, States
<1>7. Settling'
  <2>1. \A p \in Participants : part[p].round \in Nat
    BY DEF IInv, TypeOK, PartType
  <2>2. \A p \in Participants : part[p].round <= attempt'.round
    BY <1>4, <2>1 DEF IInv, Settling
  <2> QED BY <1>1, <1>5, <2>2 DEF IInv, Settling
<1>8. ReadyIsDone' /\ OneDecision' /\ ExitIsEarned'
  BY <1>1, <1>2, <1>4, <1>5 DEF ReadyIsDone, OneDecision, ExitIsEarned, None
<1>9. Counted'
  BY <1>1 DEF IInv, Counted
<1> QED BY <1>6, <1>7, <1>8, <1>9 DEF IInv

\* The attempt is closed and its participants are observed no longer: cancel() and force().
LEMMA ClosedStep ==
  ASSUME IInv, ~gate.exiting, NEW d \in {"cancel", "confirm"}, attempt.decision \in {None, d},
         state \in DecisionStates \/ state = "confirming", state' = "confirming",
         attempt' \in AttemptType, attempt'.id = attempt.id, attempt'.decision = d,
         attempt'.round = attempt.round,
         attempt'.closed, d = "confirm" => attempt'.forced, part' = Fresh,
         NEW k \in CallType, k.kind = d, k.id = attempt.id,
         calls' = calls \/ (calls' = calls \cup {k} /\ ~InFlight(d)),
         UNCHANGED <<gate, closes, requests, window, result>>
  PROVE  IInv'
<1>1. window.awaits = {}
  BY DEF IInv, ReadyIsDone, DecisionStates
<1>2. TypeOK'
  BY FreshType DEF IInv, TypeOK, States
<1>3. attempt'.round \in Nat
  BY DEF AttemptType
<1>4. Settling' /\ Counted'
  BY <1>1, <1>3, FreshType DEF Settling, Counted
<1>5. ReadyIsDone' /\ ExitIsEarned'
  BY <1>1 DEF ReadyIsDone, ExitIsEarned
<1>6. \A c \in calls : c.kind \in {"cancel", "confirm"} => c.kind = d /\ c.id = attempt.id
  BY DEF IInv, OneDecision, None
<1>7. OneDecision'
  <2>1. CASE calls' = calls
    BY <1>6, <2>1 DEF IInv, OneDecision
  <2>2. CASE calls' = calls \cup {k} /\ ~InFlight(d)
    <3>1. \A c \in calls : c.kind # "cancel" \/ d # "cancel"
      BY <1>6, <2>2 DEF InFlight
    <3>2. \A c \in calls' : c \in calls \/ c = k
      BY <2>2
    <3> QED BY <1>6, <3>1, <3>2 DEF IInv, OneDecision
  <2> QED BY <2>1, <2>2
<1> QED BY <1>2, <1>4, <1>5, <1>7 DEF IInv

LEMMA CancelInv ==
  ASSUME IInv, Cancel, ~gate.exiting
  PROVE  IInv'
<1> DEFINE k == Call("cancel", None)
<1>1. /\ state \in DecisionStates \/ (state = "confirming" /\ attempt.decision = "cancel")
      /\ state' = "confirming"
      /\ attempt' = [attempt EXCEPT !.decision = "cancel", !.closed = TRUE]
      /\ calls' = IF InFlight("cancel") THEN calls ELSE calls \cup {k}
      /\ part' = Fresh /\ UNCHANGED <<gate, closes, requests, window, result>>
  BY DEF Cancel
<1>2. attempt \in AttemptType
  BY DEF IInv, TypeOK
<1>3. /\ attempt' \in AttemptType /\ attempt'.decision = "cancel" /\ attempt'.closed
      /\ attempt'.id = attempt.id /\ attempt'.round = attempt.round
  BY <1>1, <1>2 DEF AttemptType
<1>4. k \in CallType /\ k.kind = "cancel" /\ k.id = attempt.id
  BY CallIsTyped
<1> HIDE DEF k
<1>5. attempt.decision \in {None, "cancel"}
  BY <1>1, UndecidedDrain DEF DecisionStates
<1> QED BY <1>1, <1>3, <1>4, <1>5, ClosedStep

LEMMA ForceInv ==
  ASSUME IInv, ForceExit, ~gate.exiting
  PROVE  IInv'
<1> DEFINE k == [Call("confirm", None) EXCEPT !.forced = TRUE]
<1>1. /\ state \in {"timed-out", "failed"} \/ (state = "confirming" /\ attempt.decision = "confirm")
      /\ state' = "confirming"
      /\ attempt' = [attempt EXCEPT !.decision = "confirm", !.forced = TRUE, !.closed = TRUE]
      /\ calls' = IF InFlight("confirm") THEN calls ELSE calls \cup {k}
      /\ part' = Fresh /\ UNCHANGED <<gate, closes, requests, window, result>>
  BY DEF ForceExit
<1>2. attempt \in AttemptType
  BY DEF IInv, TypeOK
<1>3. /\ attempt' \in AttemptType /\ attempt'.decision = "confirm" /\ attempt'.closed
      /\ attempt'.id = attempt.id /\ attempt'.round = attempt.round /\ attempt'.forced
  BY <1>1, <1>2 DEF AttemptType
<1>4. LET c == Call("confirm", None) IN c \in CallType /\ c.kind = "confirm" /\ c.id = attempt.id
  BY CallIsTyped
<1>5. k \in CallType /\ k.kind = "confirm" /\ k.id = attempt.id
  BY <1>4 DEF CallType
<1> HIDE DEF k
<1>6. attempt.decision \in {None, "confirm"}
  BY <1>1, UndecidedDrain
<1>7. state \in DecisionStates \/ state = "confirming"
  BY <1>1 DEF DecisionStates
<1> QED BY <1>1, <1>3, <1>5, <1>6, <1>7, ClosedStep

LEMMA CancelledInv ==
  ASSUME IInv, NEW c \in calls, Cancelled(c)
  PROVE  IInv'
<1>1. c.kind = "cancel" /\ calls' = calls \ {c} /\ UNCHANGED <<gate, closes, requests, window>>
  BY DEF Cancelled
<1>2. CASE UNCHANGED <<state, attempt, part, result>>
  BY <1>1, <1>2, NothingDecided
<1>3. CASE /\ state' = "idle" /\ attempt' = NoAttempt /\ part' = Fresh
           /\ result' = [r \in Rounds |-> None]
  <2>1. attempt.decision = "cancel" /\ ~gate.exiting /\ window.awaits = {}
    BY <1>1 DEF IInv, OneDecision, ReadyIsDone, ExitIsEarned, None
  <2>2. \A d \in calls' : d.kind \notin {"cancel", "confirm"}
    BY <1>1, <2>1 DEF IInv, OneDecision
  <2>3. attempt'.decision = None /\ attempt'.round = 0
    BY <1>3 DEF NoAttempt
  <2>4. TypeOK'
    BY <1>1, <1>3, <2>3, FreshType DEF IInv, TypeOK, States
  <2>5. Settling' /\ Counted'
    BY <1>1, <1>3, <2>1, <2>3, FreshType DEF Settling, Counted
  <2>6. ReadyIsDone' /\ OneDecision' /\ ExitIsEarned'
    BY <1>1, <1>3, <2>1, <2>2, <2>3 DEF ReadyIsDone, OneDecision, ExitIsEarned, None
  <2> QED BY <2>4, <2>5, <2>6 DEF IInv
<1> QED BY <1>2, <1>3 DEF Cancelled

-----------------------------------------------------------------------------
(* The theorems.                                                           *)

LEMMA InitInv == Init => IInv
<1> SUFFICES ASSUME Init PROVE IInv
  OBVIOUS
<1>1. /\ gate = [attempt |-> 0, last |-> NoResult, exiting |-> FALSE] /\ closes = 0 /\ requests = {}
      /\ state = "idle" /\ attempt = NoAttempt /\ part = Fresh
      /\ window = [level |-> 0, awaits |-> {}] /\ result = [r \in Rounds |-> None] /\ calls = {}
  BY DEF Init, NoWindow
<1>2. window.awaits = {} /\ ~gate.exiting /\ attempt.decision = None /\ attempt.round = 0
  BY <1>1 DEF NoAttempt
<1>3. /\ gate = [attempt |-> gate.attempt, last |-> gate.last, exiting |-> gate.exiting]
      /\ gate.attempt = 0 /\ gate.exiting = FALSE
      /\ window = [level |-> window.level, awaits |-> window.awaits]
  BY <1>1
<1>4. TypeOK
  BY <1>1, <1>2, <1>3, FreshType DEF TypeOK, States
<1>5. Settling /\ Counted
  BY <1>1, <1>2, FreshType DEF Settling, Counted
<1>6. ReadyIsDone /\ OneDecision /\ ExitIsEarned
  BY <1>1, <1>2 DEF ReadyIsDone, OneDecision, ExitIsEarned, None
<1> QED BY <1>4, <1>5, <1>6 DEF IInv

LEMMA NextInv == IInv /\ [Next]_vars => IInv'
<1> SUFFICES ASSUME IInv, [Next]_vars PROVE IInv'
  OBVIOUS
<1>1. CASE ~gate.exiting /\ Microtask
  BY <1>1, NextLevelInv, WindowEndsInv, SubmitReportInv DEF Microtask
<1>2. CASE ~gate.exiting /\ Decision
  BY <1>2, WaitInv, CancelInv, ForceInv, RetryInv DEF Decision
<1>3. CASE Answer
  BY <1>3, SubmittedInv, CancelledInv, ConfirmedInv DEF Answer
<1>4. CASE ~gate.exiting /\ Event
  BY <1>4, CloseBeginsInv, CloseRepeatedInv, DrainSettlesInv, ParticipantTimesOutInv DEF Event
<1>5. CASE ~gate.exiting /\ Native
  BY <1>5, CloseRequestedInv, NativeAnswersInv DEF Native
<1>6. CASE UNCHANGED vars
  BY <1>6, NothingDecided DEF vars
<1> QED BY <1>1, <1>2, <1>3, <1>4, <1>5, <1>6 DEF Next

\* The invariant, of every step of the gate, the coordinator, the adapter and the controller.
THEOREM ShutdownInvariance == Spec => []IInv
<1>1. Init => IInv
  BY InitInv
<1>2. IInv /\ [Next]_vars => IInv'
  BY NextInv
<1> QED BY <1>1, <1>2, PTL DEF Spec

\* ShutdownGate lets the process go only for the attempt the coordinator has confirmed, with
\* every participant completed, each barrier in the last round, unless the user forced it;
\* whatever the order in which reports, decisions, retries and answers arrive.
THEOREM ExitEarned == Spec => []ExitIsEarned
<1>1. IInv => ExitIsEarned
  BY DEF IInv
<1> QED BY <1>1, ShutdownInvariance, PTL

\* startParticipant() never has two invocations of a drain running; it invokes a drain once in
\* an attempt and a barrier once in a round, also over wait(), late settlements, windows that
\* run out of time and answers of the gate that are lost.
THEOREM DrainsNotReplayed == Spec => []NoReplay
<1>1. IInv => NoReplay
  <2> SUFFICES ASSUME IInv, NEW p \in Participants
               PROVE  /\ part[p].open <= 1
                      /\ \A r \in Rounds : part[p].count[r] <= 1
                      /\ p \notin Barriers =>
                           \A r, s \in Rounds : part[p].count[r] > 0 /\ part[p].count[s] > 0 => r = s
    BY DEF NoReplay
  <2> QED BY DEF IInv, Counted, Counts
<1> QED BY <1>1, ShutdownInvariance, PTL
=============================================================================
