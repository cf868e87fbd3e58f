----------------------- MODULE SerialConnection_proofs -----------------------
(***************************************************************************)
(* Proofs about SerialConnection, for any number of generations, stops,    *)
(* calls and reconnect attempts: the session keeps the promise of          *)
(* PortOwnership, what it shows is true, nothing is stranded and what      *)
(* stop() answers can be relied on.                                        *)
(*                                                                         *)
(* None of these is inductive.  What carries them is that at most one      *)
(* attempt is live, that is begun and not proven closed, and that whoever  *)
(* is responsible for it refers to it: the session through active or       *)
(* pending, or performStop() through what it took (LiveOK).  The lease is  *)
(* the session's as long as an attempt is live.  The other groups say who  *)
(* may be running beside whom: a start() or a disconnect that tears an     *)
(* attempt down, an opener, the timer, stop() and a callback it left       *)
(* behind.                                                                 *)
(***************************************************************************)
EXTENDS SerialConnection, FiniteSetTheorems, TLAPS

\* The opener of attempt a is somewhere between its call and its end.
Running(a) == opener[a] \notin {"none", "done"}
\* Attempt a was begun and is not proven closed: its handle may be open.
Live(a) == opener[a] # "none" /\ a \notin proven
Rest == \A a \in Attempts : ~Running(a)
NoDisc == \A a \in Attempts : disc[a] = "none"
\* stop() has taken the connection and the lease.
Detached == stopPc \in {"opening", "shut"}

LeaseType == [owner : {"none", "self", "other"}, id : Nat, state : HeldStates]

\* The types, as far as the argument needs them.
Types ==
  /\ lease \in LeaseType /\ held \in HeldLeases /\ stopLease \in HeldLeases
  /\ leaseSeq \in Nat /\ gen \in Nat
  /\ active \in Attempts \cup {Null} /\ pending \in Attempts \cup {Null}
  /\ startPrev \in Attempts \cup {Null} /\ stopConn \in Attempts \cup {Null}
  /\ stopOpening \in Attempts \cup {Null}
  /\ open \subseteq Attempts /\ byReconnect \subseteq Attempts
  /\ opener \in [Attempts -> InOpenConnection \cup {"none", "opened", "failed", "done"}]
  /\ rx \in [Attempts -> {"none", "guaranteed", "unsafe"}]
  /\ task \in [Attempts -> {"none", "rx", "close"}]
  /\ disc \in [Attempts -> {"none", "revoke", "shut"}]
  /\ starting \in {"none", "revoke", "shut"}
  /\ stopPc \in {"none", "revoke", "detach", "opening", "shut"}
  /\ \A e \in late : e.opening \in Attempts /\ e.lease \in HeldLeases

\* Each attempt by itself: pending is the one that opens, only an attempt that is live may be
\* open, and no two openers run.
AttemptsOK ==
  \A a \in Attempts :
    /\ opener[a] \in InOpenConnection <=> pending = a
    /\ opener[a] = "none" => /\ task[a] = "none" /\ disc[a] = "none"
                             /\ a \notin proven /\ a \notin committed /\ a \notin byReconnect
    /\ opener[a] \in {"open", "watch", "lines", "opened"} => a \in open
    /\ opener[a] \in {"open", "watch", "lines"} => task[a] = "none"
    /\ a \in open => Live(a)
    /\ opener[a] = "opened" => a \in committed
    /\ a \in committed => opener[a] \in {"opened", "done"}
    /\ opener[a] # "none" => a <= gen
    /\ \A b \in Attempts : Running(a) /\ Running(b) => a = b

\* A live attempt is the only one, the port is leased for it, and someone refers to it.
LiveOK ==
  \A a \in Attempts : Live(a) =>
    /\ lease.owner = "self" /\ pending \in {Null, a}
    /\ a \in IF Detached THEN {stopConn, stopOpening} ELSE {active, pending}
    /\ \A b \in Attempts : Live(b) => a = b
    /\ \A e \in late : e.opening = a

\* What the session, stop() and the callbacks of earlier stops refer to.
RefsOK ==
  /\ active # Null => opener[active] # "none" /\ pending = Null
  /\ stopPc # "none" => intentional /\ isClosing /\ stopGen = gen
  /\ ~Detached => stopConn = Null /\ stopOpening = Null /\ stopLease = NoLease
  /\ stopPc = "opening" =>
       /\ stopConn = Null /\ stopOpening # Null /\ opener[stopOpening] # "none"
       /\ stopOpening \notin committed /\ starting = "none" /\ NoDisc
       /\ pending \in {Null, stopOpening} /\ active \in {Null, stopOpening}
  /\ stopPc = "shut" =>
       stopConn # Null /\ stopOpening = Null /\ opener[stopConn] # "none" /\ pending = Null
  /\ \A e \in late :
       /\ opener[e.opening] # "none" /\ e.opening \notin committed
       /\ pending \in {Null, e.opening}

\* start() tears the previous attempt down: alone, and on the active attempt until stop() has
\* taken it.
StartOK ==
  starting # "none" =>
    /\ Rest /\ NoDisc /\ ~timer /\ late = {} /\ startPrev # Null /\ opener[startPrev] # "none"
    /\ isClosing \/ StartReady
    /\ \/ StartReady
       \/ ~Detached /\ active = startPrev
       \/ stopPc = "shut" /\ stopConn = startPrev /\ starting = "shut"
    /\ ~intentional => active = startPrev /\ gen < MaxGenerations
    /\ intentional /\ stopPc = "none" => startPrev # gen

\* The same of a disconnect.
DiscOK ==
  \A a \in Attempts : disc[a] # "none" =>
    /\ Rest /\ ~timer /\ late = {}
    /\ \A b \in Attempts : disc[b] # "none" => a = b
    /\ isClosing \/ DisconnectReady(a)
    /\ \/ DisconnectReady(a)
       \/ ~Detached /\ active = a
       \/ stopPc = "shut" /\ stopConn = a /\ disc[a] = "shut"
    /\ ~intentional => active = a /\ a = gen
    /\ intentional /\ stopPc = "none" => a # gen /\ ~isClosing

\* The reconnect timer runs only while nothing is open and the lease is held for the reopening.
TimerOK ==
  /\ timer => /\ Rest /\ ~intentional /\ active = Null
              /\ lease.owner = "self" /\ lease.state \in {"opening", "reconnecting"}
  /\ late # {} => intentional
  /\ reconnecting => ~intentional /\ (timer \/ \E a \in byReconnect : Running(a))

\* The attempt that is being opened is the current one with a lease that can become connected,
\* or stop() was called.
RunningOK ==
  \A a \in Attempts : Running(a) =>
    /\ ~intentional =>
         /\ a = gen /\ ~isClosing /\ lease.owner = "self"
         /\ lease.state \in {"opening", "reconnecting"} \/ (opener[a] = "failed" /\ active = a)
    /\ opener[a] = "failed" /\ ~intentional => active = Null \/ (active = a /\ a \notin proven)
    /\ opener[a] = "opened" =>
         /\ late = {} /\ ~isConnected
         /\ ~intentional => active = a /\ task[a] = "none"
         /\ intentional =>
              \/ stopPc = "detach" /\ active = a
              \/ stopPc = "shut" /\ active = Null /\ stopConn = a /\ task[a] # "none"

\* The registry, the session and stop() agree on the lease, and it is not kept for nothing.
LeaseOK ==
  /\ lease.owner = "none" => lease = Free
  /\ lease.owner = "self" =>
       /\ lease.id # 0 /\ lease.state # "free"
       /\ lease.id = IF Detached THEN stopLease.id ELSE held.id
       /\ \A e \in late : e.lease.id = lease.id
       /\ pending # Null /\ intentional => stopPc # "none" \/ late # {}
       /\ active = Null /\ pending = Null /\ ~timer =>
            \/ stopPc # "none" \/ late # {}
            \/ \E a \in Attempts : opener[a] = "failed" /\ ~intentional
  /\ Detached => held.id = 0
  /\ held.id # 0 => held.gen = gen

\* What the flags say.
FlagsOK ==
  /\ isConnecting =>
       /\ ~intentional
       /\ starting # "none" \/ (gen \in Attempts /\ Running(gen) /\ gen \notin byReconnect)
  /\ isClosing => stopPc # "none" \/ ~NoDisc \/ starting # "none"
  /\ active # Null /\ active = gen /\ active \in committed /\ stopPc = "none" => ~intentional
  /\ isConnected /\ stopPc = "none" =>
       /\ gen \in Attempts /\ active = gen /\ gen \in committed /\ gen \in open
       /\ lease.state = "connected" /\ opener[gen] = "done" /\ task[gen] = "none"
       /\ disc[gen] = "none" /\ starting = "none" /\ ~intentional

\* An unsafe RX boundary is latched.
RxOK == \A a \in Attempts : rx[a] = "unsafe" => latch

Inv ==
  /\ Types /\ AttemptsOK /\ LiveOK /\ RefsOK /\ StartOK /\ DiscOK /\ TimerOK /\ RunningOK
  /\ LeaseOK /\ FlagsOK /\ RxOK

-----------------------------------------------------------------------------
\* Null names no attempt, and the next generation is one within the bound.
LEMMA AttemptFacts ==
  /\ Attempts \subseteq Nat /\ Null \notin Attempts
  /\ \A n \in Nat : n + 1 \in Attempts <=> n < MaxGenerations
BY BoundsAssumption DEF Attempts, Null

(* The lease operators, so that no later proof opens a lease record. *)

\* The fields of the free entry and of no lease.
LEMMA FreeFacts ==
  /\ Free \in LeaseType /\ Free.owner = "none" /\ Free.id = 0 /\ Free.state = "free"
  /\ NoLease \in HeldLeases /\ NoLease.id = 0 /\ NoLease.gen = 0
BY DEF Free, NoLease, LeaseType, HeldLeases, HeldStates

\* A transition changes at most the state of the lease, of the registry's and of the session's.
LEMMA TransitionFacts ==
  ASSUME NEW h \in HeldLeases, NEW g, NEW to \in HeldStates, lease \in LeaseType,
         Transition(h, g, to)
  PROVE  /\ lease' \in LeaseType /\ held' \in HeldLeases
         /\ lease'.owner = lease.owner /\ lease'.id = lease.id
         /\ held'.id = h.id /\ held'.gen = h.gen
         /\ lease'.state = IF TransitionSucceeds(h, g, to) THEN to ELSE lease.state
         /\ lease' = lease \/ lease.owner = "self"
<1>1. CASE TransitionSucceeds(h, g, to)
  <2>1. lease' = [lease EXCEPT !.state = to] /\ held' = [h EXCEPT !.state = to]
    BY <1>1 DEF Transition
  <2>2. lease.owner = "self"
    BY <1>1 DEF TransitionSucceeds, MayTransition
  <2> QED
    BY <1>1, <2>1, <2>2 DEF LeaseType, HeldLeases
<1>2. CASE ~TransitionSucceeds(h, g, to)
  BY <1>2 DEF Transition
<1> QED
  BY <1>1, <1>2

\* When the registry grants a transition.
LEMMA SucceedsFacts ==
  ASSUME NEW h, NEW g, NEW to, lease \in LeaseType
  PROVE  /\ TransitionSucceeds(h, g, to) => h.id # 0 /\ h.gen = g /\ lease.owner = "self" /\ lease.id = h.id
         /\ to = "closing" \/ to = "connected" =>
              (h.id # 0 /\ h.gen = g /\ lease.owner = "self" /\ lease.id = h.id
               /\ lease.state \in {"opening", "reconnecting"} => TransitionSucceeds(h, g, to))
         /\ to = "reconnecting" =>
              (h.id # 0 /\ h.gen = g /\ lease.owner = "self" /\ lease.id = h.id
               /\ lease.state = "connected" => TransitionSucceeds(h, g, to))
<1>1. /\ ALLOWED_TRANSITIONS["opening"] = {"connected", "failed", "closing"}
      /\ ALLOWED_TRANSITIONS["connected"] = {"reconnecting", "failed", "closing"}
      /\ ALLOWED_TRANSITIONS["reconnecting"] = {"connected", "failed", "closing"}
  BY DEF ALLOWED_TRANSITIONS
<1> QED
  BY <1>1 DEF TransitionSucceeds, MayTransition

\* release() frees this session's lease of that id, and nothing else.
LEMMA ReleaseFacts ==
  ASSUME NEW id, lease \in LeaseType, Release(id)
  PROVE  /\ lease' \in LeaseType
         /\ \/ lease' = lease /\ ~(lease.owner = "self" /\ lease.id = id)
            \/ lease' = Free /\ lease'.owner = "none" /\ lease.owner = "self" /\ lease.id = id
BY FreeFacts DEF Release

\* failAndRelease() leaves both as they are, or clears the session's and frees the registry's
\* lease of its id.
LEMMA FailAndReleaseFacts ==
  ASSUME NEW h \in HeldLeases, NEW g, lease \in LeaseType, FailAndRelease(h, g)
  PROVE  /\ lease' \in LeaseType /\ held' \in HeldLeases
         /\ \/ held' = h /\ lease' = lease /\ (h.id = 0 \/ h.gen # g)
            \/ /\ held' = NoLease /\ held'.id = 0
               /\ lease' = lease /\ ~(lease.owner = "self" /\ lease.id = h.id)
            \/ /\ held' = NoLease /\ held'.id = 0
               /\ lease' = Free /\ lease'.owner = "none" /\ lease.owner = "self" /\ lease.id = h.id
BY FreeFacts, ReleaseFacts DEF FailAndRelease

\* adoptGeneration() changes only the generation of a lease that is held.
LEMMA AdoptFacts ==
  ASSUME NEW h \in HeldLeases, NEW g \in Nat
  PROVE  /\ AdoptGeneration(h, g) \in HeldLeases /\ AdoptGeneration(h, g).id = h.id
         /\ AdoptGeneration(h, g).id # 0 => AdoptGeneration(h, g).gen = g
BY DEF AdoptGeneration, HeldLeases

-----------------------------------------------------------------------------
(* Every step keeps the invariant: what the step does in flat facts, then  *)
(* one step per group.                                                     *)

\* The initial state: no attempt, no lease.
LEMMA InitInv == Init => Inv
<1> SUFFICES ASSUME Init PROVE Inv
  OBVIOUS
<1> USE AttemptFacts DEF Init
<1>1. Types
  BY DEF Types, LeaseType, HeldLeases, HeldStates, Free, NoLease, Null
<1>2. AttemptsOK /\ LiveOK
  BY <1>1 DEF AttemptsOK, LiveOK, Running, Live, Types, InOpenConnection
<1>3. RefsOK /\ StartOK /\ DiscOK
  BY DEF RefsOK, StartOK, DiscOK, Detached
<1>4. TimerOK /\ RunningOK
  BY DEF TimerOK, RunningOK, Running
<1>5. LeaseOK /\ FlagsOK /\ RxOK
  BY DEF LeaseOK, FlagsOK, RxOK, Detached, Free, NoLease
<1> QED
  BY <1>1, <1>2, <1>3, <1>4, <1>5 DEF Inv

\* The drain of the RX boundary: an unsafe one is latched.
LEMMA DrainsStep ==
  ASSUME Inv, NEW a \in Attempts, ShutdownDrains(a)
  PROVE  Inv'
<1> USE AttemptFacts
<1> USE DEF Inv, ShutdownDrains, leaseVars, flagVars, timerVars, attemptVars, startVars, stopVars
<1>1. Types'
  BY DEF Types
<1>0. /\ task \in [Attempts -> {"none", "rx", "close"}]
      /\ task' = [task EXCEPT ![a] = "close"] /\ task[a] = "rx"
      /\ rx \in [Attempts -> {"none", "guaranteed", "unsafe"}]
  BY DEF Types
<1>2. AttemptsOK'
  BY <1>0 DEF AttemptsOK, Running, Live, InOpenConnection
<1>3. LiveOK'
  BY <1>0 DEF LiveOK, Live, Detached
<1>4. RefsOK'
  BY <1>0 DEF RefsOK, Detached, NoDisc
<1>5. StartOK'
  BY <1>0 DEF StartOK, Detached, NoDisc, Rest, Running, StartReady
<1>6. DiscOK'
  BY <1>0 DEF DiscOK, Detached, Rest, Running, DisconnectReady
<1>7. TimerOK'
  BY <1>0 DEF TimerOK, Rest, Running
<1>8. RunningOK'
  BY <1>0 DEF RunningOK, Running
<1>9. LeaseOK'
  BY <1>0 DEF LeaseOK, Detached
<1>10. FlagsOK'
  BY <1>0 DEF FlagsOK, NoDisc, Running
<1>11. RxOK'
  BY <1>0 DEF RxOK
<1> QED
  BY <1>1, <1>2, <1>3, <1>4, <1>5, <1>6, <1>7, <1>8, <1>9, <1>10, <1>11 DEF Inv

\* The close is acknowledged or not.  No opener is about to be resumed, so none is left beside
\* a connection whose teardown is over.
LEMMA ClosesStep ==
  ASSUME Inv, NEW a \in Attempts, ShutdownCloses(a), Quiet
  PROVE  Inv'
<1> USE AttemptFacts
<1> USE DEF ShutdownCloses, leaseVars, flagVars, timerVars, attemptVars, startVars, stopVars
<1>0. /\ task \in [Attempts -> {"none", "rx", "close"}]
      /\ task' = [task EXCEPT ![a] = "none"] /\ task[a] = "close"
      /\ opener[a] \notin {"opened", "failed"}
  BY DEF Inv, Types, Quiet, OpenerReady
<1>1. Types'
  <2>1. open' \subseteq Attempts
    BY DEF Inv, Types
  <2> QED
    BY <2>1 DEF Inv, Types
<1>2. AttemptsOK'
  BY <1>0 DEF Inv, AttemptsOK, Running, Live, InOpenConnection
<1>3. LiveOK'
  BY <1>0 DEF Inv, LiveOK, Live, Detached
<1>4. RefsOK'
  BY <1>0 DEF Inv, RefsOK, Detached, NoDisc
<1>5. StartOK'
  BY <1>0 DEF Inv, StartOK, Detached, NoDisc, Rest, Running, StartReady
<1>6. DiscOK'
  BY <1>0 DEF Inv, DiscOK, Detached, Rest, Running, DisconnectReady
<1>7. TimerOK'
  BY <1>0 DEF Inv, TimerOK, Rest, Running
<1>8. RunningOK'
  BY <1>0 DEF Inv, RunningOK, Running
<1>9. LeaseOK'
  BY <1>0 DEF Inv, LeaseOK, Detached
<1>10. FlagsOK'
  BY <1>0 DEF Inv, FlagsOK, NoDisc, Running
<1>11. RxOK'
  BY <1>0 DEF Inv, RxOK
<1> QED
  BY <1>1, <1>2, <1>3, <1>4, <1>5, <1>6, <1>7, <1>8, <1>9, <1>10, <1>11 DEF Inv

\* The opener of attempt a takes a step on, or into the cleanup, where its teardown begins.
LEMMA OpenerStep ==
  ASSUME Inv, NEW a \in Attempts, opener[a] \in {"open", "watch", "lines"},
         NEW pc \in {"watch", "lines", "cleanup"},
         opener' = [opener EXCEPT ![a] = pc],
         task' = IF pc = "cleanup" THEN [task EXCEPT ![a] = "rx"] ELSE task,
         open' = open \/ (pc = "cleanup" /\ open' = open \ {a}),
         UNCHANGED <<lease, leaseSeq, held, gen, intentional, isConnecting, isConnected, isClosing,
                     reconnecting, timer, active, pending, byReconnect, committed, proven, rx,
                     disc, starting, startPrev, stopPc, stopGen, stopConn, stopOpening,
                     stopLease, late, latch>>
  PROVE  Inv'
<1> USE AttemptFacts
<1>0. /\ task \in [Attempts -> {"none", "rx", "close"}]
      /\ opener \in [Attempts -> InOpenConnection \cup {"none", "opened", "failed", "done"}]
      /\ opener'[a] = pc /\ task[a] = "none" /\ (task'[a] # "none" => pc = "cleanup")
      /\ \A b \in Attempts : b # a => opener'[b] = opener[b] /\ task'[b] = task[b]
      /\ \A b \in Attempts : (opener'[b] = "none" <=> opener[b] = "none") /\ (Running(b)' <=> Running(b))
  BY DEF Inv, Types, AttemptsOK, InOpenConnection, Running
<1>1. Types'
  <2>1. open' \subseteq Attempts
    BY DEF Inv, Types
  <2>2. task' \in [Attempts -> {"none", "rx", "close"}]
    BY <1>0
  <2>3. opener' \in [Attempts -> InOpenConnection \cup {"none", "opened", "failed", "done"}]
    BY <1>0 DEF InOpenConnection
  <2> QED
    BY <2>1, <2>2, <2>3 DEF Inv, Types
<1>2. AttemptsOK'
  BY <1>0 DEF Inv, AttemptsOK, Running, Live, InOpenConnection
<1>3. LiveOK'
  BY <1>0 DEF Inv, LiveOK, Live, Detached
<1>4. RefsOK'
  BY <1>0 DEF Inv, Types, RefsOK, Detached, NoDisc
<1>5. StartOK'
  BY <1>0 DEF Inv, Types, StartOK, Detached, NoDisc, Rest, Running, StartReady
<1>6. DiscOK'
  BY <1>0 DEF Inv, DiscOK, Detached, Rest, Running, DisconnectReady
<1>7. TimerOK'
  BY <1>0 DEF Inv, Types, TimerOK, Rest, Running
<1>8. RunningOK'
  BY <1>0 DEF Inv, RunningOK, Running
<1>9. LeaseOK'
  BY <1>0 DEF Inv, LeaseOK, Detached
<1>10. FlagsOK'
  BY <1>0 DEF Inv, Types, FlagsOK, NoDisc, Running
<1>11. RxOK'
  BY <1>0 DEF Inv, RxOK
<1> QED
  BY <1>1, <1>2, <1>3, <1>4, <1>5, <1>6, <1>7, <1>8, <1>9, <1>10, <1>11 DEF Inv

\* port.open() answers.
LEMMA OpenReturnsStep ==
  ASSUME Inv, NEW a \in Attempts, OpenReturns(a)
  PROVE  Inv'
<1>1. /\ opener[a] \in {"open", "watch", "lines"} /\ task[a] = "none"
      /\ task \in [Attempts -> {"none", "rx", "close"}]
  BY DEF Inv, AttemptsOK, OpenReturns, Types
<1>2. PICK pc \in {"watch", "lines", "cleanup"} :
         /\ opener' = [opener EXCEPT ![a] = pc]
         /\ task' = IF pc = "cleanup" THEN [task EXCEPT ![a] = "rx"] ELSE task
         /\ open' = open \/ (pc = "cleanup" /\ open' = open \ {a})
  BY <1>1 DEF OpenReturns, ProceedOrCleanup, OpenerGoesTo, BeginCleanup, JoinShutdown
<1> QED
  BY <1>1, <1>2, OpenerStep
     DEF OpenReturns, leaseVars, flagVars, timerVars, attemptVars, startVars, stopVars

\* port.watch() answers.
LEMMA WatchReturnsStep ==
  ASSUME Inv, NEW a \in Attempts, WatchReturns(a)
  PROVE  Inv'
<1>1. /\ opener[a] \in {"open", "watch", "lines"} /\ task[a] = "none"
      /\ task \in [Attempts -> {"none", "rx", "close"}]
  BY DEF Inv, AttemptsOK, WatchReturns, Types
<1>2. PICK pc \in {"watch", "lines", "cleanup"} :
         /\ opener' = [opener EXCEPT ![a] = pc]
         /\ task' = IF pc = "cleanup" THEN [task EXCEPT ![a] = "rx"] ELSE task
  BY <1>1 DEF WatchReturns, ProceedOrCleanup, OpenerGoesTo, BeginCleanup, JoinShutdown
<1> QED
  BY <1>1, <1>2, OpenerStep
     DEF WatchReturns, leaseVars, flagVars, timerVars, startVars, stopVars, nativeVars

\* The open commits: the attempt becomes the active connection.
LEMMA CommitStep ==
  ASSUME Inv, NEW a \in Attempts, LinesReturn(a), Current(a)
  PROVE  Inv'
<1> USE AttemptFacts
<1>f. UNCHANGED <<lease, leaseSeq, held, gen, intentional, isConnecting, isConnected, isClosing,
                  reconnecting, timer, byReconnect, open, proven, rx, disc, starting,
                  startPrev, stopPc, stopGen, stopConn, stopOpening, stopLease, late, latch,
                  task>>
  BY DEF LinesReturn, leaseVars, flagVars, timerVars, attemptVars, nativeVars, startVars, stopVars
<1>0. /\ opener \in [Attempts -> InOpenConnection \cup {"none", "opened", "failed", "done"}]
      /\ opener[a] = "lines" /\ a = gen /\ ~intentional
      /\ opener' = [opener EXCEPT ![a] = "opened"] /\ opener'[a] = "opened"
      /\ committed' = committed \cup {a} /\ active' = a /\ pending = a /\ pending' = Null
      /\ \A b \in Attempts : b # a => opener'[b] = opener[b]
      /\ \A b \in Attempts : (opener'[b] = "none" <=> opener[b] = "none") /\ (Running(b)' <=> Running(b))
  BY DEF Inv, Types, AttemptsOK, InOpenConnection, Running, LinesReturn, Current, OpenerGoesTo,
         WithoutPending
<1>a. /\ stopPc = "none" /\ ~Detached /\ late = {} /\ starting = "none" /\ NoDisc /\ ~timer
      /\ ~isConnected /\ a \notin proven /\ task[a] = "none" /\ a \in open
  BY <1>0 DEF Inv, RefsOK, TimerOK, StartOK, DiscOK, NoDisc, Rest, Running, FlagsOK, AttemptsOK,
              Live, Detached
<1>1. Types'
  BY <1>f, <1>0, <1>a DEF Inv, Types
<1>2. AttemptsOK'
  BY <1>f, <1>0, <1>a DEF Inv, AttemptsOK, Running, Live, InOpenConnection
<1>3. LiveOK'
  BY <1>f, <1>0, <1>a DEF Inv, LiveOK, Live, Detached
<1>4. RefsOK'
  BY <1>f, <1>0, <1>a DEF Inv, Types, RefsOK, Detached, NoDisc
<1>5. StartOK'
  BY <1>f, <1>0, <1>a DEF Inv, Types, StartOK, Detached, NoDisc, Rest, Running, StartReady
<1>6. DiscOK'
  BY <1>f, <1>0, <1>a DEF Inv, DiscOK, Detached, Rest, Running, DisconnectReady
<1>7. TimerOK'
  BY <1>f, <1>0, <1>a DEF Inv, Types, TimerOK, Rest, Running
<1>8. RunningOK'
  BY <1>f, <1>0, <1>a DEF Inv, RunningOK, Running
<1>9. LeaseOK'
  BY <1>f, <1>0, <1>a DEF Inv, LeaseOK, Detached
<1>10. FlagsOK'
  BY <1>f, <1>0, <1>a DEF Inv, Types, FlagsOK, NoDisc, Running
<1>11. RxOK'
  BY <1>f, <1>0, <1>a DEF Inv, RxOK
<1> QED
  BY <1>1, <1>2, <1>3, <1>4, <1>5, <1>6, <1>7, <1>8, <1>9, <1>10, <1>11 DEF Inv

\* The line writes are over.
LEMMA LinesReturnStep ==
  ASSUME Inv, NEW a \in Attempts, LinesReturn(a)
  PROVE  Inv'
<1>1. CASE Current(a)
  BY <1>1, CommitStep
<1>2. CASE ~Current(a)
  <2>1. opener[a] \in {"open", "watch", "lines"} /\ task[a] = "none"
    BY DEF Inv, AttemptsOK, LinesReturn
  <2>2. /\ opener' = [opener EXCEPT ![a] = "cleanup"]
        /\ task' = [task EXCEPT ![a] = "rx"]
        /\ UNCHANGED <<committed, active, pending>>
    BY <1>2, <2>1 DEF LinesReturn, OpenerGoesTo, BeginCleanup, JoinShutdown
  <2> QED
    BY <2>1, <2>2, OpenerStep
       DEF LinesReturn, leaseVars, flagVars, timerVars, startVars, stopVars, nativeVars
<1> QED
  BY <1>1, <1>2

\* The cleanup of an attempt that did not open is over.
LEMMA CleanupReturnsStep ==
  ASSUME Inv, NEW a \in Attempts, CleanupReturns(a)
  PROVE  Inv'
<1> USE AttemptFacts
<1>f. UNCHANGED <<leaseSeq, gen, intentional, isConnecting, isClosing, reconnecting, timer,
                  byReconnect, committed, open, proven, rx, disc, starting, startPrev, stopPc,
                  stopGen, stopConn, stopOpening, stopLease, late, latch, task>>
  BY DEF CleanupReturns, leaseVars, flagVars, timerVars, attemptVars, nativeVars, startVars, stopVars
<1>0. /\ opener \in [Attempts -> InOpenConnection \cup {"none", "opened", "failed", "done"}]
      /\ opener[a] = "cleanup" /\ task[a] = "none" /\ pending = a /\ pending' = Null /\ active = Null
      /\ opener' = [opener EXCEPT ![a] = "failed"] /\ opener'[a] = "failed"
      /\ \A b \in Attempts : b # a => opener'[b] = opener[b]
      /\ \A b \in Attempts : (opener'[b] = "none" <=> opener[b] = "none") /\ (Running(b)' <=> Running(b))
      /\ Running(a) /\ a \notin committed /\ \A b \in Attempts : Running(b) => b = a
  BY DEF Inv, Types, AttemptsOK, RefsOK, InOpenConnection, Running, CleanupReturns, OpenerGoesTo,
         WithoutPending
<1>l. /\ lease' \in LeaseType /\ held' \in HeldLeases
      /\ lease'.owner = lease.owner /\ lease'.id = lease.id /\ held'.id = held.id
      /\ held'.gen = held.gen /\ (lease' = lease \/ lease.owner = "self")
      /\ lease'.state \in {lease.state, "closing"}
      /\ \/ active' = active /\ isConnected' = isConnected /\ lease' = lease /\ a \in proven
         \/ active' = a /\ ~isConnected' /\ a \notin proven
  <2>1. lease \in LeaseType /\ held \in HeldLeases
    BY DEF Inv, Types
  <2>2. CASE a \in proven
    BY <2>1, <2>2 DEF CleanupReturns
  <2>3. CASE a \notin proven
    BY <2>1, <2>3, TransitionFacts DEF CleanupReturns, HeldStates
  <2> QED
    BY <2>2, <2>3
<1>a. /\ starting = "none" /\ NoDisc /\ ~timer
      /\ ~(isConnected /\ stopPc = "none")
  BY <1>0 DEF Inv, StartOK, DiscOK, NoDisc, Rest, TimerOK, FlagsOK, Running
<1>1. Types'
  BY <1>f, <1>0, <1>l, <1>a DEF Inv, Types
<1>2. AttemptsOK'
  BY <1>f, <1>0, <1>l, <1>a DEF Inv, AttemptsOK, Running, Live, InOpenConnection
<1>3. LiveOK'
  BY <1>f, <1>0, <1>l, <1>a DEF Inv, LiveOK, Live, Detached
<1>4. RefsOK'
  BY <1>f, <1>0, <1>l, <1>a DEF Inv, Types, RefsOK, Detached, NoDisc
<1>5. StartOK'
  BY <1>f, <1>0, <1>l, <1>a DEF Inv, Types, StartOK, Detached, NoDisc, Rest, Running, StartReady
<1>6. DiscOK'
  BY <1>f, <1>0, <1>l, <1>a DEF Inv, DiscOK, Detached, Rest, Running, DisconnectReady
<1>7. TimerOK'
  BY <1>f, <1>0, <1>l, <1>a DEF Inv, Types, TimerOK, Rest, Running
<1>8. RunningOK'
  BY <1>f, <1>0, <1>l, <1>a DEF Inv, RunningOK, Running
<1>9. LeaseOK'
  BY <1>f, <1>0, <1>l, <1>a DEF Inv, LeaseOK, Detached
<1>10. FlagsOK'
  BY <1>f, <1>0, <1>l, <1>a DEF Inv, Types, FlagsOK, NoDisc, Running
<1>11. RxOK'
  BY <1>f, <1>0, <1>l, <1>a DEF Inv, RxOK
<1> QED
  BY <1>1, <1>2, <1>3, <1>4, <1>5, <1>6, <1>7, <1>8, <1>9, <1>10, <1>11 DEF Inv

\* The open has resolved: stop() has taken the connection and the lease, or the lease of the
\* current attempt becomes connected.
LEMMA OpenedResumesStep ==
  ASSUME Inv, NEW a \in Attempts, OpenedResumes(a), stopPc # "detach"
  PROVE  Inv'
<1> USE AttemptFacts
<1>f. UNCHANGED <<leaseSeq, gen, intentional, isClosing, timer, active, pending, byReconnect,
                  committed, open, proven, rx, disc, starting, startPrev, stopPc, stopGen,
                  stopConn, stopOpening, stopLease, late, latch, task>>
  BY DEF OpenedResumes, leaseVars, flagVars, timerVars, attemptVars, nativeVars, startVars, stopVars
<1>0. /\ opener \in [Attempts -> InOpenConnection \cup {"none", "opened", "failed", "done"}]
      /\ opener[a] = "opened" /\ opener' = [opener EXCEPT ![a] = "done"] /\ opener'[a] = "done"
      /\ \A b \in Attempts : b # a => opener'[b] = opener[b]
      /\ \A b \in Attempts : (opener'[b] = "none" <=> opener[b] = "none") /\ ~Running(b)'
      /\ Running(a) /\ a \in committed /\ a \in open /\ late = {} /\ ~isConnected
      /\ \A b \in Attempts : Running(b) => b = a
  BY DEF Inv, Types, AttemptsOK, RunningOK, Running, OpenedResumes, OpenerGoesTo
<1>a. /\ starting = "none" /\ NoDisc /\ ~timer /\ pending = Null
      /\ a \in byReconnect => ~isConnecting
      /\ a \notin byReconnect => ~reconnecting
  BY <1>0 DEF Inv, Types, AttemptsOK, StartOK, DiscOK, NoDisc, Rest, TimerOK, FlagsOK, Running,
              InOpenConnection
<1>c. ~isConnecting'
  BY <1>0, <1>a DEF OpenedResumes, FinishStart, Inv, FlagsOK, RunningOK, Running
<1>l. \/ /\ intentional /\ stopPc = "shut" /\ active = Null /\ stopConn = a
         /\ UNCHANGED <<lease, held, isConnected, reconnecting>>
      \/ /\ ~intentional /\ stopPc = "none" /\ a = gen /\ active = a /\ task[a] = "none"
         /\ ~reconnecting'
         /\ lease.owner = "self" /\ lease' \in LeaseType /\ held' \in HeldLeases
         /\ lease'.owner = "self" /\ lease'.id = lease.id /\ lease'.state = "connected"
         /\ held'.id = held.id /\ held'.gen = held.gen
  <2>1. lease \in LeaseType /\ held \in HeldLeases
    BY DEF Inv, Types
  <2>2. CASE intentional
    <3>1. stopPc = "shut" /\ active = Null /\ stopConn = a /\ held.id = 0
      BY <1>0, <2>2 DEF Inv, RunningOK, LeaseOK, Detached
    <3>2. FailAndReleaseLease(Null, held, a) /\ UNCHANGED <<isConnected, reconnecting>>
      BY <2>2 DEF OpenedResumes, Stale
    <3>3. FailAndRelease(held, a)
      BY <3>2 DEF FailAndReleaseLease, Unproven
    <3> QED
      BY <2>2, <3>1, <3>2, <3>3 DEF FailAndRelease
  <2>3. CASE ~intentional
    <3>1. /\ a = gen /\ active = a /\ task[a] = "none" /\ stopPc = "none" /\ lease.owner = "self"
          /\ lease.state \in {"opening", "reconnecting"} /\ held.id = lease.id /\ held.id # 0
          /\ held.gen = a
      BY <1>0, <2>3 DEF Inv, RunningOK, RefsOK, LeaseOK, Detached
    <3>2. Transition(held, a, "connected") /\ ~reconnecting'
      BY <1>a, <2>3, <3>1 DEF OpenedResumes, Stale
    <3>3. TransitionSucceeds(held, a, "connected")
      BY <2>1, <3>1, SucceedsFacts
    <3> QED
      BY <2>1, <2>3, <3>1, <3>2, <3>3, TransitionFacts DEF HeldStates
  <2> QED
    BY <2>2, <2>3
<1>1. Types'
  BY <1>f, <1>0, <1>l, <1>a, <1>c DEF Inv, Types
<1>2. AttemptsOK'
  BY <1>f, <1>0, <1>l, <1>a, <1>c DEF Inv, AttemptsOK, Running, Live, InOpenConnection
<1>3. LiveOK'
  BY <1>f, <1>0, <1>l, <1>a, <1>c DEF Inv, LiveOK, Live, Detached
<1>4. RefsOK'
  BY <1>f, <1>0, <1>l, <1>a, <1>c DEF Inv, Types, RefsOK, Detached, NoDisc
<1>5. StartOK'
  BY <1>f, <1>0, <1>l, <1>a, <1>c DEF Inv, Types, StartOK, Detached, NoDisc, Rest, Running, StartReady
<1>6. DiscOK'
  BY <1>f, <1>0, <1>l, <1>a, <1>c DEF Inv, DiscOK, Detached, Rest, Running, DisconnectReady
<1>7. TimerOK'
  BY <1>f, <1>0, <1>l, <1>a, <1>c DEF Inv, Types, TimerOK, Rest, Running
<1>8. RunningOK'
  BY <1>f, <1>0, <1>l, <1>a, <1>c DEF Inv, RunningOK, Running
<1>9. LeaseOK'
  BY <1>f, <1>0, <1>l, <1>a, <1>c DEF Inv, LeaseOK, Detached
<1>10. FlagsOK'
  BY <1>f, <1>0, <1>l, <1>a, <1>c DEF Inv, Types, FlagsOK, NoDisc, Running
<1>11. RxOK'
  BY <1>f, <1>0, <1>l, <1>a, <1>c DEF Inv, RxOK
<1> QED
  BY <1>1, <1>2, <1>3, <1>4, <1>5, <1>6, <1>7, <1>8, <1>9, <1>10, <1>11 DEF Inv

\* The open was rejected: the lease is given back, kept for an unclosed attempt, or kept for
\* the timer.
LEMMA FailedResumesStep ==
  ASSUME Inv, NEW a \in Attempts, FailedResumes(a)
  PROVE  Inv'
<1> USE AttemptFacts
<1>f. UNCHANGED <<leaseSeq, gen, intentional, isClosing, active, pending, byReconnect,
                  committed, open, proven, rx, disc, starting, startPrev, stopPc, stopGen,
                  stopConn, stopOpening, stopLease, late, latch, task>>
  BY DEF FailedResumes, leaseVars, flagVars, timerVars, attemptVars, nativeVars, startVars, stopVars
<1>0. /\ opener \in [Attempts -> InOpenConnection \cup {"none", "opened", "failed", "done"}]
      /\ opener[a] = "failed" /\ opener' = [opener EXCEPT ![a] = "done"] /\ opener'[a] = "done"
      /\ \A b \in Attempts : b # a => opener'[b] = opener[b]
      /\ \A b \in Attempts : (opener'[b] = "none" <=> opener[b] = "none") /\ ~Running(b)'
      /\ Running(a) /\ \A b \in Attempts : Running(b) => b = a
  BY DEF Inv, Types, AttemptsOK, Running, FailedResumes, OpenerGoesTo
<1>a. /\ starting = "none" /\ NoDisc /\ ~timer /\ pending = Null
      /\ a \in byReconnect => ~isConnecting
      /\ a \notin byReconnect => ~reconnecting
      /\ ~intentional => a = gen /\ ~isClosing /\ stopPc = "none" /\ late = {}
  BY <1>0 DEF Inv, Types, AttemptsOK, StartOK, DiscOK, NoDisc, Rest, TimerOK, FlagsOK, Running,
              InOpenConnection, RunningOK, RefsOK
<1>c. ~isConnecting'
  BY <1>0, <1>a DEF FailedResumes, FinishStart, Inv, FlagsOK
<1>l. \/ /\ intentional /\ UNCHANGED <<lease, held, isConnected, reconnecting, timer>>
      \/ /\ ~intentional /\ active = a /\ a \notin proven
         /\ UNCHANGED <<lease, held>> /\ ~reconnecting' /\ ~timer'
         /\ (isConnected' => isConnected)
      \/ /\ ~intentional /\ active = Null
         /\ lease' = Free /\ held' = NoLease /\ ~reconnecting' /\ ~timer' /\ ~isConnected'
      \/ /\ ~intentional /\ active = Null
         /\ UNCHANGED <<lease, held>> /\ timer' /\ (isConnected' => isConnected)
  <2>1. lease \in LeaseType /\ held \in HeldLeases
    BY DEF Inv, Types
  <2>2. CASE intentional
    BY <2>2 DEF FailedResumes, Stale
  <2>3. CASE ~intentional /\ active = a
    <3>1. a \notin proven /\ Unproven(active)
      BY <1>0, <2>3 DEF Inv, RunningOK, Unproven
    <3> QED
      BY <1>a, <2>3, <3>1 DEF FailedResumes, Stale, MayScheduleReconnect
  <2>4. CASE ~intentional /\ active = Null /\ a \notin byReconnect
    <3>1. lease.owner = "self" /\ held.id = lease.id /\ held.id # 0 /\ held.gen = a
      BY <1>0, <1>a, <2>4 DEF Inv, RunningOK, LeaseOK, Detached
    <3>2. FailAndRelease(held, a) /\ ~reconnecting' /\ ~timer' /\ ~isConnected'
      BY <1>a, <2>4 DEF FailedResumes, Stale, FailAndReleaseLease, Unproven
    <3> QED
      BY <2>4, <3>1, <3>2 DEF FailAndRelease, Release
  <2>5. CASE ~intentional /\ active = Null /\ a \in byReconnect
    <3>1. ~Unproven(active) /\ MayScheduleReconnect(active, isClosing)
      BY <1>a, <2>5 DEF MayScheduleReconnect, Unproven
    <3> QED
      BY <1>a, <2>5, <3>1 DEF FailedResumes, Stale
  <2>6. ~intentional => active = a \/ active = Null
    BY <1>0 DEF Inv, RunningOK
  <2> QED
    BY <2>2, <2>3, <2>4, <2>5, <2>6
<1>d. /\ Free \in LeaseType /\ Free.owner = "none" /\ NoLease \in HeldLeases /\ NoLease.id = 0
      /\ ~intentional /\ active # a =>
           lease.owner = "self" /\ lease.state \in {"opening", "reconnecting"}
      /\ ~intentional /\ active = Null => \A b \in Attempts : b \in proven \/ opener[b] = "none"
  BY <1>0, <1>a, FreeFacts DEF Inv, RunningOK, LiveOK, Live, Detached
<1>1. Types'
  BY <1>f, <1>0, <1>l, <1>a, <1>c, <1>d DEF Inv, Types
<1>2. AttemptsOK'
  BY <1>f, <1>0, <1>l, <1>a, <1>c, <1>d DEF Inv, AttemptsOK, Running, Live, InOpenConnection
<1>3. LiveOK'
  BY <1>f, <1>0, <1>l, <1>a, <1>c, <1>d DEF Inv, LiveOK, Live, Detached
<1>4. RefsOK'
  BY <1>f, <1>0, <1>l, <1>a, <1>c, <1>d DEF Inv, Types, RefsOK, Detached, NoDisc
<1>5. StartOK'
  BY <1>f, <1>0, <1>l, <1>a, <1>c, <1>d DEF Inv, Types, StartOK, Detached, NoDisc, Rest, Running, StartReady
<1>6. DiscOK'
  BY <1>f, <1>0, <1>l, <1>a, <1>c, <1>d DEF Inv, DiscOK, Detached, Rest, Running, DisconnectReady
<1>7. TimerOK'
  BY <1>f, <1>0, <1>l, <1>a, <1>c, <1>d DEF Inv, Types, TimerOK, Rest, Running
<1>8. RunningOK'
  BY <1>f, <1>0, <1>l, <1>a, <1>c, <1>d DEF Inv, RunningOK, Running
<1>9. LeaseOK'
  BY <1>f, <1>0, <1>l, <1>a, <1>c, <1>d DEF Inv, LeaseOK, Detached
<1>10. FlagsOK'
  BY <1>f, <1>0, <1>l, <1>a, <1>c, <1>d DEF Inv, Types, FlagsOK, NoDisc, Running
<1>11. RxOK'
  BY <1>f, <1>0, <1>l, <1>a, <1>c, <1>d DEF Inv, RxOK
<1> QED
  BY <1>1, <1>2, <1>3, <1>4, <1>5, <1>6, <1>7, <1>8, <1>9, <1>10, <1>11 DEF Inv

\* What start() does once no connection of the session is left: it is refused the lease, or
\* holds it and opens the next attempt.
LEMMA StartOpensFacts ==
  ASSUME Inv, StartOpens, gen < MaxGenerations, stopPc = "none"
  PROVE  /\ gen + 1 \in Attempts /\ gen' = gen + 1
         /\ lease' \in LeaseType /\ held' \in HeldLeases /\ leaseSeq' \in Nat
         /\ opener[gen + 1] = "none" /\ task[gen + 1] = "none" /\ disc[gen + 1] = "none"
         /\ gen + 1 \notin proven /\ gen + 1 \notin committed /\ gen + 1 \notin byReconnect
         /\ \/ /\ intentional' /\ ~isConnecting' /\ lease'.owner # "self" /\ held'.id = 0
               /\ lease' \in {lease, Free}
               /\ UNCHANGED <<opener, byReconnect, open, pending>>
            \/ /\ ~intentional' /\ isConnecting' /\ lease'.owner = "self" /\ lease'.id # 0
               /\ lease'.state \in {"opening", "reconnecting"} /\ held'.id = lease'.id
               /\ held'.gen = gen' /\ opener' = [opener EXCEPT ![gen + 1] = "open"]
               /\ byReconnect' = byReconnect /\ open' = open \cup {gen + 1}
               /\ pending' = gen + 1
<1> DEFINE g == gen + 1
           h == AdoptGeneration(held, g)
<1> USE AttemptFacts
<1>1. /\ lease \in LeaseType /\ held \in HeldLeases /\ gen \in Nat /\ leaseSeq \in Nat
      /\ g \in Attempts /\ gen' = g /\ g \in Nat
  BY DEF Inv, Types, StartOpens
<1>2. opener[g] = "none"
  BY <1>1 DEF Inv, AttemptsOK
<1>3. /\ task[g] = "none" /\ disc[g] = "none" /\ g \notin proven /\ g \notin committed
      /\ g \notin byReconnect
  BY <1>1, <1>2 DEF Inv, AttemptsOK
<1>4. /\ lease.owner = "self" => held.id = lease.id /\ lease.id # 0 /\ lease.state # "free"
      /\ lease.owner = "none" => lease = Free
  BY DEF Inv, LeaseOK, Detached
<1>5. CASE AcquireRefused
  <2>1. /\ intentional' /\ ~isConnecting' /\ FailAndRelease(h, g)
        /\ UNCHANGED <<leaseSeq, opener, byReconnect, open, pending>>
    BY <1>5 DEF StartOpens, FailAndReleaseLease, Unproven
  <2>2. h \in HeldLeases /\ h.id = held.id /\ (h.id # 0 => h.gen = g)
    BY <1>1, AdoptFacts
  <2>3. /\ lease' \in LeaseType /\ held' \in HeldLeases /\ held'.id = 0
        /\ lease' \in {lease, Free} /\ (lease.owner = "self" => lease' = Free)
    <3> HIDE DEF h
    <3> QED
      BY <1>1, <1>4, <2>1, <2>2, FailAndReleaseFacts
  <2>4. lease'.owner # "self"
    BY <2>3, FreeFacts
  <2> QED
    BY <1>1, <1>2, <1>3, <2>1, <2>3, <2>4
<1>6. CASE ~AcquireRefused
  <2> DEFINE grant == IF lease = Free
                      THEN [owner |-> "self", id |-> leaseSeq + 1, state |-> "opening"]
                      ELSE [lease EXCEPT !.state = IF @ = "connected" THEN "reconnecting" ELSE @]
  <2>1. /\ ~intentional' /\ isConnecting' /\ BeginOpen(g, "start")
        /\ lease' = grant /\ leaseSeq' = IF lease = Free THEN leaseSeq + 1 ELSE leaseSeq
        /\ held' = [gen |-> g, id |-> grant.id, state |-> grant.state]
    BY <1>6 DEF StartOpens
  <2>2. /\ grant \in LeaseType /\ grant.owner = "self" /\ grant.id # 0
        /\ grant.state \in {"opening", "reconnecting"}
    <3>1. CASE lease = Free
      BY <1>1, <3>1 DEF LeaseType, HeldStates
    <3>2. CASE lease # Free
      <4>1. lease.owner = "self" /\ lease.id # 0 /\ lease.id \in Nat
            /\ lease.state \in {"opening", "reconnecting", "connected"}
        BY <1>1, <1>4, <1>6, <3>2 DEF AcquireRefused, LeaseType, HeldStates
      <4> QED
        BY <1>1, <3>2, <4>1 DEF LeaseType, HeldStates
    <3> QED
      BY <3>1, <3>2
  <2>3. grant.id \in Nat /\ grant.state \in HeldStates
    BY <2>2 DEF LeaseType
  <2>4. held' \in HeldLeases /\ held'.id = grant.id /\ held'.gen = g
    <3> HIDE DEF grant
    <3> QED
      BY <1>1, <2>1, <2>3 DEF HeldLeases
  <2>5. /\ opener' = [opener EXCEPT ![g] = "open"] /\ byReconnect' = byReconnect
        /\ open' = open \cup {g} /\ pending' = g
    BY <2>1 DEF BeginOpen
  <2>6. leaseSeq' \in Nat
    BY <1>1, <2>1
  <2> HIDE DEF grant
  <2> QED
    BY <1>1, <1>2, <1>3, <2>1, <2>2, <2>4, <2>5, <2>6
<1> QED
  BY <1>5, <1>6

\* start() opens the next attempt when no attempt is live.
LEMMA StartOpensStep ==
  ASSUME Inv, StartOpens, gen < MaxGenerations, stopPc = "none",
         Rest, NoDisc, late = {}, pending = Null, ~isConnected, \A a \in Attempts : ~Live(a),
         active' = Null, starting' = "none", startPrev' \in Attempts \cup {Null},
         ~isClosing', ~timer', ~reconnecting',
         UNCHANGED <<isConnected, committed, proven, rx, disc, stopPc, stopGen, stopConn,
                     stopOpening, stopLease, late, latch, task>>
  PROVE  Inv'
<1> DEFINE g == gen + 1
<1> USE AttemptFacts
<1>0. /\ opener \in [Attempts -> InOpenConnection \cup {"none", "opened", "failed", "done"}]
      /\ g \in Attempts /\ gen' = g /\ gen \in Nat /\ g > gen /\ open \subseteq Attempts
      /\ \A a \in Attempts : ~Running(a) /\ disc[a] = "none" /\ a \notin open
      /\ \A a \in Attempts : opener[a] # "none" => a <= gen /\ a < g
      /\ opener[g] = "none" /\ task[g] = "none" /\ disc[g] = "none"
      /\ g \notin proven /\ g \notin committed /\ g \notin byReconnect
  <2>1. gen \in Nat /\ opener \in [Attempts -> InOpenConnection \cup {"none", "opened", "failed", "done"}]
        /\ open \subseteq Attempts
    BY DEF Inv, Types
  <2>2. \A a \in Attempts : opener[a] # "none" => a <= gen
    BY DEF Inv, AttemptsOK
  <2>3. \A a \in Attempts : ~Running(a) /\ disc[a] = "none" /\ a \notin open
    BY DEF Inv, AttemptsOK, Rest, NoDisc
  <2> QED
    BY <2>1, <2>2, <2>3, StartOpensFacts
<1>l. /\ lease' \in LeaseType /\ held' \in HeldLeases /\ leaseSeq' \in Nat
      /\ lease'.owner = "none" => lease' = Free
      /\ lease'.owner = "self" => lease'.id # 0 /\ lease'.state # "free" /\ held'.id = lease'.id
      /\ held'.id # 0 => held'.gen = gen'
  <2>1. lease.owner = "none" => lease = Free
    BY DEF Inv, LeaseOK
  <2> QED
    BY <2>1, StartOpensFacts
<1>o. \/ /\ intentional' /\ ~isConnecting' /\ lease'.owner # "self"
         /\ UNCHANGED <<opener, byReconnect, open, pending>>
      \/ /\ ~intentional' /\ isConnecting' /\ lease'.owner = "self"
         /\ lease'.state \in {"opening", "reconnecting"}
         /\ opener' = [opener EXCEPT ![g] = "open"] /\ opener'[g] = "open"
         /\ \A b \in Attempts : b # g => opener'[b] = opener[b]
         /\ UNCHANGED byReconnect /\ open' = open \cup {g} /\ pending' = g
  BY <1>0, StartOpensFacts
<1> HIDE DEF g
<1>1. Types'
  <2>1. opener' \in [Attempts -> InOpenConnection \cup {"none", "opened", "failed", "done"}]
    BY <1>0, <1>o DEF InOpenConnection
  <2>2. open' \subseteq Attempts /\ pending' \in Attempts \cup {Null} /\ gen' \in Nat
    BY <1>0, <1>o DEF Inv, Types
  <2> QED
    BY <1>l, <1>o, <2>1, <2>2 DEF Inv, Types
<1>2. AttemptsOK'
  BY <1>0, <1>l, <1>o DEF Inv, AttemptsOK, Running, Live, InOpenConnection
<1>3. LiveOK'
  BY <1>0, <1>l, <1>o DEF Inv, LiveOK, Live, Detached
<1>4. RefsOK'
  BY <1>0, <1>l, <1>o DEF Inv, Types, RefsOK, Detached, NoDisc
<1>5. StartOK'
  BY <1>0, <1>l, <1>o DEF Inv, Types, StartOK, Detached, NoDisc, Rest, Running, StartReady
<1>6. DiscOK'
  BY <1>0, <1>l, <1>o DEF Inv, DiscOK, Detached, Rest, Running, DisconnectReady
<1>7. TimerOK'
  BY <1>0, <1>l, <1>o DEF Inv, Types, TimerOK, Rest, Running
<1>8. RunningOK'
  BY <1>0, <1>l, <1>o DEF Inv, RunningOK, Running
<1>9. LeaseOK'
  BY <1>0, <1>l, <1>o DEF Inv, LeaseOK, Detached
<1>10. FlagsOK'
  BY <1>0, <1>l, <1>o DEF Inv, Types, FlagsOK, NoDisc, Running
<1>11. RxOK'
  BY <1>0, <1>l, <1>o DEF Inv, RxOK
<1> QED
  BY <1>1, <1>2, <1>3, <1>4, <1>5, <1>6, <1>7, <1>8, <1>9, <1>10, <1>11 DEF Inv

\* start(), which no teardown, opener or callback is running beside.
LEMMA StartStep ==
  ASSUME Inv, Start, Quiet
  PROVE  Inv'
<1> USE AttemptFacts
<1>0. /\ gen < MaxGenerations /\ starting = "none" /\ pending = Null /\ ~isClosing
      /\ ~timer' /\ ~reconnecting'
      /\ UNCHANGED <<committed, proven, rx, disc, stopPc, stopGen, stopConn, stopOpening,
                     stopLease, late, latch, task>>
  BY DEF Start, stopVars
<1>a. /\ stopPc = "none" /\ Rest /\ NoDisc /\ late = {}
  <2>1. stopPc = "none" /\ NoDisc
    BY <1>0 DEF Inv, RefsOK, DiscOK, NoDisc, Quiet
  <2>2. \A a \in Attempts : opener[a] \notin InOpenConnection
    BY <1>0 DEF Inv, AttemptsOK
  <2>3. Rest
    BY <2>2 DEF Rest, Running, Quiet, OpenerReady, Inv, Types, InOpenConnection
  <2>4. late = {}
    BY <2>2 DEF Quiet, LateReady, Settled, Inv, Types
  <2> QED
    BY <2>1, <2>3, <2>4
<1>1. CASE active = Null
  <2>1. /\ StartOpens /\ active' = Null /\ starting' = "none" /\ startPrev' = startPrev
        /\ ~isClosing' /\ UNCHANGED isConnected
    BY <1>0, <1>1 DEF Start, startVars
  <2>2. ~isConnected /\ startPrev \in Attempts \cup {Null}
    BY <1>1, <1>a DEF Inv, FlagsOK, Types
  <2>3. \A a \in Attempts : ~Live(a)
    BY <1>0, <1>1, <1>a DEF Inv, LiveOK, Detached
  <2> QED
    BY <1>0, <1>a, <2>1, <2>2, <2>3, StartOpensStep
<1>2. CASE active # Null
  <2> SUFFICES ASSUME active # Null PROVE Inv'
    BY <1>2
  <2>f. /\ UNCHANGED <<lease, leaseSeq, held, gen, opener, byReconnect, open, pending, active>>
        /\ ~intentional' /\ isConnecting' /\ isClosing' /\ ~isConnected'
        /\ starting' = "revoke" /\ startPrev' = active
    BY DEF Start, leaseVars
  <2>a. /\ opener[active] # "none"
        /\ \A b \in Attempts : ~Running(b) /\ disc[b] = "none"
    BY <1>a DEF Inv, RefsOK, Rest, NoDisc
  <2>1. Types'
    BY <1>0, <1>a, <2>f, <2>a DEF Inv, Types
  <2>2. AttemptsOK'
    BY <1>0, <1>a, <2>f, <2>a DEF Inv, AttemptsOK, Running, Live, InOpenConnection
  <2>3. LiveOK'
    BY <1>0, <1>a, <2>f, <2>a DEF Inv, LiveOK, Live, Detached
  <2>4. RefsOK'
    BY <1>0, <1>a, <2>f, <2>a DEF Inv, Types, RefsOK, Detached, NoDisc
  <2>5. StartOK'
    BY <1>0, <1>a, <2>f, <2>a DEF Inv, Types, StartOK, Detached, NoDisc, Rest, Running, StartReady
  <2>6. DiscOK'
    BY <1>0, <1>a, <2>f, <2>a DEF Inv, DiscOK, Detached, Rest, Running, DisconnectReady
  <2>7. TimerOK'
    BY <1>0, <1>a, <2>f, <2>a DEF Inv, Types, TimerOK, Rest, Running
  <2>8. RunningOK'
    BY <1>0, <1>a, <2>f, <2>a DEF Inv, RunningOK, Running
  <2>9. LeaseOK'
    BY <1>0, <1>a, <2>f, <2>a DEF Inv, LeaseOK, Detached
  <2>10. FlagsOK'
    BY <1>0, <1>a, <2>f, <2>a DEF Inv, Types, FlagsOK, NoDisc, Running
  <2>11. RxOK'
    BY <1>0, <1>a, <2>f, <2>a DEF Inv, RxOK
  <2> QED
    BY <2>1, <2>2, <2>3, <2>4, <2>5, <2>6, <2>7, <2>8, <2>9, <2>10, <2>11 DEF Inv
<1> QED
  BY <1>1, <1>2

\* start() begins the teardown of the previous connection.
LEMMA StartRevokedStep ==
  ASSUME Inv, StartRevoked
  PROVE  Inv'
<1> USE AttemptFacts
<1>f. UNCHANGED <<lease, leaseSeq, held, gen, intentional, isConnecting, isConnected, isClosing,
                  reconnecting, timer, active, pending, byReconnect, committed, opener, open,
                  proven, rx, disc, startPrev, stopPc, stopGen, stopConn, stopOpening,
                  stopLease, late, latch>>
  BY DEF StartRevoked, leaseVars, flagVars, timerVars, attemptVars, nativeVars, startVars, stopVars
<1>0. /\ task \in [Attempts -> {"none", "rx", "close"}] /\ startPrev \in Attempts
      /\ starting = "revoke" /\ starting' = "shut"
      /\ task' \in [Attempts -> {"none", "rx", "close"}] /\ task'[startPrev] # "none"
      /\ \A b \in Attempts : b # startPrev => task'[b] = task[b]
  BY DEF Inv, Types, StartOK, StartRevoked, JoinShutdown
<1>a. /\ Rest /\ NoDisc /\ opener[startPrev] # "none"
      /\ \A b \in Attempts : ~Running(b) /\ disc[b] = "none"
  BY <1>0 DEF Inv, StartOK, NoDisc, Rest
<1>1. Types'
  BY <1>f, <1>0, <1>a DEF Inv, Types
<1>2. AttemptsOK'
  BY <1>f, <1>0, <1>a DEF Inv, AttemptsOK, Running, Live, InOpenConnection
<1>3. LiveOK'
  BY <1>f, <1>0, <1>a DEF Inv, LiveOK, Live, Detached
<1>4. RefsOK'
  BY <1>f, <1>0, <1>a DEF Inv, Types, RefsOK, Detached, NoDisc
<1>5. StartOK'
  BY <1>f, <1>0, <1>a DEF Inv, Types, StartOK, Detached, NoDisc, Rest, Running, StartReady
<1>6. DiscOK'
  BY <1>f, <1>0, <1>a DEF Inv, DiscOK, Detached, Rest, Running, DisconnectReady
<1>7. TimerOK'
  BY <1>f, <1>0, <1>a DEF Inv, Types, TimerOK, Rest, Running
<1>8. RunningOK'
  BY <1>f, <1>0, <1>a DEF Inv, RunningOK, Running
<1>9. LeaseOK'
  BY <1>f, <1>0, <1>a DEF Inv, LeaseOK, Detached
<1>10. FlagsOK'
  BY <1>f, <1>0, <1>a DEF Inv, Types, FlagsOK, NoDisc, Running
<1>11. RxOK'
  BY <1>f, <1>0, <1>a DEF Inv, RxOK
<1> QED
  BY <1>1, <1>2, <1>3, <1>4, <1>5, <1>6, <1>7, <1>8, <1>9, <1>10, <1>11 DEF Inv

\* start() gives up on the previous connection: it is kept because it is not closed, dropped,
\* or left to the stop() that took over.
LEMMA StartGivesUpStep ==
  ASSUME Inv, StartPrevClosed, StartGivesUp, stopPc # "detach",
         UNCHANGED <<leaseSeq, gen, intentional, opener, byReconnect, open>>,
         \/ startPrev \notin proven /\ RetainUnclosed(startPrev, held, gen)
         \/ /\ startPrev \in proven /\ active' = IF active = startPrev THEN Null ELSE active
            /\ FailAndReleaseLease(active', held, gen) /\ UNCHANGED <<pending, isConnected>>
         \/ startPrev \in proven /\ UNCHANGED <<lease, held, active, pending, isConnected>>
  PROVE  Inv'
<1> USE AttemptFacts
<1>f. UNCHANGED <<reconnecting, timer, committed, proven, rx, latch, task, disc, startPrev, stopPc,
                  stopGen, stopConn, stopOpening, stopLease, late>>
  BY DEF StartPrevClosed, timerVars, stopVars
<1>0. /\ starting = "shut" /\ task[startPrev] = "none" /\ starting' = "none"
      /\ startPrev \in Attempts /\ opener[startPrev] # "none" /\ late = {} /\ ~timer
      /\ \A b \in Attempts : ~Running(b) /\ disc[b] = "none"
      /\ ~isConnecting' /\ (isClosing' <=> isClosing /\ stopPc # "none")
      /\ intentional /\ stopPc = "none" => startPrev # gen
  BY DEF Inv, Types, StartOK, StartPrevClosed, StartReady, StartGivesUp, Rest, NoDisc
<1>a. /\ stopPc # "opening" /\ pending = Null /\ ~reconnecting
      /\ ~(isConnected /\ stopPc = "none")
      /\ Detached => held.id = 0
  BY <1>0 DEF Inv, Types, RefsOK, AttemptsOK, Running, InOpenConnection, TimerOK, FlagsOK, LeaseOK
<1>l. /\ lease' \in LeaseType /\ held' \in HeldLeases /\ pending' = Null
      /\ held'.id # 0 => held'.id = held.id /\ held'.gen = held.gen
      /\ \/ /\ lease'.owner = lease.owner /\ lease'.id = lease.id
            /\ lease' = lease \/ lease.owner = "self"
            /\ lease'.state \in {lease.state, "closing"}
            /\ lease.owner = "self" /\ ~Detached => held'.id = held.id
         \/ /\ lease.owner = "self" /\ lease' = Free /\ ~Detached /\ held'.id = 0
            /\ startPrev \in proven /\ ~Unproven(active')
      /\ \/ active' = startPrev /\ startPrev \notin proven /\ ~isConnected'
         \/ active' = active /\ startPrev \in proven /\ isConnected' = isConnected
         \/ /\ active = startPrev /\ active' = Null /\ startPrev \in proven
            /\ isConnected' = isConnected /\ (lease'.owner = "self" => Detached)
  <2>1. lease \in LeaseType /\ held \in HeldLeases /\ "closing" \in HeldStates
    BY DEF Inv, Types, HeldStates
  <2>2. CASE startPrev \notin proven
    <3>1. RetainUnclosed(startPrev, held, gen)
      BY <2>2
    <3> QED
      BY <1>a, <2>1, <2>2, <3>1, TransitionFacts DEF RetainUnclosed, WithoutPending
  <2>3. CASE startPrev \in proven /\ UNCHANGED <<lease, held, active, pending, isConnected>>
    BY <1>a, <2>1, <2>3
  <2>4. CASE /\ startPrev \in proven /\ active' = IF active = startPrev THEN Null ELSE active
             /\ FailAndReleaseLease(active', held, gen) /\ UNCHANGED <<pending, isConnected>>
    <3>1. CASE Unproven(active')
      <4>1. active' = active /\ active # startPrev /\ Transition(held, gen, "closing")
        BY <2>4, <3>1 DEF FailAndReleaseLease, Unproven
      <4> QED
        BY <1>a, <2>1, <2>4, <4>1, TransitionFacts
    <3>2. CASE ~Unproven(active')
      <4>1. FailAndRelease(held, gen)
        BY <2>4, <3>2 DEF FailAndReleaseLease
      <4>2. /\ lease.owner = "self" /\ ~Detached => held.id = lease.id
            /\ lease.owner = "self" => lease.id # 0
            /\ held.id # 0 => held.gen = gen
        BY DEF Inv, LeaseOK, Detached
      <4>3. \/ held' = held /\ lease' = lease /\ (lease.owner = "self" => Detached)
            \/ held' = NoLease /\ lease' = lease /\ (lease.owner = "self" => Detached)
            \/ held' = NoLease /\ lease' = Free /\ lease.owner = "self" /\ ~Detached
        BY <1>a, <2>1, <4>1, <4>2, FailAndReleaseFacts
      <4> QED
        BY <1>a, <2>1, <2>4, <3>2, <4>3, FreeFacts
    <3> QED
      BY <3>1, <3>2
  <2> QED
    BY <2>2, <2>3, <2>4
<1>d. /\ Free.owner = "none"
      /\ lease' = Free /\ lease.owner = "self" => \A b \in Attempts : ~Live(b)
  <2>1. ASSUME lease' = Free, lease.owner = "self", NEW b \in Attempts, Live(b) PROVE FALSE
    <3>1. b = active /\ b # startPrev /\ startPrev \in proven /\ ~Unproven(active')
      BY <1>a, <1>l, <2>1, FreeFacts DEF Inv, LiveOK, Live, Detached
    <3> QED
      BY <1>l, <2>1, <3>1 DEF Unproven, Live
  <2> QED
    BY <2>1, FreeFacts
<1>1. Types'
  BY <1>f, <1>0, <1>l, <1>a, <1>d DEF Inv, Types
<1>2. AttemptsOK'
  BY <1>f, <1>0, <1>l, <1>a, <1>d DEF Inv, AttemptsOK, Running, Live, InOpenConnection
<1>3. LiveOK'
  BY <1>f, <1>0, <1>l, <1>a, <1>d DEF Inv, LiveOK, Live, Detached
<1>4. RefsOK'
  BY <1>f, <1>0, <1>l, <1>a, <1>d DEF Inv, Types, RefsOK, Detached, NoDisc
<1>5. StartOK'
  BY <1>f, <1>0, <1>l, <1>a, <1>d DEF Inv, Types, StartOK, Detached, NoDisc, Rest, Running, StartReady
<1>6. DiscOK'
  BY <1>f, <1>0, <1>l, <1>a, <1>d DEF Inv, DiscOK, Detached, Rest, Running, DisconnectReady
<1>7. TimerOK'
  BY <1>f, <1>0, <1>l, <1>a, <1>d DEF Inv, Types, TimerOK, Rest, Running
<1>8. RunningOK'
  BY <1>f, <1>0, <1>l, <1>a, <1>d DEF Inv, RunningOK, Running
<1>9. LeaseOK'
  BY <1>f, <1>0, <1>l, <1>a, <1>d DEF Inv, LeaseOK, Detached
<1>10. FlagsOK'
  BY <1>f, <1>0, <1>l, <1>a, <1>d DEF Inv, Types, FlagsOK, NoDisc, Running
<1>11. RxOK'
  BY <1>f, <1>0, <1>l, <1>a, <1>d DEF Inv, RxOK
<1> QED
  BY <1>1, <1>2, <1>3, <1>4, <1>5, <1>6, <1>7, <1>8, <1>9, <1>10, <1>11 DEF Inv

\* The teardown that start() waited for is over.
LEMMA StartPrevClosedStep ==
  ASSUME Inv, StartPrevClosed, stopPc # "detach"
  PROVE  Inv'
<1> USE AttemptFacts
<1>1. CASE ~(/\ startPrev \in proven /\ rx[startPrev] = "guaranteed"
             /\ ~intentional /\ active = startPrev /\ startPrev = gen)
  <2>1. /\ StartGivesUp /\ UNCHANGED <<leaseSeq, gen, intentional, opener, byReconnect, open>>
        /\ \/ startPrev \notin proven /\ RetainUnclosed(startPrev, held, gen)
           \/ /\ startPrev \in proven /\ active' = IF active = startPrev THEN Null ELSE active
              /\ FailAndReleaseLease(active', held, gen) /\ UNCHANGED <<pending, isConnected>>
           \/ startPrev \in proven /\ UNCHANGED <<lease, held, active, pending, isConnected>>
    BY <1>1 DEF StartPrevClosed, leaseVars
  <2> QED
    BY <2>1, StartGivesUpStep
<1>2. CASE /\ startPrev \in proven /\ rx[startPrev] = "guaranteed"
           /\ ~intentional /\ active = startPrev /\ startPrev = gen
  <2>1. /\ StartOpens /\ active' = Null /\ starting' = "none" /\ ~isClosing'
        /\ startPrev' = startPrev /\ starting = "shut"
        /\ UNCHANGED <<isConnected, committed, proven, rx, disc, stopPc, stopGen, stopConn,
                       stopOpening, stopLease, late, latch, task, timer, reconnecting>>
    BY <1>2 DEF StartPrevClosed, StartReady, timerVars, stopVars
  <2>2. /\ Rest /\ NoDisc /\ late = {} /\ ~timer /\ startPrev \in Attempts /\ gen < MaxGenerations
        /\ stopPc = "none"
    BY <1>2, <2>1 DEF Inv, Types, StartOK, RefsOK
  <2>3. pending = Null /\ ~reconnecting /\ ~isConnected
    BY <1>2, <2>1, <2>2 DEF Inv, Types, RefsOK, TimerOK, FlagsOK, Rest
  <2>4. \A a \in Attempts : ~Live(a)
    BY <1>2, <2>2, <2>3 DEF Inv, LiveOK, Live, Detached
  <2>5. ~timer' /\ ~reconnecting' /\ startPrev' \in Attempts \cup {Null}
    BY <2>1, <2>2, <2>3
  <2> QED
    BY <2>1, <2>2, <2>3, <2>4, <2>5, StartOpensStep
<1> QED
  BY <1>1, <1>2

\* The port disconnects: only a current, committed connection starts a teardown.
LEMMA DisconnectStep ==
  ASSUME Inv, NEW a \in Attempts, Disconnect(a), Quiet
  PROVE  Inv'
<1> USE AttemptFacts
<1>f. UNCHANGED <<lease, leaseSeq, held, gen, intentional, isConnecting, reconnecting, timer,
                  active, pending, byReconnect, committed, opener, open, proven, rx, task,
                  starting, startPrev, stopPc, stopGen, stopConn, stopOpening, stopLease,
                  late, latch>>
  BY DEF Disconnect, leaseVars, flagVars, timerVars, attemptVars, nativeVars, startVars, stopVars
<1>0. /\ disc \in [Attempts -> {"none", "revoke", "shut"}] /\ opener[a] # "none"
      /\ task[a] = "none" /\ ~(isClosing /\ a = gen)
      /\ \/ UNCHANGED <<isClosing, isConnected, disc>>
         \/ /\ a \in committed /\ a = gen /\ active = a /\ isClosing' /\ ~isConnected'
            /\ disc' = [disc EXCEPT ![a] = "revoke"] /\ disc'[a] = "revoke"
            /\ \A b \in Attempts : b # a => disc'[b] = disc[b]
            /\ disc' \in [Attempts -> {"none", "revoke", "shut"}]
  BY DEF Inv, Types, Disconnect
<1>1. CASE UNCHANGED <<isClosing, isConnected, disc>>
  BY <1>f, <1>1 DEF Inv, Types, AttemptsOK, LiveOK, RefsOK, StartOK, DiscOK, TimerOK, RunningOK,
                    LeaseOK, FlagsOK, RxOK, Running, Live, Rest, NoDisc, Detached, StartReady,
                    DisconnectReady, InOpenConnection
<1>2. CASE ~UNCHANGED <<isClosing, isConnected, disc>>
  <2> SUFFICES ASSUME ~UNCHANGED <<isClosing, isConnected, disc>> PROVE Inv'
    BY <1>2
  <2>0. /\ a \in committed /\ a = gen /\ active = a /\ ~isClosing /\ isClosing' /\ ~isConnected'
        /\ disc' \in [Attempts -> {"none", "revoke", "shut"}] /\ disc'[a] = "revoke"
        /\ \A b \in Attempts : b # a => disc'[b] = disc[b]
    BY <1>0
  <2>a. /\ stopPc = "none" /\ pending = Null /\ starting = "none" /\ ~intentional /\ ~timer
        /\ \A b \in Attempts : ~Running(b) /\ disc[b] = "none"
        /\ late = {} /\ ~isConnecting
    <3>1. stopPc = "none" /\ pending = Null /\ starting = "none"
      BY <2>0 DEF Inv, RefsOK, StartOK, Quiet
    <3>2. \A b \in Attempts : opener[b] \notin InOpenConnection
      BY <3>1 DEF Inv, AttemptsOK
    <3>3. \A b \in Attempts : ~Running(b) /\ disc[b] = "none"
      BY <2>0, <3>2 DEF Running, Quiet, OpenerReady, Inv, Types, InOpenConnection, DiscOK
    <3>4. late = {}
      BY <3>2 DEF Quiet, LateReady, Settled, Inv, Types
    <3>5. ~intentional /\ ~timer
      BY <2>0, <3>1 DEF Inv, FlagsOK, TimerOK
    <3>6. ~isConnecting
      BY <3>1, <3>3 DEF Inv, FlagsOK
    <3> QED
      BY <3>1, <3>3, <3>4, <3>5, <3>6
  <2>1. Types'
    BY <1>f, <1>0, <2>0, <2>a DEF Inv, Types
  <2>2. AttemptsOK'
    BY <1>f, <1>0, <2>0, <2>a DEF Inv, AttemptsOK, Running, Live, InOpenConnection
  <2>3. LiveOK'
    BY <1>f, <1>0, <2>0, <2>a DEF Inv, LiveOK, Live, Detached
  <2>4. RefsOK'
    BY <1>f, <1>0, <2>0, <2>a DEF Inv, Types, RefsOK, Detached, NoDisc
  <2>5. StartOK'
    BY <1>f, <1>0, <2>0, <2>a DEF Inv, Types, StartOK, Detached, NoDisc, Rest, Running, StartReady
  <2>6. DiscOK'
    BY <1>f, <1>0, <2>0, <2>a DEF Inv, DiscOK, Detached, Rest, Running, DisconnectReady
  <2>7. TimerOK'
    BY <1>f, <1>0, <2>0, <2>a DEF Inv, Types, TimerOK, Rest, Running
  <2>8. RunningOK'
    BY <1>f, <1>0, <2>0, <2>a DEF Inv, RunningOK, Running
  <2>9. LeaseOK'
    BY <1>f, <1>0, <2>0, <2>a DEF Inv, LeaseOK, Detached
  <2>10. FlagsOK'
    BY <1>f, <1>0, <2>0, <2>a DEF Inv, Types, FlagsOK, NoDisc, Running
  <2>11. RxOK'
    BY <1>f, <1>0, <2>0, <2>a DEF Inv, RxOK
  <2> QED
    BY <2>1, <2>2, <2>3, <2>4, <2>5, <2>6, <2>7, <2>8, <2>9, <2>10, <2>11 DEF Inv
<1> QED
  BY <1>1, <1>2

\* The disconnect begins the teardown of the connection.
LEMMA DisconnectRevokedStep ==
  ASSUME Inv, NEW a \in Attempts, DisconnectRevoked(a)
  PROVE  Inv'
<1> USE AttemptFacts
<1>f. UNCHANGED <<lease, leaseSeq, held, gen, intentional, isConnecting, isConnected, isClosing,
                  reconnecting, timer, active, pending, byReconnect, committed, opener, open,
                  proven, rx, starting, startPrev, stopPc, stopGen, stopConn, stopOpening,
                  stopLease, late, latch>>
  BY DEF DisconnectRevoked, leaseVars, flagVars, timerVars, attemptVars, nativeVars, startVars, stopVars
<1>0. /\ disc \in [Attempts -> {"none", "revoke", "shut"}] /\ disc' \in [Attempts -> {"none", "revoke", "shut"}]
      /\ disc[a] = "revoke" /\ disc'[a] = "shut"
      /\ task' \in [Attempts -> {"none", "rx", "close"}] /\ task'[a] # "none"
      /\ \A b \in Attempts : b # a => task'[b] = task[b] /\ disc'[b] = disc[b]
  BY DEF Inv, Types, DisconnectRevoked, JoinShutdown
<1>a. /\ Rest /\ opener[a] # "none" /\ starting = "none"
      /\ \A b \in Attempts : ~Running(b) /\ (disc[b] # "none" => b = a)
  BY <1>0 DEF Inv, AttemptsOK, StartOK, DiscOK, NoDisc, Rest
<1>1. Types'
  BY <1>f, <1>0, <1>a DEF Inv, Types
<1>2. AttemptsOK'
  BY <1>f, <1>0, <1>a DEF Inv, AttemptsOK, Running, Live, InOpenConnection
<1>3. LiveOK'
  BY <1>f, <1>0, <1>a DEF Inv, LiveOK, Live, Detached
<1>4. RefsOK'
  BY <1>f, <1>0, <1>a DEF Inv, Types, RefsOK, Detached, NoDisc
<1>5. StartOK'
  BY <1>f, <1>0, <1>a DEF Inv, Types, StartOK, Detached, NoDisc, Rest, Running, StartReady
<1>6. DiscOK'
  BY <1>f, <1>0, <1>a DEF Inv, DiscOK, Detached, Rest, Running, DisconnectReady
<1>7. TimerOK'
  BY <1>f, <1>0, <1>a DEF Inv, Types, TimerOK, Rest, Running
<1>8. RunningOK'
  BY <1>f, <1>0, <1>a DEF Inv, RunningOK, Running
<1>9. LeaseOK'
  BY <1>f, <1>0, <1>a DEF Inv, LeaseOK, Detached
<1>10. FlagsOK'
  BY <1>f, <1>0, <1>a DEF Inv, Types, FlagsOK, NoDisc, Running
<1>11. RxOK'
  BY <1>f, <1>0, <1>a DEF Inv, RxOK
<1> QED
  BY <1>1, <1>2, <1>3, <1>4, <1>5, <1>6, <1>7, <1>8, <1>9, <1>10, <1>11 DEF Inv

\* The teardown that the disconnect waited for is over.
LEMMA DisconnectClosedStep ==
  ASSUME Inv, NEW a \in Attempts, DisconnectClosed(a), stopPc # "detach"
  PROVE  Inv'
<1> DEFINE g == gen + 1
           h == AdoptGeneration(held, g)
<1> USE AttemptFacts
<1>f. UNCHANGED <<leaseSeq, intentional, isConnecting, byReconnect, committed, opener, open,
                  proven, rx, task, starting, startPrev, stopPc, stopGen, stopConn, stopOpening,
                  stopLease, late, latch>>
  BY DEF DisconnectClosed, leaseVars, flagVars, timerVars, attemptVars, nativeVars, startVars, stopVars
<1>0. /\ disc \in [Attempts -> {"none", "revoke", "shut"}] /\ disc' \in [Attempts -> {"none", "revoke", "shut"}]
      /\ disc[a] = "shut" /\ task[a] = "none" /\ gen \in Nat /\ g \in Nat /\ g > gen
      /\ \A b \in Attempts : disc'[b] = "none" /\ ~Running(b)
      /\ lease \in LeaseType /\ held \in HeldLeases /\ "closing" \in HeldStates
  <2>1. disc[a] = "shut" /\ task[a] = "none" /\ disc' = [disc EXCEPT ![a] = "none"]
    BY DEF DisconnectClosed, DisconnectReady
  <2>2. \A b \in Attempts : ~Running(b) /\ (disc[b] # "none" => a = b)
    BY <2>1 DEF Inv, DiscOK, Rest
  <2> QED
    BY <2>1, <2>2 DEF Inv, Types, HeldStates
<1>a. /\ late = {} /\ ~timer /\ opener[a] # "none" /\ starting = "none" /\ pending = Null
      /\ stopPc # "opening" /\ ~reconnecting /\ ~isConnecting
      /\ ~intentional => active = a /\ a = gen
      /\ intentional /\ stopPc = "none" => a # gen /\ ~isClosing
      /\ Detached => held.id = 0
      /\ isConnected /\ stopPc = "none" => a # gen /\ ~intentional
  <2>1. late = {} /\ ~timer /\ opener[a] # "none" /\ starting = "none" /\ stopPc # "opening"
    BY <1>0 DEF Inv, AttemptsOK, DiscOK, StartOK, RefsOK, NoDisc
  <2>2. pending = Null /\ ~reconnecting
    BY <1>0, <2>1 DEF Inv, Types, AttemptsOK, Running, InOpenConnection, TimerOK
  <2>3. ~isConnecting /\ (isConnected /\ stopPc = "none" => a # gen /\ ~intentional)
    BY <1>0, <2>1 DEF Inv, FlagsOK
  <2>4. Detached => held.id = 0
    BY DEF Inv, LeaseOK
  <2> QED
    BY <1>0, <2>1, <2>2, <2>3, <2>4 DEF Inv, DiscOK
<1>l. \/ /\ a \notin proven /\ active' = a /\ ~isConnected' /\ pending' = Null /\ gen' = gen
         /\ isClosing' <=> isClosing /\ stopPc # "none"
         /\ ~timer' /\ ~reconnecting'
         /\ lease' \in LeaseType /\ held' \in HeldLeases
         /\ lease'.owner = lease.owner /\ lease'.id = lease.id
         /\ held'.id = held.id /\ held'.gen = held.gen
         /\ lease' = lease \/ lease.owner = "self"
         /\ lease'.state \in {lease.state, "closing"}
      \/ /\ a \in proven /\ intentional
         /\ UNCHANGED <<lease, held, gen, isConnected, isClosing, reconnecting, timer, active, pending>>
      \/ /\ a \in proven /\ ~intentional /\ active = a /\ active' = Null /\ gen' = g
         /\ ~isClosing' /\ ~isConnected' /\ pending' = Null /\ stopPc = "none"
         /\ \A b \in Attempts : ~Live(b)
         /\ lease' \in LeaseType /\ held' \in HeldLeases
         /\ \/ /\ lease'.owner = "self" /\ lease.owner = "self" /\ lease'.id = lease.id
               /\ lease'.state = "reconnecting" /\ held'.id = held.id /\ held'.gen = g /\ timer'
            \/ lease'.owner # "self" /\ lease' \in {lease, Free} /\ held'.id = 0 /\ ~timer' /\ ~reconnecting'
  <2>2. CASE a \notin proven
    <3>1. /\ RetainUnclosed(a, held, gen) /\ isClosing' = (isClosing /\ stopPc # "none")
          /\ UNCHANGED <<gen, reconnecting, timer>>
      BY <2>2 DEF DisconnectClosed, timerVars
    <3> QED
      BY <1>0, <1>a, <2>2, <3>1, TransitionFacts DEF RetainUnclosed, WithoutPending
  <2>3. CASE a \in proven /\ intentional
    BY <2>3 DEF DisconnectClosed, timerVars
  <2>4. CASE a \in proven /\ ~intentional
    <3>1. active = a /\ a = gen /\ stopPc = "none" /\ ~isConnected
      BY <1>a, <2>4 DEF Inv, RefsOK
    <3>2. \A b \in Attempts : ~Live(b)
      BY <1>a, <2>4, <3>1 DEF Inv, LiveOK, Live, Detached
    <3>3. /\ active' = Null /\ gen' = g /\ ~isClosing' /\ UNCHANGED <<isConnected, pending>>
          /\ \/ BeginReconnect(h, g)
             \/ FailAndReleaseLease(Null, h, g) /\ UNCHANGED <<reconnecting, timer>>
      BY <2>4, <3>1 DEF DisconnectClosed, timerVars
    <3>4. /\ h \in HeldLeases /\ h.id = held.id /\ (h.id # 0 => h.gen = g)
          /\ lease.owner = "self" => held.id = lease.id /\ held.id # 0
          /\ "reconnecting" \in HeldStates
      BY <1>0, <3>1, AdoptFacts DEF Inv, LeaseOK, Detached, HeldStates
    <3> HIDE DEF h
    <3>5. CASE FailAndRelease(h, g) /\ UNCHANGED <<reconnecting, timer>>
      <4>1. /\ lease' \in LeaseType /\ held' \in HeldLeases /\ held'.id = 0
            /\ lease' \in {lease, Free} /\ (lease.owner = "self" => lease' = Free)
        BY <1>0, <3>4, <3>5, FailAndReleaseFacts
      <4> QED
        BY <1>a, <2>4, <3>1, <3>2, <3>3, <3>5, <4>1, FreeFacts
    <3>6. CASE /\ TransitionSucceeds(h, g, "reconnecting") /\ Transition(h, g, "reconnecting")
               /\ timer'
      <4>1. h.id # 0 /\ h.gen = g /\ lease.owner = "self"
        BY <1>0, <3>6, SucceedsFacts
      <4>2. /\ lease' \in LeaseType /\ held' \in HeldLeases /\ held'.id = held.id
            /\ held'.gen = g /\ lease'.owner = "self" /\ lease'.id = lease.id
            /\ lease'.state = "reconnecting"
        BY <1>0, <3>4, <3>6, <4>1, TransitionFacts
      <4> QED
        BY <1>a, <2>4, <3>1, <3>2, <3>3, <3>6, <4>1, <4>2
    <3>7. CASE BeginReconnect(h, g)
      <4>1. \/ /\ TransitionSucceeds(h, g, "reconnecting") /\ Transition(h, g, "reconnecting")
               /\ timer' = (timer \/ MayScheduleReconnect(Null, FALSE))
            \/ FailAndReleaseLease(Null, h, g) /\ UNCHANGED <<reconnecting, timer>>
        BY <1>a, <3>7 DEF BeginReconnect
      <4>2. MayScheduleReconnect(Null, FALSE)
        BY <1>a, <2>4 DEF MayScheduleReconnect, Unproven
      <4> QED
        BY <3>5, <3>6, <4>1, <4>2 DEF FailAndReleaseLease, Unproven
    <3> QED
      BY <3>3, <3>5, <3>7 DEF FailAndReleaseLease, Unproven
  <2> QED
    BY <2>2, <2>3, <2>4
<1>d. Free.owner = "none"
  BY FreeFacts
<1> HIDE DEF g, h
<1>1. Types'
  BY <1>f, <1>0, <1>l, <1>a, <1>d DEF Inv, Types
<1>2. AttemptsOK'
  BY <1>f, <1>0, <1>l, <1>a, <1>d DEF Inv, AttemptsOK, Running, Live, InOpenConnection
<1>3. LiveOK'
  BY <1>f, <1>0, <1>l, <1>a, <1>d DEF Inv, LiveOK, Live, Detached
<1>4. RefsOK'
  BY <1>f, <1>0, <1>l, <1>a, <1>d DEF Inv, Types, RefsOK, Detached, NoDisc
<1>5. StartOK'
  BY <1>f, <1>0, <1>l, <1>a, <1>d DEF Inv, Types, StartOK, Detached, NoDisc, Rest, Running, StartReady
<1>6. DiscOK'
  BY <1>f, <1>0, <1>l, <1>a, <1>d DEF Inv, DiscOK, Detached, Rest, Running, DisconnectReady
<1>7. TimerOK'
  BY <1>f, <1>0, <1>l, <1>a, <1>d DEF Inv, Types, TimerOK, Rest, Running
<1>8. RunningOK'
  BY <1>f, <1>0, <1>l, <1>a, <1>d DEF Inv, RunningOK, Running
<1>9. LeaseOK'
  BY <1>f, <1>0, <1>l, <1>a, <1>d DEF Inv, LeaseOK, Detached
<1>10. FlagsOK'
  BY <1>f, <1>0, <1>l, <1>a, <1>d DEF Inv, Types, FlagsOK, NoDisc, Running
<1>11. RxOK'
  BY <1>f, <1>0, <1>l, <1>a, <1>d DEF Inv, RxOK
<1> QED
  BY <1>1, <1>2, <1>3, <1>4, <1>5, <1>6, <1>7, <1>8, <1>9, <1>10, <1>11 DEF Inv

\* The timer fires: give up, or open the next attempt under the same lease.
LEMMA ReconnectTimerStep ==
  ASSUME Inv, ReconnectTimer
  PROVE  Inv'
<1> DEFINE g == gen + 1
<1> USE AttemptFacts
<1>f. UNCHANGED <<leaseSeq, intentional, isConnecting, isConnected, isClosing, active, committed,
                  proven, rx, latch, task, disc, starting, startPrev, stopPc, stopGen, stopConn,
                  stopOpening, stopLease, late>>
  BY DEF ReconnectTimer, leaseVars, flagVars, timerVars, attemptVars, nativeVars, startVars, stopVars
<1>0. /\ timer /\ ~timer' /\ ~intentional /\ active = Null /\ lease.owner = "self"
      /\ lease.state \in {"opening", "reconnecting"}
      /\ \A b \in Attempts : ~Running(b) /\ disc[b] = "none"
      /\ stopPc = "none" /\ starting = "none" /\ late = {}
      /\ gen \in Nat /\ lease \in LeaseType /\ held \in HeldLeases
      /\ open \subseteq Attempts /\ byReconnect \subseteq Attempts
      /\ opener \in [Attempts -> InOpenConnection \cup {"none", "opened", "failed", "done"}]
  BY DEF Inv, Types, TimerOK, RefsOK, StartOK, DiscOK, Rest, ReconnectTimer
<1>a. /\ pending = Null /\ ~isClosing /\ ~isConnecting /\ ~isConnected
      /\ held.id = lease.id /\ held.id # 0 /\ held.gen = gen
      /\ \A b \in Attempts : b \notin open /\ (opener[b] # "none" => b <= gen /\ b < g)
  <2>1. pending = Null
    BY <1>0 DEF Inv, Types, AttemptsOK, Running, InOpenConnection
  <2>2. ~isClosing /\ ~isConnecting /\ ~isConnected
    BY <1>0 DEF Inv, FlagsOK, NoDisc
  <2>3. held.id = lease.id /\ held.id # 0 /\ held.gen = gen
    BY <1>0 DEF Inv, LeaseOK, Detached
  <2>4. \A b \in Attempts : b \notin open
    BY <1>0, <2>1 DEF Inv, AttemptsOK, LiveOK, Detached
  <2>5. \A b \in Attempts : opener[b] # "none" => b <= gen
    BY DEF Inv, AttemptsOK
  <2> QED
    BY <1>0, <2>1, <2>2, <2>3, <2>4, <2>5
<1>b. \A b \in Attempts : ~Live(b)
  BY <1>0, <1>a DEF Inv, LiveOK, Detached
<1>l. \/ /\ lease' = Free /\ held' = NoLease /\ ~reconnecting'
         /\ UNCHANGED <<gen, opener, byReconnect, open, pending>>
      \/ /\ g \in Attempts /\ gen' = g /\ lease' = lease /\ held' \in HeldLeases
         /\ held'.id = held.id /\ held'.gen = g
         /\ opener' = [opener EXCEPT ![g] = "open"] /\ byReconnect' = byReconnect \cup {g}
         /\ open' = open \cup {g} /\ pending' = g /\ UNCHANGED reconnecting
  <2>1. ~(intentional \/ isClosing \/ pending # Null \/ Unproven(active))
    BY <1>0, <1>a DEF Unproven
  <2>2. CASE tries' > MaxReconnectAttempts /\ FailAndReleaseLease(active, held, gen)
             /\ reconnecting' = FALSE /\ UNCHANGED <<gen, opener, byReconnect, open, pending>>
    BY <1>0, <1>a, <2>1, <2>2 DEF FailAndReleaseLease, FailAndRelease, Release
  <2>3. CASE gen < MaxGenerations /\ gen' = g /\ held' = AdoptGeneration(held, g)
             /\ BeginOpen(g, "reconnect") /\ UNCHANGED <<lease, reconnecting>>
    <3>0. g \in Nat
      BY <1>0
    <3>1. held' \in HeldLeases /\ held'.id = held.id /\ held'.gen = g
      <4>1. /\ AdoptGeneration(held, g) \in HeldLeases /\ AdoptGeneration(held, g).id = held.id
            /\ AdoptGeneration(held, g).id # 0 => AdoptGeneration(held, g).gen = g
        BY <1>0, <3>0, AdoptFacts
      <4> HIDE DEF g
      <4> QED
        BY <1>a, <2>3, <4>1
    <3> QED
      BY <1>0, <2>3, <3>1 DEF BeginOpen
  <2> QED
    BY <2>1, <2>2, <2>3 DEF ReconnectTimer
<1>d. /\ Free \in LeaseType /\ Free.owner = "none" /\ NoLease \in HeldLeases /\ NoLease.id = 0
  BY FreeFacts
<1>n. g \in Attempts =>
        /\ opener[g] = "none" /\ task[g] = "none" /\ g \notin proven /\ g \notin committed
  BY <1>0, <1>a DEF Inv, AttemptsOK
<1>o. opener' # opener =>
        opener'[g] = "open" /\ \A b \in Attempts : b # g => opener'[b] = opener[b]
  BY <1>0, <1>l
<1> HIDE DEF g
<1>1. Types'
  <2>1. opener' \in [Attempts -> InOpenConnection \cup {"none", "opened", "failed", "done"}]
    BY <1>0, <1>l DEF InOpenConnection
  <2>2. /\ open' \subseteq Attempts /\ pending' \in Attempts \cup {Null} /\ gen' \in Nat
        /\ byReconnect' \subseteq Attempts /\ lease' \in LeaseType /\ held' \in HeldLeases
    BY <1>0, <1>a, <1>l, <1>d
  <2> QED
    BY <1>f, <2>1, <2>2 DEF Inv, Types
<1>2. AttemptsOK'
  <2>1. CASE UNCHANGED <<gen, opener, byReconnect, open, pending>>
    BY <1>f, <1>0, <1>a, <2>1 DEF Inv, AttemptsOK, Running, Live, InOpenConnection
  <2>2. CASE /\ g \in Attempts /\ gen' = g /\ byReconnect' = byReconnect \cup {g}
             /\ open' = open \cup {g} /\ pending' = g /\ opener'[g] = "open"
             /\ \A b \in Attempts : b # g => opener'[b] = opener[b]
    BY <1>f, <1>0, <1>a, <1>n, <2>2 DEF Inv, AttemptsOK, Running, Live, InOpenConnection
  <2>3. opener[g] = "none" /\ opener' = [opener EXCEPT ![g] = "open"] /\ g \in Attempts => opener' # opener
    BY <1>0
  <2> QED
    BY <1>l, <1>o, <1>n, <2>1, <2>2, <2>3
<1>3. LiveOK'
  BY <1>f, <1>0, <1>a, <1>b, <1>l, <1>d, <1>n, <1>o DEF Inv, LiveOK, Live, Detached
<1>4. RefsOK'
  BY <1>f, <1>0, <1>a, <1>b, <1>l, <1>d, <1>n, <1>o DEF Inv, Types, RefsOK, Detached, NoDisc
<1>5. StartOK'
  BY <1>f, <1>0, <1>a, <1>b, <1>l, <1>d, <1>n, <1>o DEF Inv, Types, StartOK, Detached, NoDisc, Rest, Running, StartReady
<1>6. DiscOK'
  BY <1>f, <1>0, <1>a, <1>b, <1>l, <1>d, <1>n, <1>o DEF Inv, DiscOK, Detached, Rest, Running, DisconnectReady
<1>7. TimerOK'
  BY <1>f, <1>0, <1>a, <1>b, <1>l, <1>d, <1>n, <1>o DEF Inv, Types, TimerOK, Rest, Running
<1>8. RunningOK'
  BY <1>f, <1>0, <1>a, <1>b, <1>l, <1>d, <1>n, <1>o DEF Inv, RunningOK, Running
<1>9. LeaseOK'
  BY <1>f, <1>0, <1>a, <1>b, <1>l, <1>d, <1>n, <1>o DEF Inv, LeaseOK, Detached
<1>10. FlagsOK'
  BY <1>f, <1>0, <1>a, <1>b, <1>l, <1>d, <1>n, <1>o DEF Inv, Types, FlagsOK, NoDisc, Running
<1>11. RxOK'
  BY <1>f, <1>0, <1>a, <1>b, <1>l, <1>d, <1>n, <1>o DEF Inv, RxOK
<1> QED
  BY <1>1, <1>2, <1>3, <1>4, <1>5, <1>6, <1>7, <1>8, <1>9, <1>10, <1>11 DEF Inv

\* stop() is called.  Amid a burst of microtasks it may find an open that has just resolved;
\* then it goes on in the same turn.
LEMMA StopStep ==
  ASSUME Inv, Stop
  PROVE  Inv'
<1> USE AttemptFacts
<1>f. UNCHANGED <<lease, leaseSeq, held, gen, isConnected, active, pending, byReconnect, committed,
                  opener, open, proven, rx, latch, task, disc, starting, startPrev, stopConn,
                  stopOpening, stopLease, late>>
  BY DEF Stop, leaseVars, flagVars, timerVars, attemptVars, nativeVars, startVars, stopVars
<1>0. /\ stopPc = "none" /\ stopPc' \in {"revoke", "detach"} /\ stopGen' = gen
      /\ isClosing' /\ intentional' /\ ~isConnecting' /\ ~timer' /\ ~reconnecting'
  BY DEF Stop
<1>a. \A a \in Attempts : opener[a] = "opened" => stopPc' = "detach" /\ active = a /\ late = {}
  <2> SUFFICES ASSUME NEW a \in Attempts, opener[a] = "opened"
               PROVE  stopPc' = "detach" /\ active = a /\ late = {}
    OBVIOUS
  <2>1. Running(a) /\ active = a /\ ~isConnected /\ late = {}
    BY <1>0 DEF Inv, RunningOK, Running
  <2>2. ~RevocationRuns
    BY <2>1 DEF RevocationRuns, Inv, StartOK, DiscOK, Rest
  <2> QED
    BY <1>0, <2>1, <2>2 DEF Stop
<1>1. Types'
  BY <1>f, <1>0, <1>a DEF Inv, Types
<1>2. AttemptsOK'
  BY <1>f, <1>0, <1>a DEF Inv, AttemptsOK, Running, Live, InOpenConnection
<1>3. LiveOK'
  BY <1>f, <1>0, <1>a DEF Inv, LiveOK, Live, Detached
<1>4. RefsOK'
  BY <1>f, <1>0, <1>a DEF Inv, Types, RefsOK, Detached, NoDisc
<1>5. StartOK'
  BY <1>f, <1>0, <1>a DEF Inv, Types, StartOK, Detached, NoDisc, Rest, Running, StartReady
<1>6. DiscOK'
  BY <1>f, <1>0, <1>a DEF Inv, DiscOK, Detached, Rest, Running, DisconnectReady
<1>7. TimerOK'
  BY <1>f, <1>0, <1>a DEF Inv, Types, TimerOK, Rest, Running
<1>8. RunningOK'
  BY <1>f, <1>0, <1>a DEF Inv, RunningOK, Running
<1>9. LeaseOK'
  BY <1>f, <1>0, <1>a DEF Inv, LeaseOK, Detached
<1>10. FlagsOK'
  BY <1>f, <1>0, <1>a DEF Inv, Types, FlagsOK, NoDisc, Running
<1>11. RxOK'
  BY <1>f, <1>0, <1>a DEF Inv, RxOK
<1> QED
  BY <1>1, <1>2, <1>3, <1>4, <1>5, <1>6, <1>7, <1>8, <1>9, <1>10, <1>11 DEF Inv

\* stop() has nothing to close.
LEMMA StopAtOnceStep ==
  ASSUME Inv, StopRevoked, pending = Null, active = Null
  PROVE  Inv'
<1> USE AttemptFacts
<1>f. UNCHANGED <<leaseSeq, intentional, isConnecting, reconnecting, timer, pending, byReconnect,
                  committed, opener, open, proven, rx, latch, disc, starting, startPrev, stopGen,
                  late, active, stopConn, stopOpening, stopLease, task>>
  BY DEF StopRevoked, leaseVars, flagVars, timerVars, attemptVars, nativeVars, startVars, stopVars
<1>0. /\ stopPc \in {"revoke", "detach"} /\ ~Detached /\ stopPc' = "none" /\ held' = NoLease
      /\ intentional /\ gen \in Nat /\ gen' = gen + 1 /\ gen' > gen /\ gen' \in Nat
      /\ ~isConnected' /\ ~isClosing' /\ Release(held.id)
      /\ starting # "revoke" /\ \A a \in Attempts : disc[a] # "revoke"
      /\ lease \in LeaseType /\ NoLease \in HeldLeases /\ NoLease.id = 0
  BY FreeFacts DEF Inv, Types, RefsOK, StopRevoked, BumpedGen, RevocationRuns, Detached
<1>l. /\ lease' \in LeaseType /\ lease'.owner # "self" /\ lease' \in {lease, Free}
  BY <1>0, ReleaseFacts, FreeFacts DEF Inv, LeaseOK
<1>b. /\ \A b \in Attempts : ~Live(b)
      /\ \A b \in Attempts : opener[b] # "none" => b <= gen /\ b # gen'
  <2>1. \A b \in Attempts : opener[b] # "none" => b <= gen
    BY DEF Inv, AttemptsOK
  <2> QED
    BY <1>0, <2>1 DEF Inv, LiveOK
<1>d. Free.owner = "none"
  BY FreeFacts
<1>e. \A b \in Attempts : disc[b] # "none" => disc[b] = "shut" /\ opener[b] # "none"
  BY <1>0 DEF Inv, Types, AttemptsOK
<1>1. Types'
  BY <1>f, <1>0, <1>l, <1>b, <1>d, <1>e DEF Inv, Types
<1>2. AttemptsOK'
  BY <1>f, <1>0, <1>l, <1>b, <1>d, <1>e DEF Inv, AttemptsOK, Running, Live, InOpenConnection
<1>3. LiveOK'
  BY <1>f, <1>0, <1>l, <1>b, <1>d, <1>e DEF Inv, LiveOK, Live, Detached
<1>4. RefsOK'
  BY <1>f, <1>0, <1>l, <1>b, <1>d, <1>e DEF Inv, Types, RefsOK, Detached, NoDisc
<1>5. StartOK'
  BY <1>f, <1>0, <1>l, <1>b, <1>d, <1>e DEF Inv, Types, StartOK, Detached, NoDisc, Rest, Running, StartReady
<1>6. DiscOK'
  BY <1>f, <1>0, <1>l, <1>b, <1>d, <1>e DEF Inv, DiscOK, Detached, Rest, Running, DisconnectReady
<1>7. TimerOK'
  BY <1>f, <1>0, <1>l, <1>b, <1>d, <1>e DEF Inv, Types, TimerOK, Rest, Running
<1>8. RunningOK'
  BY <1>f, <1>0, <1>l, <1>b, <1>d, <1>e DEF Inv, RunningOK, Running
<1>9. LeaseOK'
  BY <1>f, <1>0, <1>l, <1>b, <1>d, <1>e DEF Inv, LeaseOK, Detached
<1>10. FlagsOK'
  BY <1>f, <1>0, <1>l, <1>b, <1>d, <1>e DEF Inv, Types, FlagsOK, NoDisc, Running
<1>11. RxOK'
  BY <1>f, <1>0, <1>l, <1>b, <1>d, <1>e DEF Inv, RxOK
<1> QED
  BY <1>1, <1>2, <1>3, <1>4, <1>5, <1>6, <1>7, <1>8, <1>9, <1>10, <1>11 DEF Inv

\* stop() takes the connection, or the attempt that opens, and the lease with it.
LEMMA StopDetachesStep ==
  ASSUME Inv, StopRevoked, pending # Null \/ active # Null
  PROVE  Inv'
<1> USE AttemptFacts
<1>f. UNCHANGED <<leaseSeq, intentional, isConnecting, reconnecting, timer, pending, byReconnect,
                  committed, opener, open, proven, rx, latch, disc, starting, startPrev, stopGen,
                  late, gen, isConnected, isClosing>>
  BY DEF StopRevoked, leaseVars, flagVars, timerVars, attemptVars, nativeVars, startVars, stopVars
<1>0. /\ stopPc \in {"revoke", "detach"} /\ ~Detached /\ intentional /\ isClosing /\ stopGen = gen
      /\ stopPc' = IF pending # Null THEN "opening" ELSE "shut"
      /\ stopOpening' = pending /\ stopConn' = active /\ stopLease' = held /\ active' = Null
      /\ held' = NoLease /\ NoLease \in HeldLeases /\ NoLease.id = 0
      /\ task \in [Attempts -> {"none", "rx", "close"}]
      /\ starting # "revoke" /\ \A a \in Attempts : disc[a] # "revoke"
      /\ lease \in LeaseType /\ held \in HeldLeases
      /\ active \in Attempts \cup {Null} /\ pending \in Attempts \cup {Null}
      /\ opener \in [Attempts -> InOpenConnection \cup {"none", "opened", "failed", "done"}]
  BY FreeFacts DEF Inv, Types, RefsOK, StopRevoked, RevocationRuns, Detached, StopAwaits
<1>c. active # Null => pending = Null /\ opener[active] # "none" /\ opener[active] \notin InOpenConnection
  BY <1>0 DEF Inv, RefsOK, AttemptsOK
<1>t. /\ task' \in [Attempts -> {"none", "rx", "close"}]
      /\ \A b \in Attempts : b # active => task'[b] = task[b]
      /\ active # Null => task'[active] # "none"
  BY <1>0, <1>c DEF StopRevoked, JoinShutdown
<1>l. /\ lease' \in LeaseType /\ lease'.owner = lease.owner /\ lease'.id = lease.id
      /\ lease'.state \in {lease.state, "closing"} /\ (lease' = lease \/ lease.owner = "self")
  <2>1. \/ lease' = lease
        \/ lease.owner = "self" /\ lease' = [lease EXCEPT !.state = "closing"]
    BY DEF StopRevoked, MayTransition
  <2> QED
    BY <1>0, <2>1 DEF LeaseType, HeldStates
<1>p. pending # Null => /\ opener[pending] # "none" /\ opener[pending] \in InOpenConnection /\ Running(pending)
                        /\ starting = "none" /\ NoDisc /\ pending \notin committed
  <2> SUFFICES ASSUME pending # Null
               PROVE  /\ opener[pending] # "none" /\ opener[pending] \in InOpenConnection /\ Running(pending)
                      /\ starting = "none" /\ NoDisc /\ pending \notin committed
    OBVIOUS
  <2>1. opener[pending] \in InOpenConnection /\ pending \in Attempts
    BY <1>0 DEF Inv, AttemptsOK
  <2>2. Running(pending) /\ opener[pending] # "none" /\ pending \notin committed
    BY <2>1 DEF Running, InOpenConnection, Inv, AttemptsOK
  <2> QED
    BY <2>1, <2>2 DEF Inv, StartOK, DiscOK, NoDisc, Rest
<1>e. \A b \in Attempts : disc[b] # "none" => disc[b] = "shut" /\ opener[b] # "none"
  BY <1>0 DEF Inv, Types, AttemptsOK
<1>1. Types'
  BY <1>f, <1>0, <1>c, <1>t, <1>l, <1>p, <1>e DEF Inv, Types
<1>2. AttemptsOK'
  BY <1>f, <1>0, <1>c, <1>t, <1>l, <1>p, <1>e DEF Inv, AttemptsOK, Running, Live, InOpenConnection
<1>3. LiveOK'
  BY <1>f, <1>0, <1>c, <1>t, <1>l, <1>p, <1>e DEF Inv, LiveOK, Live, Detached
<1>4. RefsOK'
  BY <1>f, <1>0, <1>c, <1>t, <1>l, <1>p, <1>e DEF Inv, Types, RefsOK, Detached, NoDisc
<1>5. StartOK'
  BY <1>f, <1>0, <1>c, <1>t, <1>l, <1>p, <1>e DEF Inv, Types, StartOK, Detached, NoDisc, Rest, Running, StartReady
<1>6. DiscOK'
  BY <1>f, <1>0, <1>c, <1>t, <1>l, <1>p, <1>e DEF Inv, DiscOK, Detached, Rest, Running, DisconnectReady
<1>7. TimerOK'
  BY <1>f, <1>0, <1>c, <1>t, <1>l, <1>p, <1>e DEF Inv, Types, TimerOK, Rest, Running
<1>8. RunningOK'
  BY <1>f, <1>0, <1>c, <1>t, <1>l, <1>p, <1>e DEF Inv, RunningOK, Running
<1>9. LeaseOK'
  BY <1>f, <1>0, <1>c, <1>t, <1>l, <1>p, <1>e DEF Inv, LeaseOK, Detached
<1>10. FlagsOK'
  BY <1>f, <1>0, <1>c, <1>t, <1>l, <1>p, <1>e DEF Inv, Types, FlagsOK, NoDisc, Running
<1>11. RxOK'
  BY <1>f, <1>0, <1>c, <1>t, <1>l, <1>p, <1>e DEF Inv, RxOK
<1> QED
  BY <1>1, <1>2, <1>3, <1>4, <1>5, <1>6, <1>7, <1>8, <1>9, <1>10, <1>11 DEF Inv

\* stop() takes back the lease of an attempt that it could not close.
LEMMA RetakeFacts ==
  ASSUME NEW L \in HeldLeases, NEW g \in Nat, lease \in LeaseType,
         Transition([L EXCEPT !.gen = g], g, "closing")
  PROVE  /\ lease' \in LeaseType /\ held' \in HeldLeases /\ held'.id = L.id /\ held'.gen = g
         /\ lease'.owner = lease.owner /\ lease'.id = lease.id
         /\ lease'.state \in {lease.state, "closing"} /\ (lease' = lease \/ lease.owner = "self")
<1> DEFINE M == [L EXCEPT !.gen = g]
<1>1. M \in HeldLeases /\ M.id = L.id /\ M.gen = g /\ "closing" \in HeldStates
  BY DEF HeldLeases, HeldStates
<1>2. Transition(M, g, "closing")
  OBVIOUS
<1> HIDE DEF M
<1> QED
  BY <1>1, <1>2, TransitionFacts

\* The open that stop() waited for has settled.
LEMMA StopOpeningSettledStep ==
  ASSUME Inv, StopOpeningSettled
  PROVE  Inv'
<1> USE AttemptFacts
<1>f. UNCHANGED <<stopGen, leaseSeq, intentional, isConnecting, reconnecting, timer, byReconnect,
                  committed, opener, open, proven, rx, disc, starting, startPrev, task>>
  BY DEF StopOpeningSettled, StopFinishes, timerVars, attemptVars, startVars
<1>0. /\ stopPc = "opening" /\ Detached /\ intentional /\ stopPc' = "none" /\ stopLease' = NoLease
      /\ stopConn' = Null /\ stopOpening' = Null /\ ~isConnected' /\ ~isClosing'
      /\ stopOpening \in Attempts /\ opener[stopOpening] \notin InOpenConnection
      /\ gen \in Nat /\ gen' = gen + 1 /\ gen' > gen /\ gen' \in Nat /\ (latch => latch')
      /\ stopLease \in HeldLeases /\ lease \in LeaseType /\ held \in HeldLeases
      /\ NoLease \in HeldLeases
  <2>1. /\ stopPc = "opening" /\ stopPc' = "none" /\ stopLease' = NoLease
        /\ stopConn' = Null /\ stopOpening' = Null /\ ~isConnected' /\ ~isClosing'
        /\ opener[stopOpening] \notin InOpenConnection /\ gen' = BumpedGen
    BY DEF StopOpeningSettled, StopFinishes, Settled
  <2>2. latch => latch'
    BY DEF StopOpeningSettled, StopFinishes
  <2>3. intentional /\ stopGen = gen /\ stopOpening # Null
    BY <2>1 DEF Inv, RefsOK
  <2> QED
    BY <2>1, <2>2, <2>3, FreeFacts DEF Inv, Types, BumpedGen, Detached
<1>a. /\ pending = Null /\ active \in {Null, stopOpening} /\ starting = "none" /\ NoDisc
      /\ opener[stopOpening] # "none" /\ stopConn = Null
      /\ held.id = 0 /\ (lease.owner = "self" => lease.id = stopLease.id /\ lease.id # 0)
      /\ \A b \in Attempts : opener[b] # "opened"
      /\ \A b \in Attempts : opener[b] # "none" => b <= gen /\ b # gen'
      /\ \A b \in Attempts : disc[b] = "none"
  <2>1. /\ pending \in {Null, stopOpening} /\ active \in {Null, stopOpening} /\ starting = "none"
        /\ NoDisc /\ opener[stopOpening] # "none" /\ stopConn = Null
    BY <1>0 DEF Inv, RefsOK
  <2>2. pending = Null
    BY <1>0, <2>1 DEF Inv, AttemptsOK
  <2>3. held.id = 0 /\ (lease.owner = "self" => lease.id = stopLease.id /\ lease.id # 0)
    BY <1>0 DEF Inv, LeaseOK
  <2>4. \A b \in Attempts : opener[b] # "opened"
    BY <1>0 DEF Inv, RunningOK, Running
  <2>5. \A b \in Attempts : opener[b] # "none" => b <= gen
    BY DEF Inv, AttemptsOK
  <2> QED
    BY <1>0, <2>1, <2>2, <2>3, <2>4, <2>5 DEF NoDisc
<1>b. \A b \in Attempts : Live(b) => b = stopOpening /\ stopOpening \notin proven /\ lease.owner = "self"
  BY <1>0, <1>a DEF Inv, LiveOK, Live
<1>s. StopLeases(stopLease, stopOpening, Null, TRUE, stopOpening \in proven, gen')
  BY DEF StopOpeningSettled, StopFinishes
<1>l. /\ lease' \in LeaseType /\ held' \in HeldLeases /\ pending' = Null /\ UNCHANGED late
      /\ held'.id # 0 => held'.gen = gen'
      /\ \/ /\ lease'.owner # "self" /\ lease' \in {lease, Free} /\ active' = active
            /\ \A b \in Attempts : ~Live(b)
         \/ /\ active' = stopOpening /\ held'.id = stopLease.id
            /\ lease'.owner = lease.owner /\ lease'.id = lease.id
            /\ lease'.state \in {lease.state, "closing"} /\ (lease' = lease \/ lease.owner = "self")
  <2>1. CASE stopLease.id = 0
    BY <1>0, <1>a, <1>b, <1>s, <2>1 DEF StopLeases
  <2>2. CASE stopLease.id # 0 /\ stopOpening \in proven
    <3>1. Release(stopLease.id) /\ UNCHANGED <<held, pending, active, late>>
      BY <1>s, <2>2 DEF StopLeases
    <3>2. lease' \in LeaseType /\ lease'.owner # "self" /\ lease' \in {lease, Free}
      BY <1>0, <1>a, <3>1, ReleaseFacts, FreeFacts
    <3> QED
      BY <1>0, <1>a, <1>b, <2>2, <3>1, <3>2
  <2>3. CASE stopLease.id # 0 /\ stopOpening \notin proven
    <3>1. /\ pending' = WithoutPending(stopOpening) /\ active' = stopOpening /\ UNCHANGED late
          /\ Transition([stopLease EXCEPT !.gen = gen'], gen', "closing")
      BY <1>s, <2>3 DEF StopLeases
    <3> QED
      BY <1>0, <1>a, <3>1, RetakeFacts DEF WithoutPending
  <2> QED
    BY <2>1, <2>2, <2>3
<1>d. Free.owner = "none"
  BY FreeFacts
<1>1. Types'
  BY <1>f, <1>0, <1>a, <1>b, <1>l, <1>d DEF Inv, Types
<1>2. AttemptsOK'
  BY <1>f, <1>0, <1>a, <1>b, <1>l, <1>d DEF Inv, AttemptsOK, Running, Live, InOpenConnection
<1>3. LiveOK'
  BY <1>f, <1>0, <1>a, <1>b, <1>l, <1>d DEF Inv, LiveOK, Live, Detached
<1>4. RefsOK'
  BY <1>f, <1>0, <1>a, <1>b, <1>l, <1>d DEF Inv, Types, RefsOK, Detached, NoDisc
<1>5. StartOK'
  BY <1>f, <1>0, <1>a, <1>b, <1>l, <1>d DEF Inv, Types, StartOK, Detached, NoDisc, Rest, Running, StartReady
<1>6. DiscOK'
  BY <1>f, <1>0, <1>a, <1>b, <1>l, <1>d DEF Inv, DiscOK, Detached, Rest, Running, DisconnectReady
<1>7. TimerOK'
  BY <1>f, <1>0, <1>a, <1>b, <1>l, <1>d DEF Inv, Types, TimerOK, Rest, Running
<1>8. RunningOK'
  BY <1>f, <1>0, <1>a, <1>b, <1>l, <1>d DEF Inv, RunningOK, Running
<1>9. LeaseOK'
  BY <1>f, <1>0, <1>a, <1>b, <1>l, <1>d DEF Inv, LeaseOK, Detached
<1>10. FlagsOK'
  BY <1>f, <1>0, <1>a, <1>b, <1>l, <1>d DEF Inv, Types, FlagsOK, NoDisc, Running
<1>11. RxOK'
  BY <1>f, <1>0, <1>a, <1>b, <1>l, <1>d DEF Inv, RxOK
<1> QED
  BY <1>1, <1>2, <1>3, <1>4, <1>5, <1>6, <1>7, <1>8, <1>9, <1>10, <1>11 DEF Inv

\* It has not: the lease, the attempt and the callback stay together.
LEMMA StopOpeningTimeoutStep ==
  ASSUME Inv, StopOpeningTimeout
  PROVE  Inv'
<1> USE AttemptFacts
<1>f. UNCHANGED <<stopGen, leaseSeq, intentional, isConnecting, reconnecting, timer, byReconnect,
                  committed, opener, open, proven, rx, disc, starting, startPrev, task>>
  BY DEF StopOpeningTimeout, StopFinishes, timerVars, attemptVars, startVars
<1>0. /\ stopPc = "opening" /\ Detached /\ intentional /\ stopPc' = "none" /\ stopLease' = NoLease
      /\ stopConn' = Null /\ stopOpening' = Null /\ ~isConnected' /\ ~isClosing'
      /\ stopOpening \in Attempts /\ opener[stopOpening] \in InOpenConnection
      /\ gen \in Nat /\ gen' = gen /\ (latch => latch')
      /\ stopLease \in HeldLeases /\ lease \in LeaseType /\ held \in HeldLeases
      /\ NoLease \in HeldLeases
  <2>1. /\ stopPc = "opening" /\ stopPc' = "none" /\ stopLease' = NoLease
        /\ stopConn' = Null /\ stopOpening' = Null /\ ~isConnected' /\ ~isClosing'
        /\ opener[stopOpening] \in InOpenConnection /\ gen' = gen
    BY DEF StopOpeningTimeout, StopFinishes, Settled
  <2>2. latch => latch'
    BY DEF StopOpeningTimeout, StopFinishes
  <2>3. intentional /\ stopOpening # Null
    BY <2>1 DEF Inv, RefsOK
  <2> QED
    BY <2>1, <2>2, <2>3, FreeFacts DEF Inv, Types, Detached
<1>a. /\ pending = stopOpening /\ active = Null /\ starting = "none"
      /\ opener[stopOpening] # "none" /\ stopConn = Null /\ stopOpening \notin committed
      /\ held.id = 0 /\ (lease.owner = "self" => lease.id = stopLease.id /\ lease.id # 0)
      /\ \A b \in Attempts : opener[b] # "opened" /\ disc[b] = "none"
  <2>1. /\ starting = "none" /\ NoDisc /\ opener[stopOpening] # "none" /\ stopConn = Null
        /\ stopOpening \notin committed
    BY <1>0 DEF Inv, RefsOK
  <2>2. pending = stopOpening /\ active = Null
    BY <1>0 DEF Inv, AttemptsOK, RefsOK
  <2>3. held.id = 0 /\ (lease.owner = "self" => lease.id = stopLease.id /\ lease.id # 0)
    BY <1>0 DEF Inv, LeaseOK
  <2>4. \A b \in Attempts : opener[b] # "opened"
    BY <1>0 DEF Inv, RunningOK, Running
  <2> QED
    BY <2>1, <2>2, <2>3, <2>4 DEF NoDisc
<1>b. \A b \in Attempts : Live(b) => b = stopOpening /\ lease.owner = "self"
  BY <1>0, <1>a DEF Inv, LiveOK
<1>s. StopLeases(stopLease, stopOpening, Null, FALSE, FALSE, gen)
  BY DEF StopOpeningTimeout, StopFinishes
<1>l. /\ UNCHANGED <<lease, active>> /\ pending' = stopOpening
      /\ \/ stopLease.id = 0 /\ UNCHANGED <<held, late>>
         \/ /\ held' \in HeldLeases /\ held'.id = stopLease.id /\ held'.gen = gen
            /\ late' = late \cup {[opening |-> stopOpening, lease |-> stopLease]}
  <2>1. CASE stopLease.id = 0
    BY <1>a, <1>s, <2>1 DEF StopLeases
  <2>2. CASE stopLease.id # 0
    <3>1. /\ pending' = stopOpening /\ held' = [stopLease EXCEPT !.gen = gen]
          /\ late' = late \cup {[opening |-> stopOpening, lease |-> stopLease]}
          /\ UNCHANGED <<lease, active>>
      BY <1>0, <1>s, <2>2 DEF StopLeases
    <3>2. held' \in HeldLeases /\ held'.id = stopLease.id /\ held'.gen = gen
      BY <1>0, <3>1 DEF HeldLeases
    <3> QED
      BY <3>1, <3>2
  <2> QED
    BY <2>1, <2>2
<1>e. \A e \in late' :
        e \in late \/ (e.opening = stopOpening /\ e.lease = stopLease)
  BY <1>l
<1>w. late' = late \/ late' # {}
  BY <1>l
<1>1. Types'
  BY <1>f, <1>0, <1>a, <1>b, <1>l, <1>e, <1>w DEF Inv, Types
<1>2. AttemptsOK'
  BY <1>f, <1>0, <1>a, <1>b, <1>l, <1>e, <1>w DEF Inv, AttemptsOK, Running, Live, InOpenConnection
<1>3. LiveOK'
  BY <1>f, <1>0, <1>a, <1>b, <1>l, <1>e, <1>w DEF Inv, LiveOK, Live, Detached
<1>4. RefsOK'
  BY <1>f, <1>0, <1>a, <1>b, <1>l, <1>e, <1>w DEF Inv, Types, RefsOK, Detached, NoDisc
<1>5. StartOK'
  BY <1>f, <1>0, <1>a, <1>b, <1>l, <1>e, <1>w DEF Inv, Types, StartOK, Detached, NoDisc, Rest, Running, StartReady
<1>6. DiscOK'
  BY <1>f, <1>0, <1>a, <1>b, <1>l, <1>e, <1>w DEF Inv, DiscOK, Detached, Rest, Running, DisconnectReady
<1>7. TimerOK'
  BY <1>f, <1>0, <1>a, <1>b, <1>l, <1>e, <1>w DEF Inv, Types, TimerOK, Rest, Running
<1>8. RunningOK'
  BY <1>f, <1>0, <1>a, <1>b, <1>l, <1>e, <1>w DEF Inv, RunningOK, Running
<1>9. LeaseOK'
  BY <1>f, <1>0, <1>a, <1>b, <1>l, <1>e, <1>w DEF Inv, LeaseOK, Detached
<1>10. FlagsOK'
  BY <1>f, <1>0, <1>a, <1>b, <1>l, <1>e, <1>w DEF Inv, Types, FlagsOK, NoDisc, Running
<1>11. RxOK'
  BY <1>f, <1>0, <1>a, <1>b, <1>l, <1>e, <1>w DEF Inv, RxOK
<1> QED
  BY <1>1, <1>2, <1>3, <1>4, <1>5, <1>6, <1>7, <1>8, <1>9, <1>10, <1>11 DEF Inv

\* The connection that stop() took is shut down.
LEMMA StopShutDownStep ==
  ASSUME Inv, StopShutDown
  PROVE  Inv'
<1> USE AttemptFacts
<1>f. UNCHANGED <<stopGen, leaseSeq, intentional, isConnecting, reconnecting, timer, byReconnect,
                  committed, opener, open, proven, rx, disc, starting, startPrev, task>>
  BY DEF StopShutDown, StopFinishes, timerVars, attemptVars, startVars
<1>0. /\ stopPc = "shut" /\ Detached /\ intentional /\ stopPc' = "none" /\ stopLease' = NoLease
      /\ stopConn' = Null /\ stopOpening' = Null /\ ~isConnected' /\ ~isClosing'
      /\ stopConn \in Attempts /\ task[stopConn] = "none"
      /\ gen \in Nat /\ gen' = gen + 1 /\ gen' > gen /\ gen' \in Nat /\ (latch => latch')
      /\ stopLease \in HeldLeases /\ lease \in LeaseType /\ held \in HeldLeases
      /\ NoLease \in HeldLeases
  <2>1. /\ stopPc = "shut" /\ stopPc' = "none" /\ stopLease' = NoLease
        /\ stopConn' = Null /\ stopOpening' = Null /\ ~isConnected' /\ ~isClosing'
        /\ task[stopConn] = "none" /\ gen' = BumpedGen
    BY DEF StopShutDown, StopFinishes
  <2>2. latch => latch'
    BY DEF StopShutDown, StopFinishes
  <2>3. intentional /\ stopGen = gen /\ stopConn # Null
    BY <2>1 DEF Inv, RefsOK
  <2> QED
    BY <2>1, <2>2, <2>3, FreeFacts DEF Inv, Types, BumpedGen, Detached
<1>a. /\ pending = Null /\ stopOpening = Null /\ opener[stopConn] # "none"
      /\ held.id = 0 /\ (lease.owner = "self" => lease.id = stopLease.id /\ lease.id # 0)
      /\ \A b \in Attempts : opener[b] # "opened"
      /\ \A b \in Attempts : opener[b] # "none" => b <= gen /\ b # gen'
  <2>1. pending = Null /\ stopOpening = Null /\ opener[stopConn] # "none"
    BY <1>0 DEF Inv, RefsOK
  <2>3. held.id = 0 /\ (lease.owner = "self" => lease.id = stopLease.id /\ lease.id # 0)
    BY <1>0 DEF Inv, LeaseOK
  <2>4. \A b \in Attempts : opener[b] # "opened"
    BY <1>0 DEF Inv, RunningOK, Running
  <2>5. \A b \in Attempts : opener[b] # "none" => b <= gen
    BY DEF Inv, AttemptsOK
  <2> QED
    BY <1>0, <2>1, <2>3, <2>4, <2>5
<1>b. \A b \in Attempts : Live(b) => b = stopConn /\ stopConn \notin proven /\ lease.owner = "self"
  BY <1>0, <1>a DEF Inv, LiveOK, Live
<1>c. /\ starting # "none" => StartReady /\ opener[startPrev] # "none" /\ startPrev # gen'
      /\ \A b \in Attempts : disc[b] # "none" => DisconnectReady(b) /\ b # gen'
  <2>1. starting # "none" => StartReady /\ opener[startPrev] # "none" /\ startPrev \in Attempts
    BY <1>0 DEF Inv, Types, StartOK, StartReady
  <2>2. \A b \in Attempts : disc[b] # "none" => DisconnectReady(b) /\ opener[b] # "none"
    BY <1>0 DEF Inv, DiscOK, DisconnectReady, AttemptsOK
  <2> QED
    BY <1>a, <2>1, <2>2
<1>s. StopLeases(stopLease, Null, stopConn, FALSE, stopConn \in proven, gen')
  BY DEF StopShutDown, StopFinishes
<1>l. /\ lease' \in LeaseType /\ held' \in HeldLeases /\ pending' = Null /\ UNCHANGED late
      /\ held'.id # 0 => held'.gen = gen'
      /\ \/ /\ lease'.owner # "self" /\ lease' \in {lease, Free} /\ active' = active
            /\ \A b \in Attempts : ~Live(b)
         \/ /\ active' = stopConn /\ held'.id = stopLease.id
            /\ lease'.owner = lease.owner /\ lease'.id = lease.id
            /\ lease'.state \in {lease.state, "closing"} /\ (lease' = lease \/ lease.owner = "self")
  <2>1. CASE stopLease.id = 0
    BY <1>0, <1>a, <1>b, <1>s, <2>1 DEF StopLeases
  <2>2. CASE stopLease.id # 0 /\ stopConn \in proven
    <3>1. Release(stopLease.id) /\ UNCHANGED <<held, pending, active, late>>
      BY <1>s, <2>2 DEF StopLeases
    <3>2. lease' \in LeaseType /\ lease'.owner # "self" /\ lease' \in {lease, Free}
      BY <1>0, <1>a, <3>1, ReleaseFacts, FreeFacts
    <3> QED
      BY <1>0, <1>a, <1>b, <2>2, <3>1, <3>2
  <2>3. CASE stopLease.id # 0 /\ stopConn \notin proven
    <3>1. /\ pending' = WithoutPending(stopConn) /\ active' = stopConn /\ UNCHANGED late
          /\ Transition([stopLease EXCEPT !.gen = gen'], gen', "closing")
      BY <1>0, <1>s, <2>3 DEF StopLeases
    <3> QED
      BY <1>0, <1>a, <3>1, RetakeFacts DEF WithoutPending
  <2> QED
    BY <2>1, <2>2, <2>3
<1>g. active' # gen' \/ active' = Null
  <2>1. active \in Attempts \cup {Null} /\ (active # Null => opener[active] # "none")
    BY DEF Inv, Types, RefsOK
  <2> QED
    BY <1>0, <1>a, <1>l, <2>1
<1>d. Free.owner = "none"
  BY FreeFacts
<1>1. Types'
  BY <1>f, <1>0, <1>a, <1>b, <1>c, <1>l, <1>d DEF Inv, Types
<1>2. AttemptsOK'
  BY <1>f, <1>0, <1>a, <1>b, <1>c, <1>l, <1>d DEF Inv, AttemptsOK, Running, Live, InOpenConnection
<1>3. LiveOK'
  BY <1>f, <1>0, <1>a, <1>b, <1>c, <1>l, <1>d DEF Inv, LiveOK, Live, Detached
<1>4. RefsOK'
  BY <1>f, <1>0, <1>a, <1>b, <1>c, <1>l, <1>d DEF Inv, Types, RefsOK, Detached, NoDisc
<1>5. StartOK'
  BY <1>f, <1>0, <1>a, <1>b, <1>c, <1>l, <1>d DEF Inv, Types, StartOK, Detached, NoDisc, Rest, Running, StartReady
<1>6. DiscOK'
  BY <1>f, <1>0, <1>a, <1>b, <1>c, <1>l, <1>d DEF Inv, DiscOK, Detached, Rest, Running, DisconnectReady
<1>7. TimerOK'
  BY <1>f, <1>0, <1>a, <1>b, <1>c, <1>l, <1>d DEF Inv, Types, TimerOK, Rest, Running
<1>8. RunningOK'
  BY <1>f, <1>0, <1>a, <1>b, <1>c, <1>l, <1>d DEF Inv, RunningOK, Running
<1>9. LeaseOK'
  BY <1>f, <1>0, <1>a, <1>b, <1>c, <1>l, <1>d DEF Inv, LeaseOK, Detached
<1>10. FlagsOK'
  BY <1>f, <1>0, <1>a, <1>b, <1>c, <1>g, <1>l, <1>d DEF Inv, Types, FlagsOK, NoDisc, Running
<1>11. RxOK'
  BY <1>f, <1>0, <1>a, <1>b, <1>c, <1>l, <1>d DEF Inv, RxOK
<1> QED
  BY <1>1, <1>2, <1>3, <1>4, <1>5, <1>6, <1>7, <1>8, <1>9, <1>10, <1>11 DEF Inv

\* An open that outlived a stop() settles.
LEMMA LateOpenSettledStep ==
  ASSUME Inv, NEW e \in late, LateOpenSettled(e), stopPc # "detach"
  PROVE  Inv'
<1> USE AttemptFacts
<1>f. UNCHANGED <<leaseSeq, gen, intentional, isConnecting, isClosing, reconnecting, timer,
                  byReconnect, committed, opener, open, proven, rx, task, disc, starting,
                  startPrev, stopPc, stopGen, stopConn, stopOpening, stopLease>>
  BY DEF LateOpenSettled, leaseVars, flagVars, timerVars, attemptVars, nativeVars, startVars, stopVars
<1>0. /\ late' = late \ {e} /\ e.opening \in Attempts /\ e.lease \in HeldLeases
      /\ opener[e.opening] \notin InOpenConnection
      /\ lease \in LeaseType /\ held \in HeldLeases /\ NoLease \in HeldLeases /\ NoLease.id = 0
  BY FreeFacts DEF Inv, Types, LateOpenSettled, LateReady, Settled
<1>a. /\ pending = Null /\ intentional /\ starting = "none" /\ late # {}
      /\ opener[e.opening] # "none" /\ e.opening \notin committed
      /\ \A b \in Attempts : disc[b] = "none" /\ opener[b] # "opened"
      /\ lease.owner = "self" => e.lease.id = lease.id
      /\ Detached => held.id = 0
  <2>1. opener[e.opening] # "none" /\ e.opening \notin committed /\ pending \in {Null, e.opening}
    BY DEF Inv, RefsOK
  <2>2. pending = Null
    BY <1>0, <2>1 DEF Inv, AttemptsOK
  <2>3. starting = "none" /\ intentional /\ \A b \in Attempts : disc[b] = "none"
    BY DEF Inv, StartOK, DiscOK, TimerOK
  <2>4. \A b \in Attempts : opener[b] # "opened"
    BY DEF Inv, RunningOK, Running
  <2>5. (lease.owner = "self" => e.lease.id = lease.id) /\ (Detached => held.id = 0)
    BY DEF Inv, LeaseOK
  <2> QED
    BY <2>1, <2>2, <2>3, <2>4, <2>5
<1>b. \A b \in Attempts : Live(b) => b = e.opening
  BY DEF Inv, LiveOK
<1>l. /\ lease' \in LeaseType /\ held' \in HeldLeases /\ pending' = Null /\ (latch => latch')
      /\ held'.id # 0 => held'.id = held.id /\ held'.gen = held.gen
      /\ \/ /\ e.opening \in proven /\ lease'.owner # "self" /\ lease' \in {lease, Free}
            /\ UNCHANGED <<active, isConnected>>
         \/ /\ e.opening \notin proven /\ active' = e.opening /\ ~isConnected' /\ held'.id = held.id
            /\ lease'.owner = lease.owner /\ lease'.id = lease.id
            /\ lease'.state \in {lease.state, "closing"} /\ (lease' = lease \/ lease.owner = "self")
  <2>1. CASE e.opening \in proven
    <3>1. /\ latch' = (latch \/ rx[e.opening] = "unsafe") /\ Release(e.lease.id)
          /\ held' = IF held.id = e.lease.id THEN NoLease ELSE held
          /\ pending' = WithoutPending(e.opening) /\ UNCHANGED <<active, isConnected>>
      BY <2>1 DEF LateOpenSettled
    <3>2. lease' \in LeaseType /\ lease'.owner # "self" /\ lease' \in {lease, Free}
      BY <1>0, <1>a, <3>1, ReleaseFacts, FreeFacts
    <3>3. latch => latch'
      BY <3>1
    <3> QED
      BY <1>0, <1>a, <2>1, <3>1, <3>2, <3>3 DEF WithoutPending
  <2>2. CASE e.opening \notin proven
    <3>1. /\ RetainUnclosed(e.opening, held, gen) /\ UNCHANGED latch /\ "closing" \in HeldStates
      BY <2>2 DEF LateOpenSettled, HeldStates
    <3> QED
      BY <1>0, <1>a, <2>2, <3>1, TransitionFacts DEF RetainUnclosed, WithoutPending
  <2> QED
    BY <2>1, <2>2
<1>d. Free.owner = "none"
  BY FreeFacts
<1>c. Live(e.opening) \/ e.opening \in proven
  BY <1>a DEF Live
<1>g. Detached /\ e.opening \notin proven => e.opening \in {stopConn, stopOpening}
  BY <1>0, <1>c DEF Inv, LiveOK
<1>1. Types'
  BY <1>f, <1>0, <1>a, <1>b, <1>l, <1>d, <1>c DEF Inv, Types
<1>2. AttemptsOK'
  BY <1>f, <1>0, <1>a, <1>b, <1>l, <1>d, <1>c DEF Inv, AttemptsOK, Running, Live, InOpenConnection
<1>3. LiveOK'
  BY <1>f, <1>0, <1>a, <1>b, <1>l, <1>d, <1>c DEF Inv, LiveOK, Live, Detached
<1>4. RefsOK'
  BY <1>f, <1>0, <1>a, <1>b, <1>l, <1>d, <1>c, <1>g DEF Inv, Types, RefsOK, Detached, NoDisc
<1>5. StartOK'
  BY <1>f, <1>0, <1>a, <1>b, <1>l, <1>d, <1>c DEF Inv, Types, StartOK, Detached, NoDisc, Rest, Running, StartReady
<1>6. DiscOK'
  BY <1>f, <1>0, <1>a, <1>b, <1>l, <1>d, <1>c DEF Inv, DiscOK, Detached, Rest, Running, DisconnectReady
<1>7. TimerOK'
  BY <1>f, <1>0, <1>a, <1>b, <1>l, <1>d, <1>c DEF Inv, Types, TimerOK, Rest, Running
<1>8. RunningOK'
  BY <1>f, <1>0, <1>a, <1>b, <1>l, <1>d, <1>c DEF Inv, RunningOK, Running
<1>9. LeaseOK'
  BY <1>f, <1>0, <1>a, <1>b, <1>l, <1>d, <1>c DEF Inv, LeaseOK, Detached
<1>10. FlagsOK'
  BY <1>f, <1>0, <1>a, <1>b, <1>l, <1>d, <1>c DEF Inv, Types, FlagsOK, NoDisc, Running
<1>11. RxOK'
  BY <1>f, <1>0, <1>a, <1>b, <1>l, <1>d, <1>c DEF Inv, RxOK
<1> QED
  BY <1>1, <1>2, <1>3, <1>4, <1>5, <1>6, <1>7, <1>8, <1>9, <1>10, <1>11 DEF Inv

\* Another session takes the port, which is free only when no attempt is live.
LEMMA OtherAcquiresStep ==
  ASSUME Inv, OtherAcquires
  PROVE  Inv'
<1> USE AttemptFacts
<1>f. UNCHANGED <<held, gen, intentional, isConnecting, isConnected, isClosing, reconnecting, timer,
                  active, pending, byReconnect, committed, opener, open, proven, rx, latch, task,
                  disc, starting, startPrev, stopPc, stopGen, stopConn, stopOpening, stopLease,
                  late>>
  BY DEF OtherAcquires, leaseVars, flagVars, timerVars, attemptVars, nativeVars, startVars, stopVars
<1>0. /\ lease.owner # "self" /\ lease' \in LeaseType /\ leaseSeq' \in Nat
      /\ lease'.owner # "self" /\ (lease'.owner = "none" => lease' = Free)
  BY FreeFacts DEF Inv, Types, OtherAcquires, LeaseType, HeldStates
<1>a. \A b \in Attempts : ~Live(b) /\ b \notin open
  BY <1>0 DEF Inv, LiveOK, AttemptsOK
<1>1. Types'
  BY <1>f, <1>0, <1>a DEF Inv, Types
<1>2. AttemptsOK'
  BY <1>f, <1>0, <1>a DEF Inv, AttemptsOK, Running, Live, InOpenConnection
<1>3. LiveOK'
  BY <1>f, <1>0, <1>a DEF Inv, LiveOK, Live, Detached
<1>4. RefsOK'
  BY <1>f, <1>0, <1>a DEF Inv, Types, RefsOK, Detached, NoDisc
<1>5. StartOK'
  BY <1>f, <1>0, <1>a DEF Inv, Types, StartOK, Detached, NoDisc, Rest, Running, StartReady
<1>6. DiscOK'
  BY <1>f, <1>0, <1>a DEF Inv, DiscOK, Detached, Rest, Running, DisconnectReady
<1>7. TimerOK'
  BY <1>f, <1>0, <1>a DEF Inv, Types, TimerOK, Rest, Running
<1>8. RunningOK'
  BY <1>f, <1>0, <1>a DEF Inv, RunningOK, Running
<1>9. LeaseOK'
  BY <1>f, <1>0, <1>a DEF Inv, LeaseOK, Detached
<1>10. FlagsOK'
  BY <1>f, <1>0, <1>a DEF Inv, Types, FlagsOK, NoDisc, Running
<1>11. RxOK'
  BY <1>f, <1>0, <1>a DEF Inv, RxOK
<1> QED
  BY <1>1, <1>2, <1>3, <1>4, <1>5, <1>6, <1>7, <1>8, <1>9, <1>10, <1>11 DEF Inv

\* Another session gives the port back.
LEMMA OtherReleasesStep ==
  ASSUME Inv, OtherReleases
  PROVE  Inv'
<1> USE AttemptFacts
<1>f. UNCHANGED <<held, gen, intentional, isConnecting, isConnected, isClosing, reconnecting, timer,
                  active, pending, byReconnect, committed, opener, open, proven, rx, latch, task,
                  disc, starting, startPrev, stopPc, stopGen, stopConn, stopOpening, stopLease,
                  late>>
  BY DEF OtherReleases, leaseVars, flagVars, timerVars, attemptVars, nativeVars, startVars, stopVars
<1>0. /\ lease.owner # "self" /\ lease' \in LeaseType /\ leaseSeq' \in Nat
      /\ lease'.owner # "self" /\ (lease'.owner = "none" => lease' = Free)
  BY FreeFacts DEF Inv, Types, OtherReleases, LeaseType, HeldStates
<1>a. \A b \in Attempts : ~Live(b) /\ b \notin open
  BY <1>0 DEF Inv, LiveOK, AttemptsOK
<1>1. Types'
  BY <1>f, <1>0, <1>a DEF Inv, Types
<1>2. AttemptsOK'
  BY <1>f, <1>0, <1>a DEF Inv, AttemptsOK, Running, Live, InOpenConnection
<1>3. LiveOK'
  BY <1>f, <1>0, <1>a DEF Inv, LiveOK, Live, Detached
<1>4. RefsOK'
  BY <1>f, <1>0, <1>a DEF Inv, Types, RefsOK, Detached, NoDisc
<1>5. StartOK'
  BY <1>f, <1>0, <1>a DEF Inv, Types, StartOK, Detached, NoDisc, Rest, Running, StartReady
<1>6. DiscOK'
  BY <1>f, <1>0, <1>a DEF Inv, DiscOK, Detached, Rest, Running, DisconnectReady
<1>7. TimerOK'
  BY <1>f, <1>0, <1>a DEF Inv, Types, TimerOK, Rest, Running
<1>8. RunningOK'
  BY <1>f, <1>0, <1>a DEF Inv, RunningOK, Running
<1>9. LeaseOK'
  BY <1>f, <1>0, <1>a DEF Inv, LeaseOK, Detached
<1>10. FlagsOK'
  BY <1>f, <1>0, <1>a DEF Inv, Types, FlagsOK, NoDisc, Running
<1>11. RxOK'
  BY <1>f, <1>0, <1>a DEF Inv, RxOK
<1> QED
  BY <1>1, <1>2, <1>3, <1>4, <1>5, <1>6, <1>7, <1>8, <1>9, <1>10, <1>11 DEF Inv

-----------------------------------------------------------------------------
\* Inv is inductive.
LEMMA NextInv == Inv /\ [Next]_vars => Inv'
<1> SUFFICES ASSUME Inv, [Next]_vars PROVE Inv'
  OBVIOUS
<1>1. CASE StopRevoked
  BY <1>1, StopAtOnceStep, StopDetachesStep
<1>2. CASE stopPc # "detach" /\ Microtask
  <2>1. CASE StartPrevClosed
    BY <1>2, <2>1, StartPrevClosedStep
  <2>2. CASE StopOpeningSettled
    BY <2>2, StopOpeningSettledStep
  <2>3. CASE StopShutDown
    BY <2>3, StopShutDownStep
  <2>4. ASSUME NEW a \in Attempts, CleanupReturns(a) PROVE Inv'
    BY <2>4, CleanupReturnsStep
  <2>5. ASSUME NEW a \in Attempts, OpenedResumes(a) PROVE Inv'
    BY <1>2, <2>5, OpenedResumesStep
  <2>6. ASSUME NEW a \in Attempts, FailedResumes(a) PROVE Inv'
    BY <2>6, FailedResumesStep
  <2>7. ASSUME NEW a \in Attempts, DisconnectClosed(a) PROVE Inv'
    BY <1>2, <2>7, DisconnectClosedStep
  <2>8. ASSUME NEW e \in late, LateOpenSettled(e) PROVE Inv'
    BY <1>2, <2>8, LateOpenSettledStep
  <2> QED
    BY <1>2, <2>1, <2>2, <2>3, <2>4, <2>5, <2>6, <2>7, <2>8 DEF Microtask
<1>3. CASE Stop
  BY <1>3, StopStep
<1>4. CASE Quiet /\ Teardown
  <2>1. CASE StartRevoked
    BY <2>1, StartRevokedStep
  <2>2. ASSUME NEW a \in Attempts, ShutdownDrains(a) PROVE Inv'
    BY <2>2, DrainsStep
  <2>3. ASSUME NEW a \in Attempts, ShutdownCloses(a) PROVE Inv'
    BY <1>4, <2>3, ClosesStep
  <2>4. ASSUME NEW a \in Attempts, DisconnectRevoked(a) PROVE Inv'
    BY <2>4, DisconnectRevokedStep
  <2> QED
    BY <1>1, <1>4, <2>1, <2>2, <2>3, <2>4 DEF Teardown
<1>5. CASE Quiet /\ Opening
  BY <1>5, OpenReturnsStep, WatchReturnsStep, LinesReturnStep DEF Opening
<1>6. CASE Quiet /\ Environment
  <2>1. ASSUME NEW a \in Attempts, Disconnect(a) PROVE Inv'
    BY <1>6, <2>1, DisconnectStep
  <2> QED
    BY <1>6, <2>1, StartStep, ReconnectTimerStep, OtherAcquiresStep, OtherReleasesStep
       DEF Environment
<1>7. CASE StopOpeningTimeout
  BY <1>7, StopOpeningTimeoutStep
<1>8. CASE UNCHANGED vars
  <2>1. UNCHANGED <<lease, leaseSeq, held, gen, intentional, isConnecting, isConnected, isClosing,
                    reconnecting, timer, active, pending, byReconnect, committed, opener, open,
                    proven, rx, latch, task, disc, starting, startPrev, stopPc, stopGen,
                    stopConn, stopOpening, stopLease, late>>
    BY <1>8 DEF vars, leaseVars, flagVars, timerVars, attemptVars, nativeVars, startVars, stopVars
  <2> QED
    BY <2>1 DEF Inv, Types, AttemptsOK, LiveOK, RefsOK, StartOK, DiscOK, TimerOK, RunningOK,
                LeaseOK, FlagsOK, RxOK, Running, Live, Rest, NoDisc, Detached, StartReady,
                DisconnectReady
<1> QED
  BY <1>1, <1>2, <1>3, <1>4, <1>5, <1>6, <1>7, <1>8 DEF Next

\* The invariant that the theorems below rest on holds throughout: at most one attempt is live,
\* the session holds the lease for it, and somebody who will close it refers to it.
THEOREM ConnectionInvariance == Spec => []Inv
BY InitInv, NextInv, PTL DEF Spec

-----------------------------------------------------------------------------
\* When openConnection() resolves, the attempt is the current connection and its lease can
\* become connected, or a stop() has taken both; the session never has two handles on its port.
\* The guards of the code against the other cases are never needed.
THEOREM OpenedStaysCurrent == Spec => []OpenedIsCurrent
<1>1. Inv => OpenedIsCurrent
  <2> SUFFICES ASSUME Inv PROVE OpenedIsCurrent
    OBVIOUS
  <2>1. Cardinality(open) <= 1
    <3>1. CASE open = {}
      BY <3>1, FS_EmptySet
    <3>2. CASE open # {}
      <4>1. PICK a \in open : TRUE
        BY <3>2
      <4>2. \A b \in open : b = a
        BY <4>1 DEF Inv, Types, AttemptsOK, LiveOK
      <4>3. open = {a}
        BY <4>1, <4>2
      <4> QED
        BY <4>3, FS_Singleton
    <3> QED
      BY <3>1, <3>2
  <2>2. active = Null \/ pending = Null
    BY DEF Inv, RefsOK
  <2>3. ASSUME NEW a \in Attempts, opener[a] = "opened", stopPc # "detach"
        PROVE  IF Stale(a) THEN active = Null
               ELSE active = a /\ TransitionSucceeds(held, a, "connected")
    <3>1. Running(a)
      BY <2>3 DEF Running
    <3>2. CASE intentional
      BY <2>3, <3>1, <3>2 DEF Inv, RunningOK, Stale
    <3>3. CASE ~intentional
      <4>1. /\ a = gen /\ active = a /\ lease.owner = "self" /\ stopPc = "none"
            /\ lease.state \in {"opening", "reconnecting"} /\ lease \in LeaseType
        BY <2>3, <3>1, <3>3 DEF Inv, Types, RunningOK, RefsOK
      <4>2. held.id = lease.id /\ held.id # 0 /\ held.gen = a
        BY <4>1 DEF Inv, LeaseOK, Detached
      <4> QED
        BY <3>3, <4>1, <4>2, SucceedsFacts DEF Stale
    <3> QED
      BY <3>2, <3>3
  <2> QED
    BY <2>1, <2>2, <2>3 DEF OpenedIsCurrent
<1> QED
  BY <1>1, ConnectionInvariance, PTL

\* No flag stays set after the operation that set it, and "connected" is shown only for an open,
\* committed connection of the current generation whose lease is held as connected.
THEOREM FlagsTellTheTruth == Spec => []ShownIsTrue
<1>1. Inv => ShownIsTrue
  <2> SUFFICES ASSUME Inv PROVE ShownIsTrue
    OBVIOUS
  <2>1. isConnecting => StartRuns
    BY DEF Inv, FlagsOK, StartRuns, Running
  <2>2. isClosing => StopRuns \/ DisconnectRuns \/ starting # "none"
    BY DEF Inv, FlagsOK, NoDisc, StopRuns, DisconnectRuns
  <2>3. isConnected /\ stopPc = "none" =>
          /\ active = gen /\ active \in committed /\ active \in open
          /\ lease.owner = "self" /\ lease.state = "connected" /\ held.id = lease.id
    BY DEF Inv, FlagsOK, AttemptsOK, LiveOK, LeaseOK, Detached
  <2> QED
    BY <2>1, <2>2, <2>3 DEF ShownIsTrue, StopRuns
<1> QED
  BY <1>1, ConnectionInvariance, PTL

\* Once nothing runs, a handle that may be open is still referred to, so that a stop() can close
\* it, and a session that has none and is not reconnecting has given the port back.
THEOREM NothingIsStranded == Spec => []NothingStranded
<1>1. Inv => NothingStranded
  <2> SUFFICES ASSUME Inv, AtRest
               PROVE  /\ open \subseteq {active, pending}
                      /\ active = Null /\ pending = Null /\ ~timer => lease.owner # "self"
    BY DEF NothingStranded
  <2>1. /\ stopPc = "none" /\ Quiet
        /\ \A a \in Attempts : opener[a] \in {"none", "done"}
    BY DEF AtRest, StopRuns, TaskRuns
  <2>2. open \subseteq {active, pending}
    BY <2>1 DEF Inv, Types, AttemptsOK, LiveOK, Detached
  <2>3. late = {}
    BY <2>1 DEF Quiet, LateReady, Settled, Inv, Types, InOpenConnection
  <2>4. active = Null /\ pending = Null /\ ~timer => lease.owner # "self"
    BY <2>1, <2>3 DEF Inv, LeaseOK
  <2> QED
    BY <2>2, <2>4
<1> QED
  BY <1>1, ConnectionInvariance, PTL

\* stop() ends in one of four steps; every other step leaves it where it is.
LEMMA StopEndings ==
  ASSUME Next, stopPc # "none", stopPc' = "none"
  PROVE  StopRevoked \/ StopOpeningSettled \/ StopOpeningTimeout \/ StopShutDown
<1> USE DEF stopVars
<1>1. CASE Microtask
  <2>1. StartPrevClosed => stopPc' = stopPc
    BY DEF StartPrevClosed
  <2>2. \A a \in Attempts :
          CleanupReturns(a) \/ OpenedResumes(a) \/ FailedResumes(a) \/ DisconnectClosed(a)
            => stopPc' = stopPc
    BY DEF CleanupReturns, OpenedResumes, FailedResumes, DisconnectClosed
  <2>3. \A e \in late : LateOpenSettled(e) => stopPc' = stopPc
    BY DEF LateOpenSettled
  <2> QED
    BY <1>1, <2>1, <2>2, <2>3 DEF Microtask
<1>2. CASE Stop
  BY <1>2 DEF Stop
<1>3. CASE Teardown
  BY <1>3 DEF Teardown, StartRevoked, ShutdownDrains, ShutdownCloses, DisconnectRevoked
<1>4. CASE Opening
  BY <1>4 DEF Opening, OpenReturns, WatchReturns, LinesReturn
<1>5. CASE Environment
  BY <1>5 DEF Environment, Start, ReconnectTimer, Disconnect, OtherAcquires, OtherReleases
<1> QED
  BY <1>1, <1>2, <1>3, <1>4, <1>5 DEF Next

\* stop() answers "closed" only when no handle is open, and reports a safe RX boundary only if
\* no attempt of the session ever lost one.
THEOREM StopAnswersHonestly == Spec => StopIsHonest
<1>1. Inv /\ [Next]_vars =>
        [stopPc # "none" /\ stopPc' = "none" =>
           /\ stopResult'.closed => open' = {}
           /\ stopResult'.rxSafe => \A a \in Attempts : rx'[a] # "unsafe"]_vars
  <2> SUFFICES ASSUME Inv, Next, stopPc # "none", stopPc' = "none"
               PROVE  /\ stopResult'.closed => open' = {}
                      /\ stopResult'.rxSafe => \A a \in Attempts : rx'[a] # "unsafe"
    OBVIOUS
  <2> USE AttemptFacts
  <2>1. /\ ~latch => \A a \in Attempts : rx[a] # "unsafe"
        /\ \A a \in open : Live(a) /\ a \in Attempts
    BY DEF Inv, Types, RxOK, AttemptsOK
  <2>2. CASE StopRevoked
    <3>1. /\ pending = Null /\ active = Null /\ stopResult' = [rxSafe |-> ~latch, closed |-> TRUE]
          /\ UNCHANGED <<open, rx>> /\ stopPc \in {"revoke", "detach"}
      BY <2>2 DEF StopRevoked, StopAwaits, nativeVars
    <3>2. open = {}
      BY <2>1, <3>1 DEF Inv, LiveOK, Detached
    <3> QED
      BY <2>1, <3>1, <3>2
  <2>3. CASE StopOpeningSettled
    <3>1. /\ stopResult'.closed => stopOpening \in proven
          /\ stopResult'.rxSafe => ~latch
          /\ UNCHANGED <<open, rx>> /\ stopPc = "opening"
      BY <2>3 DEF StopOpeningSettled, StopFinishes
    <3>2. stopOpening \in proven => open = {}
      BY <2>1, <3>1 DEF Inv, LiveOK, RefsOK, Detached, Live
    <3> QED
      BY <2>1, <3>1, <3>2
  <2>4. CASE StopOpeningTimeout
    <3>1. /\ ~stopResult'.closed /\ (stopResult'.rxSafe => ~latch)
          /\ UNCHANGED <<open, rx>>
      BY <2>4 DEF StopOpeningTimeout, StopFinishes
    <3> QED
      BY <2>1, <3>1
  <2>5. CASE StopShutDown
    <3>1. /\ stopResult'.closed => stopConn \in proven
          /\ stopResult'.rxSafe => ~latch
          /\ UNCHANGED <<open, rx>> /\ stopPc = "shut"
      BY <2>5 DEF StopShutDown, StopFinishes
    <3>2. stopConn \in proven => open = {}
      BY <2>1, <3>1 DEF Inv, LiveOK, RefsOK, Detached, Live
    <3> QED
      BY <2>1, <3>1, <3>2
  <2> QED
    BY <2>2, <2>3, <2>4, <2>5, StopEndings
<1> QED
  BY <1>1, ConnectionInvariance, PTL DEF Spec, StopIsHonest

-----------------------------------------------------------------------------
(* The refinement of PortOwnership. *)

\* The lease of this session never becomes the lease of another one in one step, or the other
\* way round.
Passes == lease'.owner = lease.owner \/ lease = Free \/ lease' = Free

\* So does every operation on leases.
LEMMA LeasePasses ==
  ASSUME lease \in LeaseType, NEW h, NEW g
  PROVE  /\ \A to : Transition(h, g, to) => Passes
         /\ \A id : Release(id) => Passes
         /\ FailAndRelease(h, g) => Passes
         /\ \A conn : FailAndReleaseLease(conn, h, g) => Passes
<1>1. \A to : Transition(h, g, to) => Passes
  BY DEF Transition, Passes, LeaseType
<1>2. \A id : Release(id) => Passes
  BY DEF Release, Passes
<1>3. FailAndRelease(h, g) => Passes
  BY <1>2 DEF FailAndRelease, Passes
<1> QED
  BY <1>1, <1>2, <1>3 DEF FailAndReleaseLease

\* Every step passes the lease on by way of the free port.
LEMMA NextPasses ==
  ASSUME lease \in LeaseType, Next
  PROVE  Passes
<1> USE DEF leaseVars
<1>k. UNCHANGED lease => Passes
  BY DEF Passes
<1>o. StartOpens => Passes
  BY LeasePasses DEF StartOpens, Passes, LeaseType
<1>s. \A L, opening, conn, settled, isProven, g :
        StopLeases(L, opening, conn, settled, isProven, g) => Passes
  <2> SUFFICES ASSUME NEW L, NEW opening, NEW conn, NEW settled, NEW isProven, NEW g,
                      StopLeases(L, opening, conn, settled, isProven, g)
               PROVE  Passes
    OBVIOUS
  <2>1. \/ UNCHANGED lease \/ Release(L.id)
        \/ Transition([L EXCEPT !.gen = g], g, "closing")
    BY DEF StopLeases
  <2> QED
    BY <1>k, <2>1, LeasePasses
<1>1. CASE Microtask
  <2>1. CASE StartPrevClosed
    BY <1>k, <1>o, <2>1, LeasePasses DEF StartPrevClosed, RetainUnclosed
  <2>2. CASE StopOpeningSettled \/ StopShutDown
    BY <1>s, <2>2 DEF StopOpeningSettled, StopShutDown, StopFinishes
  <2>3. ASSUME NEW a \in Attempts, CleanupReturns(a) PROVE Passes
    BY <1>k, <2>3, LeasePasses DEF CleanupReturns
  <2>4. ASSUME NEW a \in Attempts, OpenedResumes(a) PROVE Passes
    BY <1>k, <2>4, LeasePasses DEF OpenedResumes
  <2>5. ASSUME NEW a \in Attempts, FailedResumes(a) PROVE Passes
    BY <1>k, <2>5, LeasePasses DEF FailedResumes
  <2>6. ASSUME NEW a \in Attempts, DisconnectClosed(a) PROVE Passes
    BY <1>k, <2>6, LeasePasses DEF DisconnectClosed, RetainUnclosed, BeginReconnect
  <2>7. ASSUME NEW e \in late, LateOpenSettled(e) PROVE Passes
    BY <1>k, <2>7, LeasePasses DEF LateOpenSettled, RetainUnclosed
  <2> QED
    BY <1>1, <2>1, <2>2, <2>3, <2>4, <2>5, <2>6, <2>7 DEF Microtask
<1>2. CASE Stop
  BY <1>k, <1>2 DEF Stop
<1>3. CASE StopRevoked
  BY <1>k, <1>3, LeasePasses DEF StopRevoked, Passes, LeaseType
<1>4. CASE Teardown
  BY <1>k, <1>3, <1>4 DEF Teardown, StartRevoked, ShutdownDrains, ShutdownCloses, DisconnectRevoked
<1>5. CASE StopOpeningTimeout
  BY <1>s, <1>5 DEF StopOpeningTimeout, StopFinishes
<1>6. CASE Opening
  BY <1>k, <1>6 DEF Opening, OpenReturns, WatchReturns, LinesReturn
<1>7. CASE Environment
  <2>1. CASE Start
    BY <1>k, <1>o, <2>1 DEF Start
  <2>2. CASE ReconnectTimer
    BY <1>k, <2>2, LeasePasses DEF ReconnectTimer
  <2>3. ASSUME NEW a \in Attempts, Disconnect(a) PROVE Passes
    BY <1>k, <2>3 DEF Disconnect
  <2>4. CASE OtherAcquires \/ OtherReleases
    BY <2>4 DEF OtherAcquires, OtherReleases, Passes
  <2> QED
    BY <1>7, <2>1, <2>2, <2>3, <2>4 DEF Environment
<1> QED
  BY <1>1, <1>2, <1>3, <1>4, <1>5, <1>6, <1>7 DEF Next

\* The connection lifecycle implements PortOwnership: through every start, stop, disconnect,
\* reconnect and late answer a handle is open only under the session's own reservation, which
\* passes on only when no handle is left.
THEOREM ConnectionRefinesOwnership == Spec => KeepsOwnership
<1> DEFINE R == {lease.owner} \ {"none"}
           H == {s \in {"self", "other"} :
                   IF s = "self" THEN open # {} ELSE lease.owner = "other"}
<1>1. Init => Ownership!Init
  BY DEF Init, Ownership!Init, Free
<1>2. Inv /\ Inv' /\ [Next]_vars => [Ownership!Next]_(Ownership!vars)
  <2> SUFFICES ASSUME Inv, Inv', [Next]_vars
               PROVE  Ownership!Next \/ (R' = R /\ H' = H)
    BY DEF Ownership!vars
  <2>1. /\ lease \in LeaseType /\ (open # {} => lease.owner = "self")
        /\ lease.owner \in {"none", "self", "other"}
    BY DEF Inv, Types, AttemptsOK, LiveOK, LeaseType
  <2>2. /\ lease' \in LeaseType /\ (open' # {} => lease'.owner = "self")
        /\ lease'.owner \in {"none", "self", "other"}
    BY DEF Inv, Types, AttemptsOK, LiveOK, LeaseType
  <2>3. \/ lease'.owner = lease.owner
        \/ lease.owner = "none"
        \/ lease'.owner = "none"
    <3>1. CASE Next
      BY <2>1, <3>1, NextPasses, FreeFacts DEF Passes
    <3>2. CASE UNCHANGED vars
      BY <3>2 DEF vars, leaseVars
    <3> QED
      BY <3>1, <3>2
  <2>4. /\ lease.owner = "none" => R = {} /\ H = {}
        /\ lease.owner = "other" => R = {"other"} /\ H = {"other"}
        /\ lease.owner = "self" => R = {"self"} /\ H = IF open = {} THEN {} ELSE {"self"}
    BY <2>1
  <2>5. /\ lease'.owner = "none" => R' = {} /\ H' = {}
        /\ lease'.owner = "other" => R' = {"other"} /\ H' = {"other"}
        /\ lease'.owner = "self" => R' = {"self"} /\ H' = IF open' = {} THEN {} ELSE {"self"}
    BY <2>2
  <2>6. /\ Ownership!Next <=> \E s \in {"self", "other"} :
               \/ /\ R \subseteq {s} /\ R' = {s} /\ H' \in {H, H \cup {s}}
               \/ /\ R = {s} /\ H' = H \ {s} /\ R' \in {{s}, {}}
    BY DEF Ownership!Next, Ownership!Take, Ownership!Drop
  <2> HIDE DEF R, H
  <2>7. CASE lease'.owner = "self"
    BY <2>1, <2>2, <2>3, <2>4, <2>5, <2>6, <2>7
  <2>8. CASE lease'.owner = "other"
    BY <2>1, <2>2, <2>3, <2>4, <2>5, <2>6, <2>8
  <2>9. CASE lease'.owner = "none"
    BY <2>1, <2>2, <2>4, <2>5, <2>6, <2>9
  <2> QED
    BY <2>2, <2>7, <2>8, <2>9
<1> QED
  BY <1>1, <1>2, ConnectionInvariance, PTL DEF Spec, KeepsOwnership, Ownership!Spec

\* PortLeaseRegistry.acquire() and release(): no two sessions of the process ever have a native
\* handle on one serial port, as PortOwnership promises, because the connection implements it.
THEOREM OnlyOneHandle == Spec => []Ownership!OneHandle
<1> DEFINE R == {lease.owner} \ {"none"}
           H == {s \in {"self", "other"} :
                   IF s = "self" THEN open # {} ELSE lease.owner = "other"}
           Reserved == (\A s, t \in R : s = t) /\ H \subseteq R
<1>1. Ownership!Init => Reserved
  BY DEF Ownership!Init
<1>2. Reserved /\ [Ownership!Next]_(Ownership!vars) => Reserved'
  <2> SUFFICES ASSUME Reserved, [Ownership!Next]_(Ownership!vars)
               PROVE  Reserved'
    OBVIOUS
  <2>1. \/ \E s \in {"self", "other"} :
             \/ /\ R \subseteq {s} /\ R' = {s} /\ H' \in {H, H \cup {s}}
             \/ /\ R = {s} /\ H' = H \ {s} /\ R' \in {{s}, {}}
        \/ R' = R /\ H' = H
    BY DEF Ownership!Next, Ownership!Take, Ownership!Drop, Ownership!vars
  <2> HIDE DEF R, H
  <2> QED
    BY <2>1
<1>3. Reserved => Ownership!OneHandle
  BY DEF Ownership!OneHandle
<1> QED
  BY <1>1, <1>2, <1>3, ConnectionRefinesOwnership, PTL DEF KeepsOwnership, Ownership!Spec
=============================================================================
