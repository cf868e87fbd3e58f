-------------------------- MODULE SerialConnection --------------------------
(***************************************************************************)
(* The life of one session's serial connection and its claim on a port:    *)
(* start, stop, disconnect, reconnect and the process-wide lease.          *)
(*   features/serial/application/connect-lifecycle.ts     start, open      *)
(*   features/serial/application/shutdown-evidence.ts     stop             *)
(*   features/serial/application/reconnect-policy.ts      reconnect        *)
(*   features/serial/application/serial-shutdown-evidence.ts  teardown     *)
(*   features/serial/application/serial-port-lease.ts     held lease       *)
(*   features/serial/application/port-lease-registry.ts   all leases       *)
(*                                                                         *)
(* One turn of the event loop, the code between two awaits, is one step.   *)
(* The continuation of an await whose promise is resolved is a microtask:  *)
(* it runs before any timer, native answer, native event or user call, so  *)
(* those are enabled only when Quiet.                                      *)
(*                                                                         *)
(* An attempt (ConnectionAttempt) is named by its generation, which start  *)
(* and reconnect increment first.  The session is bound to one valid port  *)
(* name; the other sessions of the process are the owner "other".          *)
(***************************************************************************)
EXTENDS Naturals, FiniteSets

CONSTANTS
  MaxGenerations,        \* bound of the model: the last generation opened
  MaxStops,              \* bound of the model: how often stop() is called
  MaxCalls,              \* bound of the model: generations and stops together
  MaxReconnectAttempts   \* MAX_RECONNECT_ATTEMPTS

ASSUME BoundsAssumption ==
  /\ MaxGenerations \in Nat
  /\ MaxStops \in Nat
  /\ MaxCalls \in Nat
  /\ MaxReconnectAttempts \in Nat

Attempts == 1 .. MaxGenerations
Null == 0

VARIABLES
  lease, leaseSeq,   \* the registry's entry for the port; last lease id issued
  held,              \* heldLease of the session's PortLeaseController
  gen,               \* connectionGeneration
  intentional,       \* intentionalClose
  isConnecting, isConnected, isClosing, reconnecting,
  timer, tries,      \* reconnectTimer is set; reconnectAttempts
  active, pending,   \* activeConnection, pendingAttempt
  byReconnect,       \* attempts opened by attemptReconnect()
  opener,            \* where the opener of each attempt is
  committed, disconnected, watched,   \* flags of the attempts
  open,              \* attempts whose native handle may be open
  proven,            \* attempts with isPortCloseProven(closeEvidence)
  rx,                \* rxStopEvidence of each attempt
  task,              \* where the shutdownTask of each attempt is
  disc,              \* where handleDisconnect() of each attempt is
  starting, startPrev,                \* start() closing the previous attempt
  stopPc, stopGen, stopConn, stopOpening, stopLease, stopRx,   \* performStop()
  stops,             \* how often stop() was called
  stopResult,        \* what the last stop() answered
  late,              \* callbacks on attempts that outlived a stop()
  latch              \* unsafeRxLatch

leaseVars == <<lease, leaseSeq, held>>
flagVars == <<isConnecting, isConnected, isClosing, reconnecting>>
timerVars == <<timer, tries>>
attemptVars == <<byReconnect, committed, watched>>
nativeVars == <<open, proven, rx, latch>>
startVars == <<starting, startPrev>>
stopVars == <<stopPc, stopGen, stopConn, stopOpening, stopLease, stopRx, stops,
              stopResult>>
vars == <<leaseVars, gen, intentional, flagVars, timerVars, active, pending,
          attemptVars, opener, disconnected, nativeVars, task, disc, startVars,
          stopVars, late>>

-----------------------------------------------------------------------------
(* PortLeaseRegistry and PortLeaseController.                              *)

Free == [owner |-> "none", id |-> 0, state |-> "free"]
NoLease == [gen |-> 0, id |-> 0, state |-> "free"]

ALLOWED_TRANSITIONS ==
  [opening |-> {"connected", "failed", "closing"},
   connected |-> {"reconnecting", "failed", "closing"},
   reconnecting |-> {"connected", "failed", "closing"},
   failed |-> {}, closing |-> {}, free |-> {}]

\* The registry grants transition(id, to) of this session's lease.
MayTransition(id, to) ==
  lease.owner = "self" /\ lease.id = id /\ to \in ALLOWED_TRANSITIONS[lease.state]

\* registry.release(id): a stale id releases nothing.
Release(id) == lease' = IF lease.owner = "self" /\ lease.id = id THEN Free ELSE lease

AdoptGeneration(h, g) == IF h.id = 0 THEN h ELSE [h EXCEPT !.gen = g]

\* leases.transition(g, to), the session holding h.
TransitionSucceeds(h, g, to) == h.id # 0 /\ h.gen = g /\ MayTransition(h.id, to)
Transition(h, g, to) ==
  IF TransitionSucceeds(h, g, to)
  THEN lease' = [lease EXCEPT !.state = to] /\ held' = [h EXCEPT !.state = to]
  ELSE held' = h /\ UNCHANGED lease

\* leases.failAndRelease(g).
FailAndRelease(h, g) ==
  IF h.id # 0 /\ h.gen = g
  THEN held' = NoLease /\ Release(h.id)
  ELSE held' = h /\ UNCHANGED lease

Unproven(a) == a # Null /\ a \notin proven

\* failAndReleaseLease(g) of the controller: the lease of a connection that is
\* not proven closed is kept, in state closing.
FailAndReleaseLease(conn, h, g) ==
  IF Unproven(conn)
  THEN disconnected' = disconnected \cup {conn} /\ Transition(h, g, "closing")
  ELSE FailAndRelease(h, g) /\ UNCHANGED disconnected

\* pendingAttempt once attempt a is over.
WithoutPending(a) == IF pending = a THEN Null ELSE pending

\* Seeded bug: the unclosed connection is not kept.
RetainNothing(a, h, g) ==
  /\ disconnected' = disconnected \cup {a}
  /\ pending' = WithoutPending(a)
  /\ active' = Null
  /\ isConnected' = FALSE
  /\ Transition(h, g, "closing")

\* retainUnclosedConnection(a, g).
RetainUnclosed(a, h, g) ==
  /\ disconnected' = disconnected \cup {a}
  /\ pending' = WithoutPending(a)
  /\ active' = a
  /\ isConnected' = FALSE
  /\ Transition(h, g, "closing")

-----------------------------------------------------------------------------
(* The event loop.                                                         *)

InOpenConnection == {"open", "watch", "lines", "cleanup"}
Settled(a) == opener[a] \notin InOpenConnection

StartReady == starting = "shut" /\ task[startPrev] = "none"
OpenerReady(a) ==
  \/ opener[a] \in {"opened", "failed"}
  \/ opener[a] = "cleanup" /\ task[a] = "none"
DisconnectReady(a) == disc[a] = "shut" /\ task[a] = "none"
StopReady ==
  \/ stopPc = "opening" /\ Settled(stopOpening)
  \/ stopPc = "shut" /\ task[stopConn] = "none"
LateReady(e) == Settled(e.opening)

\* No microtask is ready.
Quiet ==
  /\ ~StartReady /\ ~StopReady
  /\ \A a \in Attempts : ~OpenerReady(a) /\ ~DisconnectReady(a)
  /\ \A e \in late : ~LateReady(e)

-----------------------------------------------------------------------------
(* Teardown of one attempt: shutdownConnection().                          *)

\* shutdownConnection(a): start the task or join the one that runs.
JoinShutdown(a) == task' = [task EXCEPT ![a] = IF @ = "none" THEN "rx" ELSE @]

\* The write scheduler is shut down and the RX boundary is drained.  The
\* evidence is remembered on the attempt, an unsafe one in the latch too.
ShutdownDrains(a) ==
  /\ task[a] = "rx"
  /\ \E evidence \in {"guaranteed", "unsafe"} :
       /\ rx[a] # "none" => evidence = rx[a]
       /\ a \notin watched => evidence = "guaranteed"
       /\ rx' = [rx EXCEPT ![a] = evidence]
       /\ latch' = (latch \/ evidence = "unsafe")
  /\ task' = [task EXCEPT ![a] = "close"]
  /\ UNCHANGED <<leaseVars, gen, intentional, flagVars, timerVars, active, pending,
                 attemptVars, opener, disconnected, open, proven, disc, startVars,
                 stopVars, late>>

\* Seeded bug: a close that is not acknowledged counts as a close.
ShutdownAssumesClosed(a) ==
  /\ task[a] = "close"
  /\ proven' = proven \cup {a} /\ open' \in {open, open \ {a}}
  /\ task' = [task EXCEPT ![a] = "none"]
  /\ UNCHANGED <<leaseVars, gen, intentional, flagVars, timerVars, active, pending,
                 attemptVars, opener, disconnected, rx, latch, disc, startVars,
                 stopVars, late>>

\* close(), or forceClose() after it, is acknowledged within its grace, or not.
ShutdownCloses(a) ==
  /\ task[a] = "close"
  /\ \/ proven' = proven \cup {a} /\ open' = open \ {a}
     \/ UNCHANGED <<proven, open>>
  /\ task' = [task EXCEPT ![a] = "none"]
  /\ UNCHANGED <<leaseVars, gen, intentional, flagVars, timerVars, active, pending,
                 attemptVars, opener, disconnected, rx, latch, disc, startVars,
                 stopVars, late>>

-----------------------------------------------------------------------------
(* openConnection().                                                       *)

\* The synchronous part: the attempt becomes pending and port.open() is called.
BeginOpen(g, kind) ==
  /\ opener' = [opener EXCEPT ![g] = "open"]
  /\ byReconnect' = IF kind = "reconnect" THEN byReconnect \cup {g} ELSE byReconnect
  /\ open' = open \cup {g}
  /\ pending' = g

\* Seeded bug: an open goes on although stop() was called.
CurrentIgnoresClose(a) == a = gen /\ a \notin disconnected
\* assertCurrent(a) does not throw.
Current(a) == a = gen /\ ~intentional /\ a \notin disconnected

OpenerGoesTo(a, pc) == opener' = [opener EXCEPT ![a] = pc]

\* The catch block: cleanupAttempt(a) is called and awaited.
BeginCleanup(a) == OpenerGoesTo(a, "cleanup") /\ JoinShutdown(a)

ProceedOrCleanup(a, pc) ==
  \/ Current(a) /\ OpenerGoesTo(a, pc) /\ UNCHANGED task
  \/ ~Current(a) /\ BeginCleanup(a)

\* port.open() answers.
OpenReturns(a) ==
  /\ opener[a] = "open"
  /\ \/ ProceedOrCleanup(a, "watch") /\ UNCHANGED open
     \/ BeginCleanup(a) /\ open' = open \ {a}          \* it rejected
  /\ UNCHANGED <<leaseVars, gen, intentional, flagVars, timerVars, active, pending,
                 attemptVars, disconnected, proven, rx, latch, disc, startVars,
                 stopVars, late>>

\* port.watch() answers.
WatchReturns(a) ==
  /\ opener[a] = "watch"
  /\ \/ ProceedOrCleanup(a, "lines") /\ watched' = watched \cup {a}
     \/ BeginCleanup(a) /\ UNCHANGED watched           \* it rejected
  /\ UNCHANGED <<leaseVars, gen, intentional, flagVars, timerVars, active, pending,
                 byReconnect, committed, disconnected, nativeVars, disc, startVars,
                 stopVars, late>>

\* The DTR and RTS writes are over, whatever they answered: commit.
LinesReturn(a) ==
  /\ opener[a] = "lines"
  /\ \/ /\ Current(a)
        /\ OpenerGoesTo(a, "opened")
        /\ committed' = committed \cup {a}
        /\ active' = a
        /\ pending' = WithoutPending(a)
        /\ UNCHANGED task
     \/ ~Current(a) /\ BeginCleanup(a) /\ UNCHANGED <<committed, active, pending>>
  /\ UNCHANGED <<leaseVars, gen, intentional, flagVars, timerVars, byReconnect,
                 watched, disconnected, nativeVars, disc, startVars, stopVars, late>>

\* The cleanup is over and openConnection() rejects.
CleanupReturns(a) ==
  /\ opener[a] = "cleanup" /\ task[a] = "none"
  /\ OpenerGoesTo(a, "failed")
  /\ \/ /\ a \in proven
        /\ pending' = WithoutPending(a)
        /\ UNCHANGED <<lease, held, isConnected, active, disconnected>>
     \/ /\ a \notin proven
        /\ disconnected' = disconnected \cup {a}
        /\ pending' = Null
        /\ active' = a
        /\ isConnected' = FALSE
        /\ Transition(held, a, "closing")
  /\ UNCHANGED <<leaseSeq, gen, intentional, isConnecting, isClosing, reconnecting,
                 timerVars, attemptVars, nativeVars, task, disc, startVars, stopVars,
                 late>>

-----------------------------------------------------------------------------
(* start() and attemptReconnect() after openConnection().                  *)

\* The attempt was superseded or stop() was called.
Stale(a) == a # gen \/ intentional

\* finishStart(a): a reconnect does not touch isConnecting.
FinishStart(a) ==
  isConnecting' = IF a = gen /\ a \notin byReconnect THEN FALSE ELSE isConnecting

\* openConnection() resolved: the connection is up, unless stop() came in the
\* same burst of microtasks and took it.  The code guards two more cases, a
\* stale connection that is still active and a lease that refuses "connected":
\* OpenedIsCurrent shows that they do not arise.
OpenedResumes(a) ==
  /\ opener[a] = "opened"
  /\ OpenerGoesTo(a, "done") /\ FinishStart(a)
  /\ \/ /\ Stale(a) /\ active = Null
        /\ FailAndReleaseLease(Null, held, a)
        /\ UNCHANGED <<isConnected, reconnecting>>
     \/ /\ ~Stale(a)
        /\ isConnected' = TRUE
        /\ reconnecting' = (reconnecting /\ a \notin byReconnect)
        /\ Transition(held, a, "connected")
        /\ UNCHANGED disconnected
  /\ UNCHANGED <<leaseSeq, gen, intentional, isClosing, timerVars, active, pending,
                 attemptVars, nativeVars, task, disc, startVars, stopVars, late>>

\* scheduleReconnect() arms the timer.
MayScheduleReconnect(conn, closing) ==
  ~timer /\ ~intentional /\ ~closing /\ pending = Null /\ ~Unproven(conn)

\* openConnection() rejected: the catch block of start() or attemptReconnect().
FailedResumes(a) ==
  /\ opener[a] = "failed"
  /\ OpenerGoesTo(a, "done")
  /\ FinishStart(a)
  /\ \/ Stale(a) /\ UNCHANGED <<lease, held, disconnected, isConnected, reconnecting, timer>>
     \/ /\ ~Stale(a) /\ a \notin byReconnect
        /\ isConnected' = FALSE
        /\ IF Unproven(active) THEN UNCHANGED <<lease, held, disconnected>>
           ELSE FailAndReleaseLease(active, held, a)
        /\ UNCHANGED <<reconnecting, timer>>
     \/ /\ ~Stale(a) /\ a \in byReconnect
        /\ reconnecting' = (reconnecting /\ ~Unproven(active))
        /\ timer' = (timer \/ MayScheduleReconnect(active, isClosing))
        /\ UNCHANGED <<lease, held, disconnected, isConnected>>
  /\ UNCHANGED <<leaseSeq, gen, intentional, isClosing, tries, active, pending,
                 attemptVars, nativeVars, task, disc, startVars, stopVars, late>>

-----------------------------------------------------------------------------
(* start().                                                                *)

\* leases.acquire(): the lease the registry holds for this port is another
\* session's, or this session's but terminal.
AcquireRefused ==
  \/ lease.owner = "other"
  \/ lease.owner = "self" /\ lease.state \in {"closing", "failed"}

\* start() once no previous connection is left.
StartOpens ==
  LET g == gen + 1
      h == AdoptGeneration(held, g)
      grant == IF lease = Free
               THEN [owner |-> "self", id |-> leaseSeq + 1, state |-> "opening"]
               ELSE [lease EXCEPT !.state = IF @ = "connected" THEN "reconnecting" ELSE @]
  IN
  /\ gen' = g
  /\ \/ /\ AcquireRefused
        /\ intentional' = TRUE
        /\ FailAndReleaseLease(Null, h, g)
        /\ isConnecting' = FALSE
        /\ UNCHANGED <<leaseSeq, opener, byReconnect, open, pending>>
     \/ /\ ~AcquireRefused
        /\ intentional' = FALSE
        /\ lease' = grant
        /\ leaseSeq' = IF lease = Free THEN leaseSeq + 1 ELSE leaseSeq
        /\ held' = [gen |-> g, id |-> grant.id, state |-> grant.state]
        /\ isConnecting' = TRUE
        /\ BeginOpen(g, "start")
        /\ UNCHANGED disconnected

\* start() up to its first await.  stop() may have cleared isConnecting under
\* an earlier call, but that call is resumed before stop() is.
Start ==
  /\ gen < MaxGenerations /\ gen + stops < MaxCalls /\ starting = "none"
  /\ ~isConnecting /\ ~isClosing /\ pending = Null
  /\ ~(Unproven(active) /\ active \in disconnected)
  /\ timer' = FALSE /\ reconnecting' = FALSE
  /\ \/ /\ active = Null
        /\ StartOpens
        /\ UNCHANGED <<isClosing, isConnected, startVars>>
     \/ /\ active # Null
        /\ intentional' = FALSE /\ isConnecting' = TRUE
        /\ isClosing' = TRUE /\ isConnected' = FALSE
        /\ starting' = "revoke" /\ startPrev' = active
        /\ UNCHANGED <<leaseVars, gen, disconnected, opener, byReconnect, open, pending>>
  /\ UNCHANGED <<tries, active, committed, watched, proven, rx, latch, task, disc,
                 stopVars, late>>

\* The serial transaction is revoked; the previous connection is shut down.
StartRevoked ==
  /\ starting = "revoke"
  /\ starting' = "shut" /\ JoinShutdown(startPrev)
  /\ UNCHANGED <<leaseVars, gen, intentional, flagVars, timerVars, active, pending,
                 attemptVars, opener, disconnected, nativeVars, disc, startPrev,
                 stopVars, late>>

StartGivesUp ==
  /\ isConnecting' = FALSE
  /\ isClosing' = (isClosing /\ stopPc # "none")

StartPrevClosed ==
  /\ StartReady
  /\ starting' = "none"
  /\ \/ /\ startPrev \notin proven
        /\ RetainUnclosed(startPrev, held, gen)
        /\ StartGivesUp
        /\ UNCHANGED <<leaseSeq, gen, intentional, opener, byReconnect, open>>
     \/ /\ startPrev \in proven /\ rx[startPrev] # "guaranteed"
        /\ active' = IF active = startPrev THEN Null ELSE active
        /\ FailAndReleaseLease(active', held, gen)
        /\ StartGivesUp
        /\ UNCHANGED <<leaseSeq, gen, intentional, opener, byReconnect, open, pending,
                       isConnected>>
     \/ /\ startPrev \in proven /\ rx[startPrev] = "guaranteed"
        /\ intentional \/ active # startPrev \/ startPrev # gen
        /\ StartGivesUp
        /\ UNCHANGED <<leaseVars, gen, intentional, opener, byReconnect, open, pending,
                       active, disconnected, isConnected>>
     \/ /\ startPrev \in proven /\ rx[startPrev] = "guaranteed"
        /\ ~intentional /\ active = startPrev /\ startPrev = gen
        /\ active' = Null /\ isClosing' = FALSE
        /\ StartOpens
        /\ UNCHANGED isConnected
  /\ UNCHANGED <<reconnecting, timerVars, committed, watched, proven, rx, latch, task,
                 disc, startPrev, stopVars, late>>

-----------------------------------------------------------------------------
(* The port disconnects.                                                   *)

\* Seeded bug: the session is shown as connected until the teardown is over.
DisconnectStaysConnected(a) ==
  /\ opener[a] # "none" /\ opener[a] # "open"
  /\ rx[a] # "guaranteed"
  /\ task[a] = "none" /\ ~(isClosing /\ a = gen)
  /\ disconnected' = disconnected \cup {a}
  /\ IF a \in committed /\ a = gen /\ active = a
     THEN isClosing' = TRUE /\ disc' = [disc EXCEPT ![a] = "revoke"]
     ELSE UNCHANGED <<isClosing, disc>>
  /\ UNCHANGED <<leaseVars, gen, intentional, isConnecting, isConnected, reconnecting,
                 timerVars, active, pending, attemptVars, opener, nativeVars, task,
                 startVars, stopVars, late>>

\* onDisconnect(): ignored while the attempt is shut down or the session is
\* closing; only a committed, current connection is handled further.  A watch
\* that was not removed for sure may report it again.
Disconnect(a) ==
  /\ opener[a] # "none" /\ opener[a] # "open"
  /\ rx[a] # "guaranteed"
  /\ task[a] = "none" /\ ~(isClosing /\ a = gen)
  /\ disconnected' = disconnected \cup {a}
  /\ \/ /\ a \in committed /\ a = gen /\ active = a
        /\ isClosing' = TRUE /\ isConnected' = FALSE
        /\ disc' = [disc EXCEPT ![a] = "revoke"]
     \/ /\ ~(a \in committed /\ a = gen /\ active = a)
        /\ UNCHANGED <<isClosing, isConnected, disc>>
  /\ UNCHANGED <<leaseVars, gen, intentional, isConnecting, reconnecting, timerVars,
                 active, pending, attemptVars, opener, nativeVars, task, startVars,
                 stopVars, late>>

DisconnectRevoked(a) ==
  /\ disc[a] = "revoke"
  /\ disc' = [disc EXCEPT ![a] = "shut"] /\ JoinShutdown(a)
  /\ UNCHANGED <<leaseVars, gen, intentional, flagVars, timerVars, active, pending,
                 attemptVars, opener, disconnected, nativeVars, startVars, stopVars,
                 late>>

\* startReconnect() or scheduleReconnect(), at generation g holding h.
BeginReconnect(h, g) ==
  IF reconnecting
  THEN /\ timer' = (timer \/ MayScheduleReconnect(Null, FALSE))
       /\ held' = h
       /\ UNCHANGED <<lease, disconnected, reconnecting, tries>>
  ELSE /\ tries' = 0
       /\ \/ /\ TransitionSucceeds(h, g, "reconnecting")
             /\ Transition(h, g, "reconnecting")
             /\ reconnecting' = TRUE
             /\ timer' = (timer \/ MayScheduleReconnect(Null, FALSE))
             /\ UNCHANGED disconnected
          \/ /\ ~TransitionSucceeds(h, g, "reconnecting")
             /\ FailAndReleaseLease(Null, h, g)
             /\ UNCHANGED <<reconnecting, timer>>

\* handleDisconnect() after the shutdown: fail closed, leave the rest to a
\* stop() or start() that took over, or reconnect if the user wants it.
DisconnectClosed(a) ==
  LET g == gen + 1
      h == AdoptGeneration(held, g)
  IN
  /\ DisconnectReady(a)
  /\ disc' = [disc EXCEPT ![a] = "none"]
  /\ \/ /\ a \notin proven
        /\ RetainUnclosed(a, held, gen)
        /\ isClosing' = (isClosing /\ stopPc # "none")
        /\ UNCHANGED <<gen, reconnecting, timerVars>>
     \/ /\ a \in proven /\ (intentional \/ active # a)
        /\ UNCHANGED <<lease, held, gen, isConnected, isClosing, reconnecting, timerVars,
                       active, pending, disconnected>>
     \/ /\ a \in proven /\ ~intentional /\ active = a
        /\ active' = Null /\ gen' = g /\ isClosing' = FALSE
        /\ \/ rx[a] = "guaranteed" /\ BeginReconnect(h, g)
           \/ FailAndReleaseLease(Null, h, g) /\ UNCHANGED <<reconnecting, timerVars>>
        /\ UNCHANGED <<isConnected, pending>>
  /\ UNCHANGED <<leaseSeq, intentional, isConnecting, attemptVars, opener, nativeVars,
                 task, startVars, stopVars, late>>

-----------------------------------------------------------------------------
(* attemptReconnect().                                                     *)

ReconnectTimer ==
  LET g == gen + 1 IN
  /\ timer /\ timer' = FALSE
  /\ \/ /\ intentional \/ isClosing \/ pending # Null \/ Unproven(active)
        /\ reconnecting' = FALSE
        /\ UNCHANGED <<lease, held, gen, tries, disconnected, opener, byReconnect, open,
                       pending>>
     \/ /\ ~(intentional \/ isClosing \/ pending # Null \/ Unproven(active))
        /\ tries' = tries + 1
        /\ \/ /\ tries' > MaxReconnectAttempts
              /\ reconnecting' = FALSE
              /\ FailAndReleaseLease(active, held, gen)
              /\ UNCHANGED <<gen, opener, byReconnect, open, pending>>
           \/ /\ tries' <= MaxReconnectAttempts /\ gen < MaxGenerations /\ gen + stops < MaxCalls
              /\ gen' = g /\ held' = AdoptGeneration(held, g)
              /\ BeginOpen(g, "reconnect")
              /\ UNCHANGED <<lease, disconnected, reconnecting>>
  /\ UNCHANGED <<leaseSeq, intentional, isConnecting, isConnected, isClosing, active,
                 committed, watched, proven, rx, latch, task, disc, startVars, stopVars,
                 late>>

-----------------------------------------------------------------------------
(* stop().                                                                 *)

\* start() or a disconnect awaits the revocation of the serial transaction.
\* stop() joins it and is resumed after them.
RevocationRuns == starting = "revoke" \/ \E a \in Attempts : disc[a] = "revoke"

\* performStop() up to its first await: the revocation, which only a connected
\* session can need, or without one the turn goes on ("detach").  A second stop()
\* joins the first.  A store watcher may call it amid a burst of microtasks.
Stop ==
  /\ stopPc = "none" /\ stops < MaxStops /\ gen + stops < MaxCalls
  /\ stops' = stops + 1
  /\ stopPc' \in {"revoke", "detach"}
  /\ RevocationRuns => stopPc' = "revoke"
  /\ stopPc' = "revoke" => RevocationRuns \/ isConnected
  /\ stopGen' = gen
  /\ isClosing' = TRUE /\ intentional' = TRUE /\ isConnecting' = FALSE
  /\ timer' = FALSE /\ reconnecting' = FALSE
  /\ UNCHANGED <<leaseVars, gen, isConnected, tries, active, pending, attemptVars,
                 opener, disconnected, nativeVars, task, disc, startVars, stopConn,
                 stopOpening, stopLease, stopRx, stopResult, late>>

\* The finally block: release the lease when the close is proven; otherwise
\* take it back, with the attempt it protects, or leave both to a callback
\* on the open that is still pending.
StopLeases(L, opening, conn, settled, isProven, g) ==
  LET unresolved == IF conn # Null THEN conn ELSE opening IN
  IF L.id = 0
  THEN UNCHANGED <<lease, held, pending, active, disconnected, late>>
  ELSE IF isProven
  THEN Release(L.id) /\ UNCHANGED <<held, pending, active, disconnected, late>>
  ELSE IF opening # Null /\ ~settled
  THEN /\ pending' = opening
       /\ held' = [L EXCEPT !.gen = g]
       /\ late' = late \cup {[opening |-> opening, lease |-> L]}
       /\ UNCHANGED <<lease, active, disconnected>>
  ELSE /\ disconnected' = disconnected \cup {unresolved}
       /\ pending' = WithoutPending(unresolved)
       /\ active' = unresolved
       /\ Transition([L EXCEPT !.gen = g], g, "closing")
       /\ UNCHANGED late

\* The end of performStop(), where g is the generation by then.
StopFinishes(L, opening, conn, settled, isProven, evidence, g) ==
  LET unsafe == latch \/ (evidence = "unsafe" /\ (settled \/ (L.id # 0 /\ isProven))) IN
  /\ StopLeases(L, opening, conn, settled, isProven, g)
  /\ latch' = unsafe
  /\ stopResult' = [rxSafe |-> ~unsafe /\ evidence = "guaranteed",
                    closed |-> isProven /\ (opening # Null => settled)]
  /\ gen' = g
  /\ isConnected' = FALSE /\ isClosing' = FALSE
  /\ stopPc' = "none" /\ stopLease' = NoLease /\ stopRx' = "none"
  /\ stopConn' = Null /\ stopOpening' = Null
  /\ UNCHANGED <<stopGen, leaseSeq, intentional, isConnecting, reconnecting, timerVars,
                 attemptVars, opener, open, proven, rx, disc, startVars, stops>>

BumpedGen == IF gen = stopGen THEN gen + 1 ELSE gen

\* rxEvidence before anything is awaited.
InitialEvidence ==
  IF latch THEN "unsafe"
  ELSE IF active # Null /\ rx[active] # "none" THEN rx[active]
  ELSE IF pending = Null THEN "guaranteed"
  ELSE IF rx[pending] # "none" THEN rx[pending] ELSE "unsafe"

\* What performStop() awaits after the revocation.
StopAwaits == IF pending # Null THEN "opening" ELSE "shut"

\* The transaction is revoked: detach the connection and the lease, then wait
\* for the pending open, shut the connection down, or finish at once.
StopRevoked ==
  /\ stopPc \in {"revoke", "detach"} /\ ~RevocationRuns
  /\ held' = NoLease
  /\ \/ /\ pending = Null /\ active = Null
        /\ Release(held.id)
        /\ stopResult' = [rxSafe |-> ~latch, closed |-> TRUE]
        /\ gen' = BumpedGen
        /\ isConnected' = FALSE /\ isClosing' = FALSE
        /\ stopPc' = "none"
        /\ UNCHANGED <<active, stopConn, stopOpening, stopLease, stopRx, task>>
     \/ /\ pending # Null \/ active # Null
        /\ stopOpening' = pending /\ stopConn' = active /\ stopLease' = held
        /\ stopRx' = InitialEvidence
        /\ active' = Null
        /\ lease' = IF held.id # 0 /\ held.state \notin {"failed", "closing"}
                       /\ MayTransition(held.id, "closing")
                    THEN [lease EXCEPT !.state = "closing"] ELSE lease
        /\ stopPc' = StopAwaits
        /\ IF pending # Null THEN UNCHANGED task ELSE JoinShutdown(active)
        /\ UNCHANGED <<stopResult, gen, isConnected, isClosing>>
  /\ UNCHANGED <<leaseSeq, intentional, isConnecting, reconnecting, timerVars, pending,
                 attemptVars, opener, disconnected, nativeVars, disc, startVars,
                 stopGen, stops, late>>

\* The pending open settled within the grace period.
StopOpeningSettled ==
  /\ stopPc = "opening" /\ Settled(stopOpening)
  /\ StopFinishes(stopLease, stopOpening, Null, TRUE, stopOpening \in proven,
                  rx[stopOpening], BumpedGen)
  /\ UNCHANGED task

\* Seeded bug: stop() waits for the open without a grace period.
StopWaitsForOpen ==
  stopPc = "opening" /\ ~Settled(stopOpening) /\ UNCHANGED vars

\* It did not: the callback on its settlement keeps the lease until then.
StopOpeningTimeout ==
  /\ stopPc = "opening" /\ ~Settled(stopOpening)
  /\ StopFinishes(stopLease, stopOpening, Null, FALSE, FALSE, stopRx, gen)
  /\ UNCHANGED task

StopShutDown ==
  /\ stopPc = "shut" /\ task[stopConn] = "none"
  /\ StopFinishes(stopLease, Null, stopConn, FALSE, stopConn \in proven,
                  rx[stopConn], BumpedGen)
  /\ UNCHANGED task

\* The callback: the open that outlived stop() has settled at last.
LateOpenSettled(e) ==
  /\ LateReady(e)
  /\ late' = late \ {e}
  /\ \/ /\ e.opening \in proven
        /\ latch' = (latch \/ rx[e.opening] = "unsafe")
        /\ Release(e.lease.id)
        /\ held' = IF held.id = e.lease.id THEN NoLease ELSE held
        /\ pending' = WithoutPending(e.opening)
        /\ UNCHANGED <<active, isConnected, disconnected>>
     \/ e.opening \notin proven /\ RetainUnclosed(e.opening, held, gen) /\ UNCHANGED latch
  /\ UNCHANGED <<leaseSeq, gen, intentional, isConnecting, isClosing, reconnecting,
                 timerVars, attemptVars, opener, open, proven, rx, task, disc, startVars,
                 stopVars>>

-----------------------------------------------------------------------------
(* The other sessions of the process, which follow the registry's rules.   *)

OtherAcquires ==
  /\ lease = Free /\ leaseSeq <= MaxGenerations
  /\ leaseSeq' = leaseSeq + 1
  /\ lease' = [owner |-> "other", id |-> leaseSeq + 1, state |-> "connected"]
  /\ UNCHANGED <<held, gen, intentional, flagVars, timerVars, active, pending,
                 attemptVars, opener, disconnected, nativeVars, task, disc, startVars,
                 stopVars, late>>

OtherReleases ==
  /\ lease.owner = "other"
  /\ lease' = Free
  /\ UNCHANGED <<leaseSeq, held, gen, intentional, flagVars, timerVars, active, pending,
                 attemptVars, opener, disconnected, nativeVars, task, disc, startVars,
                 stopVars, late>>

-----------------------------------------------------------------------------
Init ==
  /\ lease = Free /\ leaseSeq = 0 /\ held = NoLease
  /\ gen = 0 /\ intentional = TRUE
  /\ isConnecting = FALSE /\ isConnected = FALSE
  /\ isClosing = FALSE /\ reconnecting = FALSE
  /\ timer = FALSE /\ tries = 0
  /\ active = Null /\ pending = Null
  /\ byReconnect = {} /\ committed = {} /\ disconnected = {} /\ watched = {}
  /\ opener = [a \in Attempts |-> "none"]
  /\ open = {} /\ proven = {}
  /\ rx = [a \in Attempts |-> "none"] /\ latch = FALSE
  /\ task = [a \in Attempts |-> "none"] /\ disc = [a \in Attempts |-> "none"]
  /\ starting = "none" /\ startPrev = Null
  /\ stopPc = "none" /\ stopGen = 0 /\ stopConn = Null /\ stopOpening = Null
  /\ stopLease = NoLease /\ stopRx = "none" /\ stops = 0
  /\ stopResult = [rxSafe |-> TRUE, closed |-> TRUE]
  /\ late = {}

\* Continuations of promises that are resolved.
Microtask ==
  \/ StartPrevClosed \/ StopOpeningSettled \/ StopShutDown
  \/ \E a \in Attempts :
       CleanupReturns(a) \/ OpenedResumes(a) \/ FailedResumes(a) \/ DisconnectClosed(a)
  \/ \E e \in late : LateOpenSettled(e)

\* The teardown of attempts and the revocation of serial transactions: every
\* await of them is bounded by a grace period or answered by the backend.
Teardown ==
  \/ StartRevoked \/ StopRevoked
  \/ \E a \in Attempts : ShutdownDrains(a) \/ ShutdownCloses(a) \/ DisconnectRevoked(a)

Opening == \E a \in Attempts : OpenReturns(a) \/ WatchReturns(a) \/ LinesReturn(a)

Environment ==
  \/ Start \/ ReconnectTimer
  \/ \E a \in Attempts : Disconnect(a)
  \/ OtherAcquires \/ OtherReleases

Next ==
  \/ stopPc = "detach" /\ StopRevoked
  \/ stopPc # "detach" /\ (Microtask \/ Stop)
  \/ stopPc # "detach" /\ Quiet
       /\ (Teardown \/ StopOpeningTimeout \/ Opening \/ Environment)

Spec == Init /\ [][Next]_vars

\* Resolved promises are resumed, the teardown goes on and timers fire; the
\* driver may never answer an open(), a watch() or a line write.
FairSpec ==
  /\ Spec
  /\ WF_vars(Microtask \/ (stopPc = "detach" /\ StopRevoked))
  /\ WF_vars(Quiet /\ Teardown) /\ WF_vars(Quiet /\ StopOpeningTimeout)

-----------------------------------------------------------------------------
(* Properties.                                                             *)

HeldStates == {"free", "opening", "connected", "reconnecting", "failed", "closing"}
HeldLeases == [gen : Nat, id : Nat, state : HeldStates]

\* Every variable has its type, and what stop() awaits exists.
TypeOK ==
  /\ lease \in [owner : {"none", "self", "other"}, id : Nat, state : HeldStates]
  /\ leaseSeq \in Nat /\ held \in HeldLeases
  /\ gen \in Nat /\ tries \in Nat /\ stops \in 0 .. MaxStops
  /\ {intentional, isConnecting, isConnected, isClosing, reconnecting, timer, latch}
       \subseteq BOOLEAN
  /\ {active, pending, startPrev, stopConn, stopOpening} \subseteq Attempts \cup {Null}
  /\ UNION {byReconnect, committed, disconnected, watched, open, proven} \subseteq Attempts
  /\ opener \in [Attempts -> InOpenConnection
                   \cup {"none", "opened", "failed", "done"}]
  /\ rx \in [Attempts -> {"none", "guaranteed", "unsafe"}]
  /\ task \in [Attempts -> {"none", "rx", "close"}]
  /\ disc \in [Attempts -> {"none", "revoke", "shut"}]
  /\ starting \in {"none", "revoke", "shut"}
  /\ stopPc \in {"none", "revoke", "detach", "opening", "shut"}
  /\ stopPc = "opening" => stopOpening # Null
  /\ stopPc = "shut" => stopConn # Null
  /\ stopGen \in Nat /\ stopLease \in HeldLeases
  /\ stopRx \in {"none", "guaranteed", "unsafe"}
  /\ stopResult \in [rxSafe : BOOLEAN, closed : BOOLEAN]
  /\ \A e \in late : e.opening \in Attempts /\ e.lease \in HeldLeases

\* An attempt to start, stop or disconnect that is not over yet.
StartRuns == starting # "none" \/ \E a \in Attempts \ byReconnect :
                                     opener[a] \notin {"none", "done"}
StopRuns == stopPc # "none"
DisconnectRuns == \E a \in Attempts : disc[a] # "none"
TaskRuns == \E a \in Attempts : task[a] # "none" \/ opener[a] \notin {"none", "done"}
AtRest == starting = "none" /\ ~StopRuns /\ ~DisconnectRuns /\ ~TaskRuns /\ Quiet

\* What the session shows is true: no flag is left set by an operation that is over,
\* which would refuse start() for ever, and "connected" is shown only for a committed
\* connection of the current generation, on an open handle, with its lease held as
\* connected.
ShownIsTrue ==
  /\ isConnecting => StartRuns
  /\ isClosing => StopRuns \/ DisconnectRuns \/ starting # "none"
  /\ isConnected /\ Quiet /\ ~StopRuns =>
       /\ active = gen /\ active \in committed /\ active \in open
       /\ lease.owner = "self" /\ lease.state = "connected" /\ held.id = lease.id

\* Nothing is stranded once nothing runs: the session still refers to a handle that may
\* be open, so that a later stop() can close it, and a session that is neither connected,
\* connecting nor reconnecting and has no handle left gives the port back.
NothingStranded ==
  AtRest => /\ open \subseteq {active, pending}
            /\ active = Null /\ pending = Null /\ ~timer => lease.owner # "self"

\* When openConnection() resolves, the attempt is the current connection and
\* its lease can become connected, or a stop() has taken both; there is never an attempt
\* pending beside it, and the session never has two handles on its port.
OpenedIsCurrent ==
  /\ Cardinality(open) <= 1
  /\ active = Null \/ pending = Null
  /\ \A a \in Attempts : opener[a] = "opened" /\ stopPc # "detach" =>
       IF Stale(a) THEN active = Null
       ELSE active = a /\ TransitionSucceeds(held, a, "connected")

\* What stop() answers can be relied on: "closed" only when no handle is open,
\* and a safe RX boundary only if no attempt of the session ever lost one.
StopIsHonest ==
  [][stopPc # "none" /\ stopPc' = "none" =>
       /\ stopResult'.closed => open' = {}
       /\ stopResult'.rxSafe => \A a \in Attempts : rx'[a] # "unsafe"]_vars

\* stop() ends even if the driver never answers the pending open(), and a session that is
\* being closed comes to rest.
StopEnds == (StopRuns ~> ~StopRuns) /\ (isClosing ~> ~isClosing)

Ownership ==
  INSTANCE PortOwnership WITH
    Sessions <- {"self", "other"},
    reserved <- {lease.owner} \ {"none"},
    handles <- {s \in {"self", "other"} :
                  IF s = "self" THEN open # {} ELSE lease.owner = "other"}

\* Through every start, stop, disconnect, reconnect and late answer, the
\* session and the registry keep the promise of PortOwnership.
KeepsOwnership == Ownership!Spec
=============================================================================
