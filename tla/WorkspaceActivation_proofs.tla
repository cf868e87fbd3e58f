-------------------- MODULE WorkspaceActivation_proofs --------------------
(***************************************************************************)
(* Proofs about WorkspaceActivation, for any set of projects and any       *)
(* number of requests: edits are accepted only for the project that the    *)
(* native side has open, and once no attempt is left nothing is half       *)
(* switched.                                                               *)
(*                                                                         *)
(* Both concern states in which nobody works, and are reached through      *)
(* attempts that were aborted at any of their awaits.  The invariant       *)
(* follows the one attempt that works.  The others are queued or done      *)
(* (InOrder), the gate is closed as long as one is left (Gate), native     *)
(* side and coordinator are where the application believes them to be      *)
(* unless it is the working attempt that moves them (Home, Holds), and the *)
(* runtime transaction with its progress by id says what became of the old *)
(* runtimes (Ledger).                                                      *)
(***************************************************************************)
EXTENDS WorkspaceActivation, TLAPS

Projects == Workspaces \cup {None}

Pcs ==
  {"queued", "quiescing", "draining", "invoking", "hydrating", "disposing", "stopping",
   "deleting", "reopening", "restoring", "done"}
Whys == {None, "abort", "clear", "drain", "invoke", "hydration", "delete"}
Kinds == {None, "open", "create", "delete"}

Attempts ==
  [kind : Kinds, target : Projects, prev : Projects, nativeStarted : BOOLEAN,
   activated : Projects, aborted : BOOLEAN, pc : Pcs, why : Whys]
Apps ==
  [current : Projects, recoveryRequired : BOOLEAN, switching : BOOLEAN, hydrating : BOOLEAN,
   status : {"idle", "loading", "ready", "failed"}]
Transitions ==
  [id : Nat, prev : Projects, quiesceStarted : BOOLEAN, quiesceFailed : BOOLEAN,
   disposeStarted : BOOLEAN, disposeCompleted : BOOLEAN, stopped : Projects]
Progresses ==
  [started : BOOLEAN, quiesced : BOOLEAN, disposed : BOOLEAN, restored : BOOLEAN,
   snapshot : Projects]
Calls ==
  [st : {"idle", "sent", "ok", "error"}, kind : Kinds, ws : Projects, current : BOOLEAN]

\* The types of the variables the properties depend on.
Types ==
  /\ attempts \in Seq(Attempts) /\ Generation <= MaxAttempts
  /\ latest \in Nat
  /\ app \in Apps
  /\ transition \in Transitions
  /\ progress \in [0 .. MaxAttempts -> Progresses]
  /\ resident \in Projects /\ active \in Projects
  /\ call \in Calls

Kind(g) == attempts[g].kind
Pc(g) == attempts[g].pc

\* The attempt waits for its turn or is over.
Idles(g) == Pc(g) \in {"queued", "done"}

\* One attempt works at most, the newer ones are queued; the tracker's attempt is the newest,
\* and the only one that nobody aborted.
InOrder ==
  /\ \A g, h \in Generations : g < h /\ Pc(g) # "done" => Pc(h) = "queued"
  /\ latest \in {0, Generation}
  /\ latest = 0 => AtRest
  /\ latest # 0 => Pc(latest) # "done"
  /\ \A g \in Generations : Pc(g) # "done" /\ ~attempts[g].aborted => g = Generation

\* The gate is closed, or there is nothing to protect, until every attempt has ended.
Gate ==
  /\ ~AtRest => app.switching \/ app.recoveryRequired \/ app.current = None
  /\ AtRest => ~app.switching /\ ~app.hydrating /\ app.status # "loading"

\* Native side and coordinator have the installed project, or none.
Home ==
  ~app.recoveryRequired /\ app.current # None =>
    native \in {app.current, None} /\ active \in {app.current, None}

\* The attempt has activated its project and not committed it.
Swapping(g) ==
  Pc(g) \in {"hydrating", "stopping"} \/ (Pc(g) = "disposing" /\ Kind(g) # "delete")

\* The attempt has a navigation call.
Awaits(g) == Pc(g) \in {"invoking", "deleting", "reopening"}

\* What the working attempt knows at each of its awaits.
Phase(g) ==
  /\ ~app.recoveryRequired /\ app.current # None => attempts[g].prev = app.current
  /\ Pc(g) = "invoking" =>
       /\ attempts[g].nativeStarted /\ Kind(g) # "delete"
       /\ call.kind \in {"open", "create"} /\ call.ws \in Workspaces
       /\ ~call.current => attempts[g].aborted
       /\ call.st = "ok" => native \in {call.ws, None}
       /\ call.st # "ok" => Home
  /\ Swapping(g) =>
       /\ attempts[g].nativeStarted /\ Kind(g) # "delete" /\ attempts[g].activated \in Workspaces
       /\ native \in {attempts[g].activated, None} /\ active \in {attempts[g].activated, None}
  /\ Pc(g) = "reopening" =>
       /\ attempts[g].why # "clear"
       /\ call.kind = "open" /\ call.ws = attempts[g].prev
       /\ call.st = "ok" => native \in {call.ws, None}
  /\ Pc(g) = "deleting" => call.kind = "delete" /\ resident = None

\* It has a runtime transaction; that is its own, or an older one; it is about to begin one.
Transacts(g) ==
  \/ Pc(g) \in {"quiescing", "draining", "invoking", "hydrating", "disposing", "stopping",
                "deleting"}
  \/ Pc(g) = "restoring" /\ attempts[g].why = "clear"
Commits(g) == Pc(g) \in {"invoking", "hydrating", "disposing", "stopping", "deleting"}
Clears(g) == Pc(g) = "restoring" /\ attempts[g].why = "clear"

\* An attempt that will begin a transaction finds no progress under its id.
Unspent(g) == \A i \in 0 .. MaxAttempts : progress[i].disposed => i < g

\* The invariant as the working attempt sees it.
Holds(g) ==
  /\ attempts[g].target \in Workspaces /\ Kind(g) # None
  /\ Phase(g)
  /\ ~Swapping(g) /\ Pc(g) \notin {"invoking", "reopening"} => Home
  /\ ~Awaits(g) => call = NoCall
  /\ Transacts(g) => transition # NoTransition
  /\ Commits(g) => transition.id <= g
  /\ Clears(g) => Unspent(g)

\* A queued attempt has its request and nothing else.
Waits(g) == attempts[g].target \in Workspaces /\ Kind(g) # None /\ Unspent(g)

\* Nothing is under way.
Peace ==
  /\ Home /\ call = NoCall
  /\ transition # NoTransition => app.recoveryRequired

\* The progress under an id is that of the transaction with the id, and there is none beyond
\* the newest; what is to be restored is the installed project, and what was disposed is gone.
Ledger ==
  /\ transition # NoTransition => transition.id \in 1 .. Generation
  /\ transition # NoTransition =>
       \A i \in 0 .. MaxAttempts : i > transition.id => progress[i] = NoProgress
  /\ \A i \in 0 .. MaxAttempts : i > Generation => progress[i] = NoProgress
  /\ progress[0] = NoProgress
  /\ resident \in {None, app.current}
  /\ progress[Generation].snapshot \in {None, app.current}
  /\ progress[transition.id].snapshot \in {None, app.current}
  /\ transition # NoTransition /\ progress[transition.id].disposed => resident = None

\* The inductive invariant.
Inv ==
  /\ Types /\ InOrder /\ Gate /\ Ledger
  /\ \A g \in Generations : Pc(g) = "queued" => Waits(g)
  /\ \A g \in Generations : ~Idles(g) => Holds(g)
  /\ (\A g \in Generations : Idles(g)) => Peace

-------------------------------------------------------------------------------
(* Steps of the tracker.                                                   *)

\* The other attempts are at most aborted.
Changes(g) ==
  /\ attempts' \in Seq(Attempts) /\ Generation' = Generation
  /\ \A h \in Generations \ {g} :
       /\ attempts'[h].pc = attempts[h].pc /\ attempts'[h].target = attempts[h].target
       /\ attempts'[h].kind = attempts[h].kind
       /\ attempts[h].aborted => attempts'[h].aborted

\* The attempt goes on with what it was asked for.
Keeps(g) ==
  /\ Changes(g)
  /\ attempts'[g].kind = attempts[g].kind /\ attempts'[g].target = attempts[g].target
  /\ attempts'[g].aborted = attempts[g].aborted

\* A sequence with one element exchanged.
LEMMA OneChanged ==
  ASSUME NEW S, NEW q \in Seq(S), NEW n \in 1 .. Len(q), NEW x \in S
  PROVE  /\ [q EXCEPT ![n] = x] \in Seq(S) /\ Len([q EXCEPT ![n] = x]) = Len(q)
         /\ \A h \in 1 .. Len(q) : [q EXCEPT ![n] = x][h] = IF h = n THEN x ELSE q[h]
  OBVIOUS

\* One attempt is replaced by another record.
LEMMA Replaced ==
  ASSUME attempts \in Seq(Attempts), NEW g \in Generations, NEW r \in Attempts,
         attempts' = [attempts EXCEPT ![g] = r]
  PROVE  Changes(g) /\ attempts'[g] = r
<1>1. g \in 1 .. Len(attempts)
  BY DEF Generations
<1>2. /\ attempts' \in Seq(Attempts) /\ Len(attempts') = Len(attempts)
      /\ \A h \in 1 .. Len(attempts) : attempts'[h] = IF h = g THEN r ELSE attempts[h]
  BY <1>1
<1> QED
  BY <1>1, <1>2 DEF Changes, Generation, Generations

\* Goto(): only the pc changes.
LEMMA Going ==
  ASSUME attempts \in Seq(Attempts), NEW g \in Generations, NEW p \in Pcs,
         attempts' = [attempts EXCEPT ![g].pc = p]
  PROVE  /\ Keeps(g) /\ attempts'[g].pc = p /\ attempts'[g].prev = attempts[g].prev
         /\ attempts'[g].why = attempts[g].why
         /\ attempts'[g].nativeStarted = attempts[g].nativeStarted
         /\ attempts'[g].activated = attempts[g].activated
<1> DEFINE r == [attempts[g] EXCEPT !.pc = p]
<1>1. attempts[g] \in Attempts
  BY DEF Generations
<1>2. /\ r \in Attempts /\ r.pc = p /\ r.prev = attempts[g].prev /\ r.why = attempts[g].why
      /\ r.nativeStarted = attempts[g].nativeStarted /\ r.activated = attempts[g].activated
      /\ r.kind = attempts[g].kind /\ r.target = attempts[g].target
      /\ r.aborted = attempts[g].aborted
  BY <1>1 DEF Attempts
<1>3. attempts' = [attempts EXCEPT ![g] = r]
  OBVIOUS
<1> HIDE DEF r
<1>4. Changes(g) /\ attempts'[g] = r
  BY <1>2, <1>3, Replaced
<1> QED
  BY <1>2, <1>4 DEF Keeps

\* The attempt begins to restore, or to reopen, for a reason.
LEMMA GoingBack ==
  ASSUME attempts \in Seq(Attempts), NEW g \in Generations, NEW p \in Pcs, NEW y \in Whys,
         attempts' = [attempts EXCEPT ![g] = [attempts[g] EXCEPT !.pc = p, !.why = y]]
  PROVE  /\ Keeps(g) /\ attempts'[g].pc = p /\ attempts'[g].prev = attempts[g].prev
         /\ attempts'[g].why = y
<1> DEFINE r == [attempts[g] EXCEPT !.pc = p, !.why = y]
<1>1. attempts[g] \in Attempts
  BY DEF Generations
<1>2. /\ r \in Attempts /\ r.pc = p /\ r.prev = attempts[g].prev /\ r.why = y
      /\ r.kind = attempts[g].kind /\ r.target = attempts[g].target
      /\ r.aborted = attempts[g].aborted
  BY <1>1 DEF Attempts
<1> HIDE DEF r
<1>3. Changes(g) /\ attempts'[g] = r
  BY <1>2, Replaced DEF r
<1> QED
  BY <1>2, <1>3 DEF Keeps

\* The first steps of an attempt note the project to come back to.
LEMMA GoingFrom ==
  ASSUME attempts \in Seq(Attempts), NEW g \in Generations, NEW p \in Pcs, NEW v \in Projects,
         attempts' = [attempts EXCEPT ![g] = [attempts[g] EXCEPT !.prev = v, !.pc = p]]
  PROVE  Keeps(g) /\ attempts'[g].pc = p /\ attempts'[g].prev = v
<1> DEFINE r == [attempts[g] EXCEPT !.prev = v, !.pc = p]
<1>1. attempts[g] \in Attempts
  BY DEF Generations
<1>2. /\ r \in Attempts /\ r.pc = p /\ r.prev = v
      /\ r.kind = attempts[g].kind /\ r.target = attempts[g].target
      /\ r.aborted = attempts[g].aborted
  BY <1>1 DEF Attempts
<1> HIDE DEF r
<1>3. Changes(g) /\ attempts'[g] = r
  BY <1>2, Replaced DEF r
<1> QED
  BY <1>2, <1>3 DEF Keeps

\* An attempt that ends: the record it leaves is never looked at again.
LEMMA Ending ==
  ASSUME attempts \in Seq(Attempts), NEW g \in Generations, attempts' = Done(g)
  PROVE  Changes(g) /\ attempts'[g].pc = "done"
<1> DEFINE r == [Attempt(None, None) EXCEPT !.pc = "done"]
<1>1. r \in Attempts /\ r.pc = "done"
  BY DEF Attempt, Attempts, Kinds, Projects, Pcs, Whys
<1> HIDE DEF r
<1> QED
  BY <1>1, Replaced DEF Done, r

\* One that ends under the lockout aborts the newest.
LEMMA EndingAborts ==
  ASSUME attempts \in Seq(Attempts), NEW g \in Generations, NEW n \in Generations, n # g,
         attempts' = [Done(g) EXCEPT ![n].aborted = TRUE]
  PROVE  Changes(g) /\ attempts'[g].pc = "done"
<1> DEFINE r == [Attempt(None, None) EXCEPT !.pc = "done"]
           a == [attempts[n] EXCEPT !.aborted = TRUE]
<1>1. r \in Attempts /\ r.pc = "done"
  BY DEF Attempt, Attempts, Kinds, Projects, Pcs, Whys
<1>2. g \in 1 .. Len(attempts) /\ n \in 1 .. Len(attempts) /\ attempts[n] \in Attempts
  BY DEF Generations
<1>3. /\ a \in Attempts /\ a.pc = attempts[n].pc /\ a.kind = attempts[n].kind
      /\ a.target = attempts[n].target /\ a.aborted
  BY <1>2 DEF Attempts
<1> HIDE DEF r
<1>4. Done(g) \in Seq(Attempts) /\ Len(Done(g)) = Len(attempts) /\ Done(g)[n] = attempts[n]
      /\ \A h \in 1 .. Len(attempts) : Done(g)[h] = IF h = g THEN r ELSE attempts[h]
  BY <1>1, <1>2 DEF Done, r
<1>5. attempts' = [Done(g) EXCEPT ![n] = a]
  BY <1>4
<1> HIDE DEF a
<1>6. /\ attempts' \in Seq(Attempts) /\ Len(attempts') = Len(attempts)
      /\ \A h \in 1 .. Len(attempts) :
           attempts'[h] = IF h = n THEN a ELSE IF h = g THEN r ELSE attempts[h]
  <2> DEFINE D == Done(g)
  <2>1. D \in Seq(Attempts) /\ Len(D) = Len(attempts) /\ attempts' = [D EXCEPT ![n] = a]
    BY <1>4, <1>5
  <2> HIDE DEF D
  <2>2. /\ attempts' \in Seq(Attempts) /\ Len(attempts') = Len(D)
        /\ \A h \in 1 .. Len(D) : attempts'[h] = IF h = n THEN a ELSE D[h]
    <3>1. n \in 1 .. Len(D) /\ a \in Attempts /\ D \in Seq(Attempts)
      BY <1>2, <1>3, <2>1
    <3>2. /\ [D EXCEPT ![n] = a] \in Seq(Attempts) /\ Len([D EXCEPT ![n] = a]) = Len(D)
          /\ \A h \in 1 .. Len(D) : [D EXCEPT ![n] = a][h] = IF h = n THEN a ELSE D[h]
      BY <3>1, OneChanged
    <3> QED
      BY <2>1, <3>2
  <2> QED
    BY <1>4, <2>1, <2>2 DEF D
<1> QED
  BY <1>1, <1>2, <1>3, <1>6 DEF Changes, Generation, Generations

\* The working attempt goes on: it stays the only one.
LEMMA GoesOn ==
  ASSUME attempts \in Seq(Attempts), InOrder, NEW g \in Generations, Executing(g), Keeps(g),
         attempts'[g].pc \notin {"queued", "done"}, latest' = latest
  PROVE  InOrder' /\ ~AtRest /\ ~AtRest'
<1>1. Generations' = Generations /\ g \in 1 .. Len(attempts) /\ g \in Nat
  BY DEF Keeps, Changes, Generation, Generations
<1>2. \A h \in Generations : /\ h < g => attempts[h].pc = "done"
                             /\ h > g => attempts[h].pc = "queued"
  BY <1>1 DEF Executing, InOrder, Pc, Generations
<1>3. \A h \in Generations : /\ h < g => attempts'[h].pc = "done"
                             /\ h > g => attempts'[h].pc = "queued"
  BY <1>1, <1>2 DEF Keeps, Changes
<1>4. ~AtRest /\ ~AtRest'
  BY <1>1 DEF AtRest, Executing
<1>5. latest # 0 /\ latest = Generation /\ Generation' = Generation
  BY <1>4 DEF InOrder, Keeps, Changes
<1>6. \A h, k \in Generations : h < k /\ attempts'[h].pc # "done" => attempts'[k].pc = "queued"
  BY <1>1, <1>3 DEF Generations
<1>7. attempts'[latest].pc # "done"
  <2>1. latest \in Generations /\ (latest = g \/ latest > g)
    BY <1>5, <1>1 DEF Generations, Generation
  <2> QED
    BY <2>1, <1>3
<1>8. \A h \in Generations : attempts'[h].pc # "done" /\ ~attempts'[h].aborted => h = Generation
  BY <1>1, <1>3 DEF InOrder, Keeps, Changes, Executing, Pc
<1> QED
  BY <1>1, <1>4, <1>5, <1>6, <1>7, <1>8 DEF InOrder, Pc

\* The working attempt ends: the next one is the tracker's, or there is none.
LEMMA GoesOut ==
  ASSUME attempts \in Seq(Attempts), InOrder, NEW g \in Generations, Executing(g), Changes(g),
         attempts'[g].pc = "done", latest' = IF latest = g THEN 0 ELSE latest
  PROVE  /\ InOrder' /\ ~AtRest
         /\ AtRest' <=> latest = g
         /\ IsLatest(g) <=> latest = g
<1>1. Generations' = Generations /\ g \in 1 .. Len(attempts) /\ g \in Nat /\ g # 0
  BY DEF Changes, Generation, Generations
<1>2. \A h \in Generations : /\ h < g => attempts[h].pc = "done"
                             /\ h > g => attempts[h].pc = "queued"
  BY <1>1 DEF Executing, InOrder, Pc, Generations
<1>3. \A h \in Generations : /\ h <= g => attempts'[h].pc = "done"
                             /\ h > g => attempts'[h].pc = "queued"
  BY <1>1, <1>2 DEF Changes, Generations
<1>4. ~AtRest
  BY <1>1 DEF AtRest, Executing
<1>5. latest # 0 /\ latest = Generation /\ Generation' = Generation
  BY <1>4 DEF InOrder, Changes
<1>6. latest \in Generations /\ latest >= g
  BY <1>5, <1>1 DEF Generations, Generation
<1>7. AtRest' <=> latest = g
  <2>1. CASE latest = g
    BY <1>1, <1>3, <1>5, <2>1 DEF AtRest, Generations, Generation
  <2>2. CASE latest # g
    <3>1. latest > g /\ attempts'[latest].pc = "queued"
      BY <1>1, <1>3, <1>6, <2>2 DEF Generations
    <3> QED
      BY <1>1, <1>6, <2>2, <3>1 DEF AtRest
  <2> QED
    BY <2>1, <2>2
<1>8. \A h, k \in Generations : h < k /\ attempts'[h].pc # "done" => attempts'[k].pc = "queued"
  BY <1>1, <1>3 DEF Generations
<1>9. latest' # 0 => attempts'[latest'].pc # "done"
  BY <1>1, <1>3, <1>6 DEF Generations
<1>a. \A h \in Generations : attempts'[h].pc # "done" /\ ~attempts'[h].aborted => h = Generation
  BY <1>1, <1>3, <1>2 DEF InOrder, Changes, Pc, Generations
<1>b. latest' \in {0, Generation'} /\ (latest' = 0 => AtRest')
  BY <1>1, <1>5, <1>7
<1> QED
  BY <1>1, <1>4, <1>5, <1>7, <1>8, <1>9, <1>a, <1>b DEF InOrder, Pc, IsLatest

\* The one whose turn has come finds nothing under way.
LEMMA Turn ==
  ASSUME Inv, NEW g \in Generations, At(g, "queued")
  PROVE  Peace /\ Waits(g) /\ ~AtRest /\ Gate /\ Types /\ Ledger /\ InOrder /\ Executing(g)
<1>1. \A h \in Generations : Idles(h)
  BY DEF Inv, InOrder, At, Executing, Pc, Idles, Generations
<1> QED
  BY <1>1 DEF Inv, At, Executing, Pc, AtRest

\* The one that works is where the invariant says.
LEMMA Working ==
  ASSUME Inv, NEW g \in Generations, NEW p \in Pcs \ {"queued", "done"}, At(g, p)
  PROVE  /\ Holds(g) /\ ~AtRest /\ Gate /\ Types /\ Ledger /\ InOrder /\ Executing(g)
         /\ Pc(g) = p
BY DEF Inv, At, Executing, Pc, AtRest, Idles

\* A step of one attempt: the queued ones still have nothing of their own.
Spends(g) ==
  \A i \in 0 .. MaxAttempts : progress'[i].disposed => progress[i].disposed \/ i <= g

LEMMA Acted ==
  ASSUME Inv, NEW g \in Generations, Executing(g), Changes(g), Spends(g),
         Types', InOrder', Gate', Ledger',
         attempts'[g].pc # "queued",
         attempts'[g].pc = "done" => Peace',
         attempts'[g].pc # "done" => Holds(g)'
  PROVE  Inv'
<1>1. Generations' = Generations /\ g \in Nat
  BY DEF Changes, Generation, Generations
<1>2. \A h \in Generations : h # g => attempts[h].pc \in {"queued", "done"}
  BY <1>1 DEF Inv, InOrder, Executing, Pc, Generations
<1>3. \A h \in Generations : h # g => attempts'[h].pc = attempts[h].pc
  BY DEF Changes
<1>4. ASSUME NEW h \in Generations, attempts'[h].pc = "queued"
      PROVE  Waits(h)'
  <2>1. h # g /\ attempts[h].pc = "queued" /\ Waits(h)
    BY <1>3, <1>4 DEF Inv, Pc
  <2>2. h > g
    BY <1>1, <2>1 DEF Executing, Generations
  <2>3. attempts'[h].target = attempts[h].target /\ attempts'[h].kind = attempts[h].kind
    BY <2>1 DEF Changes
  <2>4. \A i \in 0 .. MaxAttempts : progress'[i].disposed => i < h
    <3> SUFFICES ASSUME NEW i \in 0 .. MaxAttempts, progress'[i].disposed PROVE i < h
      OBVIOUS
    <3>1. CASE progress[i].disposed
      BY <3>1, <2>1 DEF Waits, Unspent
    <3>2. CASE i <= g
      BY <3>2, <2>2, <1>1 DEF Generations
    <3> QED
      BY <3>1, <3>2 DEF Spends
  <2> QED
    BY <2>1, <2>3, <2>4 DEF Waits, Unspent, Kind
<1>5. \A h \in Generations : attempts'[h].pc \notin {"queued", "done"} => h = g
  BY <1>2, <1>3
<1>6. /\ \A h \in Generations' : Pc(h)' = "queued" => Waits(h)'
      /\ \A h \in Generations' : ~Idles(h)' => Holds(h)'
      /\ (\A h \in Generations' : Idles(h)') => Peace'
  BY <1>1, <1>4, <1>5 DEF Pc, Idles
<1> QED
  BY <1>6 DEF Inv

-------------------------------------------------------------------------------
(* The application, the transaction and its progress.                      *)

LEMMA OpeningFacts ==
  ASSUME NEW a \in Apps, NEW y \in {"idle", "ready", "failed"}
  PROVE  /\ Opening(a, y) \in Apps /\ Opening(a, y).current = a.current
         /\ Opening(a, y).recoveryRequired = a.recoveryRequired
         /\ ~Opening(a, y).switching /\ ~Opening(a, y).hydrating /\ Opening(a, y).status = y
BY DEF Apps, Opening

LEMMA ClosingFacts ==
  ASSUME NEW a \in Apps
  PROVE  /\ Closing(a) \in Apps /\ Closing(a).current = a.current
         /\ Closing(a).recoveryRequired = a.recoveryRequired /\ Closing(a).switching
BY DEF Apps, Closing

LEMMA NothingFacts ==
  /\ NoTransition \in Transitions /\ NoTransition.id = 0
  /\ NoProgress \in Progresses /\ ~NoProgress.disposed /\ NoProgress.snapshot = None
  /\ NoCall \in Calls
BY DEF NoTransition, Transitions, NoProgress, Progresses, NoCall, Calls, Projects, Kinds

\* finishActivationFailure(), finishAbortedQueuedAttempt(): the last one opens the gate.
LEMMA Finishes ==
  ASSUME Inv, NEW g \in Generations, Executing(g), FinishFailure(g) \/ FinishAborted(g)
  PROVE  /\ Changes(g) /\ attempts'[g].pc = "done" /\ InOrder' /\ Gate'
         /\ app' \in Apps /\ latest' \in Nat
         /\ app'.current = app.current /\ app'.recoveryRequired = app.recoveryRequired
<1>1. attempts \in Seq(Attempts) /\ app \in Apps /\ latest \in Nat /\ InOrder /\ Gate
  BY DEF Inv, Types
<1>2. Changes(g) /\ attempts'[g].pc = "done"
  BY <1>1, Ending DEF FinishFailure, FinishAborted
<1>3. IsLatest(g) <=> latest = g
  BY <1>1 DEF IsLatest, InOrder, Generations
<1>4. latest' = IF latest = g THEN 0 ELSE latest
  BY <1>3 DEF FinishFailure, FinishAborted
<1>5. InOrder' /\ ~AtRest /\ (AtRest' <=> latest = g)
  BY <1>1, <1>2, <1>4, GoesOut
<1>6. PICK y \in {"idle", "ready", "failed"} : app' = IF latest = g THEN Opening(app, y) ELSE app
  BY <1>3 DEF FinishFailure, FinishAborted, RestStatus
<1>7. /\ app' \in Apps /\ app'.current = app.current
      /\ app'.recoveryRequired = app.recoveryRequired
  BY <1>1, <1>6, OpeningFacts
<1>8. Gate'
  <2>1. CASE latest = g
    <3>1. app' = Opening(app, y)
      BY <1>6, <2>1
    <3> QED
      BY <1>1, <1>5, <2>1, <3>1, OpeningFacts DEF Gate
  <2>2. CASE latest # g
    BY <1>1, <1>5, <1>6, <2>2 DEF Gate
  <2> QED
    BY <2>1, <2>2
<1> QED
  BY <1>1, <1>2, <1>4, <1>5, <1>7, <1>8

\* enterRecoveryLockout(): the attempt ends, and the lockout keeps the gate closed.
LEMMA Locks ==
  ASSUME Inv, NEW g \in Generations, Executing(g), Lockout(g)
  PROVE  /\ Changes(g) /\ attempts'[g].pc = "done" /\ InOrder' /\ Gate'
         /\ app' \in Apps /\ latest' \in Nat
         /\ app'.current = app.current /\ app'.recoveryRequired
<1>1. attempts \in Seq(Attempts) /\ app \in Apps /\ latest \in Nat /\ InOrder /\ Gate
  BY DEF Inv, Types
<1>2. Changes(g) /\ attempts'[g].pc = "done"
  <2>1. CASE latest \in {0, g}
    BY <1>1, <2>1, Ending DEF Lockout
  <2>2. CASE latest \notin {0, g}
    <3>1. latest \in Generations
      BY <1>1, <2>2 DEF InOrder, Generations, Generation
    <3> QED
      BY <1>1, <2>2, <3>1, EndingAborts DEF Lockout
  <2> QED
    BY <2>1, <2>2
<1>3. latest' = IF latest = g THEN 0 ELSE latest
  BY DEF Lockout
<1>4. InOrder'
  BY <1>1, <1>2, <1>3, GoesOut
<1> DEFINE o == Opening(app, "failed")
<1>5. /\ o \in Apps /\ o.current = app.current /\ ~o.switching /\ ~o.hydrating
      /\ o.status = "failed"
  BY <1>1, OpeningFacts
<1>6. app' = [o EXCEPT !.recoveryRequired = TRUE]
  BY DEF Lockout
<1> HIDE DEF o
<1>7. /\ app' \in Apps /\ app'.current = app.current /\ app'.recoveryRequired
      /\ ~app'.switching /\ ~app'.hydrating /\ app'.status = "failed"
  BY <1>5, <1>6 DEF Apps
<1> QED
  BY <1>1, <1>2, <1>3, <1>4, <1>7 DEF Gate

\* The transaction goes on under its id, or is over.
Continues ==
  /\ transition' \in Transitions
  /\ transition' = NoTransition \/ (transition # NoTransition /\ transition'.id = transition.id)

LEMMA LedgerStays ==
  ASSUME Types, Ledger, Generation' = Generation, progress' = progress, Continues,
         app'.current = app.current, resident' \in {None, resident}
  PROVE  Ledger'
BY NothingFacts DEF Types, Ledger, Continues

\* One entry of the progress is written.
LEMMA Recorded ==
  ASSUME Types, Ledger, transition # NoTransition, Generation' = Generation,
         NEW p \in Progresses, Record(transition.id, p)
  PROVE  /\ progress' \in [0 .. MaxAttempts -> Progresses]
         /\ transition.id \in 1 .. Generation /\ transition.id \in 0 .. MaxAttempts
         /\ progress'[transition.id] = p
         /\ \A i \in 0 .. MaxAttempts : i # transition.id => progress'[i] = progress[i]
<1>1. transition.id \in 1 .. Generation /\ Generation \in Nat /\ Generation <= MaxAttempts
  BY DEF Types, Ledger, Generation
<1>2. transition.id \in 0 .. MaxAttempts
  BY <1>1, BoundsAssumption
<1> QED
  BY <1>1, <1>2 DEF Types, Record

LEMMA LedgerRecorded ==
  ASSUME Types, Ledger, transition # NoTransition, Generation' = Generation, Continues,
         NEW p \in Progresses, Record(transition.id, p),
         app'.current = app.current, p.snapshot \in {None, app.current},
         resident' \in {None, app.current},
         p.disposed /\ transition' # NoTransition => resident' = None
  PROVE  Ledger'
<1>1. /\ progress' \in [0 .. MaxAttempts -> Progresses]
      /\ transition.id \in 1 .. Generation /\ transition.id \in 0 .. MaxAttempts
      /\ progress'[transition.id] = p
      /\ \A i \in 0 .. MaxAttempts : i # transition.id => progress'[i] = progress[i]
  BY Recorded
<1>2. Generation \in 0 .. MaxAttempts /\ 0 \in 0 .. MaxAttempts
  BY BoundsAssumption DEF Types, Generation
<1>3. progress'[0] = NoProgress
  BY <1>1, <1>2 DEF Ledger
<1>4. \A i \in 0 .. MaxAttempts : i > transition.id => progress'[i] = NoProgress
  BY <1>1 DEF Ledger
<1>5. \A i \in 0 .. MaxAttempts : i > Generation => progress'[i] = NoProgress
  BY <1>1, <1>2 DEF Ledger
<1>6. progress'[Generation].snapshot \in {None, app.current}
  BY <1>1, <1>2 DEF Ledger
<1>7. CASE transition' = NoTransition
  BY <1>1, <1>3, <1>5, <1>6, <1>7, NothingFacts DEF Ledger
<1>8. CASE transition' # NoTransition /\ transition'.id = transition.id
  BY <1>1, <1>3, <1>4, <1>5, <1>6, <1>8 DEF Ledger
<1> QED
  BY <1>7, <1>8 DEF Continues

\* The commit of the newest attempt that has got so far: its progress is forgotten.
LEMMA LedgerCommitted ==
  ASSUME Types, Ledger, transition # NoTransition, Generation' = Generation,
         Record(transition.id, NoProgress), transition' = NoTransition, resident' = None
  PROVE  Ledger'
<1>1. /\ transition.id \in 1 .. Generation /\ transition.id \in 0 .. MaxAttempts
      /\ progress'[transition.id] = NoProgress
      /\ \A i \in 0 .. MaxAttempts : i # transition.id => progress'[i] = progress[i]
  BY Recorded, NothingFacts
<1>2. Generation \in 0 .. MaxAttempts /\ 0 \in 0 .. MaxAttempts
  BY BoundsAssumption DEF Types, Generation
<1>3. progress'[0] = NoProgress
  BY <1>1, <1>2 DEF Ledger
<1>4. progress'[Generation] = NoProgress
  BY <1>1, <1>2 DEF Ledger
<1>5. \A i \in 0 .. MaxAttempts : i > Generation => progress'[i] = NoProgress
  BY <1>1, <1>2 DEF Ledger
<1> QED
  BY <1>3, <1>4, <1>5, NothingFacts DEF Ledger

\* A transaction begins under the id of the newest request, which has no progress but a
\* restored one.
LEMMA LedgerBegins ==
  ASSUME Types, Ledger, Generation' = Generation, NEW g \in Generations,
         transition' \in Transitions, transition'.id = Generation,
         \A i \in 0 .. MaxAttempts : i = 0 \/ i > Generation => progress'[i] = NoProgress,
         progress'[Generation].snapshot \in {None, app.current},
         ~progress'[Generation].disposed,
         app'.current = app.current, resident' \in {None, app.current}
  PROVE  Ledger' /\ transition' # NoTransition
<1>1. Generation \in 1 .. MaxAttempts /\ 0 \in 0 .. MaxAttempts
  BY BoundsAssumption DEF Types, Generation, Generations
<1>2. transition' # NoTransition
  BY <1>1, NothingFacts
<1> QED
  BY <1>1, <1>2 DEF Ledger

\* The rollback of an attempt: it restores, or it awaits the project it came from.
Back(g) ==
  /\ attempts'[g].pc \in {"reopening", "restoring"} /\ attempts'[g].why # "clear"
  /\ attempts'[g].pc = "restoring" => call' = NoCall
  /\ attempts'[g].pc = "reopening" =>
       call'.kind = "open" /\ call'.ws = attempts'[g].prev /\ call'.st # "ok"

LEMMA Returns ==
  ASSUME NEW g, Keeps(g), Back(g), attempts[g].target \in Workspaces, Kind(g) # None,
         app'.current = app.current, app'.recoveryRequired = app.recoveryRequired,
         ~app.recoveryRequired /\ app.current # None => attempts'[g].prev = app.current,
         attempts'[g].pc = "restoring" => Home'
  PROVE  Holds(g)'
BY DEF Keeps, Back, Holds, Phase, Swapping, Awaits, Transacts, Commits, Clears, Kind, Pc

\* The call a rollback makes.
LEMMA Reopening ==
  ASSUME NEW a \in Attempts,
         call' = [st |-> "sent", kind |-> "open", ws |-> a.prev, current |-> TRUE]
  PROVE  call' \in Calls /\ call'.kind = "open" /\ call'.ws = a.prev /\ call'.st # "ok"
BY DEF Attempts, Calls, Kinds

\* An attempt that lost its ownership and has not moved anything only restores.
LEMMA Recovering ==
  ASSUME Types, InOrder, NEW g \in Generations, Executing(g), Recovers(g), latest' = latest
  PROVE  /\ Keeps(g) /\ InOrder' /\ ~AtRest' /\ Back(g) /\ call' \in Calls
         /\ attempts'[g].prev = attempts[g].prev
         /\ attempts'[g].pc = "restoring" =>
              attempts[g].prev = None \/ ~attempts[g].nativeStarted
<1> DEFINE a == [attempts[g] EXCEPT !.why = "abort"]
<1>1. attempts \in Seq(Attempts) /\ attempts[g] \in Attempts
  BY DEF Types, Generations
<1>2. /\ a \in Attempts /\ a.prev = attempts[g].prev
      /\ a.nativeStarted = attempts[g].nativeStarted
      /\ \A p : [a EXCEPT !.pc = p] = [attempts[g] EXCEPT !.pc = p, !.why = "abort"]
  BY <1>1 DEF Attempts, Whys
<1>3. Reopens(a) <=> attempts[g].prev # None /\ (attempts[g].nativeStarted \/ active # a.prev)
  BY <1>2 DEF Reopens
<1>4. CASE Reopens(a)
  <2>1. /\ attempts' = [attempts EXCEPT ![g] = [a EXCEPT !.pc = "reopening"]]
        /\ call' = [st |-> "sent", kind |-> "open", ws |-> a.prev, current |-> TRUE]
    BY <1>4 DEF Recovers
  <2> HIDE DEF a
  <2>2. attempts' = [attempts EXCEPT
                       ![g] = [attempts[g] EXCEPT !.pc = "reopening", !.why = "abort"]]
    BY <1>2, <2>1
  <2>3. /\ Keeps(g) /\ attempts'[g].pc = "reopening" /\ attempts'[g].prev = attempts[g].prev
        /\ attempts'[g].why = "abort"
    BY <1>1, <2>2, GoingBack DEF Pcs, Whys
  <2>4. call' \in Calls /\ call'.kind = "open" /\ call'.ws = a.prev /\ call'.st # "ok"
    BY <1>2, <2>1, Reopening
  <2>5. InOrder' /\ ~AtRest'
    BY <1>1, <2>3, GoesOn
  <2> QED
    BY <1>2, <2>3, <2>4, <2>5 DEF Back
<1>5. CASE ~Reopens(a)
  <2>1. /\ attempts' = [attempts EXCEPT ![g] = [a EXCEPT !.pc = "restoring"]]
        /\ call' = NoCall
    BY <1>5 DEF Recovers, Answered
  <2> HIDE DEF a
  <2>2. attempts' = [attempts EXCEPT
                       ![g] = [attempts[g] EXCEPT !.pc = "restoring", !.why = "abort"]]
    BY <1>2, <2>1
  <2>3. /\ Keeps(g) /\ attempts'[g].pc = "restoring" /\ attempts'[g].prev = attempts[g].prev
        /\ attempts'[g].why = "abort"
    BY <1>1, <2>2, GoingBack DEF Pcs, Whys
  <2>4. InOrder' /\ ~AtRest'
    BY <1>1, <2>3, GoesOn
  <2> QED
    BY <1>3, <1>5, <2>1, <2>3, <2>4, NothingFacts DEF Back
<1> QED
  BY <1>4, <1>5

\* A step of the working attempt that lets it go on.
LEMMA ActedOn ==
  ASSUME Inv, NEW g \in Generations, Executing(g), Keeps(g),
         attempts'[g].pc \notin {"queued", "done"}, latest' = latest,
         app' \in Apps, app'.current = app.current,
         app'.recoveryRequired = app.recoveryRequired, app'.switching = app.switching,
         transition' \in Transitions, progress' \in [0 .. MaxAttempts -> Progresses],
         resident' \in Projects, active' \in Projects, call' \in Calls,
         Spends(g), Ledger', Holds(g)'
  PROVE  Inv'
<1>1. Types /\ InOrder /\ Gate /\ Changes(g)
  BY DEF Inv, Keeps
<1>2. InOrder' /\ ~AtRest /\ ~AtRest'
  BY <1>1, GoesOn DEF Types
<1>3. Types'
  BY <1>1 DEF Types, Changes
<1>4. Gate'
  BY <1>1, <1>2 DEF Gate
<1> QED
  BY <1>1, <1>2, <1>3, <1>4, Acted

\* One that ends it without the lockout.
LEMMA Finished ==
  ASSUME Inv, NEW g \in Generations, Executing(g), FinishFailure(g) \/ FinishAborted(g),
         transition' \in Transitions, progress' \in [0 .. MaxAttempts -> Progresses],
         resident' \in Projects, Spends(g), Generation' = Generation => Ledger',
         Home, UNCHANGED <<active, native, call>>, call = NoCall,
         transition' # NoTransition => app.recoveryRequired
  PROVE  Inv'
<1>1. /\ Changes(g) /\ attempts'[g].pc = "done" /\ InOrder' /\ Gate'
      /\ app' \in Apps /\ latest' \in Nat
      /\ app'.current = app.current /\ app'.recoveryRequired = app.recoveryRequired
  BY Finishes
<1>2. Types'
  BY <1>1 DEF Inv, Types, Changes
<1>3. Peace'
  BY <1>1 DEF Peace, Home
<1>4. Ledger'
  BY <1>1 DEF Changes
<1> QED
  BY <1>1, <1>2, <1>3, <1>4, Acted

\* One that ends it with the lockout.
LEMMA LockedOut ==
  ASSUME Inv, NEW g \in Generations, Executing(g), Lockout(g),
         transition' \in Transitions, progress' \in [0 .. MaxAttempts -> Progresses],
         resident' \in Projects, active' \in Projects, Spends(g),
         Generation' = Generation => Ledger', call' = NoCall
  PROVE  Inv'
<1>1. /\ Changes(g) /\ attempts'[g].pc = "done" /\ InOrder' /\ Gate'
      /\ app' \in Apps /\ latest' \in Nat
      /\ app'.current = app.current /\ app'.recoveryRequired
  BY Locks
<1>2. Types'
  BY <1>1, NothingFacts DEF Inv, Types, Changes
<1>3. Peace'
  BY <1>1 DEF Peace, Home
<1>4. Ledger'
  BY <1>1 DEF Changes
<1> QED
  BY <1>1, <1>2, <1>3, <1>4, Acted

-------------------------------------------------------------------------------
(* The steps of the working attempt.                                       *)

\* ensureRuntimeTransition() by an attempt whose turn has come.
LEMMA Ensured ==
  ASSUME Types, Ledger, NEW g \in Generations, Waits(g), NEW v \in Projects,
         UNCHANGED <<app, progress, resident>>, Generation' = Generation,
         NEW q \in BOOLEAN, transition' = [EnsureTransition(v) EXCEPT !.quiesceStarted = q]
  PROVE  transition' \in Transitions /\ transition' # NoTransition /\ Ledger'
<1>1. Generation \in Nat /\ Generation >= g /\ Generation <= MaxAttempts /\ g \in Nat /\ g >= 1
  BY DEF Types, Generation, Generations
<1>2. CASE transition # NoTransition
  <2>1. transition' = [transition EXCEPT !.quiesceStarted = q]
    BY <1>2 DEF EnsureTransition
  <2>2. transition' \in Transitions /\ transition'.id = transition.id
    BY <2>1 DEF Types, Transitions
  <2>3. transition' # NoTransition
    <3>1. transition.id \in 1 .. Generation
      BY <1>2 DEF Ledger
    <3>2. transition'.id # NoTransition.id
      BY <1>1, <2>2, <3>1, NothingFacts
    <3> QED
      BY <3>2
  <2> QED
    BY <1>2, <2>2, <2>3, LedgerStays DEF Continues
<1>3. CASE transition = NoTransition
  <2>1. transition' = [[NoTransition EXCEPT !.id = Generation, !.prev = v]
                          EXCEPT !.quiesceStarted = q]
    BY <1>3 DEF EnsureTransition
  <2>2. transition' \in Transitions /\ transition'.id = Generation
    BY <1>1, <2>1 DEF NoTransition, Transitions, Projects
  <2>3. \A i \in 0 .. MaxAttempts : i = 0 \/ i > Generation => progress'[i] = NoProgress
    BY DEF Ledger
  <2>4. Generation \in 0 .. MaxAttempts
    BY <1>1, BoundsAssumption
  <2>5. ~progress'[Generation].disposed
    BY <1>1, <2>4 DEF Waits, Unspent
  <2>6. progress'[Generation].snapshot \in {None, app.current} /\ resident' \in {None, app.current}
    BY DEF Ledger
  <2> QED
    BY <2>2, <2>3, <2>5, <2>6, LedgerBegins
<1> QED
  BY <1>2, <1>3

\* The first steps of both kinds of attempt.
LEMMA DrainsInv ==
  ASSUME Inv, NEW g \in Generations, At(g, "queued"), NEW v \in Projects, Drains(g, v),
         ~app.recoveryRequired /\ app.current # None => v = app.current,
         UNCHANGED <<latest, app, progress, resident, active, native, call>>
  PROVE  Inv'
<1>1. Peace /\ Waits(g) /\ Types /\ Ledger /\ Executing(g)
  BY Turn
<1>2. PICK p \in {"quiescing", "draining"} :
        attempts' = [attempts EXCEPT ![g] = [attempts[g] EXCEPT !.prev = v, !.pc = p]]
  BY DEF Drains
<1>3. Keeps(g) /\ attempts'[g].pc = p /\ attempts'[g].prev = v
  BY <1>1, <1>2, GoingFrom DEF Types, Pcs
<1>4. transition' = [EnsureTransition(v) EXCEPT
                        !.quiesceStarted = EnsureTransition(v).quiesceStarted \/ v # None]
  BY DEF Drains
<1>5. (EnsureTransition(v).quiesceStarted \/ v # None) \in BOOLEAN
  OBVIOUS
<1>6. transition' \in Transitions /\ transition' # NoTransition /\ Ledger'
  BY <1>1, <1>3, <1>4, <1>5, Ensured DEF Keeps, Changes
<1>7. Holds(g)'
  BY <1>1, <1>3, <1>6
     DEF Keeps, Holds, Phase, Swapping, Awaits, Transacts, Commits, Clears, Kind, Pc, Peace, Home,
         Waits
<1>8. Spends(g)
  BY DEF Spends
<1> QED
  BY <1>1, <1>3, <1>6, <1>7, <1>8, ActedOn DEF Types

LEMMA StartActivationInv ==
  ASSUME Inv, NEW g \in Generations, StartActivation(g)
  PROVE  Inv'
<1>1. At(g, "queued") /\ Peace /\ Types /\ Ledger /\ Executing(g)
  BY Turn DEF StartActivation
<1>2. UNCHANGED <<progress, resident, active, native, call>>
  BY DEF StartActivation
<1>3. CASE (FinishFailure(g) \/ FinishAborted(g)) /\ UNCHANGED transition
  <2>1. Generation' = Generation => Ledger'
    <3>1. app'.current = app.current
      BY <1>1, <1>3, Finishes
    <3> QED
      BY <1>1, <1>2, <1>3, <3>1, LedgerStays DEF Continues, Types
  <2>2. Spends(g)
    BY <1>2 DEF Spends
  <2> QED
    BY <1>1, <1>2, <1>3, <2>1, <2>2, Finished DEF Peace, Types
<1>4. CASE Drains(g, app.current) /\ UNCHANGED <<app, latest>>
  <2>1. app.current \in Projects
    BY <1>1 DEF Types, Apps
  <2> QED
    BY <1>1, <1>2, <1>4, <2>1, DrainsInv
<1> QED
  BY <1>3, <1>4 DEF StartActivation

LEMMA StartDeletionInv ==
  ASSUME Inv, NEW g \in Generations, StartDeletion(g)
  PROVE  Inv'
<1>1. At(g, "queued") /\ Peace /\ Types /\ Ledger /\ Executing(g) /\ Waits(g) /\ InOrder
  BY Turn DEF StartDeletion
<1>2. UNCHANGED <<progress, resident, active, native, call>>
  BY DEF StartDeletion
<1> DEFINE w == attempts[g].target
<1>3. w \in Workspaces /\ w \in Projects /\ w # None
  BY <1>1, NoneAssumption DEF Waits, Projects
<1>4. CASE FinishFailure(g) /\ UNCHANGED transition
  <2>1. Generation' = Generation => Ledger'
    <3>1. app'.current = app.current
      BY <1>1, <1>4, Finishes
    <3> QED
      BY <1>1, <1>2, <1>4, <3>1, LedgerStays DEF Continues, Types
  <2>2. Spends(g)
    BY <1>2 DEF Spends
  <2> QED
    BY <1>1, <1>2, <1>4, <2>1, <2>2, Finished DEF Peace, Types
<1>5. CASE /\ transition # NoTransition
           /\ attempts' = [attempts EXCEPT ![g].prev = w, ![g].pc = "restoring", ![g].why = "clear"]
           /\ UNCHANGED <<transition, app, latest>>
  <2> DEFINE r == [attempts[g] EXCEPT !.prev = w, !.pc = "restoring", !.why = "clear"]
  <2>1. attempts[g] \in Attempts /\ attempts \in Seq(Attempts)
    BY <1>1 DEF Types, Generations
  <2>2. /\ r \in Attempts /\ r.pc = "restoring" /\ r.why = "clear"
        /\ r.kind = attempts[g].kind /\ r.target = attempts[g].target
        /\ r.aborted = attempts[g].aborted
    BY <1>3, <2>1 DEF Attempts, Pcs, Whys
  <2>3. attempts' = [attempts EXCEPT ![g] = r]
    BY <1>5
  <2> HIDE DEF r
  <2>4. Changes(g) /\ attempts'[g] = r
    BY <2>1, <2>2, <2>3, Replaced
  <2>5. Keeps(g) /\ attempts'[g].pc = "restoring"
    BY <2>2, <2>4 DEF Keeps
  <2>6. Ledger'
    BY <1>1, <1>2, <1>5, <2>4, LedgerStays DEF Continues, Types, Changes
  <2>7. Holds(g)'
    BY <1>1, <1>2, <1>5, <2>5
       DEF Keeps, Holds, Phase, Swapping, Awaits, Transacts, Commits, Clears, Kind, Pc, Peace,
           Home, Waits, Unspent
  <2>8. Spends(g)
    BY <1>2 DEF Spends
  <2> QED
    BY <1>1, <1>2, <1>5, <2>5, <2>6, <2>7, <2>8, ActedOn DEF Types
<1>6. CASE IsCurrent(w) /\ Drains(g, w) /\ UNCHANGED <<app, latest>>
  <2>1. ~app.recoveryRequired /\ app.current # None => w = app.current
    BY <1>1, <1>3, <1>6 DEF IsCurrent, Peace, Home
  <2> QED
    BY <1>1, <1>2, <1>3, <1>6, <2>1, DrainsInv
<1> QED
  BY <1>4, <1>5, <1>6 DEF StartDeletion

\* quiesce(): the transaction goes on, and its snapshot is the installed project or none.
LEMMA QuiescedInv ==
  ASSUME Inv, NEW g \in Generations, Quiesced(g)
  PROVE  Inv'
<1>1. /\ Holds(g) /\ Types /\ Ledger /\ InOrder /\ Executing(g) /\ Pc(g) = "quiescing"
  BY Working DEF Quiesced, Pcs
<1>2. UNCHANGED <<latest, app, resident, active, native, call>>
  BY DEF Quiesced
<1>3. Keeps(g) /\ attempts'[g].pc = "draining" /\ attempts'[g].prev = attempts[g].prev
  BY <1>1, Going DEF Quiesced, Goto, Types, Pcs
<1>4. transition # NoTransition /\ transition \in Transitions /\ transition.id \in 1 .. Generation
  BY <1>1 DEF Holds, Transacts, Types, Ledger
<1>5. Generation' = Generation
  BY <1>3 DEF Keeps, Changes
<1>6. /\ transition' \in Transitions /\ transition'.id = transition.id
  BY <1>4 DEF Quiesced, Transitions
<1>7. transition' # NoTransition /\ Continues
  BY <1>4, <1>6, NothingFacts DEF Continues
<1>8. /\ progress' \in [0 .. MaxAttempts -> Progresses] /\ Spends(g) /\ Ledger'
  <2>1. CASE UNCHANGED progress
    BY <1>1, <1>2, <1>5, <1>7, <2>1, LedgerStays DEF Spends, Types
  <2>2. ASSUME NEW q \in BOOLEAN,
               Record(transition.id,
                 [progress[transition.id] EXCEPT !.started = TRUE, !.quiesced = q,
                    !.snapshot = IF progress[transition.id].snapshot = None THEN resident
                                 ELSE progress[transition.id].snapshot])
        PROVE  /\ progress' \in [0 .. MaxAttempts -> Progresses] /\ Spends(g) /\ Ledger'
    <3> DEFINE o == progress[transition.id]
               y == IF o.snapshot = None THEN resident ELSE o.snapshot
               p == [o EXCEPT !.started = TRUE, !.quiesced = q, !.snapshot = y]
    <3>1. transition.id \in 0 .. MaxAttempts /\ o \in Progresses
      BY <1>1, <1>4, BoundsAssumption DEF Types, Generation
    <3>2. y \in Projects /\ y \in {None, app.current}
      BY <1>1, <3>1 DEF Types, Ledger, Progresses
    <3> HIDE DEF y
    <3>3. p \in Progresses /\ p.disposed = o.disposed /\ p.snapshot = y
      BY <3>1, <3>2 DEF Progresses
    <3>4. Record(transition.id, p)
      BY <2>2 DEF y
    <3> HIDE DEF p
    <3>5. p.disposed => resident = None
      BY <1>1, <1>4, <3>3 DEF Ledger
    <3>6. resident' \in {None, app.current} /\ app'.current = app.current
      BY <1>1, <1>2 DEF Ledger
    <3>7. Ledger'
      BY <1>1, <1>2, <1>4, <1>5, <1>7, <3>2, <3>3, <3>4, <3>5, <3>6, LedgerRecorded
    <3>8. /\ progress' \in [0 .. MaxAttempts -> Progresses]
          /\ progress'[transition.id] = p
          /\ \A i \in 0 .. MaxAttempts : i # transition.id => progress'[i] = progress[i]
      BY <1>1, <1>4, <1>5, <3>3, <3>4, Recorded
    <3>9. Spends(g)
      BY <3>3, <3>8 DEF Spends
    <3> QED
      BY <3>7, <3>8, <3>9
  <2>3. \/ UNCHANGED progress
        \/ \E q \in BOOLEAN :
             Record(transition.id,
                 [progress[transition.id] EXCEPT !.started = TRUE, !.quiesced = q,
                    !.snapshot = IF progress[transition.id].snapshot = None THEN resident
                                 ELSE progress[transition.id].snapshot])
    <3>1. transition.id \in 0 .. MaxAttempts /\ progress[transition.id] \in Progresses
      BY <1>1, <1>4, BoundsAssumption DEF Types, Generation
    <3>2. \A y \in Projects : ~progress[transition.id].quiesced =>
            [progress[transition.id] EXCEPT !.started = TRUE, !.snapshot = y]
              = [progress[transition.id] EXCEPT !.started = TRUE, !.quiesced = FALSE,
                                                !.snapshot = y]
      BY <3>1 DEF Progresses
    <3>3. (IF progress[transition.id].snapshot = None THEN resident
           ELSE progress[transition.id].snapshot) \in Projects
      BY <1>1, <3>1 DEF Types, Progresses
    <3> QED
      BY <3>2, <3>3 DEF Quiesced, Progress
  <2> QED
    BY <2>1, <2>2, <2>3
<1>9. Holds(g)'
  BY <1>1, <1>2, <1>3, <1>7
     DEF Keeps, Holds, Phase, Swapping, Awaits, Transacts, Commits, Clears, Kind, Pc, Home
<1> QED
  BY <1>1, <1>2, <1>3, <1>6, <1>8, <1>9, ActedOn DEF Types

\* Without a project to come back to there is no home to leave.
LEMMA Homeless ==
  ASSUME NEW g, Holds(g), attempts[g].prev = None, UNCHANGED app
  PROVE  Home'
BY DEF Holds, Phase, Home

\* An error of the hydration is a rollback too, since the native side has moved.
LEMMA Failing ==
  ASSUME Types, InOrder, NEW g \in Generations, Executing(g), HydrationFails(g), latest' = latest,
         attempts[g].nativeStarted, call = NoCall
  PROVE  /\ Keeps(g) /\ Back(g) /\ call' \in Calls /\ attempts'[g].prev = attempts[g].prev
         /\ attempts'[g].pc = "restoring" => attempts[g].prev = None
<1>1. attempts \in Seq(Attempts) /\ attempts[g] \in Attempts
  BY DEF Types, Generations
<1>2. CASE IsActive(g) /\ ~Reopens(attempts[g])
  <2>1. attempts' = [attempts EXCEPT
                       ![g] = [attempts[g] EXCEPT !.pc = "restoring", !.why = "hydration"]]
    BY <1>2 DEF HydrationFails
  <2>2. /\ Keeps(g) /\ attempts'[g].pc = "restoring" /\ attempts'[g].prev = attempts[g].prev
        /\ attempts'[g].why = "hydration"
    BY <1>1, <2>1, GoingBack DEF Pcs, Whys
  <2>3. call' = NoCall
    BY <1>2 DEF HydrationFails
  <2> QED
    BY <1>2, <2>2, <2>3, NothingFacts DEF Back, Reopens
<1>3. CASE IsActive(g) /\ Reopens(attempts[g])
  <2>1. attempts' = [attempts EXCEPT
                       ![g] = [attempts[g] EXCEPT !.pc = "reopening", !.why = "hydration"]]
    BY <1>3 DEF HydrationFails
  <2>2. /\ Keeps(g) /\ attempts'[g].pc = "reopening" /\ attempts'[g].prev = attempts[g].prev
        /\ attempts'[g].why = "hydration"
    BY <1>1, <2>1, GoingBack DEF Pcs, Whys
  <2>3. call' = [st |-> "sent", kind |-> "open", ws |-> attempts[g].prev, current |-> TRUE]
    BY <1>3 DEF HydrationFails
  <2>4. call' \in Calls /\ call'.kind = "open" /\ call'.ws = attempts[g].prev /\ call'.st # "ok"
    BY <1>1, <2>3, Reopening
  <2> QED
    BY <2>2, <2>4 DEF Back
<1>4. CASE ~IsActive(g)
  <2>1. Recovers(g)
    BY <1>4 DEF HydrationFails
  <2> QED
    BY <2>1, Recovering
<1> QED
  BY <1>2, <1>3, <1>4

\* A step that begins a rollback.
LEMMA Backed ==
  ASSUME Inv, NEW g \in Generations, Executing(g), Holds(g), Keeps(g), Back(g),
         attempts'[g].prev = attempts[g].prev, latest' = latest, app' = app,
         transition' \in Transitions, progress' \in [0 .. MaxAttempts -> Progresses],
         resident' \in Projects, active' \in Projects, call' \in Calls,
         Spends(g), Generation' = Generation => Ledger',
         attempts'[g].pc = "restoring" => Home'
  PROVE  Inv'
<1>1. Types
  BY DEF Inv
<1>2. Holds(g)'
  BY Returns DEF Holds, Phase
<1>3. attempts'[g].pc \notin {"queued", "done"}
  BY DEF Back
<1>4. Ledger'
  BY DEF Keeps, Changes
<1> QED
  BY <1>1, <1>2, <1>3, <1>4, ActedOn DEF Types

\* An attempt that nobody aborted is the newest, so the transaction is not a newer one's.
LEMMA Newest ==
  ASSUME Inv, NEW g \in Generations, Executing(g), IsActive(g), transition # NoTransition
  PROVE  g = Generation /\ transition.id <= g
<1>1. g = Generation
  BY DEF Inv, InOrder, Executing, IsActive, Pc
<1> QED
  BY <1>1 DEF Inv, Ledger, Generations

LEMMA DrainedInv ==
  ASSUME Inv, NEW g \in Generations, Drained(g)
  PROVE  Inv'
<1>1. /\ Holds(g) /\ Types /\ Ledger /\ InOrder /\ Executing(g) /\ Pc(g) = "draining"
      /\ attempts \in Seq(Attempts) /\ attempts[g] \in Attempts
  BY Working DEF Drained, Pcs, Types, Generations
<1>2. UNCHANGED <<latest, app, transition, progress, resident, active, native>>
  BY DEF Drained
<1>3. transition # NoTransition /\ Home /\ call = NoCall
  BY <1>1 DEF Holds, Transacts, Swapping, Awaits
<1>4. Spends(g) /\ (Generation' = Generation => Ledger') /\ Home'
  BY <1>1, <1>2, <1>3, LedgerStays DEF Spends, Continues, Types, Home
<1>5. CASE Recovers(g)
  <2>1. /\ Keeps(g) /\ Back(g) /\ call' \in Calls /\ attempts'[g].prev = attempts[g].prev
    BY <1>1, <1>2, <1>5, Recovering
  <2> QED
    BY <1>1, <1>2, <1>4, <2>1, Backed DEF Types
<1>6. CASE IsActive(g) /\ Kind(g) = "delete" /\ Goto(g, "disposing") /\ UNCHANGED call
  <2>1. Keeps(g) /\ attempts'[g].pc = "disposing" /\ attempts'[g].prev = attempts[g].prev
    BY <1>1, <1>6, Going DEF Goto, Pcs
  <2>2. transition.id <= g
    BY <1>1, <1>3, <1>6, Newest
  <2>3. Holds(g)'
    BY <1>1, <1>2, <1>3, <1>4, <1>6, <2>1, <2>2
       DEF Keeps, Holds, Phase, Swapping, Awaits, Transacts, Commits, Clears, Kind, Pc
  <2> QED
    BY <1>1, <1>2, <1>4, <1>6, <2>1, <2>3, ActedOn DEF Types, Keeps, Changes
<1>7. CASE /\ attempts' = [attempts EXCEPT ![g].pc = "restoring", ![g].why = "drain"]
           /\ UNCHANGED call
  <2>1. attempts' = [attempts EXCEPT
                       ![g] = [attempts[g] EXCEPT !.pc = "restoring", !.why = "drain"]]
    BY <1>7
  <2>2. /\ Keeps(g) /\ attempts'[g].pc = "restoring" /\ attempts'[g].prev = attempts[g].prev
        /\ attempts'[g].why = "drain"
    BY <1>1, <2>1, GoingBack DEF Pcs, Whys
  <2>3. Back(g)
    BY <1>3, <1>7, <2>2 DEF Back
  <2> QED
    BY <1>1, <1>2, <1>4, <1>7, <2>2, <2>3, Backed DEF Types
<1>8. CASE /\ IsActive(g) /\ Kind(g) # "delete"
           /\ attempts' = [attempts EXCEPT ![g].pc = "invoking", ![g].nativeStarted = TRUE]
           /\ call' = [st |-> "sent", kind |-> Kind(g), ws |-> attempts[g].target,
                       current |-> TRUE]
  <2> DEFINE r == [attempts[g] EXCEPT !.pc = "invoking", !.nativeStarted = TRUE]
  <2>1. /\ r \in Attempts /\ r.pc = "invoking" /\ r.nativeStarted /\ r.prev = attempts[g].prev
        /\ r.kind = attempts[g].kind /\ r.target = attempts[g].target
        /\ r.aborted = attempts[g].aborted
    BY <1>1 DEF Attempts, Pcs
  <2>2. attempts' = [attempts EXCEPT ![g] = r]
    BY <1>8
  <2> HIDE DEF r
  <2>3. Changes(g) /\ attempts'[g] = r
    BY <1>1, <2>1, <2>2, Replaced
  <2>4. /\ Keeps(g) /\ attempts'[g].pc = "invoking" /\ attempts'[g].prev = attempts[g].prev
        /\ attempts'[g].nativeStarted
    BY <2>1, <2>3 DEF Keeps
  <2>5. Kind(g) \in {"open", "create"} /\ attempts[g].target \in Workspaces
    BY <1>1, <1>8 DEF Attempts, Kinds, Kind, Holds
  <2>6. /\ call' \in Calls /\ call'.kind \in {"open", "create"} /\ call'.ws \in Workspaces
        /\ call'.current /\ call'.st = "sent"
    BY <1>8, <2>5 DEF Calls, Kinds, Projects
  <2>7. transition.id <= g
    BY <1>1, <1>3, <1>8, Newest
  <2>8. Holds(g)'
    BY <1>1, <1>2, <1>3, <1>4, <1>8, <2>4, <2>6, <2>7
       DEF Keeps, Holds, Phase, Swapping, Awaits, Transacts, Commits, Clears, Kind, Pc
  <2> QED
    BY <1>1, <1>2, <1>4, <2>4, <2>6, <2>8, ActedOn DEF Types, Keeps, Changes
<1> QED
  BY <1>5, <1>6, <1>7, <1>8 DEF Drained, Kind

LEMMA InvokedInv ==
  ASSUME Inv, NEW g \in Generations, Invoked(g)
  PROVE  Inv'
<1>1. /\ Holds(g) /\ Types /\ Ledger /\ InOrder /\ Executing(g) /\ Pc(g) = "invoking"
      /\ attempts \in Seq(Attempts) /\ attempts[g] \in Attempts
  BY Working DEF Invoked, Pcs, Types, Generations
<1>2. UNCHANGED <<latest, transition, progress, resident, native>>
  BY DEF Invoked
<1>3. /\ transition # NoTransition /\ transition.id <= g
      /\ attempts[g].nativeStarted /\ Kind(g) # "delete" /\ call.ws \in Workspaces
      /\ ~call.current => attempts[g].aborted
      /\ call.st = "ok" => native \in {call.ws, None}
      /\ call.st # "ok" => Home
  BY <1>1 DEF Holds, Transacts, Commits, Phase
<1>4. call \in Calls /\ active' \in Projects
  BY <1>1 DEF Types, Invoked, Calls
<1>5. Spends(g) /\ (Generation' = Generation /\ app'.current = app.current => Ledger')
  BY <1>1, <1>2, <1>3, LedgerStays DEF Spends, Continues, Types
<1>6. CASE /\ IsActive(g) /\ call.current /\ call.st = "ok"
           /\ attempts' = [attempts EXCEPT ![g].pc = "hydrating", ![g].activated = call.ws]
           /\ app' = [app EXCEPT !.hydrating = TRUE]
           /\ Answered
  <2> DEFINE r == [attempts[g] EXCEPT !.pc = "hydrating", !.activated = call.ws]
  <2>1. /\ r \in Attempts /\ r.pc = "hydrating" /\ r.activated = call.ws
        /\ r.prev = attempts[g].prev /\ r.nativeStarted = attempts[g].nativeStarted
        /\ r.kind = attempts[g].kind /\ r.target = attempts[g].target
        /\ r.aborted = attempts[g].aborted
    BY <1>1, <1>3 DEF Attempts, Pcs, Projects
  <2>2. attempts' = [attempts EXCEPT ![g] = r]
    BY <1>6
  <2> HIDE DEF r
  <2>3. Changes(g) /\ attempts'[g] = r
    BY <1>1, <2>1, <2>2, Replaced
  <2>4. /\ Keeps(g) /\ attempts'[g].pc = "hydrating" /\ attempts'[g].prev = attempts[g].prev
        /\ attempts'[g].nativeStarted /\ attempts'[g].activated = call.ws
    BY <1>3, <2>1, <2>3 DEF Keeps
  <2>5. /\ app' \in Apps /\ app'.current = app.current /\ app'.switching = app.switching
        /\ app'.recoveryRequired = app.recoveryRequired
    BY <1>1, <1>6 DEF Types, Apps
  <2>6. call' = NoCall /\ active' = call.ws
    BY <1>6 DEF Answered, Invoked
  <2>7. Holds(g)'
    BY <1>1, <1>2, <1>3, <1>6, <2>4, <2>5, <2>6
       DEF Keeps, Holds, Phase, Swapping, Awaits, Transacts, Commits, Clears, Kind, Pc
  <2> QED
    BY <1>1, <1>2, <1>4, <1>5, <2>4, <2>5, <2>6, <2>7, ActedOn, NothingFacts
       DEF Types, Keeps, Changes
<1>7. CASE /\ IsActive(g) /\ ~(call.current /\ call.st = "ok")
           /\ attempts' = [attempts EXCEPT ![g].pc = "restoring", ![g].why = "invoke"]
           /\ UNCHANGED app
           /\ Answered
  <2>1. attempts' = [attempts EXCEPT
                       ![g] = [attempts[g] EXCEPT !.pc = "restoring", !.why = "invoke"]]
    BY <1>7
  <2>2. /\ Keeps(g) /\ attempts'[g].pc = "restoring" /\ attempts'[g].prev = attempts[g].prev
        /\ attempts'[g].why = "invoke"
    BY <1>1, <2>1, GoingBack DEF Pcs, Whys
  <2>3. call' = NoCall /\ active' = active
    BY <1>7 DEF Answered, Invoked
  <2>4. Back(g)
    BY <2>2, <2>3 DEF Back
  <2>5. Home'
    BY <1>2, <1>3, <1>7, <2>3 DEF Home, IsActive
  <2> QED
    BY <1>1, <1>2, <1>4, <1>5, <1>7, <2>2, <2>3, <2>4, <2>5, Backed, NothingFacts DEF Types
<1>8. CASE Recovers(g) /\ UNCHANGED app
  <2>1. /\ Keeps(g) /\ Back(g) /\ call' \in Calls /\ attempts'[g].prev = attempts[g].prev
        /\ attempts'[g].pc = "restoring" => attempts[g].prev = None
    BY <1>1, <1>2, <1>3, <1>8, Recovering
  <2>2. attempts'[g].pc = "restoring" => Home'
    BY <1>1, <1>8, <2>1, Homeless
  <2> QED
    BY <1>1, <1>2, <1>4, <1>5, <1>8, <2>1, <2>2, Backed DEF Types
<1> QED
  BY <1>6, <1>7, <1>8 DEF Invoked

LEMMA HydratedInv ==
  ASSUME Inv, NEW g \in Generations, Hydrated(g)
  PROVE  Inv'
<1>1. /\ Holds(g) /\ Types /\ Ledger /\ InOrder /\ Executing(g) /\ Pc(g) = "hydrating"
      /\ attempts \in Seq(Attempts) /\ attempts[g] \in Attempts
  BY Working DEF Hydrated, Pcs, Types, Generations
<1>2. UNCHANGED <<latest, app, progress, resident, active, native>>
  BY DEF Hydrated
<1>3. /\ transition # NoTransition /\ transition.id <= g /\ transition.id \in 1 .. Generation
      /\ attempts[g].nativeStarted /\ Kind(g) # "delete" /\ call = NoCall
  BY <1>1 DEF Holds, Transacts, Commits, Phase, Swapping, Awaits, Ledger
<1>4. CASE /\ UNCHANGED transition
           /\ HydrationFails(g) \/ Recovers(g)
  <2>1. /\ Keeps(g) /\ Back(g) /\ call' \in Calls /\ attempts'[g].prev = attempts[g].prev
        /\ attempts'[g].pc = "restoring" => attempts[g].prev = None
    BY <1>1, <1>2, <1>3, <1>4, Recovering, Failing
  <2>2. attempts'[g].pc = "restoring" => Home'
    BY <1>1, <1>2, <2>1, Homeless
  <2>3. Spends(g) /\ (Generation' = Generation => Ledger')
    BY <1>1, <1>2, <1>3, <1>4, LedgerStays DEF Spends, Continues, Types
  <2> QED
    BY <1>1, <1>2, <1>4, <2>1, <2>2, <2>3, Backed DEF Types
<1>5. ASSUME NEW p \in {"disposing", "stopping"}, Goto(g, p), UNCHANGED call,
             transition' = [transition EXCEPT !.disposeStarted = transition.disposeStarted
                                                                   \/ transition.prev # None]
      PROVE  Inv'
  <2>1. /\ Keeps(g) /\ attempts'[g].pc = p /\ attempts'[g].prev = attempts[g].prev
        /\ attempts'[g].nativeStarted = attempts[g].nativeStarted
        /\ attempts'[g].activated = attempts[g].activated
    BY <1>1, <1>5, Going DEF Goto, Pcs
  <2>2. transition' \in Transitions /\ transition'.id = transition.id
    BY <1>1, <1>5 DEF Types, Transitions
  <2>3. transition' # NoTransition
    BY <1>3, <2>2, NothingFacts
  <2>4. Spends(g) /\ (Generation' = Generation => Ledger')
    BY <1>1, <1>2, <1>3, <2>2, LedgerStays DEF Spends, Continues
  <2>5. Holds(g)'
    BY <1>1, <1>2, <1>3, <1>5, <2>1, <2>2, <2>3
       DEF Keeps, Holds, Phase, Swapping, Awaits, Transacts, Commits, Clears, Kind, Pc
  <2> QED
    BY <1>1, <1>2, <1>5, <2>1, <2>2, <2>4, <2>5, ActedOn DEF Types, Keeps, Changes
<1> QED
  BY <1>4, <1>5 DEF Hydrated

\* dispose(): whether it runs or ran before, the runtimes are gone.
LEMMA Disposing ==
  ASSUME Types, Ledger, transition # NoTransition, DisposeRuns
  PROVE  resident' = None /\ resident' \in Projects
BY DEF Types, Ledger, DisposeRuns, Progress, Projects

\* What was disposed is noted under the id of the transaction.
LEMMA DisposalNoted ==
  ASSUME Types, Ledger, transition # NoTransition, Generation' = Generation, Continues,
         NEW g \in Generations, transition.id <= g, NEW q \in BOOLEAN,
         Record(transition.id, [Progress(transition.id) EXCEPT !.disposed = q]),
         resident' = None, app'.current = app.current
  PROVE  progress' \in [0 .. MaxAttempts -> Progresses] /\ Spends(g) /\ Ledger'
<1> DEFINE o == progress[transition.id]
           p == [o EXCEPT !.disposed = q]
<1>1. transition.id \in 0 .. MaxAttempts /\ o \in Progresses
  BY BoundsAssumption DEF Types, Ledger, Generation
<1>2. p \in Progresses /\ p.snapshot = o.snapshot
  BY <1>1 DEF Progresses
<1>3. Record(transition.id, p)
  BY DEF Progress
<1>4. p.snapshot \in {None, app.current}
  BY <1>2 DEF Ledger
<1> HIDE DEF p
<1>5. Ledger'
  BY <1>2, <1>3, <1>4, LedgerRecorded
<1>6. /\ progress' \in [0 .. MaxAttempts -> Progresses]
      /\ \A i \in 0 .. MaxAttempts : i # transition.id => progress'[i] = progress[i]
  BY <1>2, <1>3, Recorded
<1>7. Spends(g)
  BY <1>6 DEF Spends
<1> QED
  BY <1>5, <1>6, <1>7

LEMMA DisposedInv ==
  ASSUME Inv, NEW g \in Generations, Disposed(g)
  PROVE  Inv'
<1>1. /\ Holds(g) /\ Types /\ Ledger /\ InOrder /\ Executing(g) /\ Pc(g) = "disposing"
      /\ attempts \in Seq(Attempts) /\ attempts[g] \in Attempts
  BY Working DEF Disposed, Pcs, Types, Generations
<1>2. UNCHANGED <<latest, app, active, native>> /\ Kind(g) # "delete"
  BY DEF Disposed, Kind
<1>3. /\ transition # NoTransition /\ transition.id <= g /\ transition.id \in 1 .. Generation
      /\ attempts[g].nativeStarted /\ call = NoCall
  BY <1>1, <1>2 DEF Holds, Transacts, Commits, Phase, Swapping, Awaits, Ledger
<1>4. resident' = None /\ resident' \in Projects
  BY <1>1, <1>3, Disposing DEF Disposed
<1>5. CASE HydrationFails(g) /\ UNCHANGED <<progress, transition>>
  <2>1. /\ Keeps(g) /\ Back(g) /\ call' \in Calls /\ attempts'[g].prev = attempts[g].prev
        /\ attempts'[g].pc = "restoring" => attempts[g].prev = None
    BY <1>1, <1>2, <1>3, <1>5, Failing
  <2>2. attempts'[g].pc = "restoring" => Home'
    BY <1>1, <1>2, <2>1, Homeless
  <2>3. Spends(g)
    BY <1>5 DEF Spends
  <2>4. Generation' = Generation => Ledger'
    BY <1>1, <1>2, <1>3, <1>4, <1>5 DEF Ledger
  <2> QED
    BY <1>1, <1>2, <1>4, <1>5, <2>1, <2>2, <2>3, <2>4, Backed DEF Types
<1>6. CASE /\ Record(transition.id, [Progress(transition.id) EXCEPT !.disposed = TRUE])
           /\ transition' = [transition EXCEPT !.disposeCompleted = TRUE]
           /\ (Goto(g, "stopping") /\ UNCHANGED call) \/ Recovers(g)
  <2>1. transition' \in Transitions /\ transition'.id = transition.id
    BY <1>1, <1>6 DEF Types, Transitions
  <2>2. transition' # NoTransition /\ Continues
    BY <1>3, <2>1, NothingFacts DEF Continues
  <2>3. Generation' = Generation =>
          progress' \in [0 .. MaxAttempts -> Progresses] /\ Spends(g) /\ Ledger'
    BY <1>1, <1>2, <1>3, <1>4, <1>6, <2>2, DisposalNoted
  <2>4. CASE Goto(g, "stopping") /\ UNCHANGED call
    <3>1. /\ Keeps(g) /\ attempts'[g].pc = "stopping" /\ attempts'[g].prev = attempts[g].prev
          /\ attempts'[g].nativeStarted = attempts[g].nativeStarted
          /\ attempts'[g].activated = attempts[g].activated
      BY <1>1, <2>4, Going DEF Goto, Pcs
    <3>2. Holds(g)'
      BY <1>1, <1>2, <1>3, <2>1, <2>2, <2>4, <3>1
         DEF Keeps, Holds, Phase, Swapping, Awaits, Transacts, Commits, Clears, Kind, Pc
    <3> QED
      BY <1>1, <1>2, <1>4, <2>1, <2>3, <2>4, <3>1, <3>2, ActedOn DEF Types, Keeps, Changes
  <2>5. CASE Recovers(g)
    <3>1. /\ Keeps(g) /\ Back(g) /\ call' \in Calls /\ attempts'[g].prev = attempts[g].prev
          /\ attempts'[g].pc = "restoring" => attempts[g].prev = None
      BY <1>1, <1>2, <1>3, <2>5, Recovering
    <3>2. attempts'[g].pc = "restoring" => Home'
      BY <1>1, <1>2, <3>1, Homeless
    <3>3. Generation' = Generation
      BY <3>1 DEF Keeps, Changes
    <3> QED
      BY <1>1, <1>2, <1>4, <2>1, <2>3, <3>1, <3>2, <3>3, Backed DEF Types
  <2> QED
    BY <1>6, <2>4, <2>5
<1> QED
  BY <1>5, <1>6 DEF Disposed

\* The commit point of an activation.
LEMMA InstallInv ==
  ASSUME Inv, NEW g \in Generations, Install(g)
  PROVE  Inv'
<1>1. /\ Holds(g) /\ Types /\ Ledger /\ InOrder /\ Executing(g) /\ Pc(g) = "stopping"
      /\ attempts \in Seq(Attempts) /\ attempts[g] \in Attempts
  BY Working DEF Install, Pcs, Types, Generations
<1>2. UNCHANGED <<active, native>> /\ resident' = None /\ resident' \in Projects
  BY DEF Install, Projects
<1>3. /\ transition # NoTransition /\ transition.id <= g /\ transition.id \in 1 .. Generation
      /\ attempts[g].nativeStarted /\ call = NoCall
      /\ attempts[g].activated \in Workspaces /\ native \in {attempts[g].activated, None}
  BY <1>1, <1>2 DEF Holds, Transacts, Commits, Phase, Swapping, Awaits, Ledger
<1>4. CASE /\ HydrationFails(g) \/ Recovers(g)
           /\ transition' = [transition EXCEPT !.stopped = attempts[g].activated]
           /\ UNCHANGED <<app, latest, progress>>
  <2>1. /\ Keeps(g) /\ Back(g) /\ call' \in Calls /\ attempts'[g].prev = attempts[g].prev
        /\ attempts'[g].pc = "restoring" => attempts[g].prev = None
    BY <1>1, <1>3, <1>4, Recovering, Failing
  <2>2. attempts'[g].pc = "restoring" => Home'
    BY <1>1, <1>4, <2>1, Homeless
  <2>3. transition' \in Transitions /\ transition'.id = transition.id
    BY <1>1, <1>3, <1>4 DEF Types, Transitions, Projects
  <2>4. transition' # NoTransition
    BY <1>3, <2>3, NothingFacts
  <2>5. Spends(g)
    BY <1>4 DEF Spends
  <2>6. Generation' = Generation => Ledger'
    BY <1>1, <1>2, <1>3, <1>4, <2>3, <2>4 DEF Ledger
  <2> QED
    BY <1>1, <1>2, <1>4, <2>1, <2>2, <2>3, <2>5, <2>6, Backed DEF Types
<1>5. CASE /\ HydrationCurrent(g)
           /\ app' = [app EXCEPT !.current = active, !.recoveryRequired = FALSE,
                                 !.hydrating = FALSE, !.switching = latest # g,
                                 !.status = IF latest = g THEN "ready" ELSE "loading"]
           /\ latest' = IF latest = g THEN 0 ELSE latest
           /\ attempts' = Done(g)
           /\ transition' = NoTransition
           /\ Record(transition.id, NoProgress)
           /\ UNCHANGED call
  <2>1. Changes(g) /\ attempts'[g].pc = "done"
    BY <1>1, <1>5, Ending
  <2>2. InOrder' /\ (AtRest' <=> latest = g)
    BY <1>1, <1>5, <2>1, GoesOut
  <2>3. g = Generation
    BY <1>1, <1>3, <1>5, Newest DEF HydrationCurrent
  <2>4. latest = g /\ latest' = 0
    BY <1>1, <1>5, <2>3 DEF InOrder, AtRest, Executing
  <2>5. /\ app' \in Apps /\ app'.current = active /\ ~app'.recoveryRequired
        /\ ~app'.switching /\ ~app'.hydrating /\ app'.status = "ready"
    <3>1. app' = [app EXCEPT !.current = active, !.recoveryRequired = FALSE,
                             !.hydrating = FALSE, !.switching = FALSE, !.status = "ready"]
      BY <1>5, <2>4
    <3> QED
      BY <1>1, <3>1 DEF Types, Apps
  <2>6. Gate'
    BY <2>2, <2>4, <2>5 DEF Gate
  <2>7. Generation' = Generation
    BY <2>1 DEF Changes
  <2>8. Ledger'
    BY <1>1, <1>2, <1>3, <1>5, <2>7, LedgerCommitted
  <2>9. /\ progress' \in [0 .. MaxAttempts -> Progresses]
        /\ progress'[transition.id] = NoProgress
        /\ \A i \in 0 .. MaxAttempts : i # transition.id => progress'[i] = progress[i]
    BY <1>1, <1>3, <1>5, <2>7, Recorded, NothingFacts
  <2>a. Spends(g)
    BY <2>9, NothingFacts DEF Spends
  <2>b. Types'
    BY <1>1, <1>2, <1>5, <2>1, <2>4, <2>5, <2>7, <2>9, NothingFacts DEF Types, Changes
  <2>c. Peace'
    BY <1>2, <1>3, <1>5, <2>5 DEF Peace, Home, HydrationCurrent
  <2> QED
    BY <1>1, <2>1, <2>2, <2>6, <2>8, <2>a, <2>b, <2>c, Acted
<1> QED
  BY <1>4, <1>5 DEF Install

\* The runtimes of the project to be deleted are gone; the coordinator is asked or refuses.
LEMMA DisposedForDeletionInv ==
  ASSUME Inv, NEW g \in Generations, DisposedForDeletion(g)
  PROVE  Inv'
<1>1. /\ Holds(g) /\ Types /\ Ledger /\ InOrder /\ Executing(g) /\ Pc(g) = "disposing"
      /\ attempts \in Seq(Attempts) /\ attempts[g] \in Attempts
  BY Working DEF DisposedForDeletion, Pcs, Types, Generations
<1>2. UNCHANGED <<latest, app, active, native>> /\ Kind(g) = "delete"
  BY DEF DisposedForDeletion, Kind
<1>3. /\ transition # NoTransition /\ transition.id <= g /\ transition.id \in 1 .. Generation
      /\ call = NoCall /\ Home /\ attempts[g].target \in Workspaces
      /\ ~app.recoveryRequired /\ app.current # None => attempts[g].prev = app.current
  BY <1>1, <1>2 DEF Holds, Transacts, Commits, Phase, Swapping, Awaits, Ledger
<1>4. resident' = None /\ resident' \in Projects /\ Home'
  BY <1>1, <1>2, <1>3, Disposing DEF DisposedForDeletion, Home
<1>5. PICK ok \in BOOLEAN :
        /\ Record(transition.id, [Progress(transition.id) EXCEPT !.disposed = @ \/ ok])
        /\ transition' = [transition EXCEPT !.disposeStarted = TRUE,
                                            !.disposeCompleted = @ \/ ok]
  BY DEF DisposedForDeletion
<1>6. transition' \in Transitions /\ transition'.id = transition.id
  BY <1>1, <1>5 DEF Types, Transitions
<1>7. transition' # NoTransition /\ Continues
  BY <1>3, <1>6, NothingFacts DEF Continues
<1>8. \E q \in BOOLEAN : Record(transition.id, [Progress(transition.id) EXCEPT !.disposed = q])
  <2> DEFINE q == Progress(transition.id).disposed \/ ok
  <2>1. Record(transition.id, [Progress(transition.id) EXCEPT !.disposed = q])
    BY <1>5
  <2>2. q \in BOOLEAN
    OBVIOUS
  <2> QED
    BY <2>1, <2>2
<1>9. Generation' = Generation =>
        progress' \in [0 .. MaxAttempts -> Progresses] /\ Spends(g) /\ Ledger'
  BY <1>1, <1>2, <1>3, <1>4, <1>7, <1>8, DisposalNoted
<1>a. CASE /\ Goto(g, "deleting")
           /\ call' = [st |-> "sent", kind |-> "delete", ws |-> attempts[g].target,
                       current |-> TRUE]
  <2>1. Keeps(g) /\ attempts'[g].pc = "deleting" /\ attempts'[g].prev = attempts[g].prev
    BY <1>1, <1>a, Going DEF Goto, Pcs
  <2>2. call' \in Calls /\ call'.kind = "delete"
    BY <1>3, <1>a DEF Calls, Kinds, Projects
  <2>3. Holds(g)'
    BY <1>1, <1>2, <1>3, <1>4, <1>6, <1>7, <2>1, <2>2
       DEF Keeps, Holds, Phase, Swapping, Awaits, Transacts, Commits, Clears, Kind, Pc
  <2> QED
    BY <1>1, <1>2, <1>4, <1>6, <1>9, <2>1, <2>2, <2>3, ActedOn DEF Types, Keeps, Changes
<1>b. CASE /\ attempts' = [attempts EXCEPT ![g].pc = "restoring", ![g].why = "delete"]
           /\ UNCHANGED call
  <2>1. attempts' = [attempts EXCEPT
                       ![g] = [attempts[g] EXCEPT !.pc = "restoring", !.why = "delete"]]
    BY <1>b
  <2>2. /\ Keeps(g) /\ attempts'[g].pc = "restoring" /\ attempts'[g].prev = attempts[g].prev
        /\ attempts'[g].why = "delete"
    BY <1>1, <2>1, GoingBack DEF Pcs, Whys
  <2>3. Back(g) /\ Generation' = Generation
    BY <1>3, <1>b, <2>2 DEF Back, Keeps, Changes
  <2> QED
    BY <1>1, <1>2, <1>4, <1>6, <1>9, <1>b, <2>2, <2>3, Backed DEF Types
<1> QED
  BY <1>a, <1>b DEF DisposedForDeletion

\* The commit point of a deletion, or the rollback of a refused one.
LEMMA DeletedInv ==
  ASSUME Inv, NEW g \in Generations, Deleted(g)
  PROVE  Inv'
<1>1. /\ Holds(g) /\ Types /\ Ledger /\ InOrder /\ Executing(g) /\ Pc(g) = "deleting"
      /\ attempts \in Seq(Attempts) /\ attempts[g] \in Attempts
  BY Working DEF Deleted, Pcs, Types, Generations
<1>2. UNCHANGED <<resident, native>> /\ call' = NoCall /\ call' \in Calls
  BY NothingFacts DEF Deleted
<1>3. /\ transition # NoTransition /\ transition.id <= g /\ transition.id \in 1 .. Generation
      /\ Home /\ resident = None
  BY <1>1, <1>2 DEF Holds, Transacts, Commits, Phase, Swapping, Awaits, Ledger
<1>4. CASE /\ active' = IF active = call.ws THEN None ELSE active
           /\ app' = [Opening(app, "idle") EXCEPT !.current = None, !.recoveryRequired = FALSE]
           /\ Record(transition.id, NoProgress)
           /\ transition' = NoTransition
           /\ attempts' = Done(g)
           /\ latest' = IF latest = g THEN 0 ELSE latest
  <2>1. Changes(g) /\ attempts'[g].pc = "done"
    BY <1>1, <1>4, Ending
  <2>2. InOrder'
    BY <1>1, <1>4, <2>1, GoesOut
  <2> DEFINE o == Opening(app, "idle")
  <2>3. o \in Apps /\ ~o.switching /\ ~o.hydrating /\ o.status = "idle"
    BY <1>1, OpeningFacts DEF Types
  <2>4. app' = [o EXCEPT !.current = None, !.recoveryRequired = FALSE]
    BY <1>4
  <2> HIDE DEF o
  <2>5. /\ app' \in Apps /\ app'.current = None
        /\ ~app'.switching /\ ~app'.hydrating /\ app'.status = "idle"
    BY <2>3, <2>4 DEF Apps, Projects
  <2>6. Gate'
    BY <2>5 DEF Gate
  <2>7. Generation' = Generation
    BY <2>1 DEF Changes
  <2>8. Ledger'
    BY <1>1, <1>2, <1>3, <1>4, <2>7, LedgerCommitted
  <2>9. /\ progress' \in [0 .. MaxAttempts -> Progresses]
        /\ progress'[transition.id] = NoProgress
        /\ \A i \in 0 .. MaxAttempts : i # transition.id => progress'[i] = progress[i]
    BY <1>1, <1>3, <1>4, <2>7, Recorded, NothingFacts
  <2>a. Spends(g)
    BY <2>9, NothingFacts DEF Spends
  <2>b. active' \in Projects /\ latest' \in Nat
    BY <1>1, <1>4 DEF Types, Projects
  <2>c. Types'
    BY <1>1, <1>2, <1>4, <2>1, <2>5, <2>7, <2>9, <2>b, NothingFacts DEF Types, Changes
  <2>d. Peace'
    BY <1>2, <1>4, <2>5 DEF Peace, Home
  <2> QED
    BY <1>1, <2>1, <2>2, <2>6, <2>8, <2>a, <2>c, <2>d, Acted
<1>5. CASE /\ attempts' = [attempts EXCEPT ![g].pc = "restoring", ![g].why = "delete"]
           /\ UNCHANGED <<active, app, progress, transition, latest>>
  <2>1. attempts' = [attempts EXCEPT
                       ![g] = [attempts[g] EXCEPT !.pc = "restoring", !.why = "delete"]]
    BY <1>5
  <2>2. /\ Keeps(g) /\ attempts'[g].pc = "restoring" /\ attempts'[g].prev = attempts[g].prev
        /\ attempts'[g].why = "delete"
    BY <1>1, <2>1, GoingBack DEF Pcs, Whys
  <2>3. Back(g)
    BY <1>2, <2>2 DEF Back
  <2>4. Spends(g) /\ (Generation' = Generation => Ledger') /\ Home'
    BY <1>1, <1>2, <1>3, <1>5, LedgerStays DEF Spends, Continues, Types, Home
  <2> QED
    BY <1>1, <1>2, <1>5, <2>2, <2>3, <2>4, Backed DEF Types
<1> QED
  BY <1>4, <1>5 DEF Deleted

\* The previous project is back, or the lockout tells that it is not.
LEMMA ReopenedInv ==
  ASSUME Inv, NEW g \in Generations, Reopened(g)
  PROVE  Inv'
<1>1. /\ Holds(g) /\ Types /\ Ledger /\ InOrder /\ Executing(g) /\ Pc(g) = "reopening"
      /\ attempts \in Seq(Attempts) /\ attempts[g] \in Attempts /\ call \in Calls
  BY Working DEF Reopened, Pcs, Types, Generations
<1>2. /\ UNCHANGED <<transition, progress, resident, native>>
      /\ call' = NoCall /\ call' \in Calls
  BY NothingFacts DEF Reopened, Answered
<1>3. /\ call.ws = attempts[g].prev /\ (call.st = "ok" => native \in {call.ws, None})
      /\ ~app.recoveryRequired /\ app.current # None => attempts[g].prev = app.current
  BY <1>1 DEF Holds, Phase
<1>4. Spends(g) /\ (Generation' = Generation /\ app'.current = app.current => Ledger')
  BY <1>1, <1>2, LedgerStays DEF Spends, Continues, Types
<1>5. CASE call.st = "ok" /\ active' = call.ws /\ Goto(g, "restoring") /\ UNCHANGED <<app, latest>>
  <2>1. Keeps(g) /\ attempts'[g].pc = "restoring" /\ attempts'[g].prev = attempts[g].prev
        /\ attempts'[g].why = attempts[g].why
    BY <1>1, <1>5, Going DEF Goto, Pcs
  <2>2. Home' /\ active' \in Projects
    BY <1>1, <1>2, <1>3, <1>5 DEF Home, Calls
  <2>3. attempts[g].why # "clear"
    BY <1>1 DEF Holds, Phase
  <2>4. Back(g)
    BY <1>2, <2>1, <2>3 DEF Back
  <2> QED
    BY <1>1, <1>2, <1>4, <1>5, <2>1, <2>2, <2>4, Backed DEF Types
<1>6. CASE Lockout(g) /\ UNCHANGED active
  <2>1. app'.current = app.current
    BY <1>1, <1>6, Locks
  <2> QED
    BY <1>1, <1>2, <1>4, <1>6, <2>1, LockedOut DEF Types
<1> QED
  BY <1>5, <1>6 DEF Reopened

\* restoreRuntimeAfterAbortedTransition(): what it restores is the installed project.
LEMMA Restoring ==
  ASSUME Types, Ledger, NEW g \in Generations, Restored, Generation' = Generation,
         app'.current = app.current
  PROVE  /\ transition' = NoTransition /\ transition' \in Transitions
         /\ progress' \in [0 .. MaxAttempts -> Progresses]
         /\ resident' \in Projects /\ Spends(g) /\ Ledger'
<1>1. transition' = NoTransition /\ transition' \in Transitions /\ Continues
  BY NothingFacts DEF Restored, Continues
<1>2. CASE ~(transition # NoTransition /\ RestoreRuns)
  <2>1. UNCHANGED <<resident, progress>>
    BY <1>2 DEF Restored
  <2> QED
    BY <1>1, <2>1, LedgerStays DEF Types, Spends
<1>3. CASE transition # NoTransition /\ RestoreRuns
  <2> DEFINE o == progress[transition.id]
             p == [o EXCEPT !.restored = TRUE, !.snapshot = None]
  <2>1. transition.id \in 0 .. MaxAttempts /\ o \in Progresses
    BY <1>3, BoundsAssumption DEF Types, Ledger, Generation
  <2>2. p \in Progresses /\ p.snapshot = None /\ p.disposed = o.disposed
    BY <2>1 DEF Progresses, Projects
  <2>3. Record(transition.id, p) /\ resident' = o.snapshot
    BY <1>3 DEF Restored, Progress
  <2>4. resident' \in {None, app.current} /\ resident' \in Projects
    BY <2>1, <2>3 DEF Ledger, Progresses
  <2> HIDE DEF p
  <2>5. Ledger'
    BY <1>1, <1>3, <2>2, <2>3, <2>4, LedgerRecorded
  <2>6. /\ progress' \in [0 .. MaxAttempts -> Progresses]
        /\ progress'[transition.id] = p
        /\ \A i \in 0 .. MaxAttempts : i # transition.id => progress'[i] = progress[i]
    BY <1>3, <2>2, <2>3, Recorded
  <2>7. Spends(g)
    BY <2>2, <2>6 DEF Spends
  <2> QED
    BY <1>1, <2>4, <2>5, <2>6, <2>7
<1> QED
  BY <1>2, <1>3

\* The rollback is over; it may turn out that the attempt lost its ownership meanwhile.
LEMMA RestoreEndsInv ==
  ASSUME Inv, NEW g \in Generations, RestoreEnds(g)
  PROVE  Inv'
<1>1. /\ Holds(g) /\ Types /\ Ledger /\ InOrder /\ Executing(g) /\ Pc(g) = "restoring"
      /\ attempts \in Seq(Attempts) /\ attempts[g] \in Attempts
  BY Working DEF RestoreEnds, Pcs, Types, Generations
<1>2. UNCHANGED <<active, native>>
  BY DEF RestoreEnds
<1>3. Home /\ call = NoCall
  BY <1>1 DEF Holds, Swapping, Awaits
<1>4. ASSUME Recovers(g), UNCHANGED <<app, latest>>, transition' \in Transitions,
             progress' \in [0 .. MaxAttempts -> Progresses],
             resident' \in Projects, Generation' = Generation => Spends(g) /\ Ledger'
      PROVE  Inv'
  <2>1. /\ Keeps(g) /\ Back(g) /\ call' \in Calls /\ attempts'[g].prev = attempts[g].prev
    BY <1>1, <1>4, Recovering
  <2>2. Home' /\ Generation' = Generation
    BY <1>2, <1>3, <1>4, <2>1 DEF Home, Keeps, Changes
  <2> QED
    BY <1>1, <1>2, <1>4, <2>1, <2>2, Backed DEF Types
<1>5. CASE /\ Restored
           /\ \/ Recovers(g) /\ UNCHANGED <<app, latest>>
              \/ (FinishFailure(g) \/ FinishAborted(g)) /\ UNCHANGED call
  <2>1. /\ transition' = NoTransition /\ transition' \in Transitions
    BY <1>5, NothingFacts DEF Restored
  <2>2. Generation' = Generation /\ app'.current = app.current =>
          /\ progress' \in [0 .. MaxAttempts -> Progresses]
          /\ resident' \in Projects /\ Spends(g) /\ Ledger'
    BY <1>1, <1>5, Restoring
  <2>3. CASE Recovers(g) /\ UNCHANGED <<app, latest>>
    <3>1. Generation' = Generation
      BY <1>1, <2>3, Recovering DEF Keeps, Changes
    <3> QED
      BY <1>4, <2>1, <2>2, <2>3, <3>1
  <2>4. CASE (FinishFailure(g) \/ FinishAborted(g)) /\ UNCHANGED call
    <3>1. Generation' = Generation /\ app'.current = app.current
      BY <1>1, <2>4, Finishes DEF Changes
    <3> QED
      BY <1>1, <1>2, <1>3, <2>1, <2>2, <2>4, <3>1, Finished
  <2> QED
    BY <1>5, <2>3, <2>4
<1>6. CASE /\ RestoreFails
           /\ \/ Recovers(g) /\ UNCHANGED <<app, latest>>
              \/ Lockout(g) /\ UNCHANGED call
  <2>1. /\ transition' \in Transitions /\ progress' \in [0 .. MaxAttempts -> Progresses]
        /\ resident' \in Projects /\ Spends(g)
    BY <1>1, <1>6 DEF RestoreFails, Types, Spends, Projects
  <2>2. Generation' = Generation /\ app'.current = app.current => Ledger'
    BY <1>1, <1>6 DEF RestoreFails, Ledger
  <2>3. CASE Recovers(g) /\ UNCHANGED <<app, latest>>
    BY <1>4, <2>1, <2>2, <2>3
  <2>4. CASE Lockout(g) /\ UNCHANGED call
    <3>1. app'.current = app.current
      BY <1>1, <2>4, Locks
    <3> QED
      BY <1>1, <1>2, <1>3, <2>1, <2>2, <2>4, <3>1, LockedOut DEF Types
  <2> QED
    BY <1>6, <2>3, <2>4
<1>7. \/ /\ Restored
         /\ \/ Recovers(g) /\ UNCHANGED <<app, latest>>
            \/ (FinishFailure(g) \/ FinishAborted(g)) /\ UNCHANGED call
      \/ /\ RestoreFails
         /\ \/ Recovers(g) /\ UNCHANGED <<app, latest>>
            \/ Lockout(g) /\ UNCHANGED call
  <2>1. CASE attempts[g].why = "drain" /\ ~IsActive(g)
    BY <2>1 DEF RestoreEnds
  <2>2. CASE attempts[g].why = "abort"
    BY <2>2 DEF RestoreEnds
  <2>3. CASE attempts[g].why = "invoke"
    BY <2>3 DEF RestoreEnds
  <2>4. CASE /\ ~(attempts[g].why = "drain" /\ ~IsActive(g))
             /\ attempts[g].why \notin {"abort", "invoke"}
    BY <2>4 DEF RestoreEnds
  <2> QED
    BY <2>1, <2>2, <2>3, <2>4
<1> QED
  BY <1>5, <1>6, <1>7

\* A deletion replaces a foreign transaction by its own.
LEMMA ForeignClearedInv ==
  ASSUME Inv, NEW g \in Generations, ForeignCleared(g)
  PROVE  Inv'
<1>1. /\ Holds(g) /\ Types /\ Ledger /\ InOrder /\ Executing(g) /\ Pc(g) = "restoring"
      /\ attempts \in Seq(Attempts) /\ attempts[g] \in Attempts
  BY Working DEF ForeignCleared, Pcs, Types, Generations
<1>2. UNCHANGED <<latest, app, active, native, call>>
  BY DEF ForeignCleared
<1>3. Home /\ call = NoCall /\ transition # NoTransition /\ Unspent(g)
  BY <1>1 DEF Holds, Swapping, Awaits, Transacts, Clears, ForeignCleared
<1>4. Keeps(g) /\ attempts'[g].pc = "quiescing" /\ attempts'[g].prev = attempts[g].prev
  BY <1>1, Going DEF ForeignCleared, Goto, Pcs
<1>5. Generation' = Generation
  BY <1>4 DEF Keeps, Changes
<1>6. /\ Generation \in 1 .. MaxAttempts /\ g \in Nat /\ g <= Generation
      /\ transition.id \in 1 .. Generation
  BY <1>1, <1>3, BoundsAssumption DEF Types, Generation, Generations, Ledger
<1>7. transition' \in Transitions /\ transition'.id = Generation
  <2> DEFINE v == attempts[g].prev
             n == Generation
  <2>1. v \in Projects /\ n \in Nat
    BY <1>1, <1>6 DEF Attempts
  <2>2. transition' = [NoTransition EXCEPT !.id = n, !.prev = v, !.quiesceStarted = TRUE]
    BY DEF ForeignCleared
  <2> HIDE DEF v, n
  <2>3. transition' \in Transitions /\ transition'.id = n
    BY <2>1, <2>2 DEF NoTransition, Transitions, Projects
  <2> QED
    BY <2>3 DEF n
<1>8. /\ progress' \in [0 .. MaxAttempts -> Progresses]
      /\ \A i \in 0 .. MaxAttempts : progress'[i].disposed = progress[i].disposed
      /\ \A i \in 0 .. MaxAttempts : i # transition.id => progress'[i] = progress[i]
      /\ progress'[transition.id].snapshot \in {None, app.current}
      /\ resident' \in {None, app.current}
  <2> DEFINE o == progress[transition.id]
             p == [o EXCEPT !.restored = TRUE, !.snapshot = None]
  <2>1. transition.id \in 0 .. MaxAttempts /\ o \in Progresses
    BY <1>1, <1>6, BoundsAssumption DEF Types
  <2>2. p \in Progresses /\ p.snapshot = None /\ p.disposed = o.disposed
    BY <2>1 DEF Progresses, Projects
  <2>3. CASE Record(transition.id, p) /\ resident' = o.snapshot
    <3>1. /\ progress' \in [0 .. MaxAttempts -> Progresses]
          /\ progress'[transition.id] = p
          /\ \A i \in 0 .. MaxAttempts : i # transition.id => progress'[i] = progress[i]
      <4> HIDE DEF p
      <4> QED
        BY <1>1, <1>3, <1>5, <2>2, <2>3, Recorded
    <3>2. \A i \in 0 .. MaxAttempts : progress'[i].disposed = progress[i].disposed
      <4> HIDE DEF p
      <4> QED
        BY <2>2, <3>1
    <3> QED
      BY <1>1, <2>2, <2>3, <3>1, <3>2 DEF Ledger
  <2>4. CASE UNCHANGED progress /\ resident' \in {None, resident}
    BY <1>1, <2>4 DEF Types, Ledger
  <2> QED
    BY <2>3, <2>4 DEF ForeignCleared, Progress
<1>9. resident' \in Projects
  BY <1>1, <1>8 DEF Types, Apps, Projects
<1>a. Spends(g)
  BY <1>8 DEF Spends
<1>b. Ledger' /\ transition' # NoTransition
  <2>1. \A i \in 0 .. MaxAttempts : i = 0 \/ i > Generation => progress'[i] = NoProgress
    BY <1>1, <1>6, <1>8 DEF Ledger
  <2>2. progress'[Generation].snapshot \in {None, app.current}
    BY <1>1, <1>6, <1>8 DEF Ledger
  <2>3. ~progress'[Generation].disposed
    BY <1>3, <1>6, <1>8 DEF Unspent
  <2> QED
    BY <1>1, <1>2, <1>5, <1>7, <1>8, <2>1, <2>2, <2>3, LedgerBegins
<1>c. Holds(g)'
  BY <1>1, <1>2, <1>3, <1>4, <1>b
     DEF Keeps, Holds, Phase, Swapping, Awaits, Transacts, Commits, Clears, Kind, Pc, Home
<1> QED
  BY <1>1, <1>2, <1>4, <1>7, <1>8, <1>9, <1>a, <1>b, <1>c, ActedOn DEF Types

-------------------------------------------------------------------------------
(* The requests of the user.                                               *)

\* The tracker's attempt is aborted, and nothing else of any attempt changes.
Overtakes ==
  /\ \A h \in Generations :
       /\ attempts'[h].pc = attempts[h].pc /\ attempts'[h].kind = attempts[h].kind
       /\ attempts'[h].target = attempts[h].target /\ attempts'[h].prev = attempts[h].prev
       /\ attempts'[h].why = attempts[h].why /\ attempts'[h].activated = attempts[h].activated
       /\ attempts'[h].nativeStarted = attempts[h].nativeStarted
       /\ attempts[h].aborted => attempts'[h].aborted
  /\ latest # 0 => attempts'[latest].aborted

LEMMA Superseding ==
  ASSUME attempts \in Seq(Attempts), latest \in {0, Generation}
  PROVE  /\ Superseded \in Seq(Attempts) /\ Len(Superseded) = Len(attempts)
         /\ latest # 0 => Superseded[latest].aborted
         /\ \A h \in Generations :
              /\ Superseded[h] \in Attempts
              /\ Superseded[h].pc = attempts[h].pc /\ Superseded[h].kind = attempts[h].kind
              /\ Superseded[h].target = attempts[h].target
              /\ Superseded[h].prev = attempts[h].prev
              /\ Superseded[h].why = attempts[h].why
              /\ Superseded[h].activated = attempts[h].activated
              /\ Superseded[h].nativeStarted = attempts[h].nativeStarted
              /\ attempts[h].aborted => Superseded[h].aborted
<1>1. CASE latest = 0
  BY <1>1 DEF Superseded, Generations
<1>2. CASE latest # 0
  <2> DEFINE a == [attempts[latest] EXCEPT !.aborted = TRUE]
  <2>1. latest \in 1 .. Len(attempts) /\ attempts[latest] \in Attempts
    BY <1>2 DEF Generation
  <2>2. /\ a \in Attempts /\ a.aborted
        /\ a.pc = attempts[latest].pc /\ a.kind = attempts[latest].kind
        /\ a.target = attempts[latest].target /\ a.prev = attempts[latest].prev
        /\ a.why = attempts[latest].why /\ a.activated = attempts[latest].activated
        /\ a.nativeStarted = attempts[latest].nativeStarted
    BY <2>1 DEF Attempts
  <2>3. Superseded = [attempts EXCEPT ![latest] = a]
    BY <1>2 DEF Superseded
  <2> HIDE DEF a
  <2>4. /\ [attempts EXCEPT ![latest] = a] \in Seq(Attempts)
        /\ Len([attempts EXCEPT ![latest] = a]) = Len(attempts)
        /\ \A h \in 1 .. Len(attempts) :
             [attempts EXCEPT ![latest] = a][h] = IF h = latest THEN a ELSE attempts[h]
    BY <2>1, <2>2, OneChanged
  <2>5. /\ Superseded \in Seq(Attempts) /\ Len(Superseded) = Len(attempts)
        /\ \A h \in 1 .. Len(attempts) : Superseded[h] = IF h = latest THEN a ELSE attempts[h]
    BY <2>3, <2>4
  <2> QED
    BY <2>1, <2>2, <2>5 DEF Generations
<1> QED
  BY <1>1, <1>2

\* An aborted call keeps its answer.
LEMMA CallAfter ==
  ASSUME call \in Calls, CancelCall
  PROVE  /\ call' \in Calls /\ call'.kind = call.kind /\ call'.ws = call.ws
         /\ call'.st = call.st /\ (~CallCancelled => call' = call)
BY DEF CancelCall, Calls

\* A request leaves the working attempt where it is, and an idle state idle.
LEMMA Overtaken ==
  ASSUME Inv, Overtakes, CancelCall, app'.current = app.current,
         app'.recoveryRequired = app.recoveryRequired,
         UNCHANGED <<transition, progress, resident, active, native>>
  PROVE  /\ \A h \in Generations : ~Idles(h) => Holds(h)'
         /\ \A h \in Generations : Pc(h) = "queued" => Waits(h)'
         /\ (\A h \in Generations : Idles(h)) => Peace'
<1>1. /\ call' \in Calls /\ call'.kind = call.kind /\ call'.ws = call.ws
      /\ call'.st = call.st /\ (~CallCancelled => call' = call)
  BY CallAfter DEF Inv, Types
<1>2. Home' <=> Home
  BY DEF Home
<1>3. ASSUME NEW h \in Generations, ~Idles(h)
      PROVE  Holds(h)'
  <2>1. Holds(h)
    BY <1>3 DEF Inv
  <2>2. CallCancelled => h = latest /\ attempts[h].pc = "invoking"
    BY <1>3 DEF Inv, InOrder, CallCancelled, Executing, Idles, Pc, Generations
  <2>3. CallCancelled => attempts'[h].aborted
    BY <2>2 DEF Overtakes, CallCancelled
  <2>4. ~Awaits(h) => call' = call
    BY <1>1, <2>2 DEF Awaits, Pc
  <2>5. /\ attempts'[h].pc = attempts[h].pc /\ attempts'[h].kind = attempts[h].kind
        /\ attempts'[h].target = attempts[h].target /\ attempts'[h].prev = attempts[h].prev
        /\ attempts'[h].why = attempts[h].why /\ attempts'[h].activated = attempts[h].activated
        /\ attempts'[h].nativeStarted = attempts[h].nativeStarted
        /\ attempts[h].aborted => attempts'[h].aborted
    BY DEF Overtakes
  <2>6. Phase(h)'
    BY <1>1, <1>2, <2>1, <2>3, <2>5 DEF Holds, Phase, Swapping, Kind, Pc
  <2> QED
    BY <1>2, <2>1, <2>4, <2>5, <2>6
       DEF Holds, Swapping, Awaits, Transacts, Commits, Clears, Kind, Pc, Unspent
<1>4. \A h \in Generations : Pc(h) = "queued" => Waits(h)'
  BY DEF Inv, Overtakes, Waits, Unspent, Kind, Pc
<1>5. (\A h \in Generations : Idles(h)) => Peace'
  BY <1>1, <1>2 DEF Inv, Peace, CallCancelled, Executing, Idles, Pc
<1> QED
  BY <1>3, <1>4, <1>5

LEMMA RequestInv ==
  ASSUME Inv, NEW k \in {"open", "create", "delete"}, NEW w \in Workspaces, Request(k, w)
  PROVE  Inv'
<1>1. /\ Types /\ InOrder /\ Ledger /\ attempts \in Seq(Attempts) /\ latest \in {0, Generation}
      /\ Generation \in Nat /\ Generation < MaxAttempts /\ MaxAttempts \in Nat
  BY BoundsAssumption DEF Inv, Types, InOrder, Request, Generation
<1>n. PICK n \in Nat : n = Generation + 1
  BY <1>1
<1> DEFINE a == Attempt(k, w)
<1>2. /\ a \in Attempts /\ a.pc = "queued" /\ a.kind = k /\ a.target = w /\ ~a.aborted
  BY DEF Attempt, Attempts, Kinds, Projects, Pcs, Whys
<1> HIDE DEF a
<1>3. /\ Superseded \in Seq(Attempts) /\ Len(Superseded) = Generation
      /\ attempts' = Append(Superseded, a)
  BY <1>1, Superseding DEF Request, a, Generation
<1>4. /\ attempts' \in Seq(Attempts) /\ Generation' = n /\ attempts'[n] = a
      /\ Generations' = Generations \cup {n} /\ n \notin Generations
      /\ \A h \in Generations : attempts'[h] = Superseded[h]
  BY <1>1, <1>2, <1>3, <1>n DEF Generation, Generations
<1>5. Overtakes
  BY <1>1, <1>4, Superseding DEF Overtakes, Generations, Generation
<1>6. /\ latest' = n /\ CancelCall /\ app' = Closing(app)
      /\ UNCHANGED <<transition, progress, resident, active, native>>
  BY <1>n DEF Request
<1>7. /\ app' \in Apps /\ app'.current = app.current /\ app'.switching
      /\ app'.recoveryRequired = app.recoveryRequired
  BY <1>1, <1>6, ClosingFacts DEF Types
<1>8. Types'
  BY <1>1, <1>4, <1>6, <1>7, <1>n, CallAfter DEF Types
<1>9. ~AtRest'
  BY <1>2, <1>4 DEF AtRest
<1>a. InOrder'
  <2>1. \A g, h \in Generations' : g < h /\ attempts'[g].pc # "done" => attempts'[h].pc = "queued"
    BY <1>1, <1>2, <1>4, <1>5, <1>n DEF InOrder, Overtakes, Pc, Generations, Generation
  <2>2. \A g \in Generations : attempts'[g].pc # "done" => attempts'[g].aborted
    <3> SUFFICES ASSUME NEW g \in Generations, attempts'[g].pc # "done", ~attempts'[g].aborted
                 PROVE  FALSE
      OBVIOUS
    <3>1. attempts[g].pc # "done" /\ ~attempts[g].aborted
      BY <1>5 DEF Overtakes
    <3>2. g = Generation /\ latest # 0
      BY <1>1, <3>1 DEF InOrder, AtRest, Pc
    <3> QED
      BY <1>1, <1>5, <3>2 DEF Overtakes
  <2>3. \A g \in Generations' : attempts'[g].pc # "done" /\ ~attempts'[g].aborted => g = n
    BY <1>4, <2>2
  <2> QED
    BY <1>1, <1>2, <1>4, <1>6, <1>n, <2>1, <2>3 DEF InOrder, Pc
<1>b. Gate'
  BY <1>7, <1>9 DEF Gate
<1>c. Ledger'
  BY <1>1, <1>4, <1>6, <1>7, <1>n, NothingFacts DEF Ledger, Types
<1>d. /\ \A h \in Generations : ~Idles(h) => Holds(h)'
      /\ \A h \in Generations : Pc(h) = "queued" => Waits(h)'
      /\ (\A h \in Generations : Idles(h)) => Peace'
  BY <1>5, <1>6, <1>7, Overtaken
<1>e. \A h \in Generations : Pc(h)' = Pc(h) /\ (Idles(h)' <=> Idles(h))
  BY <1>5 DEF Overtakes, Pc, Idles
<1>f. Waits(n)'
  <2>1. \A i \in 0 .. MaxAttempts : progress'[i].disposed => i < n
    BY <1>1, <1>6, <1>n, NothingFacts DEF Ledger
  <2>2. w # None
    BY NoneAssumption
  <2> QED
    BY <1>2, <1>4, <2>1 DEF Waits, Unspent, Kind, None
<1>g. Idles(n)'
  BY <1>2, <1>4 DEF Idles, Pc
<1> QED
  BY <1>4, <1>8, <1>a, <1>b, <1>c, <1>d, <1>e, <1>f, <1>g DEF Inv

LEMMA CancelActivationInv ==
  ASSUME Inv, CancelActivation
  PROVE  Inv'
<1>1. /\ Types /\ InOrder /\ Ledger /\ attempts \in Seq(Attempts) /\ latest \in {0, Generation}
      /\ latest # 0
  BY DEF Inv, Types, InOrder, CancelActivation
<1>2. attempts' = Superseded
  BY <1>1 DEF CancelActivation, Superseded
<1>3. /\ attempts' \in Seq(Attempts) /\ Generation' = Generation /\ Generations' = Generations
  BY <1>1, <1>2, Superseding DEF Generation, Generations
<1>4. Overtakes
  BY <1>1, <1>2, Superseding DEF Overtakes
<1>5. /\ CancelCall /\ app' = Closing(app)
      /\ UNCHANGED <<latest, transition, progress, resident, active, native>>
  BY DEF CancelActivation
<1>6. /\ app' \in Apps /\ app'.current = app.current /\ app'.switching
      /\ app'.recoveryRequired = app.recoveryRequired
  BY <1>1, <1>5, ClosingFacts DEF Types
<1>7. Types'
  BY <1>1, <1>3, <1>5, <1>6, CallAfter DEF Types
<1>8. \A h \in Generations : Pc(h)' = Pc(h) /\ (Idles(h)' <=> Idles(h))
  BY <1>4 DEF Overtakes, Pc, Idles
<1>9. latest \in Generations /\ ~AtRest'
  BY <1>1, <1>3, <1>8 DEF InOrder, AtRest, Pc, Generations, Generation
<1>a. InOrder'
  BY <1>1, <1>3, <1>4, <1>5, <1>8, <1>9 DEF InOrder, Overtakes, Pc
<1>b. Gate'
  BY <1>6, <1>9 DEF Gate
<1>c. Ledger'
  BY <1>1, <1>3, <1>5, <1>6 DEF Ledger
<1>d. /\ \A h \in Generations : ~Idles(h) => Holds(h)'
      /\ \A h \in Generations : Pc(h) = "queued" => Waits(h)'
      /\ (\A h \in Generations : Idles(h)) => Peace'
  BY <1>4, <1>5, <1>6, Overtaken
<1> QED
  BY <1>3, <1>7, <1>8, <1>a, <1>b, <1>c, <1>d DEF Inv

\* A runtime becomes resident only when nothing is under way.
LEMMA EnsureRuntimeInv ==
  ASSUME Inv, EnsureRuntime
  PROVE  Inv'
<1>1. /\ Types /\ InOrder /\ Gate /\ Ledger
      /\ UNCHANGED <<attempts, latest, app, transition, progress, active, native, call>>
      /\ resident' = app.current
  BY DEF Inv, EnsureRuntime
<1>2. AtRest /\ ~app.recoveryRequired
  BY <1>1 DEF EnsureRuntime, AcceptsSaves, Gate
<1>3. \A g \in Generations : Pc(g) = "done" /\ Idles(g)
  BY <1>2 DEF AtRest, Idles, Pc
<1>4. Peace /\ transition = NoTransition
  BY <1>2, <1>3 DEF Inv, Peace
<1>5. Types'
  BY <1>1 DEF Types, Apps, Generation
<1>6. InOrder' /\ Gate'
  BY <1>1 DEF InOrder, Gate, AtRest, Pc, Generations, Generation
<1>7. Ledger'
  BY <1>1, <1>4 DEF Ledger, Generation
<1>8. Peace'
  BY <1>1, <1>4 DEF Peace, Home
<1>9. \A g \in Generations' : Pc(g)' = "done" /\ Idles(g)'
  BY <1>1, <1>3 DEF Pc, Idles, Generations
<1> QED
  BY <1>5, <1>6, <1>7, <1>8, <1>9 DEF Inv

\* Deleting another project can only empty the native slot and the coordinator's document.
LEMMA Elsewhere ==
  ASSUME Inv, UNCHANGED <<attempts, latest, app, transition, progress, resident, call>>,
         active' \in {active, None}, native' \in {native, None}
  PROVE  Inv'
<1>1. Home => Home'
  BY DEF Home
<1>2. Types' /\ InOrder' /\ Gate' /\ Ledger'
  BY DEF Inv, Types, InOrder, Gate, Ledger, AtRest, Pc, Generations, Generation, Projects
<1>3. /\ Generations' = Generations
      /\ \A g \in Generations : Pc(g)' = Pc(g) /\ (Idles(g)' <=> Idles(g))
  BY DEF Generations, Pc, Idles
<1>4. ASSUME NEW g \in Generations, ~Idles(g)
      PROVE  Holds(g)'
  <2>1. Holds(g)
    BY <1>4 DEF Inv
  <2>2. Phase(g)'
    BY <1>1, <2>1 DEF Holds, Phase, Swapping, Kind, Pc
  <2> QED
    BY <1>1, <2>1, <2>2
       DEF Holds, Swapping, Awaits, Transacts, Commits, Clears, Kind, Pc, Unspent
<1>5. \A g \in Generations : Pc(g) = "queued" => Waits(g)'
  BY DEF Inv, Waits, Unspent, Kind
<1>6. Peace => Peace'
  BY <1>1 DEF Peace
<1> QED
  BY <1>2, <1>3, <1>4, <1>5, <1>6 DEF Inv

\* The native side answers the attempt that waits, and there is no other.
LEMMA OneAwaits ==
  ASSUME Inv, call.st = "sent"
  PROVE  \E g \in Generations : Awaits(g) /\ Holds(g) /\ Executing(g)
<1>1. call # NoCall
  BY DEF NoCall
<1>2. PICK g \in Generations : ~Idles(g)
  BY <1>1 DEF Inv, Peace
<1>3. Holds(g) /\ Awaits(g)
  BY <1>1, <1>2 DEF Inv, Holds
<1>4. \A h \in 1 .. g - 1 : attempts[h].pc = "done"
  BY <1>2 DEF Inv, InOrder, Idles, Pc, Generations
<1> QED
  BY <1>2, <1>3, <1>4 DEF Executing, Idles, Pc

LEMMA Answers ==
  ASSUME Inv, NEW g \in Generations, Executing(g), Awaits(g),
         UNCHANGED <<attempts, latest, app, transition, progress, resident, active>>,
         call' \in Calls, Holds(g)'
  PROVE  Inv'
<1>1. Types /\ Ledger
  BY DEF Inv
<1>2. Keeps(g) /\ attempts'[g].pc \notin {"queued", "done"}
  BY <1>1 DEF Types, Keeps, Changes, Generation, Awaits, Pc
<1>3. Ledger' /\ Spends(g)
  BY <1>1 DEF Ledger, Generation, Spends
<1> QED
  BY <1>1, <1>2, <1>3, ActedOn DEF Types

LEMMA NativeOpenInv ==
  ASSUME Inv, NativeOpen
  PROVE  Inv'
<1>1. PICK g \in Generations : Awaits(g) /\ Holds(g) /\ Executing(g)
  BY OneAwaits DEF NativeOpen
<1>2. UNCHANGED <<attempts, latest, app, transition, progress, resident, active>>
  BY DEF NativeOpen
<1>3. call \in Calls /\ call.st = "sent" /\ call.kind \in {"open", "create"}
  BY DEF Inv, Types, NativeOpen
<1>4. PICK y \in {"ok", "error"} :
        /\ call' = [call EXCEPT !.st = y]
        /\ y = "ok" => native' = call.ws
        /\ y = "error" => native' = native
  BY DEF NativeOpen
<1>5. /\ call' \in Calls /\ call'.kind = call.kind /\ call'.ws = call.ws
      /\ call'.current = call.current /\ call'.st = y
  BY <1>3, <1>4 DEF Calls
<1>6. Pc(g) \in {"invoking", "reopening"}
  BY <1>1, <1>3 DEF Awaits, Holds, Phase
<1>7. y = "error" => (Home' <=> Home)
  BY <1>2, <1>4 DEF Home
<1>8. Holds(g)'
  BY <1>1, <1>2, <1>3, <1>4, <1>5, <1>6, <1>7
     DEF Holds, Phase, Swapping, Awaits, Transacts, Commits, Clears, Kind, Pc, Unspent
<1> QED
  BY <1>1, <1>2, <1>5, <1>8, Answers

LEMMA NativeDeleteInv ==
  ASSUME Inv, NativeDelete
  PROVE  Inv'
<1>1. UNCHANGED <<attempts, latest, app, transition, progress, resident, active>>
  BY DEF NativeDelete
<1>2. native' \in {native, None}
  BY DEF NativeDelete, NativeDeletes
<1>3. CASE UNCHANGED call
  BY <1>1, <1>2, <1>3, Elsewhere
<1>4. ASSUME NEW y \in {"ok", "error"}, call.st = "sent", call.kind = "delete",
             call' = [call EXCEPT !.st = y]
      PROVE  Inv'
  <2>1. PICK g \in Generations : Awaits(g) /\ Holds(g) /\ Executing(g)
    BY <1>4, OneAwaits
  <2>2. call \in Calls
    BY DEF Inv, Types
  <2>3. call' \in Calls /\ call'.kind = "delete"
    BY <1>4, <2>2 DEF Calls
  <2>4. Pc(g) = "deleting"
    BY <1>4, <2>1 DEF Awaits, Holds, Phase
  <2>5. Home => Home'
    BY <1>1, <1>2 DEF Home
  <2>6. Holds(g)'
    BY <1>1, <2>1, <2>3, <2>4, <2>5
       DEF Holds, Phase, Swapping, Awaits, Transacts, Commits, Clears, Kind, Pc, Unspent
  <2> QED
    BY <1>1, <2>1, <2>3, <2>6, Answers
<1> QED
  BY <1>3, <1>4 DEF NativeDelete

-------------------------------------------------------------------------------
(* The theorems.                                                           *)

LEMMA InitInv == Init => Inv
<1> SUFFICES ASSUME Init PROVE Inv
  OBVIOUS
<1>1. Generation = 0 /\ Generations = {} /\ AtRest
  BY DEF Init, Generation, Generations, AtRest
<1>2. 0 \in 0 .. MaxAttempts /\ MaxAttempts \in Nat
  BY BoundsAssumption
<1>3. Types
  BY <1>1, <1>2, NothingFacts DEF Init, Types, Apps, Projects
<1>4. InOrder /\ Gate
  BY <1>1 DEF Init, InOrder, Gate
<1>5. Ledger
  BY <1>1, <1>2, NothingFacts DEF Init, Ledger
<1>6. Peace
  BY DEF Init, Peace, Home
<1> QED
  BY <1>1, <1>3, <1>4, <1>5, <1>6 DEF Inv

LEMMA NextInv == Inv /\ [Next]_vars => Inv'
<1> SUFFICES ASSUME Inv, [Next]_vars PROVE Inv'
  OBVIOUS
<1>1. CASE UNCHANGED vars
  BY <1>1, Elsewhere DEF vars
<1>2. CASE User
  <2>1. ASSUME NEW w \in Workspaces,
               OpenWorkspace(w) \/ CreateWorkspace(w) \/ DeleteCurrent(w)
        PROVE  Inv'
    BY <2>1, RequestInv DEF OpenWorkspace, CreateWorkspace, DeleteCurrent
  <2>2. ASSUME NEW w \in Workspaces, DeleteOther(w)
        PROVE  Inv'
    BY <2>2, Elsewhere DEF DeleteOther
  <2> QED
    BY <1>2, <2>1, <2>2, CancelActivationInv, EnsureRuntimeInv DEF User
<1>3. ASSUME NEW g \in Generations, Step(g)
      PROVE  Inv'
  BY <1>3, StartActivationInv, StartDeletionInv, QuiescedInv, DrainedInv, InvokedInv,
     HydratedInv, DisposedInv, InstallInv, DisposedForDeletionInv, DeletedInv, ReopenedInv,
     RestoreEndsInv, ForeignClearedInv
     DEF Step
<1>4. CASE OtherDeleted
  BY <1>4, Elsewhere DEF OtherDeleted
<1>5. CASE Native
  BY <1>5, NativeOpenInv, NativeDeleteInv DEF Native
<1> QED
  BY <1>1, <1>2, <1>3, <1>4, <1>5 DEF Next

\* The inductive invariant holds of every behaviour.
THEOREM Invariance == Spec => []Inv
BY InitInv, NextInv, PTL DEF Spec

\* The gate of the application service: edits are accepted only while no attempt works and the
\* native side has the installed project open, or none, and only that project has session
\* runtimes, whatever requests, aborts, failures and rollbacks came before.
THEOREM EditsGoHome == Spec => []SavesGoHome
<1>1. Inv => SavesGoHome
  <2> SUFFICES ASSUME Inv PROVE SavesGoHome
    OBVIOUS
  <2>1. ASSUME AcceptsSaves
        PROVE  /\ native \in {app.current, None}
               /\ \A g \in Generations : Executing(g) => attempts[g].pc = "queued"
    <3>1. AtRest /\ app.current # None /\ ~app.recoveryRequired
      BY <2>1 DEF Inv, AcceptsSaves, Gate
    <3>2. \A g \in Generations : Idles(g)
      BY <3>1 DEF AtRest, Idles, Pc
    <3> QED
      BY <3>1, <3>2 DEF Inv, Peace, Home, AtRest, Executing
  <2> QED
    BY <2>1 DEF SavesGoHome, Inv, Ledger
<1> QED
  BY <1>1, Invariance, PTL

\* The tracker and the runtime transaction: once every attempt has ended the gate is free, a
\* transition is left only under the recovery lockout, and otherwise the installed project,
\* the coordinator's document and the native slot agree.
THEOREM SettlesConsistently == Spec => []SettledConsistently
<1>1. Inv => SettledConsistently
  <2> SUFFICES ASSUME Inv, AtRest PROVE SettledConsistently
    BY DEF SettledConsistently
  <2>1. \A g \in Generations : Idles(g)
    BY DEF AtRest, Idles, Pc
  <2>2. Peace /\ Gate /\ InOrder
    BY <2>1 DEF Inv
  <2>3. latest = 0
    BY <2>2 DEF InOrder, AtRest, Pc, Generations, Generation, Inv, Types
  <2> QED
    BY <2>2, <2>3 DEF SettledConsistently, Peace, Home, Gate
<1> QED
  BY <1>1, Invariance, PTL
=============================================================================
