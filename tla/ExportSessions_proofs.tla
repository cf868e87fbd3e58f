--------------------- MODULE ExportSessions_proofs ---------------------
(***************************************************************************)
(* Proofs about ExportSessions, for any number of exports, targets and     *)
(* batches, any capacity and any number of troubles: a target is replaced  *)
(* only by the whole of one export, exportData() tells the truth about it, *)
(* and sessions and temporary files go together.                           *)
(*                                                                         *)
(* None of the three is inductive.  The flow, the call it awaits and the   *)
(* abort beside it interleave with the sweeps of other exports, so the     *)
(* invariant says which call a flow can be waiting for (FlowAwaits), that  *)
(* nobody meets a session before it is inserted (SetUpAlone), that the one *)
(* who seals a session has its file and its entry left to clear            *)
(* (SealedIsOwned), what the temporary file holds as long as finish() may  *)
(* still install it (FileMatches), and where the news of a replaced target *)
(* is on its way to the flow (InstalledIsTold).                            *)
(***************************************************************************)
EXTENDS ExportSessions, FiniteSetTheorems, WellFoundedInduction, TLAPS

Calls ==
  [op : {None}, pc : {None}]
    \cup [op : {"begin"}, pc : {"consume", "visit", "create", "insert", "page", "lock", "write",
                                "aborting"}]
    \cup [op : {"append"}, pc : {"get", "lock", "write"}]
    \cup [op : {"finish"}, pc : {"get", "seal", "mismatch", "replace", "dirsync", "fail", "leave"}]

Sessions ==
  [terminal : BOOLEAN, count : Nat, expected : Nat, old : BOOLEAN, ceiling : Nat, cursor : Nat]

Files == {NoFile} \cup [exists : {TRUE}, data : Seq(Nat)]
Contents == [by : Exports \cup {None}, content : Seq(Nat), confirmed : Nat]

\* The types of the variables.
Types ==
  /\ flow \in [Exports -> Busy \cup {"idle", "done", "gone"}]
  /\ cancelled \in [Exports -> BOOLEAN] /\ started \in [Exports -> BOOLEAN]
  /\ next \in [Exports -> Nat \ {0}]
  /\ result \in [Exports -> {None, "ok", "cancelled", "error"}]
  /\ grant \in [Exports -> {None, "live", "gone"}] /\ tgt \in [Exports -> Targets]
  /\ main \in [Exports -> Calls]
  /\ answer \in [Exports -> {None, "ok", "err"}]
  /\ aborter \in [Exports -> {None, "get", "lock", "remove", "ended"}]
  /\ sweep \in [Exports -> [visit : SUBSET Exports, expired : SUBSET Exports]]
  /\ sess \in [Exports -> Sessions]
  /\ table \subseteq Exports /\ active \subseteq Exports /\ stale \subseteq Exports
  /\ temp \in [Exports -> Files] /\ target \in [Targets -> Contents]
  /\ installed \subseteq Exports /\ unsynced \subseteq Exports /\ residue \subseteq Exports
  /\ log \in [first : Nat, last : Nat \ {0}]

\* The call a flow waits for: one at most, of the operation the flow is in, or its answer.
\* Only a begin from the durable source pages, and only an export without one appends.
FlowAwaits(e) ==
  /\ answer[e] # None => main[e].op = None
  /\ flow[e] \in {"idle", "selecting", "preparing", "aborting", "done"} =>
       main[e].op = None /\ answer[e] = None
  /\ flow[e] = "beginning" => main[e].op = "begin" \/ (main[e].op = None /\ answer[e] # None)
  /\ flow[e] = "appending" => main[e].op = "append" \/ (main[e].op = None /\ answer[e] # None)
  /\ flow[e] = "finishing" => main[e].op = "finish" \/ (main[e].op = None /\ answer[e] # None)
  /\ started[e] => flow[e] \in {"appending", "finishing", "aborting", "done", "gone"}
  /\ result[e] # None => flow[e] = "done"
  /\ main[e].op = "append" \/ flow[e] = "appending" => ~Sourced(e)
  /\ main[e].op = "begin" /\ main[e].pc \in {"page", "lock", "write"} => Sourced(e)

\* The export has not inserted its session yet.
Setting(e) ==
  \/ flow[e] \in {"idle", "selecting", "preparing"}
  \/ main[e].op = "begin" /\ main[e].pc \in {"consume", "visit", "create", "insert"}

\* Until then no table, sweep or abort knows the session, and its file is new or not there.
SetUpAlone(e) ==
  Setting(e) =>
    /\ e \notin table /\ e \notin active /\ e \notin stale /\ e \notin installed
    /\ aborter[e] = None
    /\ ~sess[e].terminal /\ ~sess[e].old /\ sess[e].count = 0 /\ sess[e].cursor = 0
    /\ \A b \in Exports : e \notin sweep[b].visit /\ e \notin sweep[b].expired
    /\ temp[e] = IF main[e].pc = "insert" THEN EmptyFile ELSE NoFile

\* finish() has sealed the session and not left it.
Ends(e) == main[e].pc \in {"mismatch", "replace", "dirsync", "fail", "leave"}

\* A finish, an abort or a sweep has the session's file and entry still to clear.
Owned(e) == Ends(e) \/ aborter[e] = "remove" \/ \E b \in Exports : e \in sweep[b].expired

\* A session in the table that nobody clears is open and has its file; one that is neither in
\* the table nor being cleared has left nothing.
SealedIsOwned(e) ==
  /\ main[e].pc = "write" => ~sess[e].terminal
  /\ Owned(e) => sess[e].terminal
  /\ \A b \in Exports : e \in sweep[b].expired => e \notin table
  /\ e \in table /\ ~sess[e].terminal => temp[e] # NoFile /\ e \in active
  /\ e \in table /\ ~Owned(e) => ~sess[e].terminal
  /\ e \notin table /\ ~Owned(e) /\ main[e].pc # "insert" =>
       e \notin active /\ (temp[e] # NoFile => e \in residue)
  /\ e \in installed => temp[e] = NoFile

\* n frames, in order, none of them torn; all of them before a frame.
Whole(s, n) == Len(s) = n /\ Increasing(s) /\ \A i \in DOMAIN s : s[i] # Torn
Before(s, n) == \A i \in DOMAIN s : s[i] < n

\* finish() may still come to install the file.
Relied(e) ==
  \/ main[e].op = "begin" /\ main[e].pc \in {"page", "lock", "write"}
  \/ main[e].op \in {"append", "finish"}
  \/ answer[e] = "ok" /\ flow[e] \in {"beginning", "appending"}

\* The file then holds what the counters say, all of it before the frame to be written next.
FileMatches(e) ==
  /\ main[e].op = "begin" /\ main[e].pc \in {"lock", "write"} => sess[e].cursor > 0
  /\ main[e].pc = "replace" => sess[e].count = sess[e].expected
  /\ temp[e].exists =>
       /\ Relied(e) => Whole(temp[e].data, sess[e].count)
       /\ main[e].op = "begin" /\ main[e].pc = "page" => Before(temp[e].data, sess[e].cursor + 1)
       /\ main[e].op = "begin" /\ main[e].pc \in {"lock", "write"} =>
            Before(temp[e].data, sess[e].cursor)
       /\ main[e].op = "append" => Before(temp[e].data, next[e])
       /\ answer[e] = "ok" /\ flow[e] = "appending" => Before(temp[e].data, next[e] + 1)
       /\ answer[e] = "ok" /\ flow[e] = "beginning" /\ ~Sourced(e) => Before(temp[e].data, 1)

\* A replaced target is known to the finish that replaced it, to its answer, to the result of
\* the flow, or was reported as unsynced; a flow that is gone hears nothing.
InstalledIsTold(e) ==
  /\ e \in installed =>
       \/ main[e].pc \in {"dirsync", "leave"}
       \/ main[e].pc = "fail" /\ e \in unsynced
       \/ /\ main[e].op = None
          /\ \/ e \in unsynced
             \/ flow[e] = "finishing" /\ answer[e] = "ok"
             \/ flow[e] = "done" /\ result[e] = "ok"
             \/ flow[e] = "gone"
  /\ e \in installed => flow[e] \in {"finishing", "aborting", "done", "gone"}
  /\ main[e].pc \in {"dirsync", "leave"} => e \in installed
  /\ answer[e] = "ok" /\ flow[e] = "finishing" => e \in installed
  /\ result[e] = "ok" => e \in installed

\* The invariant of one export.
Local(e) == FlowAwaits(e) /\ SetUpAlone(e) /\ SealedIsOwned(e) /\ FileMatches(e) /\ InstalledIsTold(e)

Inv == Types /\ (\A e \in Exports : Local(e)) /\ TargetIsWhole

-----------------------------------------------------------------------------
(* Calls, files and frames.                                                *)

\* The program counters of each operation.
LEMMA CallShape ==
  ASSUME NEW c \in Calls
  PROVE  /\ c.op \in {None, "begin", "append", "finish"}
         /\ c = [op |-> c.op, pc |-> c.pc]
         /\ c = Idle <=> c.op = None
         /\ c.op = None <=> c.pc = None
         /\ c.pc \in {"consume", "visit", "create", "insert", "page", "aborting"} => c.op = "begin"
         /\ c.pc \in {"lock", "write"} => c.op \in {"begin", "append"}
         /\ c.pc = "get" => c.op \in {"append", "finish"}
         /\ c.pc \in {"seal", "mismatch", "replace", "dirsync", "fail", "leave"} => c.op = "finish"
         /\ c.op = "begin" => c.pc \in {"consume", "visit", "create", "insert", "page", "lock",
                                        "write", "aborting"}
         /\ c.op = "append" => c.pc \in {"get", "lock", "write"}
BY DEF Calls, Idle, None

\* A call is moved to another point of its operation, ended or begun.
LEMMA CallMade ==
  ASSUME NEW op, NEW pc,
         \/ op = None /\ pc = None
         \/ op = "begin" /\ pc \in {"consume", "visit", "create", "insert", "page", "lock", "write",
                                    "aborting"}
         \/ op = "append" /\ pc \in {"get", "lock", "write"}
         \/ op = "finish" /\ pc \in {"get", "seal", "mismatch", "replace", "dirsync", "fail", "leave"}
  PROVE  [op |-> op, pc |-> pc] \in Calls
BY DEF Calls, None

\* A file that does not exist is the one with no data.
LEMMA FileShape ==
  ASSUME NEW f \in Files
  PROVE  /\ f.exists \in BOOLEAN /\ f.data \in Seq(Nat)
         /\ f # NoFile <=> f.exists
<1>1. CASE f = NoFile
  <2>1. NoFile.data = <<>> /\ NoFile.exists = FALSE
    BY DEF NoFile
  <2>2. f.exists = FALSE /\ f.data = <<>>
    BY <1>1, <2>1
  <2>3. <<>> \in Seq(Nat)
    OBVIOUS
  <2>4. f.exists \in BOOLEAN /\ ~f.exists
    BY <2>2, Zenon
  <2> QED BY <1>1, <2>2, <2>3, <2>4
<1>2. CASE f \in [exists : {TRUE}, data : Seq(Nat)]
  <2>1. NoFile.exists = FALSE
    BY DEF NoFile
  <2> QED BY <1>2, <2>1
<1> QED BY <1>1, <1>2 DEF Files

LEMMA FilesMade == NoFile \in Files /\ EmptyFile \in Files /\ EmptyFile.data = <<>> /\ EmptyFile.exists
BY DEF Files, NoFile, EmptyFile

\* A file just created holds nothing.
LEMMA NothingWritten ==
  ASSUME NEW n
  PROVE  Whole(<<>>, 0) /\ Before(<<>>, n)
BY DEF Whole, Before, Increasing

\* A frame behind all the others keeps the file whole.
LEMMA FrameWritten ==
  ASSUME NEW s \in Seq(Nat), NEW n \in Nat, NEW x \in Nat \ {0}, Whole(s, n), Before(s, x)
  PROVE  Whole(Append(s, x), n + 1) /\ Before(Append(s, x), x + 1)
<1> DEFINE t == Append(s, x)
<1>1. /\ t \in Seq(Nat) /\ Len(t) = Len(s) + 1 /\ t[Len(s) + 1] = x
      /\ \A i \in 1 .. Len(s) : t[i] = s[i] /\ s[i] \in Nat /\ s[i] < x /\ s[i] # Torn
      /\ DOMAIN t = 1 .. Len(s) + 1 /\ Len(s) \in Nat
  BY DEF Whole, Before
<1> HIDE DEF t
<1>2. \A i \in 1 .. Len(t) : i \in 1 .. Len(s) \/ i = Len(s) + 1
  BY <1>1
<1>3. Increasing(t)
  BY <1>1, <1>2 DEF Whole, Increasing
<1>4. \A i \in DOMAIN t : t[i] < x + 1 /\ t[i] # Torn
  <2> SUFFICES ASSUME NEW i \in DOMAIN t
               PROVE  t[i] < x + 1 /\ t[i] # Torn
    OBVIOUS
  <2>1. CASE i \in 1 .. Len(s)
    <3>1. t[i] \in Nat /\ t[i] < x /\ t[i] # Torn
      BY <1>1, <2>1
    <3> QED BY <3>1
  <2>2. CASE i = Len(s) + 1
    BY <1>1, <2>2 DEF Torn
  <2> QED BY <1>1, <1>2, <2>1, <2>2
<1> QED BY <1>1, <1>3, <1>4 DEF Whole, Before, t

LEMMA BeforeLater ==
  ASSUME NEW s \in Seq(Nat), NEW n \in Nat, NEW m \in Nat, n <= m, Before(s, n)
  PROVE  Before(s, m)
BY DEF Before

\* A set of numbers that is not empty has a least one.
LEMMA Least ==
  ASSUME NEW S \in SUBSET Nat, S # {}
  PROVE  LET m == CHOOSE i \in S : \A j \in S : i <= j IN m \in S
<1>1. \E x \in S : \A y \in S : ~(<<y, x>> \in OpToRel(<, Nat))
  BY WFMin, NatLessThanWellFounded
<1>2. \A x, y \in S : y < x => <<y, x>> \in OpToRel(<, Nat)
  BY DEF OpToRel
<1>3. PICK x \in S : \A y \in S : ~(y < x)
  BY <1>1, <1>2, Zenon
<1>4. \A y \in S : x <= y
  BY <1>3
<1> QED BY <1>4

-----------------------------------------------------------------------------
(* A step of one export.                                                   *)

\* What the type says of a call.
Shaped(e) ==
  /\ main[e].op \in {None, "begin", "append", "finish"}
  /\ main[e].op = None <=> main[e].pc = None
  /\ main[e].pc \in {"consume", "visit", "create", "insert", "page", "aborting"} => main[e].op = "begin"
  /\ main[e].pc \in {"lock", "write"} => main[e].op \in {"begin", "append"}
  /\ main[e].pc = "get" => main[e].op \in {"append", "finish"}
  /\ main[e].pc \in {"seal", "mismatch", "replace", "dirsync", "fail", "leave"} => main[e].op = "finish"

LEMMA Here ==
  ASSUME Inv, NEW e \in Exports
  PROVE  Types /\ Local(e) /\ Shaped(e)
<1>1. main[e] \in Calls
  BY DEF Inv, Types
<1> QED BY <1>1, CallShape DEF Inv, Shaped

\* An export that a step leaves alone: a sweep may at most come to visit it in the table.
Same(x) ==
  /\ flow'[x] = flow[x] /\ (started'[x] <=> started[x]) /\ next'[x] = next[x] /\ result'[x] = result[x]
  /\ main'[x] = main[x] /\ answer'[x] = answer[x] /\ aborter'[x] = aborter[x]
  /\ sess'[x] = sess[x] /\ temp'[x] = temp[x]
  /\ x \in table' <=> x \in table
  /\ x \in active' <=> x \in active
  /\ x \in stale' <=> x \in stale
  /\ x \in installed' <=> x \in installed
  /\ x \in unsynced' <=> x \in unsynced
  /\ x \in residue' <=> x \in residue
  /\ \A b \in Exports :
       /\ x \in sweep'[b].visit => x \in sweep[b].visit \/ x \in table
       /\ x \in sweep'[b].expired <=> x \in sweep[b].expired

\* Its part of the invariant holds on.
LEMMA SameStays ==
  ASSUME Inv, NEW x \in Exports, Same(x)
  PROVE  Local(x)'
<1>0. Local(x)
  BY DEF Inv
<1>1. FlowAwaits(x)'
  BY <1>0 DEF Local, FlowAwaits, Same, Sourced
<1>2. SetUpAlone(x)'
  BY <1>0 DEF Local, SetUpAlone, Setting, Same
<1>3. SealedIsOwned(x)'
  BY <1>0 DEF Local, SealedIsOwned, Owned, Ends, Same
<1>4. FileMatches(x)'
  BY <1>0 DEF Local, FileMatches, Relied, Same, Sourced
<1>5. InstalledIsTold(x)'
  BY <1>0 DEF Local, InstalledIsTold, Same
<1> QED BY <1>1, <1>2, <1>3, <1>4, <1>5 DEF Local

LEMMA OneChanges ==
  ASSUME Inv, NEW e \in Exports, \A x \in Exports : x # e => Same(x), Types', Local(e)', TargetIsWhole'
  PROVE  Inv'
<1>1. \A x \in Exports : x # e => Local(x)'
  BY SameStays
<1> QED BY <1>1 DEF Inv

-----------------------------------------------------------------------------
(* What a step does to a call, to its answer and to a flow.                *)

Moves(e, op, pc) ==
  /\ main' \in [Exports -> Calls] /\ main'[e].op = op /\ main'[e].pc = pc
  /\ \A x \in Exports : x # e => main'[x] = main[x]

Answers(e, a) ==
  /\ answer' \in [Exports -> {None, "ok", "err"}] /\ answer'[e] = a
  /\ \A x \in Exports : x # e => answer'[x] = answer[x]

Flows(e, f) ==
  /\ flow' \in [Exports -> Busy \cup {"idle", "done", "gone"}] /\ flow'[e] = f
  /\ \A x \in Exports : x # e => flow'[x] = flow[x]

Results(e, r) ==
  /\ result' \in [Exports -> {None, "ok", "cancelled", "error"}] /\ result'[e] = r
  /\ \A x \in Exports : x # e => result'[x] = result[x]

LEMMA GotoIs ==
  ASSUME Inv, NEW e \in Exports, NEW p, Goto(e, p), [op |-> main[e].op, pc |-> p] \in Calls
  PROVE  Moves(e, main[e].op, p)
<1>1. main \in [Exports -> Calls] /\ main[e] = [op |-> main[e].op, pc |-> main[e].pc]
  BY CallShape DEF Inv, Types
<1>2. [main[e] EXCEPT !.pc = p] = [op |-> main[e].op, pc |-> p]
  BY <1>1
<1>3. main' = [main EXCEPT ![e] = [op |-> main[e].op, pc |-> p]]
  BY <1>2 DEF Goto
<1> QED BY <1>1, <1>3 DEF Moves

LEMMA ReturnIs ==
  ASSUME Inv, NEW e \in Exports, NEW a \in {None, "ok", "err"}, Return(e, a)
  PROVE  Moves(e, None, None) /\ Answers(e, a)
<1>1. main \in [Exports -> Calls] /\ answer \in [Exports -> {None, "ok", "err"}] /\ Idle \in Calls
  BY CallMade DEF Inv, Types, Idle
<1>2. Idle.op = None /\ Idle.pc = None
  BY DEF Idle
<1> QED BY <1>1, <1>2 DEF Return, Moves, Answers

LEMMA CallIs ==
  ASSUME Inv, NEW e \in Exports, NEW op, NEW pc, [op |-> op, pc |-> pc] \in Calls,
         main' = [main EXCEPT ![e] = [op |-> op, pc |-> pc]]
  PROVE  Moves(e, op, pc)
<1>1. main \in [Exports -> Calls]
  BY DEF Inv, Types
<1> QED BY <1>1 DEF Moves

LEMMA FlowIs ==
  ASSUME Inv, NEW e \in Exports, NEW f \in Busy \cup {"done", "gone"}, flow' = [flow EXCEPT ![e] = f]
  PROVE  Flows(e, f)
BY DEF Inv, Types, Flows

LEMMA EndIs ==
  ASSUME Inv, NEW e \in Exports, NEW r \in {"ok", "cancelled", "error"}, End(e, r)
  PROVE  Flows(e, "done") /\ Results(e, r)
BY DEF Inv, Types, Flows, Results, End

LEMMA RevokedType ==
  ASSUME Inv, NEW e \in Exports
  PROVE  Revoked(e) \in [Exports -> {None, "live", "gone"}]
BY DEF Inv, Types, Revoked

LEMMA AnswerIs ==
  ASSUME Inv, NEW e \in Exports, answer' = [answer EXCEPT ![e] = None]
  PROVE  Answers(e, None)
BY DEF Inv, Types, Answers

\* The one abort of an export is called, unless it was before.
Aborts(e) ==
  /\ aborter' \in [Exports -> {None, "get", "lock", "remove", "ended"}]
  /\ aborter'[e] = IF aborter[e] = None THEN "get" ELSE aborter[e]
  /\ \A x \in Exports : x # e => aborter'[x] = aborter[x]

LEMMA CallAbortIs ==
  ASSUME Inv, NEW e \in Exports, CallAbort(e)
  PROVE  Aborts(e)
BY DEF Inv, Types, Aborts, CallAbort

LEMMA GiveUpIs ==
  ASSUME Inv, NEW e \in Exports, GiveUp(e)
  PROVE  Flows(e, "aborting") /\ Aborts(e) /\ Answers(e, None)
BY FlowIs, CallAbortIs, AnswerIs DEF GiveUp, Busy

-----------------------------------------------------------------------------
(* The renderer.                                                           *)

LEMMA StartExportInv ==
  ASSUME Inv, NEW e \in Exports, StartExport(e)
  PROVE  Inv'
<1>f. UNCHANGED <<cancelled, started, next, result, grant, tgt, main, answer, aborter, sweep, sess,
                  table, active, temp, stale, target, installed, unsynced, residue, capacity, log>>
  BY DEF StartExport, rendererVars, callVars, sessionVars, diskVars, worldVars
<1>i. Types /\ Local(e) /\ Shaped(e)
  BY Here
<1>a. flow[e] = "idle" /\ Flows(e, "selecting")
  BY FlowIs DEF StartExport, Busy
<1>o. \A x \in Exports : x # e => Same(x)
  BY <1>f, <1>a DEF Same, Moves, Answers, Flows, Results, Aborts
<1>t. Types'
  BY <1>f, <1>i, <1>a DEF Types, Moves, Answers, Flows, Results, Aborts
<1>w. TargetIsWhole'
  BY <1>f DEF Inv, TargetIsWhole
<1>1. FlowAwaits(e)'
  BY <1>f, <1>i, <1>a
  DEF Local, Types, Shaped, FlowAwaits, Sourced, Moves, Answers, Flows, Results, Aborts, None
<1>2. SetUpAlone(e)'
  BY <1>f, <1>i, <1>a
  DEF Local, Types, Shaped, FlowAwaits, SetUpAlone, Setting, Moves, Answers, Flows, Results,
       Aborts, None
<1>3. SealedIsOwned(e)'
  BY <1>f, <1>i, <1>a
  DEF Local, Types, Shaped, SealedIsOwned, Owned, Ends, Moves, Answers, Flows, Results, Aborts,
       None
<1>4. FileMatches(e)'
  BY <1>f, <1>i, <1>a
  DEF Local, Types, Shaped, FlowAwaits, FileMatches, Relied, Sourced, Moves, Answers, Flows,
       Results, Aborts, None
<1>5. InstalledIsTold(e)'
  BY <1>f, <1>i, <1>a
  DEF Local, Types, Shaped, FlowAwaits, InstalledIsTold, Moves, Answers, Flows, Results,
       Aborts, None
<1> QED
  BY <1>o, <1>t, <1>w, <1>1, <1>2, <1>3, <1>4, <1>5, OneChanges DEF Local

LEMMA GrantExpiresInv ==
  ASSUME Inv, NEW e \in Exports, GrantExpires(e)
  PROVE  Inv'
<1>f. UNCHANGED <<flow, cancelled, started, next, result, tgt, main, answer, aborter, sweep, sess,
                  table, active, temp, stale, target, installed, unsynced, residue, capacity, log>>
  BY DEF GrantExpires, rendererVars, callVars, sessionVars, diskVars, worldVars
<1>i. Types /\ Local(e) /\ Shaped(e)
  BY Here
<1>a. grant' \in [Exports -> {None, "live", "gone"}]
  BY DEF Inv, Types, GrantExpires
<1>o. \A x \in Exports : x # e => Same(x)
  BY <1>f, <1>a DEF Same, Moves, Answers, Flows, Results, Aborts
<1>t. Types'
  BY <1>f, <1>i, <1>a DEF Types, Moves, Answers, Flows, Results, Aborts
<1>w. TargetIsWhole'
  BY <1>f DEF Inv, TargetIsWhole
<1>1. FlowAwaits(e)'
  BY <1>f, <1>i, <1>a
  DEF Local, Types, Shaped, FlowAwaits, Sourced, Moves, Answers, Flows, Results, Aborts, None
<1>2. SetUpAlone(e)'
  BY <1>f, <1>i, <1>a
  DEF Local, Types, Shaped, FlowAwaits, SetUpAlone, Setting, Moves, Answers, Flows, Results,
       Aborts, None
<1>3. SealedIsOwned(e)'
  BY <1>f, <1>i, <1>a
  DEF Local, Types, Shaped, SealedIsOwned, Owned, Ends, Moves, Answers, Flows, Results, Aborts,
       None
<1>4. FileMatches(e)'
  BY <1>f, <1>i, <1>a
  DEF Local, Types, Shaped, FlowAwaits, FileMatches, Relied, Sourced, Moves, Answers, Flows,
       Results, Aborts, None
<1>5. InstalledIsTold(e)'
  BY <1>f, <1>i, <1>a
  DEF Local, Types, Shaped, FlowAwaits, InstalledIsTold, Moves, Answers, Flows, Results,
       Aborts, None
<1> QED
  BY <1>o, <1>t, <1>w, <1>1, <1>2, <1>3, <1>4, <1>5, OneChanges DEF Local

LEMMA RendererGoneInv ==
  ASSUME Inv, NEW e \in Exports, RendererGone(e)
  PROVE  Inv'
<1>f. UNCHANGED <<cancelled, started, next, result, grant, tgt, main, answer, aborter, sweep, sess,
                  table, active, temp, stale, target, installed, unsynced, residue, capacity, log>>
  BY DEF RendererGone, rendererVars, callVars, sessionVars, diskVars, worldVars
<1>i. Types /\ Local(e) /\ Shaped(e)
  BY Here
<1>a. flow[e] \notin {"idle", "done"} /\ Flows(e, "gone")
  BY FlowIs DEF RendererGone, Busy
<1>o. \A x \in Exports : x # e => Same(x)
  BY <1>f, <1>a DEF Same, Moves, Answers, Flows, Results, Aborts
<1>t. Types'
  BY <1>f, <1>i, <1>a DEF Types, Moves, Answers, Flows, Results, Aborts
<1>w. TargetIsWhole'
  BY <1>f DEF Inv, TargetIsWhole
<1>1. FlowAwaits(e)'
  BY <1>f, <1>i, <1>a
  DEF Local, Types, Shaped, FlowAwaits, Sourced, Moves, Answers, Flows, Results, Aborts, None
<1>2. SetUpAlone(e)'
  BY <1>f, <1>i, <1>a
  DEF Local, Types, Shaped, FlowAwaits, SetUpAlone, Setting, Moves, Answers, Flows, Results,
       Aborts, None
<1>3. SealedIsOwned(e)'
  BY <1>f, <1>i, <1>a
  DEF Local, Types, Shaped, SealedIsOwned, Owned, Ends, Moves, Answers, Flows, Results, Aborts,
       None
<1>4. FileMatches(e)'
  BY <1>f, <1>i, <1>a
  DEF Local, Types, Shaped, FlowAwaits, FileMatches, Relied, Sourced, Moves, Answers, Flows,
       Results, Aborts, None
<1>5. InstalledIsTold(e)'
  BY <1>f, <1>i, <1>a
  DEF Local, Types, Shaped, FlowAwaits, InstalledIsTold, Moves, Answers, Flows, Results,
       Aborts, None
<1> QED
  BY <1>o, <1>t, <1>w, <1>1, <1>2, <1>3, <1>4, <1>5, OneChanges DEF Local

LEMMA CancelExportInv ==
  ASSUME Inv, NEW e \in Exports, CancelExport(e)
  PROVE  Inv'
<1>f. UNCHANGED <<flow, started, next, result, grant, tgt, main, answer, sweep, sess, table, active,
                  temp, stale, target, installed, unsynced, residue, capacity, log>>
  BY DEF CancelExport, rendererVars, callVars, sessionVars, diskVars, worldVars
<1>i. Types /\ Local(e) /\ Shaped(e)
  BY Here
<1>a. cancelled' \in [Exports -> BOOLEAN] /\ flow[e] \notin {"idle", "done", "gone"}
  BY DEF Inv, Types, CancelExport, Busy
<1>b. UNCHANGED aborter \/ (started[e] /\ Aborts(e))
  BY CallAbortIs DEF CancelExport
<1>c. started[e] => ~Setting(e)
  BY <1>a, <1>i DEF Local, FlowAwaits, Setting, Shaped, None
<1>o. \A x \in Exports : x # e => Same(x)
  BY <1>f, <1>a, <1>b, <1>c DEF Same, Moves, Answers, Flows, Results, Aborts
<1>t. Types'
  BY <1>f, <1>i, <1>a, <1>b, <1>c DEF Types, Moves, Answers, Flows, Results, Aborts
<1>w. TargetIsWhole'
  BY <1>f DEF Inv, TargetIsWhole
<1>1. FlowAwaits(e)'
  BY <1>f, <1>i, <1>a, <1>b, <1>c
  DEF Local, Types, Shaped, FlowAwaits, Sourced, Moves, Answers, Flows, Results, Aborts, None
<1>2. SetUpAlone(e)'
  BY <1>f, <1>i, <1>a, <1>b, <1>c
  DEF Local, Types, Shaped, FlowAwaits, SetUpAlone, Setting, Moves, Answers, Flows, Results,
       Aborts, None
<1>3. SealedIsOwned(e)'
  BY <1>f, <1>i, <1>a, <1>b, <1>c
  DEF Local, Types, Shaped, SealedIsOwned, Owned, Ends, Moves, Answers, Flows, Results, Aborts,
       None
<1>4. FileMatches(e)'
  BY <1>f, <1>i, <1>a, <1>b, <1>c
  DEF Local, Types, Shaped, FlowAwaits, FileMatches, Relied, Sourced, Moves, Answers, Flows,
       Results, Aborts, None
<1>5. InstalledIsTold(e)'
  BY <1>f, <1>i, <1>a, <1>b, <1>c
  DEF Local, Types, Shaped, FlowAwaits, InstalledIsTold, Moves, Answers, Flows, Results,
       Aborts, None
<1> QED
  BY <1>o, <1>t, <1>w, <1>1, <1>2, <1>3, <1>4, <1>5, OneChanges DEF Local

LEMMA SelectTargetInv ==
  ASSUME Inv, NEW e \in Exports, SelectTarget(e)
  PROVE  Inv'
<1>f. UNCHANGED <<cancelled, started, next, aborter, sweep, sess, table, active, temp, stale,
                  target, installed, unsynced, residue, capacity, log>>
  BY DEF SelectTarget, rendererVars, callVars, sessionVars, diskVars, worldVars
<1>i. Types /\ Local(e) /\ Shaped(e)
  BY Here
<1>a. flow[e] = "selecting" /\ Setting(e)
  BY DEF SelectTarget, Setting
<1>b. grant' \in [Exports -> {None, "live", "gone"}]
  BY DEF Inv, Types, SelectTarget, Issue
<1>c. tgt' \in [Exports -> Targets]
  <2>1. Choices[e] \subseteq Targets /\ tgt \in [Exports -> Targets]
    BY ChoicesAssumption DEF Inv, Types
  <2>2. UNCHANGED tgt \/ \E t \in Choices[e] : tgt' = [tgt EXCEPT ![e] = t]
    BY DEF SelectTarget
  <2> QED BY <2>1, <2>2
<1>d. /\ UNCHANGED answer
      /\ \/ Flows(e, "done") /\ Results(e, "cancelled") /\ UNCHANGED main
         \/ Flows(e, "preparing") /\ UNCHANGED <<result, main>>
         \/ Flows(e, "beginning") /\ UNCHANGED result /\ Moves(e, "begin", "consume")
  <2>1. CASE End(e, "cancelled") /\ UNCHANGED <<main, answer>>
    BY <2>1, EndIs
  <2>2. CASE flow' = [flow EXCEPT ![e] = "preparing"] /\ UNCHANGED <<result, main, answer>>
    BY <2>2, FlowIs DEF Busy
  <2>3. CASE CallBegin(e) /\ UNCHANGED result
    <3>1. Flows(e, "beginning")
      BY <2>3, FlowIs DEF Busy, CallBegin
    <3>2. Moves(e, "begin", "consume") /\ UNCHANGED answer
      BY <2>3, CallIs, CallMade DEF CallBegin, Call
    <3> QED BY <2>3, <3>1, <3>2
  <2> QED BY <2>1, <2>2, <2>3 DEF SelectTarget
<1>e. main[e].op = None /\ main[e].pc = None /\ answer[e] = None /\ e \notin installed /\ temp[e] = NoFile
  BY <1>a, <1>i DEF Local, SetUpAlone, FlowAwaits, Shaped, None
<1>o. \A x \in Exports : x # e => Same(x)
  BY <1>f, <1>a, <1>b, <1>c, <1>d, <1>e DEF Same, Moves, Answers, Flows, Results, Aborts
<1>t. Types'
  BY <1>f, <1>i, <1>a, <1>b, <1>c, <1>d, <1>e DEF Types, Moves, Answers, Flows, Results, Aborts
<1>w. TargetIsWhole'
  BY <1>f DEF Inv, TargetIsWhole
<1>1. FlowAwaits(e)'
  BY <1>f, <1>i, <1>a, <1>b, <1>c, <1>d, <1>e
  DEF Local, Types, Shaped, FlowAwaits, Sourced, Moves, Answers, Flows, Results, Aborts, None
<1>2. SetUpAlone(e)'
  BY <1>f, <1>i, <1>a, <1>b, <1>c, <1>d, <1>e
  DEF Local, Types, Shaped, FlowAwaits, SetUpAlone, Setting, Moves, Answers, Flows, Results,
       Aborts, None
<1>3. SealedIsOwned(e)'
  BY <1>f, <1>i, <1>a, <1>b, <1>c, <1>d, <1>e
  DEF Local, Types, Shaped, SealedIsOwned, Owned, Ends, Moves, Answers, Flows, Results, Aborts,
       None
<1>4. FileMatches(e)'
  BY <1>f, <1>i, <1>a, <1>b, <1>c, <1>d, <1>e
  DEF Local, Types, Shaped, FlowAwaits, FileMatches, Relied, Sourced, Moves, Answers, Flows,
       Results, Aborts, None
<1>5. InstalledIsTold(e)'
  BY <1>f, <1>i, <1>a, <1>b, <1>c, <1>d, <1>e
  DEF Local, Types, Shaped, FlowAwaits, InstalledIsTold, Moves, Answers, Flows, Results,
       Aborts, None
<1> QED
  BY <1>o, <1>t, <1>w, <1>1, <1>2, <1>3, <1>4, <1>5, OneChanges DEF Local

\* The flow goes on to a batch or to finish(), or gives up.
Continues(e, batch) ==
  /\ next' \in [Exports -> Nat \ {0}] /\ next'[e] = batch
  /\ \A x \in Exports : x # e => next'[x] = next[x]
  /\ Answers(e, None)
  /\ \/ Flows(e, "aborting") /\ Aborts(e) /\ UNCHANGED main
     \/ batch <= Batches /\ Flows(e, "appending") /\ Moves(e, "append", "get") /\ UNCHANGED aborter
     \/ Flows(e, "finishing") /\ Moves(e, "finish", "get") /\ UNCHANGED aborter

LEMMA ContinueIs ==
  ASSUME Inv, NEW e \in Exports, NEW batch \in Nat \ {0}, Continue(e, batch)
  PROVE  Continues(e, batch)
<1>1. /\ next' \in [Exports -> Nat \ {0}] /\ next'[e] = batch
      /\ \A x \in Exports : x # e => next'[x] = next[x]
  BY DEF Inv, Types, Continue
<1>2. CASE cancelled[e]
  BY <1>1, <1>2, GiveUpIs DEF Continue, Continues
<1>3. CASE ~cancelled[e] /\ batch <= Batches
  <2>1. /\ main' = [main EXCEPT ![e] = [op |-> "append", pc |-> "get"]]
        /\ flow' = [flow EXCEPT ![e] = "appending"]
        /\ answer' = [answer EXCEPT ![e] = None] /\ UNCHANGED aborter
    BY <1>3 DEF Continue
  <2>2. Moves(e, "append", "get") /\ Flows(e, "appending") /\ Answers(e, None)
    BY <2>1, CallIs, CallMade, FlowIs, AnswerIs DEF Busy
  <2> QED BY <1>1, <1>3, <2>1, <2>2 DEF Continues
<1>4. CASE ~cancelled[e] /\ ~(batch <= Batches)
  <2>1. /\ main' = [main EXCEPT ![e] = [op |-> "finish", pc |-> "get"]]
        /\ flow' = [flow EXCEPT ![e] = "finishing"]
        /\ answer' = [answer EXCEPT ![e] = None] /\ UNCHANGED aborter
    BY <1>4 DEF Continue
  <2>2. Moves(e, "finish", "get") /\ Flows(e, "finishing") /\ Answers(e, None)
    BY <2>1, CallIs, CallMade, FlowIs, AnswerIs DEF Busy
  <2> QED BY <1>1, <2>1, <2>2 DEF Continues
<1> QED BY <1>2, <1>3, <1>4

\* An export that waits for an answer has no call, and is in a state of its own.
LEMMA Awaiting ==
  ASSUME Inv, NEW e \in Exports, answer[e] # None
  PROVE  main[e].op = None /\ main[e].pc = None /\ ~(flow[e] \in {"idle", "selecting", "preparing"})
         /\ ~Setting(e)
BY Here DEF Local, FlowAwaits, Shaped, Setting, None

LEMMA PrepareInv ==
  ASSUME Inv, NEW e \in Exports, Prepare(e)
  PROVE  Inv'
<1>f. UNCHANGED <<cancelled, started, next, tgt, aborter, sweep, table, active, temp, stale, target,
                  installed, unsynced, residue, capacity, log>>
  BY DEF Prepare, rendererVars, callVars, sessionVars, diskVars, worldVars
<1>i. Types /\ Local(e) /\ Shaped(e)
  BY Here
<1>a. flow[e] = "preparing" /\ Setting(e)
  BY DEF Prepare, Setting
<1>b. grant' \in [Exports -> {None, "live", "gone"}]
  BY RevokedType DEF Inv, Types, Prepare
<1>c. /\ sess' \in [Exports -> Sessions] /\ \A x \in Exports : x # e => sess'[x] = sess[x]
      /\ sess'[e].terminal = sess[e].terminal /\ sess'[e].old = sess[e].old
      /\ sess'[e].count = sess[e].count /\ sess'[e].cursor = sess[e].cursor
  <2>1. sess \in [Exports -> Sessions] /\ log.last \in Nat
    BY DEF Inv, Types
  <2>2. UNCHANGED sess \/ \E c \in {0, log.last} : sess' = [sess EXCEPT ![e].ceiling = c]
    BY DEF Prepare
  <2> QED BY <2>1, <2>2 DEF Sessions
<1>d. /\ UNCHANGED answer
      /\ \/ Flows(e, "done") /\ Results(e, "cancelled") /\ UNCHANGED main
         \/ Flows(e, "beginning") /\ UNCHANGED result /\ Moves(e, "begin", "consume")
  <2>1. CASE End(e, "cancelled") /\ UNCHANGED <<main, answer>>
    BY <2>1, EndIs
  <2>2. CASE CallBegin(e) /\ UNCHANGED result
    <3>1. Flows(e, "beginning")
      BY <2>2, FlowIs DEF Busy, CallBegin
    <3>2. Moves(e, "begin", "consume") /\ UNCHANGED answer
      BY <2>2, CallIs, CallMade DEF CallBegin, Call
    <3> QED BY <2>2, <3>1, <3>2
  <2> QED BY <2>1, <2>2 DEF Prepare
<1>e. main[e].op = None /\ main[e].pc = None /\ answer[e] = None /\ e \notin installed /\ temp[e] = NoFile
  BY <1>a, <1>i DEF Local, SetUpAlone, FlowAwaits, Shaped, None
<1>o. \A x \in Exports : x # e => Same(x)
  BY <1>f, <1>a, <1>b, <1>c, <1>d, <1>e DEF Same, Moves, Answers, Flows, Results, Aborts, Continues
<1>t. Types'
  BY <1>f, <1>i, <1>a, <1>b, <1>c, <1>d, <1>e DEF Types, Moves, Answers, Flows, Results, Aborts, Continues
<1>w. TargetIsWhole'
  BY <1>f DEF Inv, TargetIsWhole
<1>1. FlowAwaits(e)'
  BY <1>f, <1>i, <1>a, <1>b, <1>c, <1>d, <1>e
  DEF Local, Types, Shaped, FlowAwaits, Sourced, Moves, Answers, Flows, Results, Aborts,
       Continues, None
<1>2. SetUpAlone(e)'
  BY <1>f, <1>i, <1>a, <1>b, <1>c, <1>d, <1>e
  DEF Local, Types, Shaped, FlowAwaits, SetUpAlone, Setting, Moves, Answers, Flows, Results,
       Aborts, Continues, None
<1>3. SealedIsOwned(e)'
  BY <1>f, <1>i, <1>a, <1>b, <1>c, <1>d, <1>e
  DEF Local, Types, Shaped, SealedIsOwned, Owned, Ends, Moves, Answers, Flows, Results, Aborts,
       Continues, None
<1>4. FileMatches(e)'
  BY <1>f, <1>i, <1>a, <1>b, <1>c, <1>d, <1>e
  DEF Local, Types, Shaped, FlowAwaits, FileMatches, Relied, Sourced, Moves, Answers, Flows,
       Results, Aborts, Continues, None
<1>5. InstalledIsTold(e)'
  BY <1>f, <1>i, <1>a, <1>b, <1>c, <1>d, <1>e
  DEF Local, Types, Shaped, FlowAwaits, InstalledIsTold, Moves, Answers, Flows, Results,
       Aborts, Continues, None
<1> QED
  BY <1>o, <1>t, <1>w, <1>1, <1>2, <1>3, <1>4, <1>5, OneChanges DEF Local

LEMMA BeginReturnsInv ==
  ASSUME Inv, NEW e \in Exports, BeginReturns(e)
  PROVE  Inv'
<1>f. UNCHANGED <<cancelled, tgt, sweep, sess, table, active, temp, stale, target, installed,
                  unsynced, residue, capacity, log>>
  BY DEF BeginReturns, rendererVars, callVars, sessionVars, diskVars, worldVars
<1>i. Types /\ Local(e) /\ Shaped(e)
  BY Here
<1>a. /\ flow[e] = "beginning" /\ answer[e] # None /\ main[e].op = None /\ main[e].pc = None
      /\ ~Setting(e) /\ Batches \in Nat
  BY Awaiting, BatchesAssumption DEF BeginReturns
<1>b. /\ grant' \in [Exports -> {None, "live", "gone"}] /\ started' \in [Exports -> BOOLEAN]
      /\ \A x \in Exports : x # e => (started'[x] <=> started[x])
  <2>1. grant \in [Exports -> {None, "live", "gone"}] /\ started \in [Exports -> BOOLEAN]
    BY DEF Inv, Types
  <2>2. UNCHANGED grant \/ grant' = Revoked(e)
    BY DEF BeginReturns
  <2>3. UNCHANGED started \/ started' = [started EXCEPT ![e] = TRUE]
    BY DEF BeginReturns
  <2>4. grant' \in [Exports -> {None, "live", "gone"}]
    BY <2>1, <2>2, RevokedType
  <2> QED BY <2>1, <2>3, <2>4
<1>c. \/ /\ answer[e] = "ok" /\ UNCHANGED result
         /\ Continues(e, IF Sourced(e) THEN Batches + 1 ELSE 1)
      \/ /\ Flows(e, "done") /\ (Results(e, "cancelled") \/ Results(e, "error")) /\ Answers(e, None)
         /\ UNCHANGED <<started, next, main, aborter>>
  <2>1. CASE answer[e] = "ok"
    BY <1>a, <2>1, ContinueIs DEF BeginReturns
  <2>2. CASE answer[e] # "ok"
    <3>1. /\ End(e, IF cancelled[e] THEN "cancelled" ELSE "error")
          /\ answer' = [answer EXCEPT ![e] = None] /\ UNCHANGED <<started, next, main, aborter>>
      BY <2>2 DEF BeginReturns
    <3> QED BY <3>1, EndIs, AnswerIs
  <2> QED BY <2>1, <2>2
<1>d. /\ \/ main'[e].op = None /\ main'[e].pc = None
         \/ answer[e] = "ok" /\ main'[e].op \in {"append", "finish"} /\ main'[e].pc = "get"
      /\ main'[e].op = "append" => ~Sourced(e) /\ next'[e] = 1
      /\ answer'[e] = None /\ UNCHANGED <<sess, temp>>
  BY <1>f, <1>a, <1>c DEF Continues, Moves, Answers, None
<1>o. \A x \in Exports : x # e => Same(x)
  BY <1>f, <1>a, <1>b, <1>c, <1>d DEF Same, Moves, Answers, Flows, Results, Aborts, Continues
<1>t. Types'
  BY <1>f, <1>i, <1>a, <1>b, <1>c, <1>d DEF Types, Moves, Answers, Flows, Results, Aborts, Continues
<1>w. TargetIsWhole'
  BY <1>f DEF Inv, TargetIsWhole
<1>1. FlowAwaits(e)'
  BY <1>f, <1>i, <1>a, <1>b, <1>c, <1>d
  DEF Local, Types, Shaped, FlowAwaits, Sourced, Moves, Answers, Flows, Results, Aborts,
       Continues, None
<1>2. SetUpAlone(e)'
  BY <1>f, <1>i, <1>a, <1>b, <1>c, <1>d
  DEF Local, Types, Shaped, FlowAwaits, SetUpAlone, Setting, Moves, Answers, Flows, Results,
       Aborts, Continues, None
<1>3. SealedIsOwned(e)'
  BY <1>f, <1>i, <1>a, <1>b, <1>c, <1>d
  DEF Local, Types, Shaped, SealedIsOwned, Owned, Ends, Moves, Answers, Flows, Results, Aborts,
       Continues, None
<1>4. FileMatches(e)'
  BY <1>a, <1>d, <1>i DEF Local, FileMatches, Relied, Sourced, None
<1>5. InstalledIsTold(e)'
  BY <1>f, <1>i, <1>a, <1>b, <1>c, <1>d
  DEF Local, Types, Shaped, FlowAwaits, InstalledIsTold, Moves, Answers, Flows, Results,
       Aborts, Continues, None
<1> QED
  BY <1>o, <1>t, <1>w, <1>1, <1>2, <1>3, <1>4, <1>5, OneChanges DEF Local

LEMMA AppendReturnsInv ==
  ASSUME Inv, NEW e \in Exports, AppendReturns(e)
  PROVE  Inv'
<1>f. UNCHANGED <<cancelled, started, result, grant, tgt, sweep, sess, table, active, temp, stale,
                  target, installed, unsynced, residue, capacity, log>>
  BY DEF AppendReturns, rendererVars, callVars, sessionVars, diskVars, worldVars
<1>i. Types /\ Local(e) /\ Shaped(e)
  BY Here
<1>a. /\ flow[e] = "appending" /\ answer[e] # None /\ main[e].op = None /\ main[e].pc = None
      /\ ~Setting(e) /\ next[e] \in Nat
  BY Awaiting DEF AppendReturns, Inv, Types
<1>b. \/ answer[e] = "ok" /\ Continues(e, next[e] + 1)
      \/ Flows(e, "aborting") /\ Aborts(e) /\ Answers(e, None) /\ UNCHANGED <<next, main>>
  <2>1. CASE answer[e] = "ok"
    BY <1>a, <2>1, ContinueIs DEF AppendReturns
  <2>2. CASE answer[e] # "ok"
    BY <2>2, GiveUpIs DEF AppendReturns
  <2> QED BY <2>1, <2>2
<1>c. /\ \/ main'[e].op = None /\ main'[e].pc = None
         \/ answer[e] = "ok" /\ main'[e].op \in {"append", "finish"} /\ main'[e].pc = "get"
      /\ main'[e].op = "append" => next'[e] = next[e] + 1
      /\ answer'[e] = None /\ UNCHANGED <<sess, temp>>
  BY <1>f, <1>a, <1>b DEF Continues, Moves, Answers, None
<1>o. \A x \in Exports : x # e => Same(x)
  BY <1>f, <1>a, <1>b, <1>c DEF Same, Moves, Answers, Flows, Results, Aborts, Continues
<1>t. Types'
  BY <1>f, <1>i, <1>a, <1>b, <1>c DEF Types, Moves, Answers, Flows, Results, Aborts, Continues
<1>w. TargetIsWhole'
  BY <1>f DEF Inv, TargetIsWhole
<1>1. FlowAwaits(e)'
  BY <1>f, <1>i, <1>a, <1>b, <1>c
  DEF Local, Types, Shaped, FlowAwaits, Sourced, Moves, Answers, Flows, Results, Aborts,
       Continues, None
<1>2. SetUpAlone(e)'
  BY <1>f, <1>i, <1>a, <1>b, <1>c
  DEF Local, Types, Shaped, FlowAwaits, SetUpAlone, Setting, Moves, Answers, Flows, Results,
       Aborts, Continues, None
<1>3. SealedIsOwned(e)'
  BY <1>f, <1>i, <1>a, <1>b, <1>c
  DEF Local, Types, Shaped, SealedIsOwned, Owned, Ends, Moves, Answers, Flows, Results, Aborts,
       Continues, None
<1>4. FileMatches(e)'
  BY <1>a, <1>c, <1>i DEF Local, FileMatches, Relied, Sourced, None
<1>5. InstalledIsTold(e)'
  BY <1>f, <1>i, <1>a, <1>b, <1>c
  DEF Local, Types, Shaped, FlowAwaits, InstalledIsTold, Moves, Answers, Flows, Results,
       Aborts, Continues, None
<1> QED
  BY <1>o, <1>t, <1>w, <1>1, <1>2, <1>3, <1>4, <1>5, OneChanges DEF Local

LEMMA FinishReturnsInv ==
  ASSUME Inv, NEW e \in Exports, FinishReturns(e)
  PROVE  Inv'
<1>f. UNCHANGED <<cancelled, started, next, grant, tgt, main, sweep, sess, table, active, temp,
                  stale, target, installed, unsynced, residue, capacity, log>>
  BY DEF FinishReturns, rendererVars, callVars, sessionVars, diskVars, worldVars
<1>i. Types /\ Local(e) /\ Shaped(e)
  BY Here
<1>a. /\ flow[e] = "finishing" /\ answer[e] # None /\ main[e].op = None /\ main[e].pc = None
      /\ ~Setting(e)
  BY Awaiting DEF FinishReturns
<1>b. \/ answer[e] = "ok" /\ Flows(e, "done") /\ Results(e, "ok") /\ Answers(e, None) /\ UNCHANGED aborter
      \/ answer[e] # "ok" /\ Flows(e, "aborting") /\ Aborts(e) /\ Answers(e, None) /\ UNCHANGED result
  <2>1. CASE answer[e] = "ok"
    BY <2>1, EndIs, AnswerIs DEF FinishReturns
  <2>2. CASE answer[e] # "ok"
    BY <2>2, GiveUpIs DEF FinishReturns
  <2> QED BY <2>1, <2>2
<1>o. \A x \in Exports : x # e => Same(x)
  BY <1>f, <1>a, <1>b DEF Same, Moves, Answers, Flows, Results, Aborts, Continues
<1>t. Types'
  BY <1>f, <1>i, <1>a, <1>b DEF Types, Moves, Answers, Flows, Results, Aborts, Continues
<1>w. TargetIsWhole'
  BY <1>f DEF Inv, TargetIsWhole
<1>1. FlowAwaits(e)'
  BY <1>f, <1>i, <1>a, <1>b
  DEF Local, Types, Shaped, FlowAwaits, Sourced, Moves, Answers, Flows, Results, Aborts,
       Continues, None
<1>2. SetUpAlone(e)'
  BY <1>f, <1>i, <1>a, <1>b
  DEF Local, Types, Shaped, FlowAwaits, SetUpAlone, Setting, Moves, Answers, Flows, Results,
       Aborts, Continues, None
<1>3. SealedIsOwned(e)'
  BY <1>f, <1>i, <1>a, <1>b
  DEF Local, Types, Shaped, SealedIsOwned, Owned, Ends, Moves, Answers, Flows, Results, Aborts,
       Continues, None
<1>4. FileMatches(e)'
  BY <1>f, <1>i, <1>a, <1>b
  DEF Local, Types, Shaped, FlowAwaits, FileMatches, Relied, Sourced, Moves, Answers, Flows,
       Results, Aborts, Continues, None
<1>5. InstalledIsTold(e)'
  BY <1>f, <1>i, <1>a, <1>b
  DEF Local, Types, Shaped, FlowAwaits, InstalledIsTold, Moves, Answers, Flows, Results,
       Aborts, Continues, None
<1> QED
  BY <1>o, <1>t, <1>w, <1>1, <1>2, <1>3, <1>4, <1>5, OneChanges DEF Local

LEMMA AbortReturnsInv ==
  ASSUME Inv, NEW e \in Exports, AbortReturns(e)
  PROVE  Inv'
<1>f. UNCHANGED <<cancelled, started, next, grant, tgt, main, answer, aborter, sweep, sess, table,
                  active, temp, stale, target, installed, unsynced, residue, capacity, log>>
  BY DEF AbortReturns, rendererVars, callVars, sessionVars, diskVars, worldVars
<1>i. Types /\ Local(e) /\ Shaped(e)
  BY Here
<1>a. flow[e] = "aborting" /\ Flows(e, "done") /\ (Results(e, "cancelled") \/ Results(e, "error"))
  <2>1. End(e, IF cancelled[e] THEN "cancelled" ELSE "error")
    BY DEF AbortReturns
  <2> QED BY <2>1, EndIs DEF AbortReturns
<1>b. main[e].op = None /\ main[e].pc = None /\ answer[e] = None
  BY <1>a, <1>i DEF Local, FlowAwaits, Shaped, None
<1>o. \A x \in Exports : x # e => Same(x)
  BY <1>f, <1>a, <1>b DEF Same, Moves, Answers, Flows, Results, Aborts, Continues
<1>t. Types'
  BY <1>f, <1>i, <1>a, <1>b DEF Types, Moves, Answers, Flows, Results, Aborts, Continues
<1>w. TargetIsWhole'
  BY <1>f DEF Inv, TargetIsWhole
<1>1. FlowAwaits(e)'
  BY <1>f, <1>i, <1>a, <1>b
  DEF Local, Types, Shaped, FlowAwaits, Sourced, Moves, Answers, Flows, Results, Aborts,
       Continues, None
<1>2. SetUpAlone(e)'
  BY <1>f, <1>i, <1>a, <1>b
  DEF Local, Types, Shaped, FlowAwaits, SetUpAlone, Setting, Moves, Answers, Flows, Results,
       Aborts, Continues, None
<1>3. SealedIsOwned(e)'
  BY <1>f, <1>i, <1>a, <1>b
  DEF Local, Types, Shaped, SealedIsOwned, Owned, Ends, Moves, Answers, Flows, Results, Aborts,
       Continues, None
<1>4. FileMatches(e)'
  BY <1>f, <1>i, <1>a, <1>b
  DEF Local, Types, Shaped, FlowAwaits, FileMatches, Relied, Sourced, Moves, Answers, Flows,
       Results, Aborts, Continues, None
<1>5. InstalledIsTold(e)'
  BY <1>f, <1>i, <1>a, <1>b
  DEF Local, Types, Shaped, FlowAwaits, InstalledIsTold, Moves, Answers, Flows, Results,
       Aborts, Continues, None
<1> QED
  BY <1>o, <1>t, <1>w, <1>1, <1>2, <1>3, <1>4, <1>5, OneChanges DEF Local

-----------------------------------------------------------------------------
(* begin                                                                   *)

\* A call at a point of its operation.
LEMMA AtIs ==
  ASSUME NEW e \in Exports, NEW op, NEW pc, At(e, op, pc)
  PROVE  main[e].op = op /\ main[e].pc = pc
BY DEF At

\* A removal leaves no file, or a residue.
Removes(e) ==
  /\ temp' \in [Exports -> Files] /\ residue' \subseteq Exports
  /\ \A x \in Exports : x # e => temp'[x] = temp[x] /\ (x \in residue' <=> x \in residue)
  /\ temp'[e] = NoFile \/ (temp'[e] = temp[e] /\ e \in residue')

LEMMA RemoveTempIs ==
  ASSUME Inv, NEW e \in Exports, RemoveTemp(e)
  PROVE  Removes(e)
<1>1. temp \in [Exports -> Files] /\ residue \subseteq Exports /\ NoFile \in Files
  BY FilesMade DEF Inv, Types
<1> QED BY <1>1 DEF RemoveTemp, Removes

LEMMA ConsumeInv ==
  ASSUME Inv, NEW e \in Exports, Consume(e)
  PROVE  Inv'
<1>f. UNCHANGED <<flow, cancelled, started, next, result, tgt, aborter, table, active, temp, stale,
                  target, installed, unsynced, residue, capacity, log>>
  BY DEF Consume, rendererVars, callVars, sessionVars, diskVars, worldVars
<1>i. Types /\ Local(e) /\ Shaped(e)
  BY Here
<1>a. main[e].op = "begin" /\ main[e].pc = "consume" /\ Setting(e)
  BY AtIs DEF Consume, Setting
<1>b. grant' \in [Exports -> {None, "live", "gone"}]
  BY RevokedType DEF Consume
<1>c. Confirmed(e) \in Nat
  <2>1. log.first .. log.last - 1 \in SUBSET Nat /\ IsFiniteSet(log.first .. log.last - 1)
    <3>1. log.first \in Nat /\ log.last \in Nat /\ log.last - 1 \in Nat
      BY <1>i DEF Types
    <3> DEFINE i == log.first
               j == log.last - 1
    <3>2. i \in Int /\ j \in Int /\ i .. j \subseteq Nat
      BY <3>1
    <3> HIDE DEF i, j
    <3>3. IsFiniteSet(i .. j)
      BY <3>2, FS_Interval
    <3> QED BY <3>2, <3>3 DEF i, j
  <2>2. Readable(e, 0) \subseteq log.first .. log.last - 1
    BY DEF Readable
  <2>3. IsFiniteSet(Readable(e, 0))
    BY <2>1, <2>2, FS_Subset
  <2> QED BY <2>3, FS_CardinalityType, BatchesAssumption DEF Confirmed
<1>d. /\ sess' \in [Exports -> Sessions] /\ \A x \in Exports : x # e => sess'[x] = sess[x]
      /\ sess'[e].terminal = sess[e].terminal /\ sess'[e].old = sess[e].old
      /\ sess'[e].count = sess[e].count /\ sess'[e].cursor = sess[e].cursor
      /\ sess'[e].ceiling = sess[e].ceiling
  <2>1. sess \in [Exports -> Sessions]
    BY DEF Inv, Types
  <2>2. UNCHANGED sess \/ sess' = [sess EXCEPT ![e].expected = Confirmed(e)]
    BY DEF Consume
  <2> QED BY <1>c, <2>1, <2>2 DEF Sessions
<1>g. /\ sweep' \in [Exports -> [visit : SUBSET Exports, expired : SUBSET Exports]]
      /\ \A b, x \in Exports :
           /\ x \in sweep'[b].visit => x \in sweep[b].visit \/ x \in table
           /\ x \in sweep'[b].expired <=> x \in sweep[b].expired
  <2>1. sweep \in [Exports -> [visit : SUBSET Exports, expired : SUBSET Exports]] /\ table \subseteq Exports
    BY DEF Inv, Types
  <2>2. UNCHANGED sweep \/ sweep' = [sweep EXCEPT ![e].visit = table]
    BY DEF Consume
  <2> QED BY <2>1, <2>2
<1>h. \/ Moves(e, None, None) /\ Answers(e, "err")
      \/ Moves(e, "begin", "visit") /\ UNCHANGED answer
  <2>1. CASE Return(e, "err")
    BY <2>1, ReturnIs
  <2>2. CASE Goto(e, "visit") /\ UNCHANGED answer
    BY <1>a, <2>2, GotoIs, CallMade
  <2> QED BY <2>1, <2>2 DEF Consume
<1>o. \A x \in Exports : x # e => Same(x)
  BY <1>f, <1>a, <1>b, <1>c, <1>d, <1>g, <1>h DEF Same, Moves, Answers, Removes
<1>t. Types'
  BY <1>f, <1>i, <1>a, <1>b, <1>c, <1>d, <1>g, <1>h DEF Types, Moves, Answers, Removes
<1>w. TargetIsWhole'
  BY <1>f DEF Inv, TargetIsWhole
<1>1. FlowAwaits(e)'
  BY <1>f, <1>i, <1>a, <1>b, <1>c, <1>d, <1>g, <1>h
  DEF Local, Types, Shaped, FlowAwaits, Sourced, Moves, Answers, Removes, None
<1>2. SetUpAlone(e)'
  BY <1>f, <1>i, <1>a, <1>b, <1>c, <1>d, <1>g, <1>h
  DEF Local, Types, Shaped, FlowAwaits, SetUpAlone, Setting, Moves, Answers, Removes, None
<1>3. SealedIsOwned(e)'
  BY <1>f, <1>i, <1>a, <1>b, <1>c, <1>d, <1>g, <1>h
  DEF Local, Types, Shaped, SealedIsOwned, Owned, Ends, Moves, Answers, Removes, None
<1>4. FileMatches(e)'
  BY <1>f, <1>i, <1>a, <1>b, <1>c, <1>d, <1>g, <1>h
  DEF Local, Types, Shaped, FlowAwaits, FileMatches, Relied, Sourced, Moves, Answers, Removes,
       None
<1>5. InstalledIsTold(e)'
  BY <1>f, <1>i, <1>a, <1>b, <1>c, <1>d, <1>g, <1>h
  DEF Local, Types, Shaped, FlowAwaits, InstalledIsTold, Moves, Answers, Removes, None
<1> QED
  BY <1>o, <1>t, <1>w, <1>1, <1>2, <1>3, <1>4, <1>5, OneChanges DEF Local

LEMMA VisitCandidateInv ==
  ASSUME Inv, NEW e \in Exports, VisitCandidate(e)
  PROVE  Inv'
<1>c. PICK c \in sweep[e].visit :
        LET expires == ~Locked(c) /\ sess[c].old
        IN  /\ sweep' = [sweep EXCEPT ![e] =
                 [visit |-> @.visit \ {c}, expired |-> IF expires THEN @.expired \cup {c} ELSE @.expired]]
            /\ IF expires
               THEN /\ sess' = [sess EXCEPT ![c].terminal = TRUE, ![c].old = FALSE]
                    /\ RemoveCurrent(c)
               ELSE UNCHANGED <<sess, table>>
  BY DEF VisitCandidate
<1>d. c \in Exports
  BY DEF Inv, Types
<1>f. UNCHANGED <<flow, cancelled, started, next, result, grant, tgt, main, answer, aborter, active,
                  temp, stale, target, installed, unsynced, residue, capacity, log>>
  BY DEF VisitCandidate, rendererVars, callVars, sessionVars, diskVars, worldVars
<1>i. Types /\ Local(c) /\ Shaped(c)
  BY <1>d, Here
<1>a. /\ sess' \in [Exports -> Sessions] /\ \A x \in Exports : x # c => sess'[x] = sess[x]
      /\ table' \subseteq Exports /\ \A x \in Exports : x # c => (x \in table' <=> x \in table)
      /\ \/ UNCHANGED <<sess, table>>
            /\ \A b \in Exports : c \in sweep'[b].expired <=> c \in sweep[b].expired
         \/ /\ main[c].pc # "write" /\ sess[c].old
            /\ sess'[c].terminal /\ ~sess'[c].old /\ sess'[c].count = sess[c].count
            /\ sess'[c].cursor = sess[c].cursor /\ sess'[c].ceiling = sess[c].ceiling
            /\ sess'[c].expected = sess[c].expected
            /\ c \notin table' /\ c \in sweep'[e].expired
  <2>1. sess \in [Exports -> Sessions] /\ table \subseteq Exports
        /\ sweep \in [Exports -> [visit : SUBSET Exports, expired : SUBSET Exports]]
    BY DEF Inv, Types
  <2>2. CASE ~Locked(c) /\ sess[c].old
    <3>1. /\ sess' = [sess EXCEPT ![c].terminal = TRUE, ![c].old = FALSE] /\ table' = table \ {c}
          /\ sweep' = [sweep EXCEPT ![e] = [visit |-> @.visit \ {c}, expired |-> @.expired \cup {c}]]
      BY <1>c, <2>2 DEF RemoveCurrent
    <3>2. /\ sess' \in [Exports -> Sessions] /\ \A x \in Exports : x # c => sess'[x] = sess[x]
          /\ sess'[c].terminal /\ ~sess'[c].old /\ sess'[c].count = sess[c].count
          /\ sess'[c].cursor = sess[c].cursor /\ sess'[c].ceiling = sess[c].ceiling
          /\ sess'[c].expected = sess[c].expected
      BY <2>1, <3>1 DEF Sessions
    <3>3. c \in sweep'[e].expired
      BY <2>1, <3>1
    <3> QED BY <2>1, <2>2, <3>1, <3>2, <3>3 DEF Locked
  <2>3. CASE ~(~Locked(c) /\ sess[c].old)
    <3>1. /\ UNCHANGED <<sess, table>>
          /\ sweep' = [sweep EXCEPT ![e] = [visit |-> @.visit \ {c}, expired |-> @.expired]]
      BY <1>c, <2>3
    <3> QED BY <2>1, <3>1
  <2> QED BY <2>2, <2>3
<1>b. /\ sweep' \in [Exports -> [visit : SUBSET Exports, expired : SUBSET Exports]]
      /\ \A b, x \in Exports :
           /\ x \in sweep'[b].visit => x \in sweep[b].visit
           /\ x # c => (x \in sweep'[b].expired <=> x \in sweep[b].expired)
  <2>1. sweep \in [Exports -> [visit : SUBSET Exports, expired : SUBSET Exports]]
    BY DEF Inv, Types
  <2>2. \/ sweep' = [sweep EXCEPT ![e] = [visit |-> @.visit \ {c}, expired |-> @.expired \cup {c}]]
        \/ sweep' = [sweep EXCEPT ![e] = [visit |-> @.visit \ {c}, expired |-> @.expired]]
    BY <1>c
  <2> QED BY <2>1, <2>2
<1>g. ~Setting(c)
  BY <1>c, <1>i DEF Local, SetUpAlone
<1>o. \A x \in Exports : x # c => Same(x)
  BY <1>f, <1>a, <1>b, <1>g DEF Same, Moves, Answers, Removes
<1>t. Types'
  BY <1>f, <1>i, <1>a, <1>b, <1>g DEF Types, Moves, Answers, Removes
<1>w. TargetIsWhole'
  BY <1>f DEF Inv, TargetIsWhole
<1>1. FlowAwaits(c)'
  BY <1>f, <1>i, <1>a, <1>b, <1>g
  DEF Local, Types, Shaped, FlowAwaits, Sourced, Moves, Answers, Removes, None
<1>2. SetUpAlone(c)'
  BY <1>f, <1>i, <1>a, <1>b, <1>g
  DEF Local, Types, Shaped, FlowAwaits, SetUpAlone, Setting, Moves, Answers, Removes, None
<1>3. SealedIsOwned(c)'
  BY <1>f, <1>i, <1>a, <1>b, <1>g
  DEF Local, Types, Shaped, SealedIsOwned, Owned, Ends, Moves, Answers, Removes, None
<1>4. FileMatches(c)'
  BY <1>f, <1>i, <1>a, <1>b, <1>g
  DEF Local, Types, Shaped, FlowAwaits, FileMatches, Relied, Sourced, Moves, Answers, Removes,
       None
<1>5. InstalledIsTold(c)'
  BY <1>f, <1>i, <1>a, <1>b, <1>g
  DEF Local, Types, Shaped, FlowAwaits, InstalledIsTold, Moves, Answers, Removes, None
<1> QED
  BY <1>d, <1>o, <1>t, <1>w, <1>1, <1>2, <1>3, <1>4, <1>5, OneChanges DEF Local

LEMMA DisposeExpiredInv ==
  ASSUME Inv, NEW e \in Exports, DisposeExpired(e)
  PROVE  Inv'
<1>c. PICK c \in sweep[e].expired :
        /\ sweep' = [sweep EXCEPT ![e].expired = @ \ {c}]
        /\ RemoveTemp(c) /\ active' = active \ {c}
  BY DEF DisposeExpired
<1>d. c \in Exports
  BY DEF Inv, Types
<1>f. UNCHANGED <<flow, cancelled, started, next, result, grant, tgt, main, answer, aborter, sess,
                  table, stale, target, installed, unsynced, capacity, log>>
  BY DEF DisposeExpired, rendererVars, callVars, sessionVars, diskVars, worldVars
<1>i. Types /\ Local(c) /\ Shaped(c)
  BY <1>d, Here
<1>a. /\ sweep' \in [Exports -> [visit : SUBSET Exports, expired : SUBSET Exports]]
      /\ \A b, x \in Exports :
           /\ x \in sweep'[b].visit => x \in sweep[b].visit
           /\ x \in sweep'[b].expired => x \in sweep[b].expired
           /\ x # c => (x \in sweep'[b].expired <=> x \in sweep[b].expired)
  <2>1. sweep \in [Exports -> [visit : SUBSET Exports, expired : SUBSET Exports]]
    BY DEF Inv, Types
  <2> QED BY <1>c, <2>1
<1>b. Removes(c) /\ active' = active \ {c}
  BY <1>c, <1>d, RemoveTempIs
<1>g. ~Setting(c) /\ c \notin table
  BY <1>c, <1>i DEF Local, SetUpAlone, SealedIsOwned
<1>h. temp[c] \in Files /\ (temp'[c] = NoFile \/ temp'[c] = temp[c]) /\ ~NoFile.exists
  BY <1>b, <1>d, <1>i DEF Removes, Types, NoFile
<1>o. \A x \in Exports : x # c => Same(x)
  BY <1>f, <1>a, <1>b, <1>g, <1>h DEF Same, Moves, Answers, Removes
<1>t. Types'
  BY <1>f, <1>i, <1>a, <1>b, <1>g, <1>h DEF Types, Moves, Answers, Removes
<1>w. TargetIsWhole'
  BY <1>f DEF Inv, TargetIsWhole
<1>1. FlowAwaits(c)'
  BY <1>f, <1>i, <1>a, <1>b, <1>g, <1>h
  DEF Local, Types, Shaped, FlowAwaits, Sourced, Moves, Answers, Removes, None
<1>2. SetUpAlone(c)'
  BY <1>f, <1>i, <1>a, <1>b, <1>g, <1>h
  DEF Local, Types, Shaped, FlowAwaits, SetUpAlone, Setting, Moves, Answers, Removes, None
<1>3. SealedIsOwned(c)'
  BY <1>f, <1>i, <1>a, <1>b, <1>g, <1>h
  DEF Local, Types, Shaped, SealedIsOwned, Owned, Ends, Moves, Answers, Removes, None
<1>4. FileMatches(c)'
  BY <1>f, <1>i, <1>a, <1>b, <1>g, <1>h
  DEF Local, Types, Shaped, FlowAwaits, FileMatches, Relied, Sourced, Moves, Answers, Removes,
       None
<1>5. InstalledIsTold(c)'
  BY <1>f, <1>i, <1>a, <1>b, <1>g, <1>h
  DEF Local, Types, Shaped, FlowAwaits, InstalledIsTold, Moves, Answers, Removes, None
<1> QED
  BY <1>d, <1>o, <1>t, <1>w, <1>1, <1>2, <1>3, <1>4, <1>5, OneChanges DEF Local

LEMMA AdmitInv ==
  ASSUME Inv, NEW e \in Exports, Admit(e)
  PROVE  Inv'
<1>f. UNCHANGED <<flow, cancelled, started, next, result, grant, tgt, aborter, sweep, sess, table,
                  active, temp, stale, target, installed, unsynced, residue, capacity, log>>
  BY DEF Admit, rendererVars, callVars, sessionVars, diskVars, worldVars
<1>i. Types /\ Local(e) /\ Shaped(e)
  BY Here
<1>a. main[e].op = "begin" /\ main[e].pc = "visit" /\ Setting(e)
  BY AtIs DEF Admit, Setting
<1>b. \/ Moves(e, None, None) /\ Answers(e, "err")
      \/ Moves(e, "begin", "create") /\ UNCHANGED answer
  <2>1. CASE Return(e, "err")
    BY <2>1, ReturnIs
  <2>2. CASE Goto(e, "create") /\ UNCHANGED answer
    BY <1>a, <2>2, GotoIs, CallMade
  <2> QED BY <2>1, <2>2 DEF Admit
<1>o. \A x \in Exports : x # e => Same(x)
  BY <1>f, <1>a, <1>b DEF Same, Moves, Answers, Removes
<1>t. Types'
  BY <1>f, <1>i, <1>a, <1>b DEF Types, Moves, Answers, Removes
<1>w. TargetIsWhole'
  BY <1>f DEF Inv, TargetIsWhole
<1>1. FlowAwaits(e)'
  BY <1>f, <1>i, <1>a, <1>b
  DEF Local, Types, Shaped, FlowAwaits, Sourced, Moves, Answers, Removes, None
<1>2. SetUpAlone(e)'
  BY <1>f, <1>i, <1>a, <1>b
  DEF Local, Types, Shaped, FlowAwaits, SetUpAlone, Setting, Moves, Answers, Removes, None
<1>3. SealedIsOwned(e)'
  BY <1>f, <1>i, <1>a, <1>b
  DEF Local, Types, Shaped, SealedIsOwned, Owned, Ends, Moves, Answers, Removes, None
<1>4. FileMatches(e)'
  BY <1>f, <1>i, <1>a, <1>b
  DEF Local, Types, Shaped, FlowAwaits, FileMatches, Relied, Sourced, Moves, Answers, Removes,
       None
<1>5. InstalledIsTold(e)'
  BY <1>f, <1>i, <1>a, <1>b
  DEF Local, Types, Shaped, FlowAwaits, InstalledIsTold, Moves, Answers, Removes, None
<1> QED
  BY <1>o, <1>t, <1>w, <1>1, <1>2, <1>3, <1>4, <1>5, OneChanges DEF Local

\* An export whose abandoned file another one removes.
Swept(x) ==
  /\ flow'[x] = flow[x] /\ (started'[x] <=> started[x]) /\ next'[x] = next[x] /\ result'[x] = result[x]
  /\ main'[x] = main[x] /\ answer'[x] = answer[x] /\ aborter'[x] = aborter[x]
  /\ sess'[x] = sess[x] /\ temp'[x] = NoFile
  /\ x \in stale /\ x \notin active /\ x \notin stale'
  /\ UNCHANGED <<sweep, table, active, installed, unsynced>>

LEMMA SweptStays ==
  ASSUME Inv, NEW x \in Exports, Swept(x)
  PROVE  Local(x)'
<1>0. Local(x) /\ ~NoFile.exists
  BY DEF Inv, NoFile
<1>1. FlowAwaits(x)'
  BY <1>0 DEF Local, FlowAwaits, Swept, Sourced
<1>2. SetUpAlone(x)'
  BY <1>0 DEF Local, SetUpAlone, Setting, Swept
<1>3. SealedIsOwned(x)'
  BY <1>0 DEF Local, SealedIsOwned, Owned, Ends, Swept
<1>4. FileMatches(x)'
  BY <1>0 DEF Local, FileMatches, Swept
<1>5. InstalledIsTold(x)'
  BY <1>0 DEF Local, InstalledIsTold, Swept
<1> QED BY <1>1, <1>2, <1>3, <1>4, <1>5 DEF Local

LEMMA CreateTempInv ==
  ASSUME Inv, NEW e \in Exports, CreateTemp(e)
  PROVE  Inv'
<1>f. UNCHANGED <<flow, cancelled, started, next, result, grant, tgt, aborter, sweep, sess, table,
                  active, target, installed, unsynced, capacity, log>>
  BY DEF CreateTemp, rendererVars, callVars, sessionVars, diskVars, worldVars
<1>i. Types /\ Local(e) /\ Shaped(e)
  BY Here
<1>a. main[e].op = "begin" /\ main[e].pc = "create" /\ Setting(e)
  BY AtIs DEF CreateTemp, Setting
<1>b. /\ stale' = stale \ (stale \ active) /\ residue' = residue \ (stale \ active)
      /\ temp' \in [Exports -> Files]
      /\ \A x \in Exports : x # e => temp'[x] = IF x \in stale \ active THEN NoFile ELSE temp[x]
      /\ \/ Moves(e, "begin", "insert") /\ temp'[e] = EmptyFile /\ UNCHANGED answer
         \/ Moves(e, None, None) /\ Answers(e, "err") /\ temp'[e] = NoFile
  <2> DEFINE dead == stale \ active
             kept == [x \in Exports |-> IF x \in dead THEN NoFile ELSE temp[x]]
  <2>1. kept \in [Exports -> Files] /\ NoFile \in Files /\ EmptyFile \in Files /\ temp[e] = NoFile
    BY <1>a, <1>i, FilesMade DEF Types, Local, SetUpAlone
  <2>2. kept[e] = NoFile
    BY <2>1
  <2>3. stale' = stale \ dead /\ residue' = residue \ dead
    BY DEF CreateTemp
  <2>4. CASE Goto(e, "insert") /\ temp' = [kept EXCEPT ![e] = EmptyFile] /\ UNCHANGED answer
    <3>1. Moves(e, "begin", "insert")
      BY <1>a, <2>4, GotoIs, CallMade
    <3>2. temp' \in [Exports -> Files] /\ temp'[e] = EmptyFile /\ \A x \in Exports : x # e => temp'[x] = kept[x]
      BY <2>1, <2>4
    <3> QED BY <2>3, <2>4, <3>1, <3>2
  <2>5. CASE Return(e, "err") /\ temp' = kept
    <3>1. Moves(e, None, None) /\ Answers(e, "err")
      BY <2>5, ReturnIs
    <3> QED BY <2>1, <2>2, <2>3, <2>5, <3>1
  <2> QED BY <2>4, <2>5 DEF CreateTemp
<1>c. EmptyFile # NoFile /\ EmptyFile.exists /\ ~NoFile.exists /\ EmptyFile.data = <<>>
  BY FilesMade DEF EmptyFile, NoFile
<1>d. e \notin table /\ e \notin active /\ e \notin installed
  BY <1>a, <1>i DEF Local, SetUpAlone
<1>o. \A x \in Exports : x # e => Same(x) \/ Swept(x)
  BY <1>f, <1>a, <1>b, <1>c, <1>d DEF Same, Swept, Moves, Answers, Removes, Aborts
<1>t. Types'
  BY <1>f, <1>i, <1>a, <1>b, <1>c, <1>d DEF Types, Moves, Answers, Removes, Aborts
<1>w. TargetIsWhole'
  BY <1>f DEF Inv, TargetIsWhole
<1>1. FlowAwaits(e)'
  BY <1>f, <1>i, <1>a, <1>b, <1>c, <1>d
  DEF Local, Types, Shaped, FlowAwaits, Sourced, Moves, Answers, Removes, Aborts, None
<1>2. SetUpAlone(e)'
  BY <1>f, <1>i, <1>a, <1>b, <1>c, <1>d
  DEF Local, Types, Shaped, FlowAwaits, SetUpAlone, Setting, Moves, Answers, Removes, Aborts,
       None
<1>3. SealedIsOwned(e)'
  BY <1>f, <1>i, <1>a, <1>b, <1>c, <1>d
  DEF Local, Types, Shaped, SealedIsOwned, Owned, Ends, Moves, Answers, Removes, Aborts, None
<1>4. FileMatches(e)'
  BY <1>f, <1>i, <1>a, <1>b, <1>c, <1>d
  DEF Local, Types, Shaped, FlowAwaits, FileMatches, Relied, Sourced, Moves, Answers, Removes,
       Aborts, None
<1>5. InstalledIsTold(e)'
  BY <1>f, <1>i, <1>a, <1>b, <1>c, <1>d
  DEF Local, Types, Shaped, FlowAwaits, InstalledIsTold, Moves, Answers, Removes, Aborts, None
<1>6. Local(e)'
  BY <1>1, <1>2, <1>3, <1>4, <1>5 DEF Local
<1>7. \A x \in Exports : x # e => Local(x)'
  BY <1>o, SameStays, SweptStays
<1> QED BY <1>t, <1>w, <1>6, <1>7 DEF Inv

LEMMA InsertSessionInv ==
  ASSUME Inv, NEW e \in Exports, InsertSession(e)
  PROVE  Inv'
<1>f. UNCHANGED <<flow, cancelled, started, next, result, grant, tgt, aborter, sweep, sess, temp,
                  stale, target, installed, unsynced, residue, capacity, log>>
  BY DEF InsertSession, rendererVars, callVars, sessionVars, diskVars, worldVars
<1>i. Types /\ Local(e) /\ Shaped(e)
  BY Here
<1>a. main[e].op = "begin" /\ main[e].pc = "insert" /\ Setting(e)
  BY AtIs DEF InsertSession, Setting
<1>b. active' = active \cup {e} /\ table' = table \cup {e}
  BY DEF InsertSession
<1>c. \/ Sourced(e) /\ Moves(e, "begin", "page") /\ UNCHANGED answer
      \/ ~Sourced(e) /\ Moves(e, None, None) /\ Answers(e, "ok")
  <2>1. CASE Sourced(e)
    BY <1>a, <2>1, GotoIs, CallMade DEF InsertSession
  <2>2. CASE ~Sourced(e)
    BY <2>2, ReturnIs DEF InsertSession
  <2> QED BY <2>1, <2>2
<1>d. /\ temp[e] = EmptyFile /\ EmptyFile # NoFile /\ temp[e].data = <<>>
      /\ sess[e].count = 0 /\ sess[e].cursor = 0 /\ ~sess[e].terminal /\ e \notin installed
  BY <1>a, <1>i, FilesMade DEF Local, SetUpAlone, EmptyFile, NoFile
<1>g. \A n : Whole(temp[e].data, 0) /\ Before(temp[e].data, n)
  BY <1>d, NothingWritten
<1>o. \A x \in Exports : x # e => Same(x)
  BY <1>f, <1>a, <1>b, <1>c, <1>d, <1>g DEF Same, Moves, Answers, Removes, Aborts
<1>t. Types'
  BY <1>f, <1>i, <1>a, <1>b, <1>c, <1>d, <1>g DEF Types, Moves, Answers, Removes, Aborts
<1>w. TargetIsWhole'
  BY <1>f DEF Inv, TargetIsWhole
<1>1. FlowAwaits(e)'
  BY <1>f, <1>i, <1>a, <1>b, <1>c, <1>d, <1>g
  DEF Local, Types, Shaped, FlowAwaits, Sourced, Moves, Answers, Removes, Aborts, None
<1>2. SetUpAlone(e)'
  BY <1>f, <1>i, <1>a, <1>b, <1>c, <1>d, <1>g
  DEF Local, Types, Shaped, FlowAwaits, SetUpAlone, Setting, Moves, Answers, Removes, Aborts,
       None
<1>3. SealedIsOwned(e)'
  BY <1>f, <1>i, <1>a, <1>b, <1>c, <1>d, <1>g
  DEF Local, Types, Shaped, SealedIsOwned, Owned, Ends, Moves, Answers, Removes, Aborts, None
<1>4. FileMatches(e)'
  BY <1>f, <1>i, <1>a, <1>b, <1>c, <1>d, <1>g
  DEF Local, Types, Shaped, FlowAwaits, FileMatches, Relied, Sourced, Moves, Answers, Removes,
       Aborts, None
<1>5. InstalledIsTold(e)'
  BY <1>f, <1>i, <1>a, <1>b, <1>c, <1>d, <1>g
  DEF Local, Types, Shaped, FlowAwaits, InstalledIsTold, Moves, Answers, Removes, Aborts, None
<1> QED
  BY <1>o, <1>t, <1>w, <1>1, <1>2, <1>3, <1>4, <1>5, OneChanges DEF Local

LEMMA ReadPageInv ==
  ASSUME Inv, NEW e \in Exports, ReadPage(e)
  PROVE  Inv'
<1>f. UNCHANGED <<flow, cancelled, started, next, result, grant, tgt, sweep, table, active, temp,
                  stale, target, installed, unsynced, residue, capacity, log>>
  BY DEF ReadPage, rendererVars, callVars, sessionVars, diskVars, worldVars
<1>i. Types /\ Local(e) /\ Shaped(e)
  BY Here
<1>a. /\ main[e].op = "begin" /\ main[e].pc = "page" /\ ~Setting(e) /\ Sourced(e)
      /\ answer[e] = None /\ flow[e] \in {"beginning", "gone"}
  <2>1. main[e].op = "begin" /\ main[e].pc = "page"
    BY AtIs DEF ReadPage
  <2>2. flow[e] \in Busy \cup {"idle", "done", "gone"}
    BY <1>i DEF Types
  <2> QED BY <1>i, <2>1, <2>2 DEF Local, FlowAwaits, Setting, Busy, None
<1>b. /\ sess' \in [Exports -> Sessions] /\ \A x \in Exports : x # e => sess'[x] = sess[x]
      /\ sess'[e].terminal = sess[e].terminal /\ sess'[e].old = sess[e].old
      /\ sess'[e].count = sess[e].count /\ sess'[e].ceiling = sess[e].ceiling
      /\ sess'[e].cursor \in Nat /\ sess[e].cursor \in Nat
      /\ \/ Moves(e, None, None) /\ Answers(e, "ok") /\ UNCHANGED <<sess, aborter>>
         \/ /\ Moves(e, "begin", "lock") /\ sess'[e].cursor >= sess[e].cursor + 1
            /\ UNCHANGED <<answer, aborter>>
         \/ Moves(e, "begin", "aborting") /\ Aborts(e) /\ UNCHANGED <<answer, sess>>
  <2> DEFINE page == Readable(e, sess[e].cursor + 1)
             least == CHOOSE i \in page : \A j \in page : i <= j
  <2>1. sess \in [Exports -> Sessions] /\ sess[e] \in Sessions /\ sess[e].cursor \in Nat
    BY <1>i DEF Types, Sessions
  <2>2. CASE page = {} /\ Return(e, "ok") /\ UNCHANGED <<sess, aborter>>
    <3>1. Moves(e, None, None) /\ Answers(e, "ok")
      BY <2>2, ReturnIs
    <3> QED BY <2>1, <2>2, <3>1
  <2>3. CASE /\ page # {} /\ Goto(e, "lock") /\ UNCHANGED <<answer, aborter>>
             /\ sess' = [sess EXCEPT ![e].cursor = least]
    <3>1. log.first \in Nat /\ log.last - 1 \in Nat
      BY <1>i DEF Types
    <3>2. page \in SUBSET Nat /\ \A i \in page : i >= sess[e].cursor + 1
      BY <3>1 DEF Readable
    <3> HIDE DEF page
    <3>3. least \in page
      BY <2>3, <3>2, Least
    <3>4. least \in Nat /\ least >= sess[e].cursor + 1
      BY <3>2, <3>3
    <3> HIDE DEF least
    <3>5. Moves(e, "begin", "lock")
      BY <1>a, <2>3, GotoIs, CallMade
    <3>6. /\ sess' \in [Exports -> Sessions] /\ \A x \in Exports : x # e => sess'[x] = sess[x]
          /\ sess'[e].terminal = sess[e].terminal /\ sess'[e].old = sess[e].old
          /\ sess'[e].count = sess[e].count /\ sess'[e].ceiling = sess[e].ceiling
          /\ sess'[e].cursor = least
      BY <2>1, <2>3, <3>4 DEF Sessions
    <3> QED BY <2>1, <2>3, <3>4, <3>5, <3>6
  <2>4. CASE Goto(e, "aborting") /\ CallAbort(e) /\ UNCHANGED <<answer, sess>>
    <3>1. Moves(e, "begin", "aborting") /\ Aborts(e)
      BY <1>a, <2>4, GotoIs, CallMade, CallAbortIs
    <3> QED BY <2>1, <2>4, <3>1
  <2> QED BY <2>2, <2>3, <2>4 DEF ReadPage
<1>c. temp[e].exists => Whole(temp[e].data, sess[e].count) /\ Before(temp[e].data, sess'[e].cursor + 1)
        /\ (main'[e].pc = "lock" => Before(temp[e].data, sess'[e].cursor))
  <2>1. temp[e].exists => Whole(temp[e].data, sess[e].count) /\ Before(temp[e].data, sess[e].cursor + 1)
    BY <1>a, <1>i DEF Local, FileMatches, Relied
  <2>2. temp[e].data \in Seq(Nat)
    BY <1>i, FileShape DEF Types
  <2>3. sess'[e].cursor >= sess[e].cursor
    BY <1>b
  <2>4. main'[e].pc = "lock" => sess'[e].cursor >= sess[e].cursor + 1
    BY <1>b DEF Moves, None
  <2> QED BY <1>b, <2>1, <2>2, <2>3, <2>4, BeforeLater
<1>o. \A x \in Exports : x # e => Same(x)
  BY <1>f, <1>a, <1>b, <1>c DEF Same, Moves, Answers, Removes, Aborts
<1>t. Types'
  BY <1>f, <1>i, <1>a, <1>b, <1>c DEF Types, Moves, Answers, Removes, Aborts
<1>w. TargetIsWhole'
  BY <1>f DEF Inv, TargetIsWhole
<1>1. FlowAwaits(e)'
  BY <1>f, <1>i, <1>a, <1>b, <1>c
  DEF Local, Types, Shaped, FlowAwaits, Sourced, Moves, Answers, Removes, Aborts, None
<1>2. SetUpAlone(e)'
  BY <1>f, <1>i, <1>a, <1>b, <1>c
  DEF Local, Types, Shaped, FlowAwaits, SetUpAlone, Setting, Moves, Answers, Removes, Aborts,
       None
<1>3. SealedIsOwned(e)'
  BY <1>f, <1>i, <1>a, <1>b, <1>c
  DEF Local, Types, Shaped, SealedIsOwned, Owned, Ends, Moves, Answers, Removes, Aborts, None
<1>4. FileMatches(e)'
  BY <1>f, <1>i, <1>a, <1>b, <1>c
  DEF Local, Types, Shaped, FlowAwaits, FileMatches, Relied, Sourced, Moves, Answers, Removes,
       Aborts, None
<1>5. InstalledIsTold(e)'
  BY <1>f, <1>i, <1>a, <1>b, <1>c
  DEF Local, Types, Shaped, FlowAwaits, InstalledIsTold, Moves, Answers, Removes, Aborts, None
<1> QED
  BY <1>o, <1>t, <1>w, <1>1, <1>2, <1>3, <1>4, <1>5, OneChanges DEF Local

LEMMA BeginGivesUpInv ==
  ASSUME Inv, NEW e \in Exports, BeginGivesUp(e)
  PROVE  Inv'
<1>f. UNCHANGED <<flow, cancelled, started, next, result, grant, tgt, aborter, sweep, sess, table,
                  active, temp, stale, target, installed, unsynced, residue, capacity, log>>
  BY DEF BeginGivesUp, rendererVars, callVars, sessionVars, diskVars, worldVars
<1>i. Types /\ Local(e) /\ Shaped(e)
  BY Here
<1>a. main[e].op = "begin" /\ main[e].pc = "aborting" /\ ~Setting(e)
  <2>1. main[e].op = "begin" /\ main[e].pc = "aborting"
    BY AtIs DEF BeginGivesUp
  <2> QED BY <1>i, <2>1 DEF Local, FlowAwaits, Setting, None
<1>b. Moves(e, None, None) /\ Answers(e, "err")
  BY ReturnIs DEF BeginGivesUp
<1>o. \A x \in Exports : x # e => Same(x)
  BY <1>f, <1>a, <1>b DEF Same, Moves, Answers, Removes, Aborts
<1>t. Types'
  BY <1>f, <1>i, <1>a, <1>b DEF Types, Moves, Answers, Removes, Aborts
<1>w. TargetIsWhole'
  BY <1>f DEF Inv, TargetIsWhole
<1>1. FlowAwaits(e)'
  BY <1>f, <1>i, <1>a, <1>b
  DEF Local, Types, Shaped, FlowAwaits, Sourced, Moves, Answers, Removes, Aborts, None
<1>2. SetUpAlone(e)'
  BY <1>f, <1>i, <1>a, <1>b
  DEF Local, Types, Shaped, FlowAwaits, SetUpAlone, Setting, Moves, Answers, Removes, Aborts,
       None
<1>3. SealedIsOwned(e)'
  BY <1>f, <1>i, <1>a, <1>b
  DEF Local, Types, Shaped, SealedIsOwned, Owned, Ends, Moves, Answers, Removes, Aborts, None
<1>4. FileMatches(e)'
  BY <1>f, <1>i, <1>a, <1>b
  DEF Local, Types, Shaped, FlowAwaits, FileMatches, Relied, Sourced, Moves, Answers, Removes,
       Aborts, None
<1>5. InstalledIsTold(e)'
  BY <1>f, <1>i, <1>a, <1>b
  DEF Local, Types, Shaped, FlowAwaits, InstalledIsTold, Moves, Answers, Removes, Aborts, None
<1> QED
  BY <1>o, <1>t, <1>w, <1>1, <1>2, <1>3, <1>4, <1>5, OneChanges DEF Local

-----------------------------------------------------------------------------
(* append                                                                  *)

\* The flow of a call that is under way waits for it or is gone.
LEMMA Working ==
  ASSUME Inv, NEW e \in Exports, main[e].op # None
  PROVE  /\ answer[e] = None
         /\ main[e].op = "begin" => flow[e] \in {"beginning", "gone"}
         /\ main[e].op = "append" => flow[e] \in {"appending", "gone"}
         /\ main[e].op = "finish" => flow[e] \in {"finishing", "gone"}
<1>1. Local(e) /\ flow[e] \in Busy \cup {"idle", "done", "gone"}
  BY DEF Inv, Types
<1> QED BY <1>1 DEF Local, FlowAwaits, Busy, None

\* An append that succeeds answers or reads the next page; one that fails answers or aborts.
LEMMA AppendSucceeds ==
  ASSUME Inv, NEW e \in Exports, main[e].pc \in {"lock", "write"}, AppendEnds(e, TRUE)
  PROVE  \/ main[e].op = "append" /\ Moves(e, None, None) /\ Answers(e, "ok") /\ UNCHANGED aborter
         \/ main[e].op = "begin" /\ Moves(e, "begin", "page") /\ UNCHANGED <<answer, aborter>>
<1>1. main[e].op \in {"begin", "append"}
  BY Here DEF Shaped
<1>2. CASE main[e].op = "append"
  <2>1. Return(e, "ok") /\ UNCHANGED aborter
    BY <1>2 DEF AppendEnds
  <2> QED BY <1>2, <2>1, ReturnIs
<1>3. CASE main[e].op = "begin"
  <2>1. Goto(e, "page") /\ UNCHANGED <<answer, aborter>>
    BY <1>3 DEF AppendEnds
  <2> QED BY <1>3, <2>1, GotoIs, CallMade
<1> QED BY <1>1, <1>2, <1>3

LEMMA AppendFails ==
  ASSUME Inv, NEW e \in Exports, main[e].pc \in {"lock", "write"}, AppendEnds(e, FALSE)
  PROVE  \/ main[e].op = "append" /\ Moves(e, None, None) /\ Answers(e, "err") /\ UNCHANGED aborter
         \/ main[e].op = "begin" /\ Moves(e, "begin", "aborting") /\ Aborts(e) /\ UNCHANGED answer
<1>1. main[e].op \in {"begin", "append"}
  BY Here DEF Shaped
<1>2. CASE main[e].op = "append"
  <2>1. Return(e, "err") /\ UNCHANGED aborter
    BY <1>2 DEF AppendEnds
  <2> QED BY <1>2, <2>1, ReturnIs
<1>3. CASE main[e].op = "begin"
  <2>1. Goto(e, "aborting") /\ CallAbort(e) /\ UNCHANGED answer
    BY <1>3 DEF AppendEnds
  <2> QED BY <1>3, <2>1, GotoIs, CallMade, CallAbortIs
<1> QED BY <1>1, <1>2, <1>3

LEMMA GetInv ==
  ASSUME Inv, NEW e \in Exports, Get(e)
  PROVE  Inv'
<1>f. UNCHANGED <<flow, cancelled, started, next, result, grant, tgt, aborter, sweep, sess, table,
                  active, temp, stale, target, installed, unsynced, residue, capacity, log>>
  BY DEF Get, rendererVars, callVars, sessionVars, diskVars, worldVars
<1>i. Types /\ Local(e) /\ Shaped(e)
  BY Here
<1>a. main[e].op \in {"append", "finish"} /\ main[e].pc = "get" /\ answer[e] = None
      /\ flow[e] \in {"appending", "finishing", "gone"} /\ ~Setting(e)
  BY Working DEF Get, Setting, None
<1>b. \/ Moves(e, None, None) /\ Answers(e, "err")
      \/ main[e].op = "append" /\ Moves(e, "append", "lock") /\ UNCHANGED answer
      \/ main[e].op = "finish" /\ Moves(e, "finish", "seal") /\ UNCHANGED answer
  <2>1. CASE Return(e, "err")
    BY <2>1, ReturnIs
  <2>2. CASE main[e].op = "append" /\ Goto(e, "lock") /\ UNCHANGED answer
    BY <2>2, GotoIs, CallMade
  <2>3. CASE main[e].op = "finish" /\ Goto(e, "seal") /\ UNCHANGED answer
    BY <2>3, GotoIs, CallMade
  <2> QED BY <2>1, <2>2, <2>3 DEF Get
<1>o. \A x \in Exports : x # e => Same(x)
  BY <1>f, <1>a, <1>b DEF Same, Moves, Answers, Removes, Aborts
<1>t. Types'
  BY <1>f, <1>i, <1>a, <1>b DEF Types, Moves, Answers, Removes, Aborts
<1>w. TargetIsWhole'
  BY <1>f DEF Inv, TargetIsWhole
<1>1. FlowAwaits(e)'
  BY <1>f, <1>i, <1>a, <1>b
  DEF Local, Types, Shaped, FlowAwaits, Sourced, Moves, Answers, Removes, Aborts, None
<1>2. SetUpAlone(e)'
  BY <1>f, <1>i, <1>a, <1>b
  DEF Local, Types, Shaped, FlowAwaits, SetUpAlone, Setting, Moves, Answers, Removes, Aborts,
       None
<1>3. SealedIsOwned(e)'
  BY <1>f, <1>i, <1>a, <1>b
  DEF Local, Types, Shaped, SealedIsOwned, Owned, Ends, Moves, Answers, Removes, Aborts, None
<1>4. FileMatches(e)'
  BY <1>f, <1>i, <1>a, <1>b
  DEF Local, Types, Shaped, FlowAwaits, FileMatches, Relied, Sourced, Moves, Answers, Removes,
       Aborts, None
<1>5. InstalledIsTold(e)'
  BY <1>f, <1>i, <1>a, <1>b
  DEF Local, Types, Shaped, FlowAwaits, InstalledIsTold, Moves, Answers, Removes, Aborts, None
<1> QED
  BY <1>o, <1>t, <1>w, <1>1, <1>2, <1>3, <1>4, <1>5, OneChanges DEF Local

LEMMA AppendLockInv ==
  ASSUME Inv, NEW e \in Exports, AppendLock(e)
  PROVE  Inv'
<1>f. UNCHANGED <<flow, cancelled, started, next, result, grant, tgt, sweep, sess, table, active,
                  temp, stale, target, installed, unsynced, residue, capacity, log>>
  BY DEF AppendLock, rendererVars, callVars, sessionVars, diskVars, worldVars
<1>i. Types /\ Local(e) /\ Shaped(e)
  BY Here
<1>a. /\ main[e].op \in {"begin", "append"} /\ main[e].op # None /\ main[e].pc = "lock"
      /\ answer[e] = None /\ flow[e] \in {"beginning", "appending", "gone"} /\ ~Setting(e)
  <2>1. main[e].pc = "lock" /\ main[e].op \in {"begin", "append"} /\ main[e].op # None
    BY <1>i DEF AppendLock, Shaped, None
  <2> QED BY <2>1, Working DEF Setting
<1>b. \/ main[e].op = "append" /\ Moves(e, None, None) /\ Answers(e, "err") /\ UNCHANGED aborter
      \/ main[e].op = "begin" /\ Moves(e, "begin", "aborting") /\ Aborts(e) /\ UNCHANGED answer
      \/ ~sess[e].terminal /\ Moves(e, main[e].op, "write") /\ UNCHANGED <<answer, aborter>>
  <2>1. CASE sess[e].terminal
    BY <1>a, <2>1, AppendFails DEF AppendLock
  <2>2. CASE ~sess[e].terminal
    <3>1. [op |-> main[e].op, pc |-> "write"] \in Calls
      BY <1>a, CallMade
    <3> QED BY <2>2, <3>1, GotoIs DEF AppendLock
  <2> QED BY <2>1, <2>2
<1>o. \A x \in Exports : x # e => Same(x)
  BY <1>f, <1>a, <1>b DEF Same, Moves, Answers, Removes, Aborts
<1>t. Types'
  BY <1>f, <1>i, <1>a, <1>b DEF Types, Moves, Answers, Removes, Aborts
<1>w. TargetIsWhole'
  BY <1>f DEF Inv, TargetIsWhole
<1>1. FlowAwaits(e)'
  BY <1>f, <1>i, <1>a, <1>b
  DEF Local, Types, Shaped, FlowAwaits, Sourced, Moves, Answers, Removes, Aborts, None
<1>2. SetUpAlone(e)'
  BY <1>f, <1>i, <1>a, <1>b
  DEF Local, Types, Shaped, FlowAwaits, SetUpAlone, Setting, Moves, Answers, Removes, Aborts,
       None
<1>3. SealedIsOwned(e)'
  BY <1>f, <1>i, <1>a, <1>b
  DEF Local, Types, Shaped, SealedIsOwned, Owned, Ends, Moves, Answers, Removes, Aborts, None
<1>4. FileMatches(e)'
  BY <1>f, <1>i, <1>a, <1>b
  DEF Local, Types, Shaped, FlowAwaits, FileMatches, Relied, Sourced, Moves, Answers, Removes,
       Aborts, None
<1>5. InstalledIsTold(e)'
  BY <1>f, <1>i, <1>a, <1>b
  DEF Local, Types, Shaped, FlowAwaits, InstalledIsTold, Moves, Answers, Removes, Aborts, None
<1> QED
  BY <1>o, <1>t, <1>w, <1>1, <1>2, <1>3, <1>4, <1>5, OneChanges DEF Local

LEMMA AppendWriteInv ==
  ASSUME Inv, NEW e \in Exports, AppendWrite(e)
  PROVE  Inv'
<1>f. UNCHANGED <<flow, cancelled, started, next, result, grant, tgt, sweep, table, active, stale,
                  target, installed, unsynced, residue, capacity, log>>
  BY DEF AppendWrite, rendererVars, callVars, sessionVars, diskVars, worldVars
<1>i. Types /\ Local(e) /\ Shaped(e)
  BY Here
<1>a. /\ main[e].op \in {"begin", "append"} /\ main[e].op # None /\ main[e].pc = "write"
      /\ answer[e] = None /\ flow[e] \in {"beginning", "appending", "gone"} /\ ~Setting(e)
  <2>1. main[e].pc = "write" /\ main[e].op \in {"begin", "append"} /\ main[e].op # None
    BY <1>i DEF AppendWrite, Shaped, None
  <2> QED BY <2>1, Working DEF Setting
<1>b. /\ sess' \in [Exports -> Sessions] /\ \A x \in Exports : x # e => sess'[x] = sess[x]
      /\ sess'[e].terminal = sess[e].terminal /\ sess'[e].cursor = sess[e].cursor
      /\ sess'[e].ceiling = sess[e].ceiling /\ sess'[e].expected = sess[e].expected
  <2>1. sess \in [Exports -> Sessions]
    BY <1>i DEF Types
  <2>2. UNCHANGED sess \/ sess' = [sess EXCEPT ![e].count = @ + 1, ![e].old = FALSE]
    BY DEF AppendWrite
  <2> QED BY <2>1, <2>2 DEF Sessions
<1>c. temp[e] \in Files /\ temp[e].data \in Seq(Nat) /\ (temp[e].exists <=> temp[e] # NoFile)
      /\ sess[e].cursor \in Nat /\ next[e] \in Nat \ {0} /\ sess[e].count \in Nat
  BY <1>i, FileShape DEF Types, Sessions
<1>d. \A n \in Nat :
        Written(e, n) =>
          /\ temp' \in [Exports -> Files] /\ \A x \in Exports : x # e => temp'[x] = temp[x]
          /\ temp'[e].exists <=> temp[e].exists
          /\ temp[e].exists => temp'[e].data = Append(temp[e].data, n)
          /\ temp[e] = NoFile => temp'[e] = NoFile
          /\ temp[e] # NoFile => temp'[e] # NoFile
  <2> SUFFICES ASSUME NEW n \in Nat, Written(e, n)
               PROVE  /\ temp' \in [Exports -> Files] /\ \A x \in Exports : x # e => temp'[x] = temp[x]
                      /\ temp'[e].exists <=> temp[e].exists
                      /\ temp[e].exists => temp'[e].data = Append(temp[e].data, n)
                      /\ temp[e] = NoFile => temp'[e] = NoFile
                      /\ temp[e] # NoFile => temp'[e] # NoFile
    OBVIOUS
  <2>1. temp \in [Exports -> Files]
    BY <1>i DEF Types
  <2>2. CASE temp[e].exists
    <3> DEFINE f == [exists |-> TRUE, data |-> Append(temp[e].data, n)]
    <3>1. Append(temp[e].data, n) \in Seq(Nat)
      BY <1>c
    <3>2. temp' = [temp EXCEPT ![e] = f]
      BY <2>2 DEF Written
    <3>5. f \in Files /\ f.exists /\ f.data = Append(temp[e].data, n)
      BY <3>1 DEF Files
    <3> HIDE DEF f
    <3>6. f # NoFile
      BY <3>5, FileShape
    <3> QED BY <1>c, <2>1, <2>2, <3>2, <3>5, <3>6
  <2>3. CASE ~temp[e].exists
    <3>1. temp' = [temp EXCEPT ![e] = temp[e]]
      BY <2>3 DEF Written
    <3>2. temp' = temp
      BY <2>1, <3>1
    <3> QED BY <2>1, <2>3, <3>2
  <2> QED BY <2>2, <2>3
<1>g. /\ temp' \in [Exports -> Files] /\ \A x \in Exports : x # e => temp'[x] = temp[x]
      /\ temp[e] = NoFile => temp'[e] = NoFile
      /\ temp[e] # NoFile => temp'[e] # NoFile
      /\ \/ /\ main[e].op = "append" /\ Moves(e, None, None) /\ Answers(e, "ok") /\ UNCHANGED aborter
            /\ temp'[e].exists => Whole(temp'[e].data, sess'[e].count) /\ Before(temp'[e].data, next[e] + 1)
         \/ /\ main[e].op = "begin" /\ Moves(e, "begin", "page") /\ UNCHANGED <<answer, aborter>>
            /\ temp'[e].exists =>
                 Whole(temp'[e].data, sess'[e].count) /\ Before(temp'[e].data, sess[e].cursor + 1)
         \/ main[e].op = "append" /\ Moves(e, None, None) /\ Answers(e, "err") /\ UNCHANGED aborter
         \/ main[e].op = "begin" /\ Moves(e, "begin", "aborting") /\ Aborts(e) /\ UNCHANGED answer
  <2> DEFINE frame == IF Sourced(e) THEN sess[e].cursor ELSE next[e]
  <2>1. /\ frame \in Nat \ {0}
        /\ main[e].op = "append" => frame = next[e]
        /\ main[e].op = "begin" => frame = sess[e].cursor
        /\ temp[e].exists => Whole(temp[e].data, sess[e].count) /\ Before(temp[e].data, frame)
    BY <1>a, <1>c, <1>i DEF Local, FlowAwaits, FileMatches, Relied
  <2> HIDE DEF frame
  <2>2. CASE /\ AppendEnds(e, TRUE) /\ Written(e, frame)
             /\ sess' = [sess EXCEPT ![e].count = @ + 1, ![e].old = FALSE]
    <3>1. sess'[e].count = sess[e].count + 1
      BY <1>i, <2>2 DEF Types, Sessions
    <3>2. temp[e].exists => temp'[e].data = Append(temp[e].data, frame)
      BY <1>d, <2>1, <2>2
    <3>3. temp[e].exists => Whole(temp'[e].data, sess'[e].count) /\ Before(temp'[e].data, frame + 1)
      BY <1>c, <2>1, <3>1, <3>2, FrameWritten
    <3> QED BY <1>a, <1>d, <2>1, <2>2, <3>3, AppendSucceeds
  <2>3. CASE AppendEnds(e, FALSE) /\ Written(e, Torn)
    <3>1. Torn \in Nat
      BY DEF Torn
    <3> QED BY <1>a, <1>d, <2>3, <3>1, AppendFails
  <2> QED BY <2>2, <2>3 DEF AppendWrite, frame
<1>o. \A x \in Exports : x # e => Same(x)
  BY <1>f, <1>a, <1>b, <1>c, <1>d, <1>g DEF Same, Moves, Answers, Removes, Aborts
<1>t. Types'
  BY <1>f, <1>i, <1>a, <1>b, <1>c, <1>d, <1>g DEF Types, Moves, Answers, Removes, Aborts
<1>w. TargetIsWhole'
  BY <1>f DEF Inv, TargetIsWhole
<1>1. FlowAwaits(e)'
  BY <1>f, <1>i, <1>a, <1>b, <1>c, <1>d, <1>g
  DEF Local, Types, Shaped, FlowAwaits, Sourced, Moves, Answers, Removes, Aborts, None
<1>2. SetUpAlone(e)'
  BY <1>f, <1>i, <1>a, <1>b, <1>c, <1>d, <1>g
  DEF Local, Types, Shaped, FlowAwaits, SetUpAlone, Setting, Moves, Answers, Removes, Aborts,
       None
<1>3. SealedIsOwned(e)'
  BY <1>f, <1>i, <1>a, <1>b, <1>c, <1>d, <1>g
  DEF Local, Types, Shaped, SealedIsOwned, Owned, Ends, Moves, Answers, Removes, Aborts, None
<1>4. FileMatches(e)'
  BY <1>f, <1>i, <1>a, <1>b, <1>c, <1>d, <1>g
  DEF Local, Types, Shaped, FlowAwaits, FileMatches, Relied, Sourced, Moves, Answers, Removes,
       Aborts, None
<1>5. InstalledIsTold(e)'
  BY <1>f, <1>i, <1>a, <1>b, <1>c, <1>d, <1>g
  DEF Local, Types, Shaped, FlowAwaits, InstalledIsTold, Moves, Answers, Removes, Aborts, None
<1> QED
  BY <1>o, <1>t, <1>w, <1>1, <1>2, <1>3, <1>4, <1>5, OneChanges DEF Local

-----------------------------------------------------------------------------
(* finish                                                                  *)

\* Nobody but the flow that waits for it knows of a finish.
LEMMA Finishing ==
  ASSUME Inv, NEW e \in Exports, main[e].op = "finish"
  PROVE  answer[e] = None /\ flow[e] \in {"finishing", "gone"} /\ ~Setting(e)
BY Working DEF Setting, None

\* Sealing a session, and what it leaves alone.
Seals(e) ==
  /\ sess' \in [Exports -> Sessions] /\ \A x \in Exports : x # e => sess'[x] = sess[x]
  /\ sess'[e].terminal /\ ~sess'[e].old
  /\ sess'[e].count = sess[e].count /\ sess'[e].expected = sess[e].expected
  /\ sess'[e].ceiling = sess[e].ceiling /\ sess'[e].cursor = sess[e].cursor

LEMMA SealIs ==
  ASSUME Inv, NEW e \in Exports, sess' = [sess EXCEPT ![e].terminal = TRUE, ![e].old = FALSE]
  PROVE  Seals(e)
<1>1. sess \in [Exports -> Sessions]
  BY DEF Inv, Types
<1> QED BY <1>1 DEF Seals, Sessions

LEMMA FinishSealInv ==
  ASSUME Inv, NEW e \in Exports, FinishSeal(e)
  PROVE  Inv'
<1>f. UNCHANGED <<flow, cancelled, started, next, result, grant, tgt, aborter, sweep, table, active,
                  temp, stale, target, installed, unsynced, residue, capacity, log>>
  BY DEF FinishSeal, rendererVars, callVars, sessionVars, diskVars, worldVars
<1>i. Types /\ Local(e) /\ Shaped(e)
  BY Here
<1>a. main[e].op = "finish" /\ main[e].pc = "seal" /\ answer[e] = None
      /\ flow[e] \in {"finishing", "gone"} /\ ~Setting(e)
  <2>1. main[e].op = "finish" /\ main[e].pc = "seal"
    BY AtIs DEF FinishSeal
  <2> QED BY <2>1, Finishing
<1>b. \/ Moves(e, None, None) /\ Answers(e, "err") /\ UNCHANGED sess
      \/ /\ Seals(e) /\ UNCHANGED answer
         /\ \/ sess[e].count = sess[e].expected /\ Moves(e, "finish", "replace")
            \/ Moves(e, "finish", "mismatch")
  <2>1. CASE sess[e].terminal
    BY <2>1, ReturnIs DEF FinishSeal
  <2>2. CASE ~sess[e].terminal /\ sess[e].count = sess[e].expected
    <3>1. Goto(e, "replace") /\ Seals(e) /\ UNCHANGED answer
      BY <2>2, SealIs DEF FinishSeal
    <3> QED BY <1>a, <2>2, <3>1, GotoIs, CallMade
  <2>3. CASE ~sess[e].terminal /\ sess[e].count # sess[e].expected
    <3>1. Goto(e, "mismatch") /\ Seals(e) /\ UNCHANGED answer
      BY <2>3, SealIs DEF FinishSeal
    <3> QED BY <1>a, <3>1, GotoIs, CallMade
  <2> QED BY <2>1, <2>2, <2>3
<1>o. \A x \in Exports : x # e => Same(x)
  BY <1>f, <1>a, <1>b DEF Same, Moves, Answers, Removes, Aborts, Seals
<1>t. Types'
  BY <1>f, <1>i, <1>a, <1>b DEF Types, Moves, Answers, Removes, Aborts, Seals
<1>w. TargetIsWhole'
  BY <1>f DEF Inv, TargetIsWhole
<1>1. FlowAwaits(e)'
  BY <1>f, <1>i, <1>a, <1>b
  DEF Local, Types, Shaped, FlowAwaits, Sourced, Moves, Answers, Removes, Aborts, Seals, None
<1>2. SetUpAlone(e)'
  BY <1>f, <1>i, <1>a, <1>b
  DEF Local, Types, Shaped, FlowAwaits, SetUpAlone, Setting, Moves, Answers, Removes, Aborts,
       Seals, None
<1>3. SealedIsOwned(e)'
  BY <1>f, <1>i, <1>a, <1>b
  DEF Local, Types, Shaped, SealedIsOwned, Owned, Ends, Moves, Answers, Removes, Aborts, Seals,
       None
<1>4. FileMatches(e)'
  BY <1>f, <1>i, <1>a, <1>b
  DEF Local, Types, Shaped, FlowAwaits, FileMatches, Relied, Sourced, Moves, Answers, Removes,
       Aborts, Seals, None
<1>5. InstalledIsTold(e)'
  BY <1>f, <1>i, <1>a, <1>b
  DEF Local, Types, Shaped, FlowAwaits, InstalledIsTold, Moves, Answers, Removes, Aborts,
       Seals, None
<1> QED
  BY <1>o, <1>t, <1>w, <1>1, <1>2, <1>3, <1>4, <1>5, OneChanges DEF Local

LEMMA FinishReplaceInv ==
  ASSUME Inv, NEW e \in Exports, FinishReplace(e)
  PROVE  Inv'
<1>f. UNCHANGED <<flow, cancelled, started, next, result, grant, tgt, answer, aborter, sweep, sess,
                  table, active, stale, unsynced, residue, capacity, log>>
  BY DEF FinishReplace, rendererVars, callVars, sessionVars, diskVars, worldVars
<1>i. Types /\ Local(e) /\ Shaped(e)
  BY Here
<1>a. main[e].op = "finish" /\ main[e].pc = "replace" /\ answer[e] = None
      /\ flow[e] \in {"finishing", "gone"} /\ ~Setting(e)
  <2>1. main[e].op = "finish" /\ main[e].pc = "replace"
    BY AtIs DEF FinishReplace
  <2> QED BY <2>1, Finishing
<1>b. /\ temp' \in [Exports -> Files] /\ \A x \in Exports : x # e => temp'[x] = temp[x]
      /\ ~NoFile.exists
      /\ \/ /\ temp[e].exists /\ temp'[e] = NoFile /\ installed' = installed \cup {e}
            /\ Moves(e, "finish", "dirsync")
            /\ target' = [target EXCEPT ![tgt[e]] =
                 [by |-> e, content |-> temp[e].data, confirmed |-> sess[e].expected]]
         \/ Moves(e, "finish", "fail") /\ UNCHANGED <<target, temp, installed>>
  <2>1. temp \in [Exports -> Files] /\ NoFile \in Files /\ ~NoFile.exists
    BY <1>i, FilesMade DEF Types, NoFile
  <2>2. CASE Goto(e, "fail") /\ UNCHANGED <<target, temp, installed>>
    <3>1. Moves(e, "finish", "fail")
      BY <1>a, <2>2, GotoIs, CallMade
    <3> QED BY <2>1, <2>2, <3>1
  <2>3. CASE /\ temp[e].exists /\ Goto(e, "dirsync")
             /\ target' = [target EXCEPT ![tgt[e]] =
                  [by |-> e, content |-> temp[e].data, confirmed |-> sess[e].expected]]
             /\ temp' = [temp EXCEPT ![e] = NoFile] /\ installed' = installed \cup {e}
    <3>1. Moves(e, "finish", "dirsync")
      BY <1>a, <2>3, GotoIs, CallMade
    <3> QED BY <2>1, <2>3, <3>1
  <2> QED BY <2>2, <2>3 DEF FinishReplace
<1>c. /\ target' \in [Targets -> Contents]
      /\ \A t \in Targets :
           \/ target'[t] = target[t]
           \/ Whole(target'[t].content, target'[t].confirmed)
  <2>1. /\ target \in [Targets -> Contents] /\ tgt[e] \in Targets
        /\ temp[e].data \in Seq(Nat) /\ sess[e].expected \in Nat
    BY <1>i, FileShape DEF Types, Sessions
  <2>2. temp[e].exists => Whole(temp[e].data, sess[e].expected)
    BY <1>a, <1>i DEF Local, FileMatches, Relied
  <2> DEFINE r == [by |-> e, content |-> temp[e].data, confirmed |-> sess[e].expected]
  <2>3. r \in Contents /\ r.content = temp[e].data /\ r.confirmed = sess[e].expected
    BY <2>1 DEF Contents
  <2>4. UNCHANGED target \/ (temp[e].exists /\ target' = [target EXCEPT ![tgt[e]] = r])
    BY <1>b
  <2> HIDE DEF r
  <2> QED BY <2>1, <2>2, <2>3, <2>4
<1>o. \A x \in Exports : x # e => Same(x)
  BY <1>f, <1>a, <1>b, <1>c DEF Same, Moves, Answers, Removes, Aborts, Seals
<1>t. Types'
  BY <1>f, <1>i, <1>a, <1>b, <1>c DEF Types, Moves, Answers, Removes, Aborts, Seals
<1>w. TargetIsWhole'
  BY <1>c DEF Inv, TargetIsWhole, Whole
<1>1. FlowAwaits(e)'
  BY <1>f, <1>i, <1>a, <1>b, <1>c
  DEF Local, Types, Shaped, FlowAwaits, Sourced, Moves, Answers, Removes, Aborts, Seals, None
<1>2. SetUpAlone(e)'
  BY <1>f, <1>i, <1>a, <1>b, <1>c
  DEF Local, Types, Shaped, FlowAwaits, SetUpAlone, Setting, Moves, Answers, Removes, Aborts,
       Seals, None
<1>3. SealedIsOwned(e)'
  BY <1>f, <1>i, <1>a, <1>b, <1>c
  DEF Local, Types, Shaped, SealedIsOwned, Owned, Ends, Moves, Answers, Removes, Aborts, Seals,
       None
<1>4. FileMatches(e)'
  BY <1>f, <1>i, <1>a, <1>b, <1>c
  DEF Local, Types, Shaped, FlowAwaits, FileMatches, Relied, Sourced, Moves, Answers, Removes,
       Aborts, Seals, None
<1>5. InstalledIsTold(e)'
  BY <1>f, <1>i, <1>a, <1>b, <1>c
  DEF Local, Types, Shaped, FlowAwaits, InstalledIsTold, Moves, Answers, Removes, Aborts,
       Seals, None
<1> QED
  BY <1>o, <1>t, <1>w, <1>1, <1>2, <1>3, <1>4, <1>5, OneChanges DEF Local

LEMMA FinishDirSyncInv ==
  ASSUME Inv, NEW e \in Exports, FinishDirSync(e)
  PROVE  Inv'
<1>f. UNCHANGED <<flow, cancelled, started, next, result, grant, tgt, answer, aborter, sweep, sess,
                  table, active, temp, stale, target, installed, residue, capacity, log>>
  BY DEF FinishDirSync, rendererVars, callVars, sessionVars, diskVars, worldVars
<1>i. Types /\ Local(e) /\ Shaped(e)
  BY Here
<1>a. main[e].op = "finish" /\ main[e].pc = "dirsync" /\ answer[e] = None
      /\ flow[e] \in {"finishing", "gone"} /\ ~Setting(e)
  <2>1. main[e].op = "finish" /\ main[e].pc = "dirsync"
    BY AtIs DEF FinishDirSync
  <2> QED BY <2>1, Finishing
<1>b. \/ Moves(e, "finish", "leave") /\ UNCHANGED unsynced
      \/ Moves(e, "finish", "fail") /\ unsynced' = unsynced \cup {e}
  <2>1. CASE Goto(e, "leave") /\ UNCHANGED unsynced
    BY <1>a, <2>1, GotoIs, CallMade
  <2>2. CASE Goto(e, "fail") /\ unsynced' = unsynced \cup {e}
    BY <1>a, <2>2, GotoIs, CallMade
  <2> QED BY <2>1, <2>2 DEF FinishDirSync
<1>o. \A x \in Exports : x # e => Same(x)
  BY <1>f, <1>a, <1>b DEF Same, Moves, Answers, Removes, Aborts, Seals
<1>t. Types'
  BY <1>f, <1>i, <1>a, <1>b DEF Types, Moves, Answers, Removes, Aborts, Seals
<1>w. TargetIsWhole'
  BY <1>f DEF Inv, TargetIsWhole
<1>1. FlowAwaits(e)'
  BY <1>f, <1>i, <1>a, <1>b
  DEF Local, Types, Shaped, FlowAwaits, Sourced, Moves, Answers, Removes, Aborts, Seals, None
<1>2. SetUpAlone(e)'
  BY <1>f, <1>i, <1>a, <1>b
  DEF Local, Types, Shaped, FlowAwaits, SetUpAlone, Setting, Moves, Answers, Removes, Aborts,
       Seals, None
<1>3. SealedIsOwned(e)'
  BY <1>f, <1>i, <1>a, <1>b
  DEF Local, Types, Shaped, SealedIsOwned, Owned, Ends, Moves, Answers, Removes, Aborts, Seals,
       None
<1>4. FileMatches(e)'
  BY <1>f, <1>i, <1>a, <1>b
  DEF Local, Types, Shaped, FlowAwaits, FileMatches, Relied, Sourced, Moves, Answers, Removes,
       Aborts, Seals, None
<1>5. InstalledIsTold(e)'
  BY <1>f, <1>i, <1>a, <1>b
  DEF Local, Types, Shaped, FlowAwaits, InstalledIsTold, Moves, Answers, Removes, Aborts,
       Seals, None
<1> QED
  BY <1>o, <1>t, <1>w, <1>1, <1>2, <1>3, <1>4, <1>5, OneChanges DEF Local

LEMMA FinishFailsInv ==
  ASSUME Inv, NEW e \in Exports, FinishFails(e)
  PROVE  Inv'
<1>f. UNCHANGED <<flow, cancelled, started, next, result, grant, tgt, aborter, sweep, sess, stale,
                  target, installed, unsynced, capacity, log>>
  BY DEF FinishFails, rendererVars, callVars, sessionVars, diskVars, worldVars
<1>i. Types /\ Local(e) /\ Shaped(e)
  BY Here
<1>a. main[e].op = "finish" /\ main[e].pc \in {"mismatch", "fail"} /\ answer[e] = None
      /\ flow[e] \in {"finishing", "gone"} /\ ~Setting(e)
  BY Finishing DEF FinishFails
<1>b. /\ Removes(e) /\ table' = table \ {e} /\ active' = active \ {e}
      /\ Moves(e, None, None) /\ Answers(e, "err")
  BY RemoveTempIs, ReturnIs DEF FinishFails, RemoveCurrent
<1>c. ~NoFile.exists
  BY DEF NoFile
<1>o. \A x \in Exports : x # e => Same(x)
  BY <1>f, <1>a, <1>b, <1>c DEF Same, Moves, Answers, Removes, Aborts, Seals
<1>t. Types'
  BY <1>f, <1>i, <1>a, <1>b, <1>c DEF Types, Moves, Answers, Removes, Aborts, Seals
<1>w. TargetIsWhole'
  BY <1>f DEF Inv, TargetIsWhole
<1>1. FlowAwaits(e)'
  BY <1>f, <1>i, <1>a, <1>b, <1>c
  DEF Local, Types, Shaped, FlowAwaits, Sourced, Moves, Answers, Removes, Aborts, Seals, None
<1>2. SetUpAlone(e)'
  BY <1>f, <1>i, <1>a, <1>b, <1>c
  DEF Local, Types, Shaped, FlowAwaits, SetUpAlone, Setting, Moves, Answers, Removes, Aborts,
       Seals, None
<1>3. SealedIsOwned(e)'
  BY <1>f, <1>i, <1>a, <1>b, <1>c
  DEF Local, Types, Shaped, SealedIsOwned, Owned, Ends, Moves, Answers, Removes, Aborts, Seals,
       None
<1>4. FileMatches(e)'
  BY <1>f, <1>i, <1>a, <1>b, <1>c
  DEF Local, Types, Shaped, FlowAwaits, FileMatches, Relied, Sourced, Moves, Answers, Removes,
       Aborts, Seals, None
<1>5. InstalledIsTold(e)'
  BY <1>f, <1>i, <1>a, <1>b, <1>c
  DEF Local, Types, Shaped, FlowAwaits, InstalledIsTold, Moves, Answers, Removes, Aborts,
       Seals, None
<1> QED
  BY <1>o, <1>t, <1>w, <1>1, <1>2, <1>3, <1>4, <1>5, OneChanges DEF Local

LEMMA FinishLeavesInv ==
  ASSUME Inv, NEW e \in Exports, FinishLeaves(e)
  PROVE  Inv'
<1>f. UNCHANGED <<flow, cancelled, started, next, result, grant, tgt, aborter, sweep, sess, temp,
                  stale, target, installed, unsynced, residue, capacity, log>>
  BY DEF FinishLeaves, rendererVars, callVars, sessionVars, diskVars, worldVars
<1>i. Types /\ Local(e) /\ Shaped(e)
  BY Here
<1>a. main[e].op = "finish" /\ main[e].pc = "leave" /\ answer[e] = None
      /\ flow[e] \in {"finishing", "gone"} /\ ~Setting(e)
  <2>1. main[e].op = "finish" /\ main[e].pc = "leave"
    BY AtIs DEF FinishLeaves
  <2> QED BY <2>1, Finishing
<1>b. /\ table' = table \ {e} /\ active' = active \ {e}
      /\ Moves(e, None, None) /\ Answers(e, "ok")
  BY ReturnIs DEF FinishLeaves, RemoveCurrent
<1>c. e \in installed /\ temp[e] = NoFile /\ ~NoFile.exists
  BY <1>a, <1>i DEF Local, InstalledIsTold, SealedIsOwned, NoFile
<1>o. \A x \in Exports : x # e => Same(x)
  BY <1>f, <1>a, <1>b, <1>c DEF Same, Moves, Answers, Removes, Aborts, Seals
<1>t. Types'
  BY <1>f, <1>i, <1>a, <1>b, <1>c DEF Types, Moves, Answers, Removes, Aborts, Seals
<1>w. TargetIsWhole'
  BY <1>f DEF Inv, TargetIsWhole
<1>1. FlowAwaits(e)'
  BY <1>f, <1>i, <1>a, <1>b, <1>c
  DEF Local, Types, Shaped, FlowAwaits, Sourced, Moves, Answers, Removes, Aborts, Seals, None
<1>2. SetUpAlone(e)'
  BY <1>f, <1>i, <1>a, <1>b, <1>c
  DEF Local, Types, Shaped, FlowAwaits, SetUpAlone, Setting, Moves, Answers, Removes, Aborts,
       Seals, None
<1>3. SealedIsOwned(e)'
  BY <1>f, <1>i, <1>a, <1>b, <1>c
  DEF Local, Types, Shaped, SealedIsOwned, Owned, Ends, Moves, Answers, Removes, Aborts, Seals,
       None
<1>4. FileMatches(e)'
  BY <1>f, <1>i, <1>a, <1>b, <1>c
  DEF Local, Types, Shaped, FlowAwaits, FileMatches, Relied, Sourced, Moves, Answers, Removes,
       Aborts, Seals, None
<1>5. InstalledIsTold(e)'
  BY <1>f, <1>i, <1>a, <1>b, <1>c
  DEF Local, Types, Shaped, FlowAwaits, InstalledIsTold, Moves, Answers, Removes, Aborts,
       Seals, None
<1> QED
  BY <1>o, <1>t, <1>w, <1>1, <1>2, <1>3, <1>4, <1>5, OneChanges DEF Local

-----------------------------------------------------------------------------
(* abort                                                                   *)

AborterTo(e, a) ==
  /\ aborter' \in [Exports -> {None, "get", "lock", "remove", "ended"}] /\ aborter'[e] = a
  /\ \A x \in Exports : x # e => aborter'[x] = aborter[x]

LEMMA AborterIs ==
  ASSUME Inv, NEW e \in Exports, NEW a \in {"lock", "remove", "ended"},
         aborter' = [aborter EXCEPT ![e] = a]
  PROVE  AborterTo(e, a)
BY DEF Inv, Types, AborterTo

LEMMA AbortGetInv ==
  ASSUME Inv, NEW e \in Exports, AbortGet(e)
  PROVE  Inv'
<1>f. UNCHANGED <<flow, cancelled, started, next, result, grant, tgt, main, answer, sweep, sess,
                  table, active, temp, stale, target, installed, unsynced, residue, capacity, log>>
  BY DEF AbortGet, rendererVars, callVars, sessionVars, diskVars, worldVars
<1>i. Types /\ Local(e) /\ Shaped(e)
  BY Here
<1>a. aborter[e] = "get" /\ (AborterTo(e, "lock") \/ AborterTo(e, "ended"))
  <2>1. aborter[e] = "get" /\ aborter' = [aborter EXCEPT ![e] = IF e \in table THEN "lock" ELSE "ended"]
    BY DEF AbortGet
  <2> QED BY <2>1, AborterIs
<1>o. \A x \in Exports : x # e => Same(x)
  BY <1>f, <1>a DEF Same, Removes, Seals, AborterTo
<1>t. Types'
  BY <1>f, <1>i, <1>a DEF Types, Removes, Seals, AborterTo
<1>w. TargetIsWhole'
  BY <1>f DEF Inv, TargetIsWhole
<1>1. FlowAwaits(e)'
  BY <1>f, <1>i, <1>a
  DEF Local, Types, Shaped, FlowAwaits, Sourced, Removes, Seals, AborterTo, None
<1>2. SetUpAlone(e)'
  BY <1>f, <1>i, <1>a
  DEF Local, Types, Shaped, FlowAwaits, SetUpAlone, Setting, Removes, Seals, AborterTo, None
<1>3. SealedIsOwned(e)'
  BY <1>f, <1>i, <1>a
  DEF Local, Types, Shaped, SealedIsOwned, Owned, Ends, Removes, Seals, AborterTo, None
<1>4. FileMatches(e)'
  BY <1>f, <1>i, <1>a
  DEF Local, Types, Shaped, FlowAwaits, FileMatches, Relied, Sourced, Removes, Seals,
       AborterTo, None
<1>5. InstalledIsTold(e)'
  BY <1>f, <1>i, <1>a
  DEF Local, Types, Shaped, FlowAwaits, InstalledIsTold, Removes, Seals, AborterTo, None
<1> QED
  BY <1>o, <1>t, <1>w, <1>1, <1>2, <1>3, <1>4, <1>5, OneChanges DEF Local

LEMMA AbortSealInv ==
  ASSUME Inv, NEW e \in Exports, AbortSeal(e)
  PROVE  Inv'
<1>f. UNCHANGED <<flow, cancelled, started, next, result, grant, tgt, main, answer, sweep, table,
                  active, temp, stale, target, installed, unsynced, residue, capacity, log>>
  BY DEF AbortSeal, rendererVars, callVars, sessionVars, diskVars, worldVars
<1>i. Types /\ Local(e) /\ Shaped(e)
  BY Here
<1>a. aborter[e] = "lock" /\ main[e].pc # "write"
  BY DEF AbortSeal, Locked
<1>b. \/ AborterTo(e, "ended") /\ UNCHANGED sess
      \/ ~sess[e].terminal /\ AborterTo(e, "remove") /\ Seals(e)
  <2>1. CASE sess[e].terminal
    BY <2>1, AborterIs DEF AbortSeal
  <2>2. CASE ~sess[e].terminal
    <3>1. aborter' = [aborter EXCEPT ![e] = "remove"] /\ Seals(e)
      BY <2>2, SealIs DEF AbortSeal
    <3> QED BY <2>2, <3>1, AborterIs
  <2> QED BY <2>1, <2>2
<1>o. \A x \in Exports : x # e => Same(x)
  BY <1>f, <1>a, <1>b DEF Same, Removes, Seals, AborterTo
<1>t. Types'
  BY <1>f, <1>i, <1>a, <1>b DEF Types, Removes, Seals, AborterTo
<1>w. TargetIsWhole'
  BY <1>f DEF Inv, TargetIsWhole
<1>1. FlowAwaits(e)'
  BY <1>f, <1>i, <1>a, <1>b
  DEF Local, Types, Shaped, FlowAwaits, Sourced, Removes, Seals, AborterTo, None
<1>2. SetUpAlone(e)'
  BY <1>f, <1>i, <1>a, <1>b
  DEF Local, Types, Shaped, FlowAwaits, SetUpAlone, Setting, Removes, Seals, AborterTo, None
<1>3. SealedIsOwned(e)'
  BY <1>f, <1>i, <1>a, <1>b
  DEF Local, Types, Shaped, SealedIsOwned, Owned, Ends, Removes, Seals, AborterTo, None
<1>4. FileMatches(e)'
  BY <1>f, <1>i, <1>a, <1>b
  DEF Local, Types, Shaped, FlowAwaits, FileMatches, Relied, Sourced, Removes, Seals,
       AborterTo, None
<1>5. InstalledIsTold(e)'
  BY <1>f, <1>i, <1>a, <1>b
  DEF Local, Types, Shaped, FlowAwaits, InstalledIsTold, Removes, Seals, AborterTo, None
<1> QED
  BY <1>o, <1>t, <1>w, <1>1, <1>2, <1>3, <1>4, <1>5, OneChanges DEF Local

LEMMA AbortRemoveInv ==
  ASSUME Inv, NEW e \in Exports, AbortRemove(e)
  PROVE  Inv'
<1>f. UNCHANGED <<flow, cancelled, started, next, result, grant, tgt, main, answer, sweep, sess,
                  stale, target, installed, unsynced, capacity, log>>
  BY DEF AbortRemove, rendererVars, callVars, sessionVars, diskVars, worldVars
<1>i. Types /\ Local(e) /\ Shaped(e)
  BY Here
<1>a. /\ aborter[e] = "remove" /\ AborterTo(e, "ended") /\ Removes(e)
      /\ table' = table \ {e} /\ active' = active \ {e}
  BY AborterIs, RemoveTempIs DEF AbortRemove, RemoveCurrent
<1>b. /\ temp'[e] = NoFile \/ temp'[e] = temp[e]
      /\ ~NoFile.exists /\ ~Setting(e)
  BY <1>a, <1>i DEF Removes, NoFile, Local, SetUpAlone, None
<1>o. \A x \in Exports : x # e => Same(x)
  BY <1>f, <1>a, <1>b DEF Same, Removes, Seals, AborterTo
<1>t. Types'
  BY <1>f, <1>i, <1>a, <1>b DEF Types, Removes, Seals, AborterTo
<1>w. TargetIsWhole'
  BY <1>f DEF Inv, TargetIsWhole
<1>1. FlowAwaits(e)'
  BY <1>f, <1>i, <1>a, <1>b
  DEF Local, Types, Shaped, FlowAwaits, Sourced, Removes, Seals, AborterTo, None
<1>2. SetUpAlone(e)'
  BY <1>f, <1>i, <1>a, <1>b
  DEF Local, Types, Shaped, FlowAwaits, SetUpAlone, Setting, Removes, Seals, AborterTo, None
<1>3. SealedIsOwned(e)'
  BY <1>f, <1>i, <1>a, <1>b
  DEF Local, Types, Shaped, SealedIsOwned, Owned, Ends, Removes, Seals, AborterTo, None
<1>4. FileMatches(e)'
  BY <1>f, <1>i, <1>a, <1>b
  DEF Local, Types, Shaped, FlowAwaits, FileMatches, Relied, Sourced, Removes, Seals,
       AborterTo, None
<1>5. InstalledIsTold(e)'
  BY <1>f, <1>i, <1>a, <1>b
  DEF Local, Types, Shaped, FlowAwaits, InstalledIsTold, Removes, Seals, AborterTo, None
<1> QED
  BY <1>o, <1>t, <1>w, <1>1, <1>2, <1>3, <1>4, <1>5, OneChanges DEF Local

-----------------------------------------------------------------------------
(* Time, the durable capture and crashes.                                  *)

LEMMA SessionAgesInv ==
  ASSUME Inv, NEW e \in Exports, SessionAges(e)
  PROVE  Inv'
<1>f. UNCHANGED <<flow, cancelled, started, next, result, grant, tgt, main, answer, aborter, sweep,
                  table, active, temp, target, installed, unsynced, residue, capacity, log>>
  BY DEF SessionAges, rendererVars, callVars, sessionVars, diskVars, worldVars
<1>i. Types /\ Local(e) /\ Shaped(e)
  BY Here
<1>a. e \in table /\ ~Setting(e) /\ stale' \in {stale, stale \cup {e}}
  BY <1>i DEF SessionAges, Local, SetUpAlone
<1>b. /\ sess' \in [Exports -> Sessions] /\ \A x \in Exports : x # e => sess'[x] = sess[x]
      /\ sess'[e].terminal = sess[e].terminal /\ sess'[e].count = sess[e].count
      /\ sess'[e].cursor = sess[e].cursor /\ sess'[e].ceiling = sess[e].ceiling
      /\ sess'[e].expected = sess[e].expected
  <2>1. sess \in [Exports -> Sessions] /\ sess' = [sess EXCEPT ![e].old = TRUE]
    BY <1>i DEF Types, SessionAges
  <2> QED BY <2>1 DEF Sessions
<1>o. \A x \in Exports : x # e => Same(x)
  BY <1>f, <1>a, <1>b DEF Same, Removes
<1>t. Types'
  BY <1>f, <1>i, <1>a, <1>b DEF Types, Removes
<1>w. TargetIsWhole'
  BY <1>f DEF Inv, TargetIsWhole
<1>1. FlowAwaits(e)'
  BY <1>f, <1>i, <1>a, <1>b
  DEF Local, Types, Shaped, FlowAwaits, Sourced, Removes, None
<1>2. SetUpAlone(e)'
  BY <1>f, <1>i, <1>a, <1>b
  DEF Local, Types, Shaped, FlowAwaits, SetUpAlone, Setting, Removes, None
<1>3. SealedIsOwned(e)'
  BY <1>f, <1>i, <1>a, <1>b
  DEF Local, Types, Shaped, SealedIsOwned, Owned, Ends, Removes, None
<1>4. FileMatches(e)'
  BY <1>f, <1>i, <1>a, <1>b
  DEF Local, Types, Shaped, FlowAwaits, FileMatches, Relied, Sourced, Removes, None
<1>5. InstalledIsTold(e)'
  BY <1>f, <1>i, <1>a, <1>b
  DEF Local, Types, Shaped, FlowAwaits, InstalledIsTold, Removes, None
<1> QED
  BY <1>o, <1>t, <1>w, <1>1, <1>2, <1>3, <1>4, <1>5, OneChanges DEF Local

LEMMA CaptureChangesInv ==
  ASSUME Inv, CaptureChanges
  PROVE  Inv'
<1>f. UNCHANGED <<flow, cancelled, started, next, result, grant, tgt, main, answer, aborter, sweep,
                  sess, table, active, temp, stale, target, installed, unsynced, residue, capacity>>
  BY DEF CaptureChanges, rendererVars, callVars, sessionVars, diskVars, worldVars
<1>1. \A x \in Exports : Same(x)
  BY <1>f DEF Same
<1>2. \A x \in Exports : Local(x)'
  BY <1>1, SameStays
<1>3. log' \in [first : Nat, last : Nat \ {0}]
  <2>1. log \in [first : Nat, last : Nat \ {0}]
    BY DEF Inv, Types
  <2>2. PICK f \in {log.first + 1, log.last} : log' = [log EXCEPT !.first = f]
    BY DEF CaptureChanges
  <2> QED BY <2>1, <2>2
<1>4. Types'
  BY <1>f, <1>3 DEF Inv, Types
<1>5. TargetIsWhole'
  BY <1>f DEF Inv, TargetIsWhole
<1> QED BY <1>2, <1>4, <1>5 DEF Inv

LEMMA NothingKnown ==
  /\ NoSession \in Sessions /\ Idle \in Calls /\ NoSweep \in [visit : SUBSET Exports, expired : SUBSET Exports]
  /\ Idle.op = None /\ Idle.pc = None /\ NoSweep.visit = {} /\ NoSweep.expired = {}
  /\ ~NoSession.terminal /\ ~NoSession.old /\ NoSession.count = 0 /\ NoSession.cursor = 0
  /\ NoSession.ceiling = 0 /\ ~NoFile.exists
<1>1. Idle \in Calls
  BY CallMade DEF Idle
<1>2. NoSession \in Sessions
  BY DEF NoSession, Sessions
<1> QED BY <1>1, <1>2 DEF NoSession, Idle, NoSweep, NoFile

\* Nobody knows anything of an export any more but the files.
LEMMA CrashInv ==
  ASSUME Inv, Crash
  PROVE  Inv'
<1>f. UNCHANGED <<cancelled, started, next, result, tgt, temp, target, installed, unsynced, capacity, log>>
  BY DEF Crash
<1>1. /\ flow' = [e \in Exports |-> IF flow[e] \in Busy THEN "gone" ELSE flow[e]]
      /\ grant' = [e \in Exports |-> IF grant[e] = "live" THEN "gone" ELSE grant[e]]
      /\ main' = [e \in Exports |-> Idle] /\ answer' = [e \in Exports |-> None]
      /\ aborter' = [e \in Exports |-> None] /\ sweep' = [e \in Exports |-> NoSweep]
      /\ sess' = [e \in Exports |-> NoSession] /\ table' = {} /\ active' = {}
      /\ residue' = {e \in Exports : temp[e] # NoFile}
      /\ stale' \in {stale, residue'}
  BY DEF Crash
<1>2. Types'
  <2>1. /\ flow' \in [Exports -> Busy \cup {"idle", "done", "gone"}]
        /\ grant' \in [Exports -> {None, "live", "gone"}]
    BY <1>1 DEF Inv, Types
  <2>2. /\ main' \in [Exports -> Calls] /\ answer' \in [Exports -> {None, "ok", "err"}]
        /\ aborter' \in [Exports -> {None, "get", "lock", "remove", "ended"}]
        /\ sweep' \in [Exports -> [visit : SUBSET Exports, expired : SUBSET Exports]]
        /\ sess' \in [Exports -> Sessions]
    BY <1>1, NothingKnown
  <2>3. table' \subseteq Exports /\ active' \subseteq Exports /\ residue' \subseteq Exports /\ stale' \subseteq Exports
    BY <1>1 DEF Inv, Types
  <2> QED BY <1>f, <2>1, <2>2, <2>3 DEF Inv, Types
<1>3. TargetIsWhole'
  BY <1>f DEF Inv, TargetIsWhole
<1>4. ASSUME NEW e \in Exports
      PROVE  Local(e)'
  <2>i. Types /\ Local(e) /\ Shaped(e) /\ flow[e] \in Busy \cup {"idle", "done", "gone"}
    BY Here DEF Types
  <2>1. /\ main'[e].op = None /\ main'[e].pc = None /\ answer'[e] = None /\ aborter'[e] = None
        /\ \A b \in Exports : sweep'[b].visit = {} /\ sweep'[b].expired = {}
        /\ ~sess'[e].terminal /\ ~sess'[e].old /\ sess'[e].count = 0 /\ sess'[e].cursor = 0
        /\ sess'[e].ceiling = 0 /\ e \notin table' /\ e \notin active'
        /\ e \in residue' <=> temp[e] # NoFile
    BY <1>1, NothingKnown
  <2>2. flow'[e] = (IF flow[e] \in Busy THEN "gone" ELSE flow[e]) /\ flow'[e] \in {"idle", "done", "gone"}
    BY <1>1, <2>i
  <2>3. FlowAwaits(e)'
    BY <1>f, <2>i, <2>1, <2>2 DEF Local, FlowAwaits, Sourced, Busy, None
  <2>4. Setting(e)' => flow[e] = "idle" /\ Setting(e)
    BY <2>1, <2>2 DEF Setting, Busy, None
  <2>5. SetUpAlone(e)'
    <3> SUFFICES ASSUME Setting(e)'
                 PROVE  SetUpAlone(e)'
      BY DEF SetUpAlone
    <3>1. flow[e] = "idle" /\ Setting(e) /\ main[e].pc = None
      BY <2>i, <2>4 DEF Local, FlowAwaits, Shaped
    <3>2. temp[e] = NoFile /\ e \notin stale /\ e \notin installed
      BY <2>i, <3>1 DEF Local, SetUpAlone, None
    <3>3. e \notin stale'
      BY <1>1, <2>1, <3>2
    <3> QED BY <1>f, <2>1, <3>2, <3>3 DEF SetUpAlone, None
  <2>6. SealedIsOwned(e)'
    BY <1>f, <2>i, <2>1 DEF Local, SealedIsOwned, Owned, Ends, None
  <2>7. FileMatches(e)'
    BY <2>1 DEF FileMatches, Relied, None
  <2>8. InstalledIsTold(e)'
    <3>1. /\ e \in installed => flow[e] # "idle"
          /\ e \in installed /\ flow[e] = "done" => e \in unsynced \/ result[e] = "ok"
          /\ result[e] = "ok" => e \in installed
      BY <2>i DEF Local, FlowAwaits, InstalledIsTold, Shaped, None
    <3> QED BY <1>f, <2>1, <2>2, <3>1 DEF InstalledIsTold, Busy, None
  <2> QED BY <2>3, <2>5, <2>6, <2>7, <2>8 DEF Local
<1> QED BY <1>2, <1>3, <1>4 DEF Inv

-----------------------------------------------------------------------------
(* The invariant, and what follows from it.                                *)

LEMMA InitInv ==
  ASSUME Init
  PROVE  Inv
<1>1. Types
  <2>1. /\ flow \in [Exports -> Busy \cup {"idle", "done", "gone"}]
        /\ cancelled \in [Exports -> BOOLEAN] /\ started \in [Exports -> BOOLEAN]
        /\ next \in [Exports -> Nat \ {0}]
        /\ result \in [Exports -> {None, "ok", "cancelled", "error"}]
        /\ grant \in [Exports -> {None, "live", "gone"}]
    BY DEF Init
  <2>2. tgt \in [Exports -> Targets]
    <3>1. \A e \in Exports : (CHOOSE t \in Choices[e] : TRUE) \in Targets
      <4> SUFFICES ASSUME NEW e \in Exports
                   PROVE  (CHOOSE t \in Choices[e] : TRUE) \in Targets
        OBVIOUS
      <4>1. Choices[e] \subseteq Targets /\ Choices[e] # {}
        BY ChoicesAssumption
      <4>2. \E t \in Choices[e] : TRUE
        BY <4>1
      <4>3. (CHOOSE t \in Choices[e] : TRUE) \in Choices[e]
        BY <4>2
      <4> QED BY <4>1, <4>3
    <3> QED BY <3>1 DEF Init
  <2>3. /\ main \in [Exports -> Calls] /\ answer \in [Exports -> {None, "ok", "err"}]
        /\ aborter \in [Exports -> {None, "get", "lock", "remove", "ended"}]
        /\ sweep \in [Exports -> [visit : SUBSET Exports, expired : SUBSET Exports]]
        /\ sess \in [Exports -> Sessions] /\ temp \in [Exports -> Files]
    BY NothingKnown, FilesMade DEF Init
  <2>4. target \in [Targets -> Contents]
    BY DEF Init, Contents
  <2>5. log \in [first : Nat, last : Nat \ {0}]
    BY BatchesAssumption DEF Init
  <2>6. /\ table \subseteq Exports /\ active \subseteq Exports /\ stale \subseteq Exports
        /\ installed \subseteq Exports /\ unsynced \subseteq Exports /\ residue \subseteq Exports
    BY DEF Init
  <2> QED BY <2>1, <2>2, <2>3, <2>4, <2>5, <2>6 DEF Types
<1>2. ASSUME NEW e \in Exports
      PROVE  Local(e)
  <2>1. /\ main[e].op = None /\ main[e].pc = None /\ answer[e] = None /\ aborter[e] = None
        /\ \A b \in Exports : sweep[b].visit = {} /\ sweep[b].expired = {}
        /\ ~sess[e].terminal /\ ~sess[e].old /\ sess[e].count = 0 /\ sess[e].cursor = 0
        /\ sess[e].ceiling = 0 /\ e \notin table /\ e \notin active /\ e \notin stale
        /\ temp[e] = NoFile /\ ~temp[e].exists /\ e \notin installed
        /\ flow[e] = "idle" /\ ~started[e] /\ result[e] = None
    BY NothingKnown DEF Init
  <2>2. FlowAwaits(e) /\ SetUpAlone(e)
    BY <2>1 DEF FlowAwaits, Sourced, SetUpAlone, None
  <2>3. SealedIsOwned(e) /\ FileMatches(e) /\ InstalledIsTold(e)
    BY <2>1 DEF SealedIsOwned, Owned, Ends, FileMatches, InstalledIsTold, None
  <2> QED BY <2>2, <2>3 DEF Local
<1>3. TargetIsWhole
  BY DEF Init, TargetIsWhole
<1> QED BY <1>1, <1>2, <1>3 DEF Inv

LEMMA NextInv ==
  ASSUME Inv, [Next]_vars
  PROVE  Inv'
<1>1. ASSUME NEW e \in Exports,
             \/ StartExport(e) \/ SelectTarget(e) \/ GrantExpires(e) \/ CancelExport(e)
             \/ RendererGone(e) \/ SessionAges(e) \/ FlowStep(e)
      PROVE  Inv'
  BY <1>1, StartExportInv, SelectTargetInv, GrantExpiresInv, CancelExportInv, RendererGoneInv,
     SessionAgesInv, PrepareInv, BeginReturnsInv, AppendReturnsInv, FinishReturnsInv, AbortReturnsInv
  DEF FlowStep
<1>2. ASSUME NEW e \in Exports, MainStep(e)
      PROVE  Inv'
  BY <1>2, ConsumeInv, VisitCandidateInv, DisposeExpiredInv, AdmitInv, CreateTempInv,
     InsertSessionInv, ReadPageInv, BeginGivesUpInv, GetInv, AppendLockInv, AppendWriteInv,
     FinishSealInv, FinishReplaceInv, FinishDirSyncInv, FinishFailsInv, FinishLeavesInv
  DEF MainStep
<1>3. ASSUME NEW e \in Exports, AbortStep(e)
      PROVE  Inv'
  BY <1>3, AbortGetInv, AbortSealInv, AbortRemoveInv DEF AbortStep
<1>4. CASE UNCHANGED vars
  <2>1. UNCHANGED <<flow, cancelled, started, next, result, grant, tgt, main, answer, aborter, sweep,
                    sess, table, active, temp, stale, target, installed, unsynced, residue, log>>
    BY <1>4 DEF vars, rendererVars, callVars, sessionVars, diskVars, worldVars
  <2>2. \A x \in Exports : Same(x)
    BY <2>1 DEF Same
  <2>3. \A x \in Exports : Local(x)'
    BY <2>2, SameStays
  <2>4. Types' /\ TargetIsWhole'
    BY <2>1 DEF Inv, Types, TargetIsWhole
  <2> QED BY <2>3, <2>4 DEF Inv
<1> QED BY <1>1, <1>2, <1>3, <1>4, CaptureChangesInv, CrashInv DEF Next

\* The inductive invariant holds of every behaviour.
THEOREM Invariance == Spec => []Inv
BY InitInv, NextInv, PTL DEF Spec

\* The state is always well typed: every flow, answer, grant and target of an export is one
\* the code knows, and only exports are in the table or among the files.
THEOREM ExportTypes == Spec => []TypeOK
<1>1. Inv => TypeOK
  BY DEF Inv, Types, TypeOK
<1> QED BY <1>1, Invariance, PTL

\* finish(): a target file is what it was before or the whole of one export, whatever
\* cancellation, expiry, failed write, reload or crash met the export on its way.
THEOREM TargetsStayWhole == Spec => []TargetIsWhole
<1>1. Inv => TargetIsWhole
  BY DEF Inv
<1> QED BY <1>1, Invariance, PTL

\* exportData(): "ok" means the target was replaced; "cancelled" and an error mean that it
\* was not and will not be, but for a directory that could not be synced.
THEOREM OutcomesAreHonest == Spec => []OutcomeIsHonest
<1>1. ASSUME Inv
      PROVE  OutcomeIsHonest
  <2> SUFFICES ASSUME NEW e \in Exports
               PROVE  /\ result[e] = "ok" => e \in installed
                      /\ result[e] \in {"cancelled", "error"} /\ e \in installed => e \in unsynced
    BY DEF OutcomeIsHonest
  <2>1. Local(e) /\ Shaped(e)
    BY <1>1, Here
  <2> QED BY <2>1 DEF Local, FlowAwaits, InstalledIsTold, Shaped, None
<1> QED BY <1>1, Invariance, PTL

\* ExportSessionManager: an open session keeps its temporary file, and a session that no
\* finish, abort or sweep has still to clear leaves no entry, no slot and no file.
THEOREM NoSessionLeftBehind == Spec => []NothingLeftBehind
<1>1. ASSUME Inv
      PROVE  NothingLeftBehind
  <2> SUFFICES ASSUME NEW e \in Exports
               PROVE  /\ e \in table /\ ~sess[e].terminal => temp[e] # NoFile /\ e \in active
                      /\ main[e] = Idle /\ aborter[e] \in {None, "ended"}
                           /\ (\A b \in Exports : e \notin sweep[b].expired)
                           => /\ e \in table => ~sess[e].terminal
                              /\ e \notin table => e \notin active /\ (temp[e] # NoFile => e \in residue)
    BY DEF NothingLeftBehind
  <2>1. Local(e) /\ Idle.pc = None
    BY <1>1, Here DEF Idle
  <2> QED BY <2>1 DEF Local, SealedIsOwned, Owned, Ends, None
<1> QED BY <1>1, Invariance, PTL

=============================================================================
