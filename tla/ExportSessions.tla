------------------------------ MODULE ExportSessions ------------------------------
(***************************************************************************)
(* Exporting the frames of a session to a file: the renderer's export flow,*)
(* the one-shot file grant, and the backend manager that owns the export   *)
(* sessions: a bounded table of sessions, each behind its own mutex, a     *)
(* reservation of the target, a temporary file beside it, and the atomic   *)
(* replacement of the target.                                              *)
(*                                                                         *)
(* An export is named by e; its session object lives as long as the table  *)
(* or some call refers to it, and its slot and target reservation live as  *)
(* long as the object.  A frame is its number.  The locks of the maps are  *)
(* never held over an await; a step of the backend ends at an await behind *)
(* which another call could have changed what it goes on to read.          *)
(***************************************************************************)
EXTENDS Naturals, Sequences, FiniteSets

CONSTANTS Exports,      \* export flows of the renderer
          Unfiltered,   \* those of a whole session, which may be read from the durable capture
          Targets,      \* files
          Choices,      \* the ones the user may choose for an export
          Capacities,   \* values of MAX_ACTIVE_EXPORTS
          Batches,      \* batches of a renderer export, one frame each
          MaxTroubles   \* bound: cancellations, reloads, expiries, failures and crashes together

ASSUME BatchesAssumption == Batches \in Nat \ {0}
ASSUME ChoicesAssumption == Choices \in [Exports -> (SUBSET Targets) \ {{}}]

VARIABLES
  flow,       \* exportData() of each export
  cancelled,  \* cancelRequested
  started,    \* abortNative is set
  next,       \* the next batch of the renderer
  result,     \* what exportData() returned
  grant,      \* the file grant of the export: none, live, gone
  tgt,        \* the target it names
  main,       \* the begin, append or finish call: operation and program counter
  answer,     \* its answer
  aborter,    \* the abort call, at most one of an export
  sweep,      \* of a begin call: candidates to visit, expired sessions to dispose of
  sess,       \* ExportSession: terminal, frame_count, expected_frames, old, source
  table,      \* StreamingSessionTable.sessions
  active,     \* active_temps
  temp,       \* the temporary files
  stale,      \* temporary files older than STALE_EXPORT_PART_TTL
  target,     \* the target files
  capacity,   \* MAX_ACTIVE_EXPORTS
  log,        \* the durable frames of the session: first <= seq < last
  troubles,   \* events of the bound MaxTroubles so far
  installed,  \* history: exports that replaced their target
  unsynced,   \* history: exports whose directory sync failed after that
  residue     \* history: temporary files a crash or a failed removal left

rendererVars == <<flow, cancelled, started, next, result, grant, tgt>>
callVars == <<main, answer, aborter, sweep>>
sessionVars == <<sess, table, active>>
diskVars == <<temp, stale, target, installed, unsynced, residue>>
worldVars == <<capacity, log, troubles>>
vars == <<rendererVars, callVars, sessionVars, diskVars, worldVars>>

None == "none"
NoFile == [exists |-> FALSE, data |-> <<>>]
EmptyFile == [exists |-> TRUE, data |-> <<>>]
Torn == 0               \* the bytes a failed write left behind
Idle == [op |-> None, pc |-> None]
NoSweep == [visit |-> {}, expired |-> {}]
NoSession == [terminal |-> FALSE, count |-> 0, expected |-> 0, old |-> FALSE, ceiling |-> 0,
              cursor |-> 0]
Busy == {"selecting", "preparing", "beginning", "appending", "finishing", "aborting"}

-------------------------------------------------------------------------------
(* Who holds the session object, its slot and its reservation.             *)

\* The call whose program counter lies behind get() holds the shared session.
MainHolds(e) ==
  main[e].pc \in {"insert", "lock", "write", "seal", "mismatch", "replace", "dirsync", "fail", "leave"}
AbortHolds(e) == aborter[e] \in {"lock", "remove"}
SweepHolds(e) == \E b \in Exports : e \in sweep[b].visit
Alive(e) == e \in table \/ MainHolds(e) \/ AbortHolds(e) \/ SweepHolds(e)

\* The permits of the semaphore and the reserved targets go with the session object, and with
\* the begin that is about to make it.
Slots == {e \in Exports : Alive(e) \/ main[e].pc = "create"}
Reserved == {tgt[e] : e \in Slots}

\* Only a write keeps the session's mutex over an await.
Locked(e) == main[e].pc = "write"

At(e, op, pc) == main[e] = [op |-> op, pc |-> pc]
Goto(e, pc) == main' = [main EXCEPT ![e].pc = pc]
Return(e, a) == main' = [main EXCEPT ![e] = Idle] /\ answer' = [answer EXCEPT ![e] = a]
Call(e, op, pc) == main' = [main EXCEPT ![e] = [op |-> op, pc |-> pc]] /\ UNCHANGED answer
Trouble == troubles < MaxTroubles /\ troubles' = troubles + 1

\* remove_if_exists(): a removal that fails is only logged.
RemoveTemp(e) ==
  \/ temp' = [temp EXCEPT ![e] = NoFile] /\ UNCHANGED <<troubles, residue>>
  \/ /\ temp[e] # NoFile /\ Trouble
     /\ residue' = residue \cup {e} /\ UNCHANGED temp

\* remove_current(): identities are never reused, so the entry is the session or absent.
RemoveCurrent(e) == table' = table \ {e}

-------------------------------------------------------------------------------
(* The renderer: exportData(), exportWithSession() and cancelExport().     *)

End(e, r) == flow' = [flow EXCEPT ![e] = "done"] /\ result' = [result EXCEPT ![e] = r]

\* The grant that no begin consumed is revoked when the flow ends.
Revoked(e) == [grant EXCEPT ![e] = IF @ = "live" THEN "gone" ELSE @]

\* exportData() up to the save dialog.
StartExport(e) ==
  /\ flow[e] = "idle"
  /\ flow' = [flow EXCEPT ![e] = "selecting"]
  /\ UNCHANGED <<cancelled, started, next, result, grant, tgt, callVars, sessionVars, diskVars, worldVars>>

\* client.begin(): the command is on its way.
CallBegin(e) == flow' = [flow EXCEPT ![e] = "beginning"] /\ Call(e, "begin", "consume")

\* issue(): one live grant for the chosen file.
Issue(e) == grant' = [grant EXCEPT ![e] = "live"]

\* request_save_target: the user dismisses the dialog or chooses a file.  An export
\* of a whole session then asks for a durable source; another begins at once.
SelectTarget(e) ==
  /\ flow[e] = "selecting"
  /\ \/ End(e, "cancelled") /\ UNCHANGED <<tgt, grant, main, answer>>
     \/ /\ \E t \in Choices[e] : tgt' = [tgt EXCEPT ![e] = t]
        /\ \/ cancelled[e] /\ End(e, "cancelled") /\ UNCHANGED <<grant, main, answer>>
           \/ /\ ~cancelled[e] /\ Issue(e) /\ UNCHANGED result
              /\ IF e \in Unfiltered
                 THEN flow' = [flow EXCEPT ![e] = "preparing"] /\ UNCHANGED <<main, answer>>
                 ELSE CallBegin(e)
  /\ UNCHANGED <<cancelled, started, next, aborter, sweep, sessionVars, diskVars, worldVars>>

\* The grant outlives EXPORT_GRANT_TTL.
GrantExpires(e) ==
  /\ Trouble
  /\ grant[e] = "live"
  /\ grant' = [grant EXCEPT ![e] = "gone"]
  /\ UNCHANGED <<flow, cancelled, started, next, result, tgt, callVars, sessionVars, diskVars,
                 capacity, log>>

\* prepare(): the ceiling of the durable capture is read and the queues flushed; a failed
\* flush keeps the export in the renderer's memory.
Prepare(e) ==
  /\ flow[e] = "preparing"
  /\ IF cancelled[e]
     THEN End(e, "cancelled") /\ grant' = Revoked(e) /\ UNCHANGED <<sess, main, answer>>
     ELSE /\ \E c \in {0, log.last} : sess' = [sess EXCEPT ![e].ceiling = c]
          /\ CallBegin(e) /\ UNCHANGED <<result, grant>>
  /\ UNCHANGED <<cancelled, started, next, tgt, aborter, sweep, table, active, diskVars, worldVars>>

Sourced(e) == sess[e].ceiling > 0

\* abort() of the flow is called once.
CallAbort(e) == aborter' = [aborter EXCEPT ![e] = IF @ = None THEN "get" ELSE @]

GiveUp(e) ==
  /\ flow' = [flow EXCEPT ![e] = "aborting"] /\ CallAbort(e)
  /\ answer' = [answer EXCEPT ![e] = None]

\* The loop over the batches, and finish() behind it, look for a cancellation first.
Continue(e, batch) ==
  /\ next' = [next EXCEPT ![e] = batch]
  /\ IF cancelled[e] THEN GiveUp(e) /\ UNCHANGED main
     ELSE /\ answer' = [answer EXCEPT ![e] = None] /\ UNCHANGED aborter
          /\ \E op \in {IF batch <= Batches THEN "append" ELSE "finish"} :
               /\ main' = [main EXCEPT ![e] = [op |-> op, pc |-> "get"]]
               /\ flow' = [flow EXCEPT ![e] = IF op = "append" THEN "appending" ELSE "finishing"]

\* exportWithSession() after begin: a backend export is already paged in and only finished.
BeginReturns(e) ==
  /\ flow[e] = "beginning" /\ answer[e] # None
  /\ IF answer[e] = "ok"
     THEN /\ started' = [started EXCEPT ![e] = TRUE]
          /\ Continue(e, IF Sourced(e) THEN Batches + 1 ELSE 1)
          /\ UNCHANGED <<result, grant>>
     ELSE /\ End(e, IF cancelled[e] THEN "cancelled" ELSE "error")
          /\ grant' = Revoked(e) /\ answer' = [answer EXCEPT ![e] = None]
          /\ UNCHANGED <<started, next, main, aborter>>
  /\ UNCHANGED <<cancelled, tgt, sweep, sessionVars, diskVars, worldVars>>

\* Seeded bug: a failed append is sent again.
AppendRetries(e) ==
  /\ flow[e] = "appending" /\ answer[e] # None
  /\ Continue(e, IF answer[e] = "ok" THEN next[e] + 1 ELSE next[e])
  /\ UNCHANGED <<cancelled, started, result, grant, tgt, sweep, sessionVars, diskVars, worldVars>>

\* A failed append ends the export: the finally block aborts the session.
AppendReturns(e) ==
  /\ flow[e] = "appending" /\ answer[e] # None
  /\ IF answer[e] = "ok" THEN Continue(e, next[e] + 1) ELSE GiveUp(e) /\ UNCHANGED <<next, main>>
  /\ UNCHANGED <<cancelled, started, result, grant, tgt, sweep, sessionVars, diskVars, worldVars>>

FinishReturns(e) ==
  /\ flow[e] = "finishing" /\ answer[e] # None
  /\ IF answer[e] = "ok"
     THEN End(e, "ok") /\ answer' = [answer EXCEPT ![e] = None] /\ UNCHANGED aborter
     ELSE GiveUp(e) /\ UNCHANGED result
  /\ UNCHANGED <<cancelled, started, next, grant, tgt, main, sweep, sessionVars, diskVars, worldVars>>

AbortReturns(e) ==
  /\ flow[e] = "aborting" /\ aborter[e] = "ended"
  /\ End(e, IF cancelled[e] THEN "cancelled" ELSE "error")
  /\ UNCHANGED <<cancelled, started, next, grant, tgt, callVars, sessionVars, diskVars, worldVars>>

CancelExport(e) ==
  /\ Trouble
  /\ flow[e] \in Busy /\ ~cancelled[e]
  /\ cancelled' = [cancelled EXCEPT ![e] = TRUE]
  /\ IF started[e] THEN CallAbort(e) ELSE UNCHANGED aborter
  /\ UNCHANGED <<flow, started, next, result, grant, tgt, main, answer, sweep, sessionVars, diskVars,
                 capacity, log>>

\* The page is reloaded or its window closed: nobody waits for the calls any more.
RendererGone(e) ==
  /\ Trouble
  /\ flow[e] \in Busy
  /\ flow' = [flow EXCEPT ![e] = "gone"]
  /\ UNCHANGED <<cancelled, started, next, result, grant, tgt, callVars, sessionVars, diskVars,
                 capacity, log>>

-------------------------------------------------------------------------------
(* begin                                                                   *)

\* The durable frames of a backend export that a read from a sequence number finds.
Readable(e, from) == {i \in log.first .. log.last - 1 : i >= from /\ i < sess[e].ceiling}

\* The totals that finish() will hold the export to: those the renderer confirmed, or those
\* expected_totals() counts in the durable source.
Confirmed(e) == IF Sourced(e) THEN Cardinality(Readable(e, 0)) ELSE Batches

\* consume_export(): the grant is used up, whatever becomes of the export.  An empty export is
\* refused; begin_inner() then takes the snapshot of the table that it sweeps.
Consume(e) ==
  /\ At(e, "begin", "consume")
  /\ LET n == Confirmed(e)
     IN  IF grant[e] # "live" \/ n = 0 THEN Return(e, "err") /\ UNCHANGED <<sess, sweep>>
         ELSE /\ Goto(e, "visit") /\ UNCHANGED answer
              /\ sess' = [sess EXCEPT ![e].expected = n]
              /\ sweep' = [sweep EXCEPT ![e].visit = table]
  /\ grant' = Revoked(e)
  /\ UNCHANGED <<flow, cancelled, started, next, result, tgt, aborter, table, active, diskVars, worldVars>>

\* One candidate of sweep_expired(): a locked session is skipped, an old one sealed, detached
\* and removed before its lock is dropped.
VisitCandidate(e) ==
  /\ At(e, "begin", "visit")
  /\ \E c \in sweep[e].visit :
       LET expires == ~Locked(c) /\ sess[c].old
       IN  /\ sweep' = [sweep EXCEPT ![e] =
                [visit |-> @.visit \ {c}, expired |-> IF expires THEN @.expired \cup {c} ELSE @.expired]]
           /\ IF expires
              THEN /\ sess' = [sess EXCEPT ![c].terminal = TRUE, ![c].old = FALSE]
                   /\ RemoveCurrent(c)
              ELSE UNCHANGED <<sess, table>>
  /\ UNCHANGED <<rendererVars, main, answer, aborter, active, diskVars, worldVars>>

\* cleanup_expired() disposes of the files of the expired sessions.
DisposeExpired(e) ==
  /\ At(e, "begin", "visit") /\ sweep[e].visit = {}
  /\ \E c \in sweep[e].expired :
       /\ sweep' = [sweep EXCEPT ![e].expired = @ \ {c}]
       /\ RemoveTemp(c) /\ active' = active \ {c}
  /\ UNCHANGED <<rendererVars, main, answer, aborter, sess, table, stale, target, installed, unsynced,
                 capacity, log>>

\* acquire_slot(), canonical_target_identity() and reserve_target()
Admit(e) ==
  /\ At(e, "begin", "visit") /\ sweep[e] = NoSweep
  /\ IF Cardinality(Slots) < capacity /\ tgt[e] \notin Reserved
     THEN Goto(e, "create") /\ UNCHANGED answer
     ELSE Return(e, "err")
  /\ UNCHANGED <<rendererVars, aborter, sweep, sessionVars, diskVars, worldVars>>

\* Seeded bug: the files of open sessions are taken for abandoned ones.
CreateTempSweepsAll(e) ==
  /\ At(e, "begin", "create")
  /\ stale' = {} /\ residue' = residue \ stale
  /\ temp' = [x \in Exports |-> IF x = e THEN EmptyFile ELSE IF x \in stale THEN NoFile ELSE temp[x]]
  /\ Goto(e, "insert")
  /\ UNCHANGED <<rendererVars, answer, aborter, sweep, sessionVars, target, installed, unsynced, worldVars>>

\* reconcile_export_residue(), create_temp_file() and initialize_writer(): abandoned files
\* of the directory are removed; a file whose header cannot be written is removed again.
CreateTemp(e) ==
  /\ At(e, "begin", "create")
  /\ LET dead == stale \ active
         kept == [x \in Exports |-> IF x \in dead THEN NoFile ELSE temp[x]]
     IN  /\ stale' = stale \ dead /\ residue' = residue \ dead
         /\ \/ Goto(e, "insert") /\ temp' = [kept EXCEPT ![e] = EmptyFile] /\ UNCHANGED <<answer, troubles>>
            \/ Return(e, "err") /\ Trouble /\ temp' = kept
  /\ UNCHANGED <<rendererVars, aborter, sweep, sessionVars, target, installed, unsynced, capacity, log>>

\* The file becomes an active one and the session an entry of the table.
InsertSession(e) ==
  /\ At(e, "begin", "insert")
  /\ active' = active \cup {e} /\ table' = table \cup {e}
  /\ IF Sourced(e) THEN Goto(e, "page") /\ UNCHANGED answer ELSE Return(e, "ok")
  /\ UNCHANGED <<rendererVars, aborter, sweep, sess, diskVars, worldVars>>

\* append_source_pages(): the next page of the durable source, if any, is appended.
ReadPage(e) ==
  /\ At(e, "begin", "page")
  /\ LET page == Readable(e, sess[e].cursor + 1)
     IN  \/ page = {} /\ Return(e, "ok") /\ UNCHANGED <<sess, aborter>>
         \/ /\ page # {} /\ e \in table
            /\ Goto(e, "lock") /\ UNCHANGED <<answer, aborter>>
            /\ sess' = [sess EXCEPT ![e].cursor = CHOOSE i \in page : \A j \in page : i <= j]
         \/ /\ page # {} /\ e \notin table
            /\ Goto(e, "aborting") /\ CallAbort(e) /\ UNCHANGED <<answer, sess>>
  /\ UNCHANGED <<rendererVars, sweep, table, active, diskVars, worldVars>>

\* begin_backend_sourced() aborts the session when its page loop failed.
BeginGivesUp(e) ==
  /\ At(e, "begin", "aborting") /\ aborter[e] = "ended"
  /\ Return(e, "err")
  /\ UNCHANGED <<rendererVars, aborter, sweep, sessionVars, diskVars, worldVars>>

-------------------------------------------------------------------------------
(* append, of the renderer and of the page loop                            *)

Get(e) ==
  /\ main[e].op \in {"append", "finish"} /\ main[e].pc = "get"
  /\ IF e \in table
     THEN Goto(e, IF main[e].op = "append" THEN "lock" ELSE "seal") /\ UNCHANGED answer
     ELSE Return(e, "err")
  /\ UNCHANGED <<rendererVars, aborter, sweep, sessionVars, diskVars, worldVars>>

AppendEnds(e, ok) ==
  CASE main[e].op = "append" -> Return(e, IF ok THEN "ok" ELSE "err") /\ UNCHANGED aborter
    [] main[e].op = "begin" /\ ok -> Goto(e, "page") /\ UNCHANGED <<answer, aborter>>
    [] main[e].op = "begin" /\ ~ok -> Goto(e, "aborting") /\ CallAbort(e) /\ UNCHANGED answer

AppendLock(e) ==
  /\ main[e].pc = "lock"
  /\ IF sess[e].terminal THEN AppendEnds(e, FALSE)
     ELSE Goto(e, "write") /\ UNCHANGED <<answer, aborter>>
  /\ UNCHANGED <<rendererVars, sweep, sessionVars, diskVars, worldVars>>

\* A file that was removed under the writer takes its bytes along.
Written(e, frame) ==
  temp' = [temp EXCEPT ![e] = IF @.exists THEN [exists |-> TRUE, data |-> Append(@.data, frame)] ELSE @]

\* A failed write leaves part of the batch in the file and the counters as they were.
AppendWrite(e) ==
  /\ main[e].pc = "write"
  /\ \/ /\ AppendEnds(e, TRUE)
        /\ Written(e, IF Sourced(e) THEN sess[e].cursor ELSE next[e])
        /\ sess' = [sess EXCEPT ![e].count = @ + 1, ![e].old = FALSE]
        /\ UNCHANGED troubles
     \/ /\ Trouble /\ AppendEnds(e, FALSE)
        /\ Written(e, Torn)
        /\ UNCHANGED sess
  /\ UNCHANGED <<rendererVars, sweep, table, active, stale, target, installed, unsynced, residue,
                 capacity, log>>

-------------------------------------------------------------------------------
(* finish                                                                  *)

\* The session is sealed under its lock, and its totals compared with the confirmed ones.
FinishSeal(e) ==
  /\ At(e, "finish", "seal") /\ ~Locked(e)
  /\ IF sess[e].terminal
     THEN Return(e, "err") /\ UNCHANGED sess
     ELSE /\ sess' = [sess EXCEPT ![e].terminal = TRUE, ![e].old = FALSE]
          /\ Goto(e, IF sess[e].count = sess[e].expected THEN "replace" ELSE "mismatch")
          /\ UNCHANGED answer
  /\ UNCHANGED <<rendererVars, aborter, sweep, table, active, diskVars, worldVars>>

\* Seeded bug: the result of the replacement is not looked at.
FinishReplaceUnchecked(e) ==
  /\ At(e, "finish", "replace")
  /\ Goto(e, "leave")
  /\ IF temp[e].exists
     THEN /\ target' = [target EXCEPT ![tgt[e]] =
               [by |-> e, content |-> temp[e].data, confirmed |-> sess[e].expected]]
          /\ temp' = [temp EXCEPT ![e] = NoFile] /\ installed' = installed \cup {e}
     ELSE UNCHANGED <<target, temp, installed>>
  /\ UNCHANGED <<rendererVars, answer, aborter, sweep, sessionVars, stale, unsynced, residue, worldVars>>

\* flush(), sync_all() and atomic_replace()
FinishReplace(e) ==
  /\ At(e, "finish", "replace")
  /\ \/ /\ temp[e].exists
        /\ target' = [target EXCEPT ![tgt[e]] =
             [by |-> e, content |-> temp[e].data, confirmed |-> sess[e].expected]]
        /\ temp' = [temp EXCEPT ![e] = NoFile]
        /\ installed' = installed \cup {e}
        /\ Goto(e, "dirsync") /\ UNCHANGED troubles
     \/ ~temp[e].exists /\ Goto(e, "fail") /\ UNCHANGED <<target, temp, installed, troubles>>
     \/ Trouble /\ Goto(e, "fail") /\ UNCHANGED <<target, temp, installed>>
  /\ UNCHANGED <<rendererVars, answer, aborter, sweep, sessionVars, stale, unsynced, residue, capacity,
                 log>>

\* sync_parent_directory(): its failure is reported although the target is replaced.
FinishDirSync(e) ==
  /\ At(e, "finish", "dirsync")
  /\ \/ Goto(e, "leave") /\ UNCHANGED <<troubles, unsynced>>
     \/ Goto(e, "fail") /\ Trouble /\ unsynced' = unsynced \cup {e}
  /\ UNCHANGED <<rendererVars, answer, aborter, sweep, sessionVars, temp, stale, target, installed,
                 residue, capacity, log>>

\* The totals disagreed or the replacement failed.
FinishFails(e) ==
  /\ main[e].op = "finish" /\ main[e].pc \in {"mismatch", "fail"}
  /\ RemoveTemp(e) /\ RemoveCurrent(e) /\ active' = active \ {e} /\ Return(e, "err")
  /\ UNCHANGED <<rendererVars, aborter, sweep, sess, stale, target, installed, unsynced, capacity, log>>

FinishLeaves(e) ==
  /\ At(e, "finish", "leave")
  /\ RemoveCurrent(e) /\ active' = active \ {e} /\ Return(e, "ok")
  /\ UNCHANGED <<rendererVars, aborter, sweep, sess, diskVars, worldVars>>

-------------------------------------------------------------------------------
(* abort                                                                   *)

AbortGet(e) ==
  /\ aborter[e] = "get"
  /\ aborter' = [aborter EXCEPT ![e] = IF e \in table THEN "lock" ELSE "ended"]
  /\ UNCHANGED <<rendererVars, main, answer, sweep, sessionVars, diskVars, worldVars>>

\* Seeded bug: the abort waits until nobody else ends the session.
AbortSealWaits(e) ==
  /\ aborter[e] = "lock" /\ ~Locked(e) /\ ~sess[e].terminal
  /\ aborter' = [aborter EXCEPT ![e] = "remove"]
  /\ sess' = [sess EXCEPT ![e].terminal = TRUE, ![e].old = FALSE]
  /\ UNCHANGED <<rendererVars, main, answer, sweep, table, active, diskVars, worldVars>>

AbortSeal(e) ==
  /\ aborter[e] = "lock" /\ ~Locked(e)
  /\ IF sess[e].terminal
     THEN aborter' = [aborter EXCEPT ![e] = "ended"] /\ UNCHANGED sess
     ELSE /\ aborter' = [aborter EXCEPT ![e] = "remove"]
          /\ sess' = [sess EXCEPT ![e].terminal = TRUE, ![e].old = FALSE]
  /\ UNCHANGED <<rendererVars, main, answer, sweep, table, active, diskVars, worldVars>>

AbortRemove(e) ==
  /\ aborter[e] = "remove"
  /\ RemoveCurrent(e) /\ RemoveTemp(e) /\ active' = active \ {e}
  /\ aborter' = [aborter EXCEPT ![e] = "ended"]
  /\ UNCHANGED <<rendererVars, main, answer, sweep, sess, stale, target, installed, unsynced, capacity,
                 log>>

-------------------------------------------------------------------------------
(* Time, the durable capture and crashes                                   *)

\* EXPORT_SESSION_TTL passes without activity.  A begin that is still setting its session up
\* is taken to need less than that.  It may even be a day, after which the file is stale.
SessionAges(e) ==
  /\ Trouble
  /\ e \in table /\ ~sess[e].old
  /\ sess' = [sess EXCEPT ![e].old = TRUE]
  /\ stale' \in {stale, stale \cup {e}}
  /\ UNCHANGED <<rendererVars, callVars, table, active, temp, target, installed, unsynced, residue,
                 capacity, log>>

\* The durable capture is trimmed at its old end or cleared while an export reads it.
CaptureChanges ==
  /\ Trouble
  /\ log.first < log.last
  /\ \E f \in {log.first + 1, log.last} : log' = [log EXCEPT !.first = f]
  /\ UNCHANGED <<rendererVars, callVars, sessionVars, diskVars, capacity>>

\* The application dies and is started again, at once or days later: files are all that is
\* left.
Crash ==
  /\ Trouble
  /\ flow' = [e \in Exports |-> IF flow[e] \in Busy THEN "gone" ELSE flow[e]]
  /\ grant' = [e \in Exports |-> IF grant[e] = "live" THEN "gone" ELSE grant[e]]
  /\ main' = [e \in Exports |-> Idle] /\ answer' = [e \in Exports |-> None]
  /\ aborter' = [e \in Exports |-> None] /\ sweep' = [e \in Exports |-> NoSweep]
  /\ sess' = [e \in Exports |-> NoSession] /\ table' = {} /\ active' = {}
  /\ residue' = {e \in Exports : temp[e] # NoFile}
  /\ stale' \in {stale, residue'}
  /\ UNCHANGED <<cancelled, started, next, result, tgt, temp, target, installed, unsynced,
                 capacity, log>>

-------------------------------------------------------------------------------
Init ==
  /\ flow = [e \in Exports |-> "idle"] /\ cancelled = [e \in Exports |-> FALSE]
  /\ started = [e \in Exports |-> FALSE] /\ next = [e \in Exports |-> 1]
  /\ result = [e \in Exports |-> None] /\ grant = [e \in Exports |-> None]
  /\ tgt = [e \in Exports |-> CHOOSE t \in Choices[e] : TRUE]
  /\ main = [e \in Exports |-> Idle] /\ answer = [e \in Exports |-> None]
  /\ aborter = [e \in Exports |-> None] /\ sweep = [e \in Exports |-> NoSweep]
  /\ sess = [e \in Exports |-> NoSession] /\ table = {} /\ active = {}
  /\ temp = [e \in Exports |-> NoFile] /\ stale = {}
  /\ target = [t \in Targets |-> [by |-> None, content |-> <<>>, confirmed |-> 0]]
  /\ installed = {} /\ unsynced = {} /\ residue = {}
  /\ capacity \in Capacities /\ log = [first |-> 1, last |-> Batches + 1]
  /\ troubles = 0

\* What the renderer and the backend do of themselves.
FlowStep(e) ==
  \/ Prepare(e) \/ BeginReturns(e) \/ AppendReturns(e) \/ FinishReturns(e) \/ AbortReturns(e)
MainStep(e) ==
  \/ Consume(e) \/ VisitCandidate(e) \/ DisposeExpired(e) \/ Admit(e) \/ CreateTemp(e) \/ InsertSession(e) \/ ReadPage(e) \/ BeginGivesUp(e)
  \/ Get(e) \/ AppendLock(e) \/ AppendWrite(e)
  \/ FinishSeal(e) \/ FinishReplace(e) \/ FinishDirSync(e) \/ FinishFails(e) \/ FinishLeaves(e)
AbortStep(e) == AbortGet(e) \/ AbortSeal(e) \/ AbortRemove(e)

Next ==
  \/ \E e \in Exports :
       \/ StartExport(e) \/ SelectTarget(e) \/ GrantExpires(e) \/ CancelExport(e)
       \/ RendererGone(e) \/ SessionAges(e)
       \/ FlowStep(e) \/ MainStep(e) \/ AbortStep(e)
  \/ CaptureChanges \/ Crash

Works == \E e \in Exports : FlowStep(e) \/ MainStep(e) \/ AbortStep(e)

Spec == Init /\ [][Next]_vars

-------------------------------------------------------------------------------
TypeOK ==
  /\ flow \in [Exports -> Busy \cup {"idle", "done", "gone"}]
  /\ result \in [Exports -> {None, "ok", "cancelled", "error"}]
  /\ grant \in [Exports -> {None, "live", "gone"}] /\ tgt \in [Exports -> Targets]
  /\ answer \in [Exports -> {None, "ok", "err"}]
  /\ table \subseteq Exports /\ active \subseteq Exports /\ stale \subseteq Exports

Increasing(s) == \A i, j \in 1 .. Len(s) : i < j => s[i] < s[j]

\* A target file is what it was before, or the whole of one export: every frame its totals
\* confirmed, once and in order, with nothing of a failed write; also after a crash, an
\* expiry or a cancellation at any moment of finish().
TargetIsWhole ==
  \A t \in Targets :
    \/ target[t].by = None
    \/ /\ Len(target[t].content) = target[t].confirmed
       /\ Increasing(target[t].content) /\ \A i \in DOMAIN target[t].content : target[t].content[i] # Torn

\* exportData() says "ok" only of an export that replaced its target, and an export it called
\* failed or cancelled has not replaced it, nor does later, unless only the directory could
\* not be synced.
OutcomeIsHonest ==
  \A e \in Exports :
    /\ result[e] = "ok" => e \in installed
    /\ result[e] \in {"cancelled", "error"} /\ e \in installed => e \in unsynced

\* Sessions and temporary files go together: an open session keeps its file, and a session
\* that no call works on leaves neither an entry that blocks its slot and its target, nor an
\* entry of active_temps, nor a file, unless a crash or a failed removal left it.
NothingLeftBehind ==
  \A e \in Exports :
    /\ e \in table /\ ~sess[e].terminal => temp[e] # NoFile /\ e \in active
    /\ main[e] = Idle /\ aborter[e] \in {None, "ended"} /\ (\A b \in Exports : e \notin sweep[b].expired)
         => /\ e \in table => ~sess[e].terminal
            /\ e \notin table => e \notin active /\ (temp[e] # NoFile => e \in residue)

\* No export or call is left waiting for another without end: while one is under way, the
\* renderer or the backend can go on by itself, without the user, the clock or a restart.
\* A session's mutex, a sweep over it, a cancellation and the answer a flow awaits could block
\* each other.  Every such step brings some call nearer its end, so all of them end.
NobodyIsStuck ==
  (\E e \in Exports :
      \/ flow[e] \in Busy \ {"selecting"} \/ main[e] # Idle \/ aborter[e] \notin {None, "ended"})
  => ENABLED Works
=============================================================================
