---------------------- MODULE SessionAutomations_proofs ----------------------
(***************************************************************************)
(* The transaction coordinator and the automations of a session, for every *)
(* list and order of registered automations and any number of connections  *)
(* and of manual writes.                                                   *)
(*                                                                         *)
(* The first part is about the coordinator alone (SerialTransactionLease): *)
(* its safety for whatever its ports answer.  The second is about the      *)
(* session, which is the coordinator with its ports filled in: every step  *)
(* of it is a step of SerialTransactionLease or leaves the coordinator     *)
(* alone, so the invariant of the first part holds of it, and SessionInv   *)
(* is proved on top of that.                                               *)
(***************************************************************************)
EXTENDS SessionAutomations, TLAPS

-----------------------------------------------------------------------------
(* The invariant.                                                          *)

\* The phase that snapshot() shows follows from where acquire() or release() is.
PhaseIsWhere ==
  /\ where = "none" => phase \in {"idle", "faulted", "disposed"}
  /\ where \in Acquiring => phase = "acquiring"
  /\ where = "held" => phase = "active"
  /\ where \in Releasing => phase = "releasing"

\* After dispose() no lease is held, and what runs is on its way out.
DisposedEnds ==
  /\ phase = "disposed" => disposed
  /\ disposed =>
       /\ where = "none" => phase = "disposed"
       /\ where # "held"
       /\ where \in Acquiring => aborted

\* The loop over the automations.
TurnInRange ==
  /\ where \in {"drain", "manual"} => turn = 0 /\ suspended = <<>>
  /\ where = "pause" => turn \in DOMAIN Automations

\* The gate is closed and the admitted writes are over before an automation is
\* paused.
Silence == where \in {"pause", "held"} \cup Releasing => manual = 0

\* Nothing is of a generation that is still to come.
GenerationsPast ==
  /\ connected => gen > 0
  /\ holderGen <= gen
  /\ \A a \in Names : mutedIn[a] <= gen

\* The connection of this moment is one nobody has announced the end of.
Live == connected /\ revoked # gen

\* The gate is not open, now or after the release that runs.
StaysClosed ==
  \/ phase = "faulted" /\ faultedGen = gen
  \/ phase = "disposed"

\* A lease that is granted was not revoked.
GrantedUnrevoked ==
  /\ where = "held" => restoreAllowed
  /\ where \in Acquiring /\ ~aborted => restoreAllowed

\* Only the end of the connection forbids the restoration.
RestoreIsAllowed == Live /\ where # "none" /\ holderGen = gen => restoreAllowed

\* An automation paused on this connection is on the list of the acquisition or
\* the lease of this connection.
MutedAreListed ==
  \A a \in Names : Live /\ mutedIn[a] = gen =>
    \/ where # "none" /\ holderGen = gen /\ a \in Range(suspended)
    \/ StaysClosed

\* Lines that were changed on this connection are marked for restoration.
ChangedAreMarked ==
  /\ op = "lines" => touched
  /\ Live /\ lines = "changed" =>
       \/ where \in {"held", "op", "redrain", "lines"} /\ holderGen = gen /\ touched
       \/ StaysClosed

\* Where the coordinator is, and what that means for its gate.
Control ==
  /\ PhaseIsWhere /\ DisposedEnds /\ TurnInRange /\ Silence
  /\ NothingInFlight /\ GrantedUnrevoked

\* What is left to be undone on the connection of this moment.
Undo ==
  /\ GenerationsPast /\ RestoreIsAllowed
  /\ MutedAreListed /\ ChangedAreMarked

IInv == TypeOK /\ Control /\ Undo

-----------------------------------------------------------------------------
(* Lists of automations.                                                   *)

LEMMA ListAppend ==
  ASSUME NEW s \in Seq(Names), NEW n \in Names
  PROVE  Append(s, n) \in Seq(Names) /\ Range(s) \cup {n} \subseteq Range(Append(s, n))
<1>1. /\ Append(s, n) \in Seq(Names) /\ Len(Append(s, n)) = Len(s) + 1
      /\ \A i \in 1 .. Len(s) : Append(s, n)[i] = s[i]
      /\ Append(s, n)[Len(s) + 1] = n
  OBVIOUS
<1> QED
  BY <1>1 DEF Range

LEMMA ListFront ==
  ASSUME NEW s \in Seq(Names), s # <<>>
  PROVE  /\ Front(s) \in Seq(Names) /\ Last(s) \in Names
         /\ Range(s) \subseteq Range(Front(s)) \cup {Last(s)}
<1>1. Len(s) \in Nat \ {0} /\ DOMAIN s = 1 .. Len(s)
  OBVIOUS
<1>2. /\ Front(s) \in Seq(Names) /\ DOMAIN Front(s) = 1 .. Len(s) - 1
      /\ \A i \in 1 .. Len(s) - 1 : Front(s)[i] = s[i]
  BY <1>1 DEF Front
<1>3. Last(s) = s[Len(s)] /\ Last(s) \in Names
  BY <1>1 DEF Last
<1> QED
  BY <1>1, <1>2, <1>3 DEF Range

LEMMA EmptyList == <<>> \in Seq(Names) /\ Range(<<>>) = {}
BY DEF Range

LEMMA NamesListed == \A i \in DOMAIN Automations : Automations[i] \in Names
BY DEF Names, Range

-----------------------------------------------------------------------------
(* Every action preserves the invariant.                                   *)

USE DEF Acquiring, Releasing, NoGeneration, connectionVars, holderVars, automationVars,
        lineVars

\* The flags, the list of the paused automations, and the words for the state.
Flags ==
  /\ connected \in BOOLEAN /\ disposed \in BOOLEAN /\ aborted \in BOOLEAN
  /\ restoreAllowed \in BOOLEAN /\ faulting \in BOOLEAN /\ touched \in BOOLEAN
Listed == suspended \in Seq(Names)
Words ==
  /\ phase \in {"idle", "acquiring", "active", "releasing", "faulted", "disposed"}
  /\ where \in {"none", "held"} \cup Acquiring \cup Releasing
  /\ faultedGen \in Nat

LEMMA RunManualWriteInv ==
  ASSUME IInv, RunManualWrite
  PROVE  IInv'
<1> USE DEF IInv, RunManualWrite, Idle
<1>1. TypeOK'
  BY CoordinatorAssumption DEF TypeOK
<1>2. Control'
  BY DEF TypeOK, Control, PhaseIsWhere, DisposedEnds, TurnInRange, Silence, NothingInFlight,
         GrantedUnrevoked
<1>3. Undo'
  BY EmptyList DEF TypeOK, Control, PhaseIsWhere, NothingInFlight,
         Undo, GenerationsPast, RestoreIsAllowed, MutedAreListed, ChangedAreMarked, Live,
         StaysClosed
<1> QED
  BY <1>1, <1>2, <1>3

LEMMA ManualWriteEndsInv ==
  ASSUME IInv, ManualWriteEnds
  PROVE  IInv'
<1> USE DEF IInv, ManualWriteEnds
<1>1. TypeOK'
  BY CoordinatorAssumption DEF TypeOK
<1>2. Control'
  BY DEF TypeOK, Control, PhaseIsWhere, DisposedEnds, TurnInRange, Silence, NothingInFlight,
         GrantedUnrevoked
<1>3. Undo'
  BY EmptyList DEF TypeOK, Control, PhaseIsWhere, NothingInFlight,
         Undo, GenerationsPast, RestoreIsAllowed, MutedAreListed, ChangedAreMarked, Live,
         StaysClosed
<1> QED
  BY <1>1, <1>2, <1>3

LEMMA AcquireInv ==
  ASSUME IInv, Acquire
  PROVE  IInv'
<1> USE DEF IInv, Acquire, Idle
<1>1. TypeOK'
  <2>1. Flags'
    BY Zenon DEF TypeOK, Flags
  <2>2. Listed'
    BY EmptyList DEF TypeOK, Listed
  <2>3. Words'
    BY DEF TypeOK, Words
  <2> QED
    BY <2>1, <2>2, <2>3, CoordinatorAssumption DEF TypeOK, Flags, Listed, Words
<1>2. Control'
  BY DEF TypeOK, Control, PhaseIsWhere, DisposedEnds, TurnInRange, Silence, NothingInFlight,
         GrantedUnrevoked
<1>3. Undo'
  BY EmptyList DEF TypeOK, Control, PhaseIsWhere, TurnInRange, NothingInFlight,
         Undo, GenerationsPast, RestoreIsAllowed, MutedAreListed, ChangedAreMarked, Live,
         StaysClosed
<1> QED
  BY <1>1, <1>2, <1>3

LEMMA AcquireDrainedInv ==
  ASSUME IInv, AcquireDrained
  PROVE  IInv'
<1> USE DEF IInv, AcquireDrained, Stay, AcquireFails, Finish, Current
<1>1. TypeOK'
  <2>1. Flags'
    BY Zenon DEF TypeOK, Flags
  <2>2. Listed'
    BY EmptyList DEF TypeOK, Listed
  <2>3. Words'
    BY DEF TypeOK, Words
  <2> QED
    BY <2>1, <2>2, <2>3, CoordinatorAssumption DEF TypeOK, Flags, Listed, Words
<1>2. Control'
  BY DEF TypeOK, Control, PhaseIsWhere, DisposedEnds, TurnInRange, Silence, NothingInFlight,
         GrantedUnrevoked
<1>3. Undo'
  BY EmptyList DEF TypeOK, Control, PhaseIsWhere, TurnInRange, NothingInFlight,
         Undo, GenerationsPast, RestoreIsAllowed, MutedAreListed, ChangedAreMarked, Live,
         StaysClosed
<1> QED
  BY <1>1, <1>2, <1>3

LEMMA AcquireManualDrainedInv ==
  ASSUME IInv, AcquireManualDrained
  PROVE  IInv'
<1> USE DEF IInv, AcquireManualDrained, ManualDrainOver, AcquisitionLost, PauseFrom,
           Grant, Stay, AcquireFails, Finish, Current
<1>1. TypeOK'
  <2>1. Flags'
    BY Zenon DEF TypeOK, Flags
  <2>2. Listed'
    BY EmptyList DEF TypeOK, Listed
  <2>3. Words'
    BY DEF TypeOK, Words
  <2> QED
    BY <2>1, <2>2, <2>3, CoordinatorAssumption DEF TypeOK, Flags, Listed, Words
<1>2. Control'
  BY DEF TypeOK, Control, PhaseIsWhere, DisposedEnds, TurnInRange, Silence, NothingInFlight,
         GrantedUnrevoked
<1>3. Undo'
  BY EmptyList DEF TypeOK, Control, PhaseIsWhere, TurnInRange, NothingInFlight,
         Undo, GenerationsPast, RestoreIsAllowed, MutedAreListed, ChangedAreMarked, Live,
         StaysClosed
<1> QED
  BY <1>1, <1>2, <1>3

LEMMA AcquireEndsInv ==
  ASSUME IInv, AcquireEnds
  PROVE  IInv'
<1> USE DEF IInv, AcquireEnds, Finish
<1>1. TypeOK'
  BY CoordinatorAssumption DEF TypeOK
<1>2. Control'
  BY DEF TypeOK, Control, PhaseIsWhere, DisposedEnds, TurnInRange, Silence, NothingInFlight,
         GrantedUnrevoked
<1>3. Undo'
  BY EmptyList DEF TypeOK, Control, PhaseIsWhere, NothingInFlight,
         Undo, GenerationsPast, RestoreIsAllowed, MutedAreListed, ChangedAreMarked, Live,
         StaysClosed
<1> QED
  BY <1>1, <1>2, <1>3

LEMMA ReleaseInv ==
  ASSUME IInv, Release
  PROVE  IInv'
<1> USE DEF IInv, Release, BeginRelease, ReleaseDrain, Finish
<1>1. TypeOK'
  <2>1. Flags'
    BY Zenon DEF TypeOK, Flags
  <2>2. Listed'
    BY EmptyList DEF TypeOK, Listed
  <2>3. Words'
    BY DEF TypeOK, Words
  <2> QED
    BY <2>1, <2>2, <2>3, CoordinatorAssumption DEF TypeOK, Flags, Listed, Words
<1>2. Control'
  BY DEF TypeOK, Control, PhaseIsWhere, DisposedEnds, TurnInRange, Silence, NothingInFlight,
         GrantedUnrevoked
<1>3. Undo'
  BY EmptyList DEF TypeOK, Control, PhaseIsWhere, TurnInRange, NothingInFlight,
         Undo, GenerationsPast, RestoreIsAllowed, MutedAreListed, ChangedAreMarked, Live,
         StaysClosed
<1> QED
  BY <1>1, <1>2, <1>3

LEMMA ReleaseOperationSettledInv ==
  ASSUME IInv, ReleaseOperationSettled
  PROVE  IInv'
<1> USE DEF IInv, ReleaseOperationSettled, ReleaseDrain, Finish
<1>1. TypeOK'
  <2>1. Flags'
    BY Zenon DEF TypeOK, Flags
  <2>2. Listed'
    BY EmptyList DEF TypeOK, Listed
  <2>3. Words'
    BY DEF TypeOK, Words
  <2> QED
    BY <2>1, <2>2, <2>3, CoordinatorAssumption DEF TypeOK, Flags, Listed, Words
<1>2. Control'
  BY DEF TypeOK, Control, PhaseIsWhere, DisposedEnds, TurnInRange, Silence, NothingInFlight,
         GrantedUnrevoked
<1>3. Undo'
  BY EmptyList DEF TypeOK, Control, PhaseIsWhere, TurnInRange, NothingInFlight,
         Undo, GenerationsPast, RestoreIsAllowed, MutedAreListed, ChangedAreMarked, Live,
         StaysClosed
<1> QED
  BY <1>1, <1>2, <1>3

LEMMA ReleaseDrainedInv ==
  ASSUME IInv, ReleaseDrained
  PROVE  IInv'
<1> USE DEF IInv, ReleaseDrained, Stay, Finish, Current
<1>1. TypeOK'
  <2>1. Flags'
    BY Zenon DEF TypeOK, Flags
  <2>2. Listed'
    BY EmptyList DEF TypeOK, Listed
  <2>3. Words'
    BY DEF TypeOK, Words
  <2> QED
    BY <2>1, <2>2, <2>3, CoordinatorAssumption DEF TypeOK, Flags, Listed, Words
<1>2. Control'
  BY DEF TypeOK, Control, PhaseIsWhere, DisposedEnds, TurnInRange, Silence, NothingInFlight,
         GrantedUnrevoked
<1>3. Undo'
  BY EmptyList DEF TypeOK, Control, PhaseIsWhere, TurnInRange, NothingInFlight,
         Undo, GenerationsPast, RestoreIsAllowed, MutedAreListed, ChangedAreMarked, Live,
         StaysClosed
<1> QED
  BY <1>1, <1>2, <1>3

LEMMA ReleaseLinesInv ==
  ASSUME IInv, ReleaseLines
  PROVE  IInv'
<1> USE DEF IInv, ReleaseLines, Stay, Finish, Current
<1>1. TypeOK'
  <2>1. Flags'
    BY Zenon DEF TypeOK, Flags
  <2>2. Listed'
    BY EmptyList DEF TypeOK, Listed
  <2>3. Words'
    BY DEF TypeOK, Words
  <2> QED
    BY <2>1, <2>2, <2>3, CoordinatorAssumption DEF TypeOK, Flags, Listed, Words
<1>2. Control'
  BY DEF TypeOK, Control, PhaseIsWhere, DisposedEnds, TurnInRange, Silence, NothingInFlight,
         GrantedUnrevoked
<1>3. Undo'
  BY EmptyList DEF TypeOK, Control, PhaseIsWhere, TurnInRange, NothingInFlight,
         Undo, GenerationsPast, RestoreIsAllowed, MutedAreListed, ChangedAreMarked, Live,
         StaysClosed
<1> QED
  BY <1>1, <1>2, <1>3

LEMMA ReleaseEndsInv ==
  ASSUME IInv, ReleaseEnds
  PROVE  IInv'
<1> USE DEF IInv, ReleaseEnds, Finish
<1>1. TypeOK'
  BY CoordinatorAssumption DEF TypeOK
<1>2. Control'
  BY DEF TypeOK, Control, PhaseIsWhere, DisposedEnds, TurnInRange, Silence, NothingInFlight,
         GrantedUnrevoked
<1>3. Undo'
  BY EmptyList DEF TypeOK, Control, PhaseIsWhere, NothingInFlight,
         Undo, GenerationsPast, RestoreIsAllowed, MutedAreListed, ChangedAreMarked, Live,
         StaysClosed
<1> QED
  BY <1>1, <1>2, <1>3

LEMMA RevokeStaleInv ==
  ASSUME IInv, RevokeStale
  PROVE  IInv'
<1> USE DEF IInv, RevokeStale, BeginRelease, ReleaseDrain, Finish, Current
<1>1. TypeOK'
  <2>1. Flags'
    BY Zenon DEF TypeOK, Flags
  <2>2. Listed'
    BY EmptyList DEF TypeOK, Listed
  <2>3. Words'
    BY DEF TypeOK, Words
  <2> QED
    BY <2>1, <2>2, <2>3, CoordinatorAssumption DEF TypeOK, Flags, Listed, Words
<1>2. Control'
  BY DEF TypeOK, Control, PhaseIsWhere, DisposedEnds, TurnInRange, Silence, NothingInFlight,
         GrantedUnrevoked
<1>3. Undo'
  BY EmptyList DEF TypeOK, Control, PhaseIsWhere, TurnInRange, NothingInFlight,
         Undo, GenerationsPast, RestoreIsAllowed, MutedAreListed, ChangedAreMarked, Live,
         StaysClosed
<1> QED
  BY <1>1, <1>2, <1>3

LEMMA StartOperationInv ==
  ASSUME IInv, StartOperation
  PROVE  IInv'
<1> USE DEF IInv, StartOperation, Current
<1>1. TypeOK'
  BY CoordinatorAssumption DEF TypeOK
<1>2. Control'
  BY DEF TypeOK, Control, PhaseIsWhere, DisposedEnds, TurnInRange, Silence, NothingInFlight,
         GrantedUnrevoked
<1>3. Undo'
  BY EmptyList DEF TypeOK, Control, PhaseIsWhere, NothingInFlight,
         Undo, GenerationsPast, RestoreIsAllowed, MutedAreListed, ChangedAreMarked, Live,
         StaysClosed
<1> QED
  BY <1>1, <1>2, <1>3

LEMMA SetOutputLinesInv ==
  ASSUME IInv, SetOutputLines
  PROVE  IInv'
<1> USE DEF IInv, SetOutputLines, Current
<1>1. TypeOK'
  BY CoordinatorAssumption DEF TypeOK
<1>2. Control'
  BY DEF TypeOK, Control, PhaseIsWhere, DisposedEnds, TurnInRange, Silence, NothingInFlight,
         GrantedUnrevoked
<1>3. Undo'
  BY EmptyList DEF TypeOK, Control, PhaseIsWhere, NothingInFlight,
         Undo, GenerationsPast, RestoreIsAllowed, MutedAreListed, ChangedAreMarked, Live,
         StaysClosed
<1> QED
  BY <1>1, <1>2, <1>3

LEMMA OperationEndsInv ==
  ASSUME IInv, OperationEnds
  PROVE  IInv'
<1> USE DEF IInv, OperationEnds, Current
<1>1. TypeOK'
  BY CoordinatorAssumption DEF TypeOK
<1>2. Control'
  BY DEF TypeOK, Control, PhaseIsWhere, DisposedEnds, TurnInRange, Silence, NothingInFlight,
         GrantedUnrevoked
<1>3. Undo'
  BY EmptyList DEF TypeOK, Control, PhaseIsWhere, NothingInFlight,
         Undo, GenerationsPast, RestoreIsAllowed, MutedAreListed, ChangedAreMarked, Live,
         StaysClosed
<1> QED
  BY <1>1, <1>2, <1>3

LEMMA RxBackpressureInv ==
  ASSUME IInv, RxBackpressure
  PROVE  IInv'
<1> USE DEF IInv, RxBackpressure, BeginRelease, ReleaseDrain, Finish, Current
<1>1. TypeOK'
  <2>1. Flags'
    BY Zenon DEF TypeOK, Flags
  <2>2. Listed'
    BY EmptyList DEF TypeOK, Listed
  <2>3. Words'
    BY DEF TypeOK, Words
  <2> QED
    BY <2>1, <2>2, <2>3, CoordinatorAssumption DEF TypeOK, Flags, Listed, Words
<1>2. Control'
  BY DEF TypeOK, Control, PhaseIsWhere, DisposedEnds, TurnInRange, Silence, NothingInFlight,
         GrantedUnrevoked
<1>3. Undo'
  BY EmptyList DEF TypeOK, Control, PhaseIsWhere, TurnInRange, NothingInFlight,
         Undo, GenerationsPast, RestoreIsAllowed, MutedAreListed, ChangedAreMarked, Live,
         StaysClosed
<1> QED
  BY <1>1, <1>2, <1>3

LEMMA AbortAcquisitionInv ==
  ASSUME IInv, AbortAcquisition
  PROVE  IInv'
<1> USE DEF IInv, AbortAcquisition
<1>1. TypeOK'
  BY CoordinatorAssumption DEF TypeOK
<1>2. Control'
  BY DEF TypeOK, Control, PhaseIsWhere, DisposedEnds, TurnInRange, Silence, NothingInFlight,
         GrantedUnrevoked
<1>3. Undo'
  BY EmptyList DEF TypeOK, Control, PhaseIsWhere, NothingInFlight,
         Undo, GenerationsPast, RestoreIsAllowed, MutedAreListed, ChangedAreMarked, Live,
         StaysClosed
<1> QED
  BY <1>1, <1>2, <1>3

LEMMA NotifyDisconnectedInv ==
  ASSUME IInv, NotifyDisconnected
  PROVE  IInv'
<1> USE DEF IInv, NotifyDisconnected, Revoke, BeginRelease, ReleaseDrain, Finish
<1>1. TypeOK'
  <2>1. Flags'
    BY Zenon DEF TypeOK, Flags
  <2>2. Listed'
    BY EmptyList DEF TypeOK, Listed
  <2>3. Words'
    BY DEF TypeOK, Words
  <2> QED
    BY <2>1, <2>2, <2>3, CoordinatorAssumption DEF TypeOK, Flags, Listed, Words
<1>2. Control'
  BY DEF TypeOK, Control, PhaseIsWhere, DisposedEnds, TurnInRange, Silence, NothingInFlight,
         GrantedUnrevoked
<1>3. Undo'
  BY EmptyList DEF TypeOK, Control, PhaseIsWhere, TurnInRange, NothingInFlight,
         Undo, GenerationsPast, RestoreIsAllowed, MutedAreListed, ChangedAreMarked, Live,
         StaysClosed
<1> QED
  BY <1>1, <1>2, <1>3

LEMMA ConnectionDropsInv ==
  ASSUME IInv, ConnectionDrops
  PROVE  IInv'
<1> USE DEF IInv, ConnectionDrops
<1>1. TypeOK'
  <2>1. Flags'
    BY Zenon DEF TypeOK, Flags
  <2>2. Listed'
    BY EmptyList DEF TypeOK, Listed
  <2>3. Words'
    BY DEF TypeOK, Words
  <2> QED
    BY <2>1, <2>2, <2>3, CoordinatorAssumption DEF TypeOK, Flags, Listed, Words
<1>2. Control'
  BY DEF TypeOK, Control, PhaseIsWhere, DisposedEnds, TurnInRange, Silence, NothingInFlight,
         GrantedUnrevoked
<1>3. Undo'
  BY EmptyList DEF TypeOK, Control, PhaseIsWhere, TurnInRange, NothingInFlight,
         Undo, GenerationsPast, RestoreIsAllowed, MutedAreListed, ChangedAreMarked, Live,
         StaysClosed
<1> QED
  BY <1>1, <1>2, <1>3

LEMMA ConnectionOpensInv ==
  ASSUME IInv, ConnectionOpens
  PROVE  IInv'
<1> USE DEF IInv, ConnectionOpens
<1>1. TypeOK'
  BY CoordinatorAssumption DEF TypeOK
<1>2. Control'
  BY DEF TypeOK, Control, PhaseIsWhere, DisposedEnds, TurnInRange, Silence, NothingInFlight,
         GrantedUnrevoked
<1>3. Undo'
  BY EmptyList DEF TypeOK, Control, PhaseIsWhere, NothingInFlight,
         Undo, GenerationsPast, RestoreIsAllowed, MutedAreListed, ChangedAreMarked, Live,
         StaysClosed
<1> QED
  BY <1>1, <1>2, <1>3

LEMMA SynchronizeConnectionInv ==
  ASSUME IInv, SynchronizeConnection
  PROVE  IInv'
<1> USE DEF IInv, SynchronizeConnection, Revoke, Current, BeginRelease,
           ReleaseDrain, Finish
<1>1. TypeOK'
  <2>1. Flags'
    BY Zenon DEF TypeOK, Flags
  <2>2. Listed'
    BY EmptyList DEF TypeOK, Listed
  <2>3. Words'
    BY DEF TypeOK, Words
  <2> QED
    BY <2>1, <2>2, <2>3, CoordinatorAssumption DEF TypeOK, Flags, Listed, Words
<1>2. Control'
  BY DEF TypeOK, Control, PhaseIsWhere, DisposedEnds, TurnInRange, Silence, NothingInFlight,
         GrantedUnrevoked
<1>3. Undo'
  BY EmptyList DEF TypeOK, Control, PhaseIsWhere, TurnInRange, NothingInFlight,
         Undo, GenerationsPast, RestoreIsAllowed, MutedAreListed, ChangedAreMarked, Live,
         StaysClosed
<1> QED
  BY <1>1, <1>2, <1>3

LEMMA DisposeInv ==
  ASSUME IInv, Dispose
  PROVE  IInv'
<1> USE DEF IInv, Dispose, BeginRelease, ReleaseDrain, Finish
<1>1. TypeOK'
  <2>1. Flags'
    BY Zenon DEF TypeOK, Flags
  <2>2. Listed'
    BY EmptyList DEF TypeOK, Listed
  <2>3. Words'
    BY DEF TypeOK, Words
  <2> QED
    BY <2>1, <2>2, <2>3, CoordinatorAssumption DEF TypeOK, Flags, Listed, Words
<1>2. Control'
  BY DEF TypeOK, Control, PhaseIsWhere, DisposedEnds, TurnInRange, Silence, NothingInFlight,
         GrantedUnrevoked
<1>3. Undo'
  BY EmptyList DEF TypeOK, Control, PhaseIsWhere, TurnInRange, NothingInFlight,
         Undo, GenerationsPast, RestoreIsAllowed, MutedAreListed, ChangedAreMarked, Live,
         StaysClosed
<1> QED
  BY <1>1, <1>2, <1>3

LEMMA RestoreNextInv ==
  ASSUME IInv, RestoreNext
  PROVE  IInv'
<1> USE DEF IInv, RestoreNext
<1>1. /\ Front(suspended) \in Seq(Names) /\ Last(suspended) \in Names
      /\ Range(suspended) \subseteq Range(Front(suspended)) \cup {Last(suspended)}
  BY ListFront DEF TypeOK
<1>2. /\ suspended' = Front(suspended)
      /\ mutedIn' = [mutedIn EXCEPT ![Last(suspended)] = 0]
      /\ UNCHANGED <<connectionVars, phase, disposed, faultedGen, manual, where,
                     holderVars, lineVars>>
  OBVIOUS
<1>3. TypeOK'
  BY <1>1, <1>2 DEF TypeOK
<1>4. Control'
  BY DEF TypeOK, Control, PhaseIsWhere, DisposedEnds, TurnInRange, Silence,
         NothingInFlight, GrantedUnrevoked
<1>5. GenerationsPast' /\ RestoreIsAllowed' /\ ChangedAreMarked'
  BY <1>1, <1>2 DEF TypeOK, Undo, GenerationsPast, RestoreIsAllowed, ChangedAreMarked,
                    Live, StaysClosed
<1>6. MutedAreListed'
  <2> SUFFICES ASSUME NEW a \in Names, Live', mutedIn'[a] = gen'
               PROVE  where # "none" /\ holderGen = gen /\ a \in Range(Front(suspended))
    BY <1>2 DEF MutedAreListed
  <2>1. Live /\ gen > 0
    BY <1>2 DEF Live, Undo, GenerationsPast
  <2>2. a # Last(suspended) /\ mutedIn[a] = gen
    BY <1>1, <1>2, <2>1 DEF TypeOK
  <2>3. where # "none" /\ holderGen = gen /\ a \in Range(suspended)
    BY <2>1, <2>2 DEF Undo, MutedAreListed, StaysClosed, Control, PhaseIsWhere
  <2> QED
    BY <1>1, <2>2, <2>3
<1> QED
  BY <1>3, <1>4, <1>5, <1>6 DEF Undo

LEMMA AcquirePausedInv ==
  ASSUME IInv, NEW answer \in PauseAnswers, AcquirePaused(answer)
  PROVE  IInv'
<1> USE DEF IInv
<1> DEFINE name == Automations[turn]
<1> DEFINE paused == IF answer = "suspension" THEN Append(suspended, name) ELSE suspended
<1>1. /\ where = "pause"
      /\ mutedIn' = IF answer = "suspension" THEN [mutedIn EXCEPT ![name] = holderGen]
                    ELSE mutedIn
      /\ \/ /\ ~AcquisitionLost /\ suspended' = paused
            /\ PauseFrom(turn + 1) /\ UNCHANGED faulting
         \/ AcquireFails(paused, FALSE) /\ UNCHANGED turn
      /\ UNCHANGED <<connectionVars, disposed, manual, holderGen, aborted, restoreAllowed,
                     lineVars>>
  BY DEF AcquirePaused
<1>2. turn \in DOMAIN Automations /\ DOMAIN Automations = 1 .. Len(Automations)
      /\ Len(Automations) \in Nat /\ name \in Names
  BY <1>1, CoordinatorAssumption, NamesListed DEF Control, TurnInRange
<1> HIDE DEF name
<1>3. /\ paused \in Seq(Names) /\ Range(suspended) \subseteq Range(paused)
      /\ answer = "suspension" => name \in Range(paused)
  BY <1>2, ListAppend DEF TypeOK
<1> HIDE DEF paused
<1> USE DEF AcquireFails, AcquisitionLost, PauseFrom, Grant, Stay, Finish, Current
<1>4. TypeOK'
  <2>1. Flags'
    BY <1>1, Zenon DEF TypeOK, Flags
  <2>2. Listed'
    BY <1>1, <1>3, EmptyList DEF TypeOK, Listed
  <2>3. Words'
    BY <1>1 DEF TypeOK, Words
  <2>4. turn' \in 0 .. Len(Automations)
    BY <1>1, <1>2 DEF TypeOK
  <2>5. mutedIn' \in [Names -> Nat]
    BY <1>1, <1>2 DEF TypeOK
  <2> QED
    BY <1>1, <2>1, <2>2, <2>3, <2>4, <2>5 DEF TypeOK, Flags, Listed, Words
<1>5. Control'
  BY <1>1, <1>2 DEF TypeOK, Control, PhaseIsWhere, DisposedEnds, TurnInRange, Silence,
         NothingInFlight, GrantedUnrevoked
<1>6. GenerationsPast' /\ RestoreIsAllowed' /\ ChangedAreMarked'
  BY <1>1, <1>2 DEF TypeOK, Undo, GenerationsPast, RestoreIsAllowed, ChangedAreMarked,
                    Live, StaysClosed, Control, PhaseIsWhere
<1>7. MutedAreListed'
  <2> SUFFICES ASSUME NEW a \in Names, Live', mutedIn'[a] = gen'
               PROVE  (where' # "none" /\ holderGen' = gen' /\ a \in Range(suspended'))
                        \/ StaysClosed'
    BY DEF MutedAreListed
  <2>1. Live /\ gen' = gen /\ holderGen' = holderGen
    BY <1>1 DEF Live
  <2>2. holderGen = gen /\ a \in Range(paused)
    <3>1. CASE answer = "suspension" /\ a = name
      BY <1>1, <1>2, <1>3, <2>1, <3>1 DEF TypeOK
    <3>2. CASE ~(answer = "suspension" /\ a = name)
      <4>1. mutedIn[a] = gen
        BY <1>1, <1>2, <2>1, <3>2 DEF TypeOK
      <4> QED
        BY <1>1, <1>3, <2>1, <4>1 DEF Undo, MutedAreListed, StaysClosed, Control,
                                      PhaseIsWhere
    <3> QED
      BY <3>1, <3>2
  <2>3. restoreAllowed /\ Current
    BY <1>1, <2>1, <2>2 DEF Undo, RestoreIsAllowed, Live
  <2> QED
    BY <1>1, <2>1, <2>2, <2>3
<1> QED
  BY <1>4, <1>5, <1>6, <1>7 DEF Undo

LEMMA InitInv == Init => IInv
<1> SUFFICES ASSUME Init
             PROVE  IInv
  OBVIOUS
<1> USE DEF Init
<1>1. TypeOK
  <2>1. Flags
    BY Zenon DEF Flags
  <2>2. turn \in 0 .. Len(Automations) /\ manual \in 0 .. MaxManualWrites
    BY CoordinatorAssumption
  <2>3. mutedIn \in [Names -> Nat]
    OBVIOUS
  <2> QED
    BY <2>1, <2>2, <2>3, EmptyList DEF TypeOK, Flags
<1>2. Control
  BY DEF Control, PhaseIsWhere, DisposedEnds, TurnInRange, Silence, NothingInFlight,
         GrantedUnrevoked
<1>3. Undo
  BY DEF Undo, GenerationsPast, RestoreIsAllowed, MutedAreListed, ChangedAreMarked,
         Live, StaysClosed
<1> QED
  BY <1>1, <1>2, <1>3 DEF IInv

LEMMA StutterInv ==
  ASSUME IInv, UNCHANGED vars
  PROVE  IInv'
<1> USE DEF IInv, vars
<1>1. TypeOK'
  BY DEF TypeOK
<1>2. Control'
  BY DEF Control, PhaseIsWhere, DisposedEnds, TurnInRange, Silence, NothingInFlight,
         GrantedUnrevoked
<1>3. Undo'
  BY DEF Undo, GenerationsPast, RestoreIsAllowed, MutedAreListed, ChangedAreMarked,
         Live, StaysClosed
<1> QED
  BY <1>1, <1>2, <1>3

LEMMA NextInv ==
  ASSUME IInv, [Next]_vars
  PROVE  IInv'
<1>1. CASE Continue
  BY <1>1, AcquireManualDrainedInv, AcquireEndsInv, ReleaseOperationSettledInv,
     ReleaseDrainedInv, ReleaseLinesInv, RestoreNextInv, ReleaseEndsInv DEF Continue
<1>2. CASE AcquireDrained \/ PauseAnswered
  BY <1>2, AcquireDrainedInv, AcquirePausedInv DEF PauseAnswered
<1>3. CASE Calls
  BY <1>3, RunManualWriteInv, AcquireInv, ReleaseInv, AbortAcquisitionInv,
     StartOperationInv, SetOutputLinesInv, RevokeStaleInv, RxBackpressureInv,
     NotifyDisconnectedInv, SynchronizeConnectionInv, DisposeInv DEF Calls
<1>4. CASE ManualWriteEnds \/ OperationEnds \/ ConnectionDrops \/ ConnectionOpens
  BY <1>4, ManualWriteEndsInv, OperationEndsInv, ConnectionDropsInv, ConnectionOpensInv
<1>5. CASE UNCHANGED vars
  BY <1>5, StutterInv
<1> QED
  BY <1>1, <1>2, <1>3, <1>4, <1>5 DEF Next

-----------------------------------------------------------------------------
(* The theorems.                                                           *)

\* The invariant holds in every state of the coordinator.
THEOREM Invariance == Spec => []IInv
BY InitInv, NextInv, PTL DEF Spec

\* Every variable keeps its type.
THEOREM TypeCorrect == Spec => []TypeOK
BY Invariance, PTL DEF IInv

\* A transaction excludes manual writes from the grant of the lease to the end of
\* its release, however many writes and automations there are, and no device
\* operation outlives its lease.
THEOREM TransactionExclusive == Spec => []OneOwner
<1>1. IInv => Exclusive
  BY DEF IInv, Control, PhaseIsWhere, Silence, Exclusive, Idle
<1>2. IInv => NothingInFlight
  BY DEF IInv, Control
<1>3. IInv => OneOwner
  BY <1>1, <1>2 DEF OneOwner
<1> QED
  BY <1>3, Invariance, PTL

\* When the gate opens on a live connection, every automation that was paused on
\* it has been restored (none is forgotten by a cancelled acquisition, a release
\* that is joined by another, or a fault), and DTR, RTS and Break are as they were.
THEOREM RestoredBeforeIdle == Spec => []GateOpensClean
<1>1. IInv => NobodyForgotten
  BY DEF IInv, TypeOK, Control, PhaseIsWhere, Undo, MutedAreListed, Live, StaysClosed,
         NobodyForgotten
<1>2. IInv => LinesAreBack
  BY DEF IInv, TypeOK, Control, PhaseIsWhere, Undo, ChangedAreMarked, Live, StaysClosed,
         LinesAreBack
<1>3. IInv => GateOpensClean
  BY <1>1, <1>2 DEF GateOpensClean
<1> QED
  BY <1>3, Invariance, PTL

\* A lease is granted only on the connection that its acquisition began on, and
\* only after every automation had its turn.
THEOREM GrantedOnCurrent == Spec => GrantIsCurrent
<1> DEFINE A == where' = "held" /\ where # "held" =>
                  connected' /\ gen' = holderGen' /\ turn' = Len(Automations)
<1>1. IInv /\ [Next]_vars => [A]_vars
  <2> SUFFICES ASSUME IInv, Next, where' = "held", where # "held"
               PROVE  connected' /\ gen' = holderGen' /\ turn' = Len(Automations)
    OBVIOUS
  <2> USE DEF IInv, Stay, Finish
  <2>1. CASE AcquireManualDrained
    BY <2>1, CoordinatorAssumption
       DEF AcquireManualDrained, AcquisitionLost, Current, PauseFrom, Grant, AcquireFails,
           Control, TurnInRange
  <2>2. ASSUME NEW answer \in PauseAnswers, AcquirePaused(answer)
        PROVE  connected' /\ gen' = holderGen' /\ turn' = Len(Automations)
    <3>1. where = "pause" /\ turn \in 1 .. Len(Automations) /\ Len(Automations) \in Nat
      BY <2>2, CoordinatorAssumption DEF AcquirePaused, Control, TurnInRange
    <3> QED
      BY <2>2, <3>1 DEF AcquirePaused, AcquisitionLost, Current, PauseFrom, Grant,
                        AcquireFails
  <2>3. CASE AcquireEnds \/ ReleaseOperationSettled \/ ReleaseDrained \/ ReleaseLines
               \/ RestoreNext \/ ReleaseEnds \/ AcquireDrained
    BY <2>3 DEF AcquireEnds, ReleaseOperationSettled, ReleaseDrained, ReleaseLines,
                RestoreNext, ReleaseEnds, AcquireDrained, ReleaseDrain, AcquireFails
  <2>4. CASE Calls
    BY <2>4 DEF Calls, RunManualWrite, Acquire, Release, AbortAcquisition, StartOperation,
                SetOutputLines, RevokeStale, RxBackpressure, NotifyDisconnected,
                SynchronizeConnection, Dispose, Revoke, BeginRelease, ReleaseDrain
  <2>5. CASE ManualWriteEnds \/ OperationEnds \/ ConnectionDrops \/ ConnectionOpens
    BY <2>5 DEF ManualWriteEnds, OperationEnds, ConnectionDrops, ConnectionOpens
  <2> QED
    BY <2>1, <2>2, <2>3, <2>4, <2>5 DEF Next, Continue, PauseAnswered
<1> QED
  BY <1>1, Invariance, PTL DEF Spec, GrantIsCurrent

\* Nothing but a new connection or dispose() leaves the faulted phase: a gate
\* whose lines or writes are in doubt stays closed.
THEOREM FaultSticks == Spec => FaultIsSticky
<1> DEFINE A == phase = "faulted" /\ phase' # "faulted" =>
                  phase' = "disposed" \/ (connected' /\ gen' # faultedGen)
<1>1. IInv /\ [Next]_vars => [A]_vars
  <2> SUFFICES ASSUME IInv, Next, phase = "faulted", phase' # "faulted"
               PROVE  phase' = "disposed" \/ (connected' /\ gen' # faultedGen)
    OBVIOUS
  <2>1. where = "none" /\ op = "none"
    BY DEF IInv, TypeOK, Control, PhaseIsWhere, NothingInFlight
  <2>2. CASE Continue \/ AcquireDrained \/ PauseAnswered
    BY <2>1, <2>2 DEF Continue, AcquireManualDrained, AcquireEnds, ReleaseOperationSettled,
                      ReleaseDrained, ReleaseLines, RestoreNext, ReleaseEnds,
                      AcquireDrained, PauseAnswered, AcquirePaused
  <2>3. CASE Calls
    BY <2>1, <2>3 DEF Calls, RunManualWrite, Acquire, Idle, Release, AbortAcquisition,
                      StartOperation, SetOutputLines, RevokeStale, RxBackpressure,
                      NotifyDisconnected, SynchronizeConnection, Dispose
  <2>4. CASE ManualWriteEnds \/ OperationEnds \/ ConnectionDrops \/ ConnectionOpens
    BY <2>1, <2>4 DEF ManualWriteEnds, OperationEnds, ConnectionDrops, ConnectionOpens
  <2> QED
    BY <2>2, <2>3, <2>4 DEF Next
<1> QED
  BY <1>1, Invariance, PTL DEF Spec, FaultIsSticky

\* Once dispose() was called, the gate never opens again and no lease is granted,
\* whatever was in progress.
THEOREM DisposalFinal == Spec => DisposedIsFinal
<1> DEFINE A == /\ disposed => phase' \in {phase, "releasing", "disposed"}
                /\ phase = "disposed" => phase' = "disposed"
<1>1. IInv /\ [Next]_vars => [A]_vars
  <2> SUFFICES ASSUME IInv, Next, disposed
               PROVE  A
    BY DEF IInv, Control, DisposedEnds
  <2>1. /\ where # "held" /\ (where \in Acquiring => aborted)
        /\ phase = "disposed" <=> where = "none"
        /\ phase # "faulted"
    BY DEF IInv, TypeOK, Control, PhaseIsWhere, DisposedEnds
  <2> USE DEF Stay, Finish
  <2>2. CASE Continue
    BY <2>1, <2>2 DEF Continue, AcquireManualDrained, AcquisitionLost, AcquireFails,
                      AcquireEnds, ReleaseOperationSettled, ReleaseDrain, ReleaseDrained,
                      ReleaseLines, RestoreNext, ReleaseEnds
  <2>3. CASE AcquireDrained \/ PauseAnswered
    BY <2>1, <2>3 DEF AcquireDrained, PauseAnswered, AcquirePaused, AcquisitionLost,
                      AcquireFails
  <2>4. CASE Calls
    BY <2>1, <2>4 DEF Calls, RunManualWrite, Acquire, Idle, Release, AbortAcquisition,
                      StartOperation, SetOutputLines, RevokeStale, RxBackpressure,
                      NotifyDisconnected, SynchronizeConnection, Dispose, Revoke,
                      BeginRelease
  <2>5. CASE ManualWriteEnds \/ OperationEnds \/ ConnectionDrops \/ ConnectionOpens
    BY <2>5 DEF ManualWriteEnds, OperationEnds, ConnectionDrops, ConnectionOpens
  <2> QED
    BY <2>2, <2>3, <2>4, <2>5 DEF Next
<1> QED
  BY <1>1, Invariance, PTL DEF Spec, DisposedIsFinal

-----------------------------------------------------------------------------
(* The session implements the coordinator.                                 *)

LEMMA SessionStepIsStep ==
  ASSUME [SessionNext]_allVars
  PROVE  [Next]_vars
<1>1. CASE UNCHANGED allVars
  BY <1>1 DEF allVars
<1>2. CASE AutomationAnswers
  BY <1>2 DEF AutomationAnswers, Next, PauseAnswered
<1>3. CASE CoordinatorStep
  BY <1>3 DEF CoordinatorStep, SessionCalls, Next, Calls
<1>4. CASE StartSendLoop \/ StopSendLoop \/ RunMacro \/ AbortMacro \/ HandleTerminalData
             \/ ConnectionWatch
  BY <1>4 DEF StartSendLoop, StopSendLoop, RunMacro, AbortMacro, HandleTerminalData,
              ConnectionWatch
<1>5. CASE LoopTick \/ MacroStep
  BY <1>5 DEF LoopTick, MacroStep, Next, Calls
<1>6. CASE LoopSent \/ MacroSent(TRUE) \/ MacroSent(FALSE)
  BY <1>6 DEF LoopSent, MacroSent, Next
<1> QED
  BY <1>1, <1>2, <1>3, <1>4, <1>5, <1>6 DEF SessionNext

\* Whatever the automations do, the coordinator sees only what its ports may
\* answer: the session refines SerialTransactionLease.
THEOREM SessionRefinesCoordinator == SessionSpec => Spec
<1>1. SessionInit => Init
  BY DEF SessionInit
<1>2. [SessionNext]_allVars => [Next]_vars
  BY SessionStepIsStep
<1> QED
  BY <1>1, <1>2, PTL DEF SessionSpec, Spec

-----------------------------------------------------------------------------
(* The invariant.                                                          *)

\* The parts of the session have their types.
SessionTypeOK ==
  /\ loop \in [running : BOOLEAN, timer : BOOLEAN, flight : {"none", "own", "old"}]
  /\ macro \in [running : BOOLEAN, sending : BOOLEAN, aborted : BOOLEAN,
                paused : BOOLEAN, late : BOOLEAN]
  /\ saved \in BOOLEAN /\ shellPaused \in BOOLEAN /\ typed \in BOOLEAN
  /\ triggersPaused \in BOOLEAN /\ watchDue \in BOOLEAN

\* The watcher is due only while no new connection is up.
WatchMeansDown == connected => ~watchDue

\* Every automation that had its turn is silent, and a lease is granted when all
\* had theirs.
SilencedSoFar ==
  /\ where \in {"pause", "held"} =>
       \A i \in 1 .. turn :
         /\ Automations[i] = "serial-shell" => shellPaused
         /\ Automations[i] = "cyclic-send" => ~loop.running
         /\ Automations[i] = "trigger-responses" /\ connected => triggersPaused
  /\ where = "held" => turn = Len(Automations)

\* acquire() is at the automation called name.
AtTurn(name) == where = "pause" /\ Automations[turn] = name

\* Triggers that are paused on a live connection are noted by the coordinator, or
\* their pause() is under way; without a connection the watcher will resume them.
TriggersNoted ==
  triggersPaused =>
    /\ connected \/ watchDue
    /\ Live => mutedIn["trigger-responses"] = gen \/ AtTurn("trigger-responses")

\* The same for the macro, unless its pause came after an abort.
MacroNoted ==
  macro.paused /\ ~macro.late =>
    /\ ~macro.aborted
    /\ connected \/ watchDue
    /\ Live => mutedIn["macro-runner"] = gen \/ (AtTurn("macro-runner") /\ saved)

\* A transaction does not outlive its connection by a new one.
HolderIsCurrent == where # "none" => holderGen = gen

SessionInv ==
  /\ SessionTypeOK /\ WatchMeansDown /\ HolderIsCurrent /\ LoopKeepsTicking
  /\ SilencedSoFar /\ TriggersNoted /\ MacroNoted

-----------------------------------------------------------------------------
(* What a step of the coordinator does to the session.                     *)

\* acquire() calls the pause() of the next automation.
Advances ==
  /\ where \in {"manual", "pause"} /\ (where = "manual" => turn = 0)
  /\ Current /\ UNCHANGED connected
  /\ where' = "pause" /\ turn' = turn + 1

\* acquire() has called them all.
Grants ==
  /\ where \in {"manual", "pause"} /\ (where = "manual" => turn = 0)
  /\ UNCHANGED connected
  /\ where' = "held" /\ turn' = turn /\ turn = Len(Automations)

\* The steps of the coordinator as far as the automations can tell, but for a new
\* connection.
Shape ==
  /\ gen' = gen /\ (connected' => connected) /\ revoked' \in {revoked, gen}
  /\ where' # "none" => holderGen' = gen
  /\ where' \in {"pause", "held"} =>
       (where' = where /\ turn' = turn) \/ Advances \/ Grants

\* The coordinator's own steps neither answer for an automation nor forget one.
Undisturbed ==
  /\ where = "pause" => where' = "pause" /\ turn' = turn
  /\ ~RestoreNext => mutedIn' = mutedIn

USE DEF Acquiring, Releasing, NoGeneration, connectionVars, holderVars, automationVars,
        lineVars

LEMMA ContinueShape ==
  ASSUME IInv, HolderIsCurrent, Continue \/ AcquireDrained
  PROVE  Shape /\ Undisturbed /\ manual' = manual
<1> USE DEF IInv, Stay, Finish
<1>1. CASE AcquireManualDrained
  <2> USE <1>1 DEF AcquireManualDrained, AcquisitionLost, PauseFrom, Grant, AcquireFails
  <2>1. Shape
    BY CoordinatorAssumption
       DEF Shape, Current, HolderIsCurrent, Control, TurnInRange, Advances, Grants
  <2>2. Undisturbed /\ manual' = manual
    BY DEF Undisturbed
  <2> QED
    BY <2>1, <2>2
<1>2. CASE AcquireEnds \/ ReleaseOperationSettled \/ ReleaseDrained \/ ReleaseLines
             \/ ReleaseEnds \/ AcquireDrained
  <2> USE <1>2 DEF AcquireEnds, ReleaseOperationSettled, ReleaseDrained, ReleaseLines,
                   ReleaseEnds, AcquireDrained, ReleaseDrain, AcquireFails
  <2>1. Shape
    BY DEF Shape, HolderIsCurrent
  <2>2. Undisturbed /\ manual' = manual
    BY DEF Undisturbed
  <2> QED
    BY <2>1, <2>2
<1>3. CASE RestoreNext
  BY <1>3 DEF RestoreNext, Shape, HolderIsCurrent, Undisturbed
<1> QED
  BY <1>1, <1>2, <1>3 DEF Continue

LEMMA CallsShape ==
  ASSUME IInv, HolderIsCurrent, SessionCalls \/ ConnectionDrops \/ ManualWriteEnds
  PROVE  Shape /\ Undisturbed
<1>1. CASE RunManualWrite \/ Acquire \/ ConnectionDrops \/ ManualWriteEnds
  <2> USE <1>1 DEF RunManualWrite, Acquire, Idle, ConnectionDrops, ManualWriteEnds
  <2>1. Shape
    BY DEF Shape, HolderIsCurrent
  <2>2. Undisturbed
    BY DEF Undisturbed, IInv, Control, PhaseIsWhere
  <2> QED
    BY <2>1, <2>2
<1>2. CASE Release \/ RevokeStale \/ RxBackpressure
  <2> USE <1>2 DEF Release, RevokeStale, RxBackpressure, BeginRelease, ReleaseDrain, Finish
  <2>1. Shape
    BY DEF Shape, HolderIsCurrent
  <2>2. Undisturbed
    BY DEF Undisturbed
  <2> QED
    BY <2>1, <2>2
<1>3. CASE NotifyDisconnected
  <2> USE <1>3 DEF NotifyDisconnected, Revoke, BeginRelease, ReleaseDrain, Finish
  <2>1. Shape
    BY DEF Shape, HolderIsCurrent
  <2>2. Undisturbed
    BY DEF Undisturbed
  <2> QED
    BY <2>1, <2>2
<1>4. CASE SynchronizeConnection
  <2> USE <1>4 DEF SynchronizeConnection, Revoke, BeginRelease, ReleaseDrain, Finish
  <2>1. Shape
    BY DEF Shape, HolderIsCurrent
  <2>2. Undisturbed
    BY DEF Undisturbed
  <2> QED
    BY <2>1, <2>2
<1>5. CASE Dispose
  <2> USE <1>5 DEF Dispose, BeginRelease, ReleaseDrain, Finish
  <2>1. Shape
    BY DEF Shape, HolderIsCurrent
  <2>2. Undisturbed
    BY DEF Undisturbed
  <2> QED
    BY <2>1, <2>2
<1> QED
  BY <1>1, <1>2, <1>3, <1>4, <1>5 DEF SessionCalls

\* The answer of pause() is noted, or the acquisition fails.
LEMMA AnswerShape ==
  ASSUME IInv, HolderIsCurrent, NEW answer \in PauseAnswers, AcquirePaused(answer)
  PROVE  /\ Shape /\ manual' = manual /\ where = "pause"
         /\ turn \in DOMAIN Automations /\ Automations[turn] \in Names
         /\ mutedIn' = IF answer = "suspension"
                       THEN [mutedIn EXCEPT ![Automations[turn]] = gen] ELSE mutedIn
         /\ answer = "rejected" => where' \notin {"pause", "held"}
<1> USE DEF IInv, Shape, HolderIsCurrent, Stay, Finish
<1>1. /\ where = "pause" /\ holderGen = gen
      /\ turn \in DOMAIN Automations /\ Automations[turn] \in Names
  BY NamesListed DEF AcquirePaused, Control, TurnInRange
<1>2. turn \in 1 .. Len(Automations) /\ Len(Automations) \in Nat
  BY <1>1, CoordinatorAssumption
<1>3. Shape /\ manual' = manual
  BY <1>1, <1>2 DEF AcquirePaused, AcquisitionLost, Current, PauseFrom, Grant,
                    AcquireFails, Advances, Grants
<1>4. mutedIn' = IF answer = "suspension"
                 THEN [mutedIn EXCEPT ![Automations[turn]] = gen] ELSE mutedIn
  BY <1>1 DEF AcquirePaused
<1>5. answer = "rejected" => where' \notin {"pause", "held"}
  BY <1>1 DEF AcquirePaused, AcquireFails
<1> QED
  BY <1>1, <1>3, <1>4, <1>5

-----------------------------------------------------------------------------
(* The operations of AsyncSendLoop and MacroRunnerBridge.                  *)

LoopType == [running : BOOLEAN, timer : BOOLEAN, flight : {"none", "own", "old"}]
MacroType == [running : BOOLEAN, sending : BOOLEAN, aborted : BOOLEAN,
              paused : BOOLEAN, late : BOOLEAN]

\* A running loop has exactly one of a timer and a send in flight.
Ticking(l) ==
  /\ l.running => (l.timer # (l.flight # "none"))
  /\ ~l.running => ~l.timer /\ l.flight # "own"

\* stop() and start() leave a send in flight in flight.
LEMMA LoopOperations ==
  ASSUME NEW l \in LoopType, Ticking(l)
  PROVE  /\ LoopStop(l) \in LoopType /\ Ticking(LoopStop(l)) /\ ~LoopStop(l).running
         /\ LoopStop(l).flight = "none" <=> l.flight = "none"
         /\ ~l.running => /\ LoopStart(l) \in LoopType /\ Ticking(LoopStart(l))
                          /\ LoopStart(l).flight = l.flight
         /\ LoopSettles(l) \in LoopType /\ Ticking(LoopSettles(l))
         /\ LoopSettles(l).flight = "none" /\ LoopSettles(l).running = l.running
<1>1. /\ LoopStop(l) \in LoopType /\ Ticking(LoopStop(l)) /\ ~LoopStop(l).running
      /\ LoopStop(l).flight = "none" <=> l.flight = "none"
  BY DEF LoopType, Ticking, LoopStop
<1>2. ASSUME ~l.running
      PROVE  /\ LoopStart(l) \in LoopType /\ Ticking(LoopStart(l))
             /\ LoopStart(l).flight = l.flight
  BY <1>2 DEF LoopType, Ticking, LoopStart
<1>3. /\ LoopSettles(l) \in LoopType /\ Ticking(LoopSettles(l))
      /\ LoopSettles(l).flight = "none" /\ LoopSettles(l).running = l.running
  BY DEF LoopType, Ticking, LoopSettles
<1> QED
  BY <1>1, <1>2, <1>3

LEMMA MacroOperations ==
  ASSUME NEW m \in MacroType
  PROVE  /\ MacroAbort(m) \in MacroType /\ MacroAbort(m).sending = m.sending
         /\ MacroAbort(m).paused =>
              m.paused /\ m.aborted /\ MacroAbort(m).late = m.late
         /\ MacroPause(m) \in MacroType /\ MacroPause(m).sending = m.sending
         /\ MacroPause(m).late = m.aborted /\ MacroPause(m).aborted = m.aborted
         /\ MacroResume(m) \in MacroType /\ MacroResume(m).sending = m.sending
         /\ ~MacroResume(m).paused
<1>1. /\ MacroAbort(m) \in MacroType /\ MacroAbort(m).sending = m.sending
      /\ MacroAbort(m).paused => m.paused /\ m.aborted /\ MacroAbort(m).late = m.late
  BY DEF MacroType, MacroAbort
<1>2. /\ MacroPause(m) \in MacroType /\ MacroPause(m).sending = m.sending
      /\ MacroPause(m).late = m.aborted /\ MacroPause(m).aborted = m.aborted
  BY DEF MacroType, MacroPause
<1>3. /\ MacroResume(m) \in MacroType /\ MacroResume(m).sending = m.sending
      /\ ~MacroResume(m).paused
  BY DEF MacroType, MacroResume
<1> QED
  BY <1>1, <1>2, <1>3

\* LoopKeepsTicking in terms of the operations.
LEMMA TickingMeans ==
  /\ LoopKeepsTicking <=> Ticking(loop) /\ OwnWrites <= manual
  /\ SessionTypeOK => OwnWrites \in 0 .. 2
<1>1. LoopKeepsTicking <=> Ticking(loop) /\ OwnWrites <= manual
  BY DEF LoopKeepsTicking, Ticking
<1>2. SessionTypeOK => OwnWrites \in 0 .. 2
  BY DEF OwnWrites
<1> QED
  BY <1>1, <1>2

-----------------------------------------------------------------------------
(* A step of the coordinator preserves the invariant.                      *)

\* pause() is called by acquire() alone, restore() only behind the closed gate.
LEMMA PortCalls ==
  ASSUME IInv, SessionInv, Shape, NEW name
  PROVE  /\ Pauses(name) => Advances /\ Automations[turn'] = name
         /\ Advances /\ Automations[turn'] = name => Pauses(name)
         /\ Restores(name) => /\ where \in {"undo", "restore"} /\ where' = where
                             /\ ~ManualWriteAllowed
<1>1. Pauses(name) => Advances /\ Automations[turn'] = name
  BY DEF Pauses, Shape, Grants
<1>2. Advances /\ Automations[turn'] = name => Pauses(name)
  BY DEF Pauses, Advances, IInv, TypeOK
<1>3. Restores(name) => /\ where \in {"undo", "restore"} /\ where' = where
                        /\ ~ManualWriteAllowed
  BY DEF Restores, RestoreNext, ManualWriteAllowed, IInv, Control, PhaseIsWhere
<1> QED
  BY <1>1, <1>2, <1>3

LEMMA FollowTypes ==
  ASSUME IInv, SessionInv, Shape, NEW rejects, Follow(rejects)
  PROVE  /\ SessionTypeOK'
         /\ loop' \in {loop, LoopStop(loop)}
         /\ Advances /\ Automations[turn'] = "cyclic-send" => ~loop'.running
         /\ Ticking(loop)' /\ OwnWrites' = OwnWrites
<1> USE DEF SessionInv
<1>1. loop \in LoopType /\ macro \in MacroType /\ Ticking(loop)
  BY TickingMeans DEF SessionTypeOK, LoopType, MacroType
<1>2. /\ loop' \in {loop, LoopStop(loop)}
      /\ Advances /\ Automations[turn'] = "cyclic-send" => loop' = LoopStop(loop)
  BY PortCalls DEF Follow, CyclicSend
<1>3. loop' \in LoopType /\ Ticking(loop') /\ (loop'.flight = "none" <=> loop.flight = "none")
  BY <1>1, <1>2, LoopOperations
<1>4. macro' \in {macro, MacroPause(macro), MacroResume(macro)}
  BY DEF Follow, MacroRunner
<1>5. macro' \in MacroType /\ macro'.sending = macro.sending
  BY <1>1, <1>4, MacroOperations
<1>6. saved' \in BOOLEAN
  BY <1>1 DEF Follow, CyclicSend, SessionTypeOK, LoopType, MacroType
<1>7. shellPaused' \in BOOLEAN /\ typed' \in BOOLEAN /\ triggersPaused' \in BOOLEAN
      /\ watchDue' \in BOOLEAN
  BY Zenon DEF Follow, SerialShell, TriggerResponses
<1>8. OwnWrites' = OwnWrites
  BY <1>3, <1>5 DEF OwnWrites
<1>9. SessionTypeOK'
  BY <1>3, <1>5, <1>6, <1>7 DEF SessionTypeOK, LoopType, MacroType
<1> QED
  BY <1>1, <1>2, <1>3, <1>8, <1>9, LoopOperations DEF Ticking

LEMMA FollowSilence ==
  ASSUME IInv, SessionInv, Shape, NEW rejects, Follow(rejects),
         rejects = "trigger-responses" => where' \notin {"pause", "held"}
  PROVE  SilencedSoFar'
<1> USE DEF SessionInv
<1>1. ASSUME where' = "held"
      PROVE  turn' = Len(Automations)
  BY <1>1 DEF Shape, SilencedSoFar, Advances, Grants
<1>2. ASSUME where' \in {"pause", "held"}, NEW i \in 1 .. turn'
      PROVE  /\ Automations[i] = "serial-shell" => shellPaused'
             /\ Automations[i] = "cyclic-send" => ~loop'.running
             /\ Automations[i] = "trigger-responses" /\ connected' => triggersPaused'
  <2>1. rejects # "trigger-responses"
    BY <1>2
  <2>2. \A name : ~Restores(name)
    BY <1>2, PortCalls
  <2>3. CASE Advances /\ i = turn'
    <3>1. Automations[i] = "serial-shell" => shellPaused'
      BY <2>3, PortCalls DEF Follow, SerialShell
    <3>2. Automations[i] = "trigger-responses" => triggersPaused'
      BY <2>3, PortCalls DEF Follow, TriggerResponses
    <3> QED
      BY <2>3, <3>1, <3>2, FollowTypes
  <2>4. CASE ~(Advances /\ i = turn')
    <3>1. where \in {"pause", "held"} /\ i \in 1 .. turn
      BY <1>2, <2>4, CoordinatorAssumption DEF Shape, Advances, Grants, IInv, TypeOK
    <3>2. /\ Automations[i] = "serial-shell" => shellPaused
          /\ Automations[i] = "cyclic-send" => ~loop.running
          /\ Automations[i] = "trigger-responses" /\ connected => triggersPaused
      BY <3>1 DEF SilencedSoFar
    <3>3. loop' \in {loop, LoopStop(loop)} /\ ~LoopStop(loop).running
      BY FollowTypes, LoopOperations, TickingMeans DEF SessionTypeOK, LoopType
    <3>4. shellPaused => shellPaused'
      BY <2>2, Zenon DEF Follow, SerialShell
    <3>5. triggersPaused => triggersPaused'
      BY <2>1, <2>2, Zenon DEF Follow, TriggerResponses
    <3>6. connected' => connected
      BY DEF Shape
    <3> QED
      BY <3>2, <3>3, <3>4, <3>5, <3>6
  <2> QED
    BY <2>3, <2>4
<1> QED
  BY <1>1, <1>2 DEF SilencedSoFar

\* The note of a paused automation is kept until its restore().
NoteKept(name, rejects) ==
  ~Restores(name) /\ rejects # name =>
    /\ mutedIn[name] = gen => mutedIn'[name] = gen
    /\ where = "pause" /\ Automations[turn] = name =>
         \/ where' = "pause" /\ turn' = turn
         \/ mutedIn'[name] = gen
         \/ name \in {"cyclic-send", "macro-runner"} /\ ~saved

LEMMA FollowNotes ==
  ASSUME IInv, SessionInv, Shape, NEW rejects, Follow(rejects),
         NoteKept("trigger-responses", rejects), NoteKept("macro-runner", rejects)
  PROVE  TriggersNoted' /\ MacroNoted'
<1> USE DEF SessionInv
<1>1. connected \/ watchDue => connected' \/ watchDue'
  BY Zenon DEF Follow
<1>2. Live' => Live
  BY DEF Shape, Live
<1>3. gen' = gen
  BY DEF Shape
<1>4. ASSUME triggersPaused'
      PROVE  /\ connected' \/ watchDue'
             /\ Live' => mutedIn'["trigger-responses"] = gen' \/ AtTurn("trigger-responses")'
  <2>1. CASE Pauses("trigger-responses")
    BY <2>1, PortCalls DEF Advances, Current, AtTurn
  <2>2. CASE ~Pauses("trigger-responses")
    <3>1. /\ triggersPaused /\ ~Restores("trigger-responses")
          /\ rejects # "trigger-responses"
      BY <1>4, <2>2, Zenon DEF Follow, TriggerResponses
    <3> QED
      BY <1>1, <1>2, <1>3, <3>1 DEF TriggersNoted, AtTurn, NoteKept
  <2> QED
    BY <2>1, <2>2
<1>5. ASSUME macro'.paused, ~macro'.late
      PROVE  /\ ~macro'.aborted
             /\ connected' \/ watchDue'
             /\ Live' => mutedIn'["macro-runner"] = gen' \/ (AtTurn("macro-runner") /\ saved)'
  <2>1. macro \in MacroType
    BY DEF SessionTypeOK, MacroType
  <2>2. CASE Pauses("macro-runner") /\ macro.running
    <3>1. Advances /\ Automations[turn'] = "macro-runner"
      BY <2>2, PortCalls
    <3>2. macro' = MacroPause(macro)
      <4>1. ~Restores("macro-runner")
        BY <3>1, PortCalls DEF Advances
      <4>2. CASE rejects = "macro-runner"
        <5>1. macro' = MacroPause(macro) \/ macro' = MacroResume(macro)
          BY <2>2, <4>2 DEF Follow, MacroRunner
        <5> QED
          BY <1>5, <2>1, <5>1, MacroOperations
      <4>3. CASE rejects # "macro-runner"
        BY <2>2, <4>1, <4>3 DEF Follow, MacroRunner
      <4> QED
        BY <4>2, <4>3
    <3>3. saved'
      BY <2>2, <3>1, PortCalls DEF Follow, CyclicSend
    <3>4. ~macro'.aborted
      BY <1>5, <2>1, <3>2, MacroOperations
    <3> QED
      BY <3>1, <3>3, <3>4 DEF Advances, Current, AtTurn
  <2>3. CASE ~(Pauses("macro-runner") /\ macro.running)
    <3>1. ~Restores("macro-runner") /\ rejects # "macro-runner" /\ macro' = macro
      BY <1>5, <2>1, <2>3, MacroOperations DEF Follow, MacroRunner
    <3>2. ~macro.aborted /\ (connected \/ watchDue)
          /\ (Live => mutedIn["macro-runner"] = gen \/ (AtTurn("macro-runner") /\ saved))
      BY <1>5, <3>1 DEF MacroNoted
    <3>3. where = "pause" /\ where' = "pause" /\ turn' = turn => saved' = saved
      BY DEF Pauses, Follow, CyclicSend
    <3> QED
      BY <1>1, <1>2, <1>3, <3>1, <3>2, <3>3 DEF AtTurn, NoteKept
  <2> QED
    BY <2>2, <2>3
<1> QED
  BY <1>4, <1>5 DEF TriggersNoted, MacroNoted
\* What the coordinator does on its own, a new connection apart.
LEMMA CoordinatorStepInv ==
  ASSUME IInv, SessionInv, Shape, Undisturbed, Follow("nobody"),
         OwnWrites <= manual'
  PROVE  SessionInv'
<1> USE DEF SessionInv
<1>1. SessionTypeOK' /\ Ticking(loop)' /\ OwnWrites' = OwnWrites
  BY FollowTypes
<1>2. LoopKeepsTicking'
  BY <1>1 DEF LoopKeepsTicking, Ticking
<1>3. WatchMeansDown'
  BY DEF Follow, Shape, WatchMeansDown
<1>4. HolderIsCurrent'
  BY DEF Shape, HolderIsCurrent
<1>5. SilencedSoFar'
  BY FollowSilence
<1>6. ASSUME NEW name
      PROVE  NoteKept(name, "nobody")
  <2>1. ASSUME RestoreNext, ~Restores(name)
        PROVE  mutedIn'[name] = mutedIn[name]
    <3>1. Last(suspended) # name /\ mutedIn' = [mutedIn EXCEPT ![Last(suspended)] = 0]
      BY <2>1 DEF Restores, RestoreNext
    <3> QED
      BY <3>1 DEF IInv, TypeOK
  <2>2. ~RestoreNext => mutedIn' = mutedIn
    BY DEF Undisturbed
  <2> QED
    BY <2>1, <2>2 DEF NoteKept, Undisturbed
<1>7. TriggersNoted' /\ MacroNoted'
  BY <1>6, FollowNotes
<1> QED
  BY <1>1, <1>2, <1>3, <1>4, <1>5, <1>7

LEMMA AutomationAnswersInv ==
  ASSUME IInv, SessionInv, AutomationAnswers
  PROVE  SessionInv'
<1> USE DEF SessionInv
<1>1. PICK answer \in PauseAnswers :
        /\ MayAnswer(Automations[turn], answer)
        /\ AcquirePaused(answer)
        /\ Follow(IF answer = "rejected" THEN Automations[turn] ELSE "nobody")
  BY DEF AutomationAnswers
<1> DEFINE rejects == IF answer = "rejected" THEN Automations[turn] ELSE "nobody"
<1>2. Follow(rejects)
  BY <1>1
<1>3. /\ Shape /\ manual' = manual /\ where = "pause"
      /\ turn \in DOMAIN Automations /\ Automations[turn] \in Names
      /\ mutedIn' = IF answer = "suspension"
                    THEN [mutedIn EXCEPT ![Automations[turn]] = gen] ELSE mutedIn
      /\ answer = "rejected" => where' \notin {"pause", "held"}
  BY <1>1, AnswerShape
<1>4. rejects = "trigger-responses" => where' \notin {"pause", "held"}
  BY <1>3
<1>5. ASSUME NEW name \in {"trigger-responses", "macro-runner"}
      PROVE  NoteKept(name, rejects)
  <2> SUFFICES ASSUME rejects # name
               PROVE  /\ mutedIn[name] = gen => mutedIn'[name] = gen
                      /\ Automations[turn] = name =>
                           \/ mutedIn'[name] = gen
                           \/ name \in {"cyclic-send", "macro-runner"} /\ ~saved
    BY <1>3 DEF NoteKept
  <2>1. mutedIn[name] = gen => mutedIn'[name] = gen
    BY <1>3 DEF IInv, TypeOK
  <2>2. ASSUME Automations[turn] = name
        PROVE  mutedIn'[name] = gen \/ (name \in {"cyclic-send", "macro-runner"} /\ ~saved)
    <3>1. answer \in {"suspension", "null"}
      BY <2>2 DEF PauseAnswers
    <3>2. CASE answer = "suspension"
      BY <1>3, <2>2, <3>2 DEF IInv, TypeOK
    <3>3. CASE answer = "null"
      BY <1>1, <2>2, <3>3 DEF MayAnswer
    <3> QED
      BY <3>1, <3>2, <3>3
  <2> QED
    BY <2>1, <2>2
<1> HIDE DEF rejects
<1>6. SessionTypeOK' /\ Ticking(loop)' /\ OwnWrites' = OwnWrites
  BY <1>2, <1>3, FollowTypes
<1>7. LoopKeepsTicking'
  BY <1>3, <1>6 DEF LoopKeepsTicking, Ticking
<1>8. WatchMeansDown'
  BY <1>2, <1>3 DEF Follow, Shape, WatchMeansDown
<1>9. HolderIsCurrent'
  BY <1>3 DEF Shape, HolderIsCurrent
<1>10. SilencedSoFar'
  BY <1>2, <1>3, <1>4, FollowSilence
<1>11. TriggersNoted' /\ MacroNoted'
  BY <1>2, <1>3, <1>5, FollowNotes
<1> QED
  BY <1>6, <1>7, <1>8, <1>9, <1>10, <1>11

\* A new connection finds nothing of the old one paused.
LEMMA ConnectionOpensSession ==
  ASSUME IInv, SessionInv, where = "none", ~watchDue, ConnectionOpens, Follow("nobody")
  PROVE  SessionInv'
<1> USE DEF SessionInv
<1>1. /\ ~connected /\ connected' = TRUE /\ where' = "none" /\ manual' = manual
      /\ \A name : ~Pauses(name) /\ ~Restores(name)
  BY DEF ConnectionOpens, Pauses, Restores, RestoreNext
<1>2. loop' = loop /\ macro' = macro /\ saved' = saved
  BY <1>1 DEF Follow, CyclicSend, MacroRunner
<1>3. watchDue' = FALSE /\ triggersPaused' = FALSE /\ typed' \in BOOLEAN
      /\ shellPaused' \in BOOLEAN
  <2>1. ~triggersPaused
    BY <1>1 DEF TriggersNoted
  <2> QED
    BY <1>1, <2>1, Zenon DEF Follow, TriggerResponses, SerialShell
<1>4. ~(macro.paused /\ ~macro.late)
  BY <1>1 DEF MacroNoted
<1>5. SessionTypeOK'
  BY <1>2, <1>3 DEF SessionTypeOK
<1>6. WatchMeansDown' /\ HolderIsCurrent' /\ SilencedSoFar'
  BY <1>1, <1>3 DEF WatchMeansDown, HolderIsCurrent, SilencedSoFar
<1>7. LoopKeepsTicking'
  BY <1>1, <1>2 DEF LoopKeepsTicking, OwnWrites
<1>8. TriggersNoted' /\ MacroNoted'
  BY <1>2, <1>3, <1>4 DEF TriggersNoted, MacroNoted
<1> QED
  BY <1>5, <1>6, <1>7, <1>8

-----------------------------------------------------------------------------
(* The steps of the automations preserve the invariant.                    *)

\* The automations act while the coordinator waits; only the loop and the macro
\* change, and neither starts under a lease.
LEMMA OwnStepInv ==
  ASSUME IInv, SessionInv, NEW l \in LoopType, NEW m \in MacroType, Only(l, m),
         UNCHANGED <<gen, connected, revoked, where, turn, holderGen, mutedIn>>,
         Ticking(l), l.running => loop.running \/ where = "none",
         (IF l.flight = "none" THEN 0 ELSE 1) + (IF m.sending THEN 1 ELSE 0) <= manual',
         m.paused /\ ~m.late => macro.paused /\ ~macro.late /\ ~m.aborted
  PROVE  SessionInv'
<1> USE DEF SessionInv, Only
<1>1. SessionTypeOK'
  BY DEF SessionTypeOK, LoopType, MacroType
<1>2. LoopKeepsTicking'
  <2>1. loop' = l /\ macro' = m
    OBVIOUS
  <2> QED
    BY <2>1 DEF LoopKeepsTicking, Ticking, OwnWrites
<1>3. WatchMeansDown' /\ HolderIsCurrent'
  BY DEF WatchMeansDown, HolderIsCurrent
<1>4. SilencedSoFar'
  BY DEF SilencedSoFar
<1>5. TriggersNoted' /\ MacroNoted'
  BY DEF TriggersNoted, MacroNoted, AtTurn, Live
<1> QED
  BY <1>1, <1>2, <1>3, <1>4, <1>5

LEMMA LoopInv ==
  ASSUME IInv, SessionInv, StartSendLoop \/ StopSendLoop \/ LoopTick \/ LoopSent
  PROVE  SessionInv'
<1> DEFINE weight(l, m) == (IF l.flight = "none" THEN 0 ELSE 1) + (IF m.sending THEN 1 ELSE 0)
<1>1. /\ loop \in LoopType /\ macro \in MacroType /\ Ticking(loop)
      /\ weight(loop, macro) <= manual /\ manual \in Nat
      /\ macro.paused /\ ~macro.late => ~macro.aborted
  BY TickingMeans, CoordinatorAssumption
     DEF SessionInv, SessionTypeOK, LoopType, MacroType, OwnWrites, IInv, TypeOK, MacroNoted
<1>2. CASE StartSendLoop
  <2>1. /\ ~loop.running /\ where = "none" /\ UNCHANGED vars
        /\ Only(LoopStart(loop), macro)
    BY <1>2 DEF StartSendLoop, ManualWriteAllowed, IInv, TypeOK, Control, PhaseIsWhere
  <2>2. /\ LoopStart(loop) \in LoopType /\ Ticking(LoopStart(loop))
        /\ LoopStart(loop).flight = loop.flight
    BY <1>1, <2>1, LoopOperations
  <2> QED
    BY <1>1, <2>1, <2>2, OwnStepInv DEF vars
<1>3. CASE StopSendLoop
  <2>1. UNCHANGED vars /\ Only(LoopStop(loop), macro)
    BY <1>3 DEF StopSendLoop
  <2>2. /\ LoopStop(loop) \in LoopType /\ Ticking(LoopStop(loop)) /\ ~LoopStop(loop).running
        /\ LoopStop(loop).flight = "none" <=> loop.flight = "none"
    BY <1>1, LoopOperations
  <2> QED
    BY <1>1, <2>1, <2>2, OwnStepInv DEF vars
<1>4. CASE LoopTick /\ UNCHANGED vars
  BY <1>1, <1>4, OwnStepInv DEF LoopTick, RunManualWrite, vars
<1>5. CASE LoopTick /\ RunManualWrite
  <2> DEFINE l == [loop EXCEPT !.timer = FALSE, !.flight = "own"]
  <2>1. loop.timer /\ manual' = manual + 1
    BY <1>5 DEF LoopTick, RunManualWrite
  <2>2. Only(l, macro)
    BY <1>1, <1>5, <2>1 DEF LoopTick, vars
  <2>3. loop.running /\ loop.flight = "none" /\ l \in LoopType /\ l.running /\ Ticking(l)
    BY <1>1, <2>1 DEF LoopType, Ticking
  <2> HIDE DEF l
  <2>4. weight(l, macro) <= manual'
    BY <1>1, <2>1, <2>3
  <2> QED
    BY <1>1, <1>5, <2>2, <2>3, <2>4, OwnStepInv DEF RunManualWrite
<1>6. CASE LoopSent
  <2>1. /\ loop.flight # "none" /\ ManualWriteEnds /\ manual' = manual - 1
        /\ Only(LoopSettles(loop), macro)
    BY <1>6 DEF LoopSent, ManualWriteEnds
  <2>2. /\ LoopSettles(loop) \in LoopType /\ Ticking(LoopSettles(loop))
        /\ LoopSettles(loop).flight = "none" /\ LoopSettles(loop).running = loop.running
    BY <1>1, LoopOperations
  <2>3. weight(LoopSettles(loop), macro) <= manual'
    BY <1>1, <2>1, <2>2
  <2> QED
    BY <1>1, <2>1, <2>2, <2>3, OwnStepInv DEF ManualWriteEnds
<1> QED
  BY <1>2, <1>3, <1>4, <1>5, <1>6 DEF LoopTick

LEMMA MacroInv ==
  ASSUME IInv, SessionInv,
         RunMacro \/ AbortMacro \/ MacroStep \/ MacroSent(TRUE) \/ MacroSent(FALSE)
  PROVE  SessionInv'
<1> DEFINE weight(l, m) == (IF l.flight = "none" THEN 0 ELSE 1) + (IF m.sending THEN 1 ELSE 0)
<1>1. /\ loop \in LoopType /\ macro \in MacroType /\ Ticking(loop)
      /\ weight(loop, macro) <= manual /\ manual \in Nat
      /\ macro.paused /\ ~macro.late => ~macro.aborted
  BY TickingMeans, CoordinatorAssumption
     DEF SessionInv, SessionTypeOK, LoopType, MacroType, OwnWrites, IInv, TypeOK, MacroNoted
<1>2. CASE RunMacro
  <2> DEFINE m == [macro EXCEPT !.running = TRUE, !.aborted = FALSE]
  <2>1. UNCHANGED vars /\ Only(loop, m)
    BY <1>2 DEF RunMacro
  <2>2. /\ m \in MacroType /\ m.sending = macro.sending /\ ~m.aborted
        /\ m.paused = macro.paused /\ m.late = macro.late
    BY <1>1 DEF MacroType
  <2> HIDE DEF m
  <2> QED
    BY <1>1, <2>1, <2>2, OwnStepInv DEF vars
<1>3. CASE AbortMacro
  <2>1. UNCHANGED vars /\ Only(loop, MacroAbort(macro)) /\ ~macro.aborted
    BY <1>3 DEF AbortMacro
  <2>2. /\ MacroAbort(macro) \in MacroType /\ MacroAbort(macro).sending = macro.sending
        /\ ~MacroAbort(macro).paused
    BY <1>1, <2>1, MacroOperations
  <2> QED
    BY <1>1, <2>1, <2>2, OwnStepInv DEF vars
<1>4. CASE MacroStep /\ UNCHANGED vars
  <2> DEFINE m == [macro EXCEPT !.running = FALSE]
  <2>1. manual' = manual
    BY <1>4 DEF vars
  <2>2. Only(loop, m)
    BY <1>1, <1>4, <2>1 DEF MacroStep, RunManualWrite
  <2>3. /\ m \in MacroType /\ m.sending = macro.sending /\ m.aborted = macro.aborted
        /\ m.paused = macro.paused /\ m.late = macro.late
    BY <1>1 DEF MacroType
  <2> HIDE DEF m
  <2> QED
    BY <1>1, <1>4, <2>2, <2>3, OwnStepInv DEF vars
<1>5. CASE MacroStep /\ RunManualWrite
  <2> DEFINE m == [macro EXCEPT !.sending = TRUE]
  <2>1. manual' = manual + 1 /\ ~macro.sending
    BY <1>5 DEF MacroStep, RunManualWrite
  <2>2. Only(loop, m)
    BY <1>1, <1>5, <2>1 DEF MacroStep, vars
  <2>3. /\ m \in MacroType /\ m.aborted = macro.aborted
        /\ m.paused = macro.paused /\ m.late = macro.late
    BY <1>1 DEF MacroType
  <2> HIDE DEF m
  <2>4. weight(loop, m) <= manual'
    BY <1>1, <2>1
  <2> QED
    BY <1>1, <1>5, <2>2, <2>3, <2>4, OwnStepInv DEF RunManualWrite
<1>6. ASSUME NEW more \in BOOLEAN, MacroSent(more)
      PROVE  SessionInv'
  <2> DEFINE m == [macro EXCEPT !.sending = FALSE, !.running = more /\ ~macro.aborted]
  <2>1. macro.sending /\ ManualWriteEnds /\ manual' = manual - 1 /\ Only(loop, m)
    BY <1>6 DEF MacroSent, ManualWriteEnds
  <2>2. /\ m \in MacroType /\ ~m.sending /\ m.aborted = macro.aborted
        /\ m.paused = macro.paused /\ m.late = macro.late
    BY <1>1 DEF MacroType
  <2> HIDE DEF m
  <2>3. weight(loop, m) <= manual'
    BY <1>1, <2>1, <2>2
  <2> QED
    BY <1>1, <2>1, <2>2, <2>3, OwnStepInv DEF ManualWriteEnds
<1> QED
  BY <1>2, <1>3, <1>4, <1>5, <1>6 DEF MacroStep

LEMMA WatchInv ==
  ASSUME IInv, SessionInv, HandleTerminalData \/ ConnectionWatch
  PROVE  SessionInv'
<1> USE DEF SessionInv
<1>1. CASE HandleTerminalData
  <2>1. UNCHANGED <<vars, loop, macro, saved, shellPaused, triggersPaused, watchDue>>
        /\ typed' = TRUE
    BY <1>1 DEF HandleTerminalData
  <2>2. SessionTypeOK'
    BY <2>1 DEF SessionTypeOK
  <2>3. WatchMeansDown' /\ HolderIsCurrent' /\ SilencedSoFar' /\ LoopKeepsTicking'
    BY <2>1 DEF WatchMeansDown, HolderIsCurrent, SilencedSoFar, LoopKeepsTicking, OwnWrites,
                vars
  <2>4. TriggersNoted' /\ MacroNoted'
    BY <2>1 DEF TriggersNoted, MacroNoted, AtTurn, Live, vars
  <2> QED
    BY <2>2, <2>3, <2>4
<1>2. CASE ConnectionWatch
  <2>1. /\ watchDue /\ watchDue' = FALSE /\ triggersPaused' = FALSE
        /\ loop' = LoopStop(loop) /\ macro' = MacroAbort(macro)
        /\ UNCHANGED <<vars, saved, shellPaused, typed>>
    BY <1>2 DEF ConnectionWatch
  <2>2. loop \in LoopType /\ macro \in MacroType /\ Ticking(loop)
    BY TickingMeans DEF SessionTypeOK, LoopType, MacroType
  <2>3. /\ loop' \in LoopType /\ Ticking(loop') /\ ~loop'.running
        /\ loop'.flight = "none" <=> loop.flight = "none"
    BY <2>1, <2>2, LoopOperations
  <2>4. /\ macro' \in MacroType /\ macro'.sending = macro.sending
        /\ macro'.paused => macro.paused /\ macro.aborted /\ macro'.late = macro.late
    BY <2>1, <2>2, MacroOperations
  <2>5. SessionTypeOK'
    BY <2>1, <2>3, <2>4 DEF SessionTypeOK, LoopType, MacroType
  <2>6. ~connected /\ ~connected'
    BY <2>1 DEF WatchMeansDown, vars
  <2>7. WatchMeansDown' /\ HolderIsCurrent' /\ SilencedSoFar'
    BY <2>1, <2>3, <2>6 DEF WatchMeansDown, HolderIsCurrent, SilencedSoFar, vars
  <2>8. OwnWrites' = OwnWrites /\ manual' = manual
    BY <2>1, <2>3, <2>4 DEF OwnWrites, vars
  <2>9. LoopKeepsTicking'
    BY <2>3, <2>8 DEF LoopKeepsTicking, Ticking
  <2>10. TriggersNoted' /\ MacroNoted'
    BY <2>1, <2>4 DEF TriggersNoted, MacroNoted
  <2> QED
    BY <2>5, <2>7, <2>9, <2>10
<1> QED
  BY <1>1, <1>2

LEMMA SessionInitInv == SessionInit => SessionInv
<1> SUFFICES ASSUME SessionInit
             PROVE  SessionInv
  OBVIOUS
<1> USE DEF SessionInit, Init
<1>1. SessionTypeOK
  BY DEF SessionTypeOK
<1>2. WatchMeansDown /\ HolderIsCurrent /\ SilencedSoFar /\ TriggersNoted /\ MacroNoted
  BY DEF WatchMeansDown, HolderIsCurrent, SilencedSoFar, TriggersNoted, MacroNoted
<1>3. LoopKeepsTicking
  BY DEF LoopKeepsTicking, OwnWrites
<1> QED
  BY <1>1, <1>2, <1>3 DEF SessionInv

LEMMA SessionStepInv ==
  ASSUME IInv, SessionInv, [SessionNext]_allVars
  PROVE  SessionInv'
<1>1. CASE UNCHANGED allVars
  <2>1. UNCHANGED <<vars, ownVars>>
    BY <1>1 DEF allVars
  <2> QED
    BY <2>1 DEF SessionInv, SessionTypeOK, WatchMeansDown, HolderIsCurrent, SilencedSoFar,
                LoopKeepsTicking, OwnWrites, TriggersNoted, MacroNoted, AtTurn, Live, vars,
                ownVars
<1>2. CASE CoordinatorStep
  <2>1. Follow("nobody") /\ HolderIsCurrent /\ OwnWrites <= manual
        /\ manual \in Nat /\ OwnWrites \in Nat
    BY <1>2, TickingMeans, CoordinatorAssumption
       DEF CoordinatorStep, SessionInv, IInv, TypeOK
  <2>2. CASE Continue \/ AcquireDrained
    BY <2>1, <2>2, ContinueShape, CoordinatorStepInv
  <2>3. CASE SessionCalls \/ ConnectionDrops
    <3>1. manual' \in {manual, manual + 1}
      BY <2>3 DEF SessionCalls, RunManualWrite, Acquire, Release, RevokeStale,
                  RxBackpressure, NotifyDisconnected, SynchronizeConnection, Dispose,
                  ConnectionDrops
    <3> QED
      BY <2>1, <2>3, <3>1, CallsShape, CoordinatorStepInv
  <2>4. CASE manual > OwnWrites /\ ManualWriteEnds
    <3>1. OwnWrites <= manual'
      BY <2>1, <2>4 DEF ManualWriteEnds
    <3> QED
      BY <2>1, <2>4, <3>1, CallsShape, CoordinatorStepInv
  <2>5. CASE where = "none" /\ ~watchDue /\ ConnectionOpens
    BY <2>1, <2>5, ConnectionOpensSession
  <2> QED
    BY <1>2, <2>2, <2>3, <2>4, <2>5 DEF CoordinatorStep
<1>3. CASE AutomationAnswers
  BY <1>3, AutomationAnswersInv
<1>4. CASE StartSendLoop \/ StopSendLoop \/ LoopTick \/ LoopSent
  BY <1>4, LoopInv
<1>5. CASE RunMacro \/ AbortMacro \/ MacroStep \/ MacroSent(TRUE) \/ MacroSent(FALSE)
  BY <1>5, MacroInv
<1>6. CASE HandleTerminalData \/ ConnectionWatch
  BY <1>6, WatchInv
<1> QED
  BY <1>1, <1>2, <1>3, <1>4, <1>5, <1>6 DEF SessionNext

-----------------------------------------------------------------------------
(* The theorems.                                                           *)

\* Both invariants hold in every state of the session.
THEOREM SessionInvariance == SessionSpec => [](IInv /\ SessionInv)
<1>1. SessionSpec => []IInv
  BY SessionRefinesCoordinator, Invariance, PTL
<1>2. IInv /\ SessionInv /\ [SessionNext]_allVars => SessionInv'
  BY SessionStepInv
<1> QED
  BY <1>1, <1>2, SessionInitInv, PTL DEF SessionSpec

\* A loop that was stopped and restarted any number of times, with a send in
\* flight or not, neither dies nor runs twice.
THEOREM LoopTicksOnce == SessionSpec => []LoopKeepsTicking
BY SessionInvariance, PTL DEF SessionInv

\* While a lease is held on a live connection the loop, the shell, the macro and
\* the triggers are silent and nothing of theirs is in flight.
THEOREM SilenceUnderLease == SessionSpec => []SilentUnderLease
<1>1. IInv /\ SessionInv => SilentUnderLease
  <2> SUFFICES ASSUME IInv, SessionInv, where = "held", Current
               PROVE  /\ ~loop.running /\ loop.flight = "none"
                      /\ shellPaused /\ triggersPaused /\ ~macro.sending
    BY DEF SilentUnderLease
  <2>1. manual = 0
    BY DEF IInv, Control, Silence
  <2>2. loop.flight = "none" /\ ~macro.sending
    BY <2>1 DEF SessionInv, LoopKeepsTicking, OwnWrites
  <2>3. turn = Len(Automations) /\ connected
    BY DEF SessionInv, SilencedSoFar, Current
  <2>4. ASSUME NEW name \in {"serial-shell", "cyclic-send", "trigger-responses"}
        PROVE  \E i \in 1 .. turn : Automations[i] = name
    <3>1. name \in Names
      BY RegisteredAssumption
    <3> QED
      BY <2>3, <3>1, CoordinatorAssumption DEF Names, Range
  <2> QED
    BY <2>2, <2>3, <2>4 DEF SessionInv, SilencedSoFar
<1> QED
  BY <1>1, SessionInvariance, PTL

\* Once the gate is open on a live connection and the watcher has run, no trigger
\* response is left paused, and no macro but one that was aborted before its pause.
THEOREM AutomationsAreBack == SessionSpec => []AutomationsResume
<1>1. IInv /\ SessionInv => AutomationsResume
  <2> SUFFICES ASSUME IInv, SessionInv, BackToNormal
               PROVE  ~triggersPaused /\ (macro.paused => macro.late)
    BY DEF AutomationsResume
  <2>1. Live /\ where = "none" /\ phase = "idle"
    BY DEF BackToNormal, Live, IInv, TypeOK, Control, PhaseIsWhere
  <2>2. \A a \in Names : mutedIn[a] # gen
    BY <2>1 DEF IInv, Undo, MutedAreListed, StaysClosed
  <2>3. mutedIn["trigger-responses"] # gen /\ mutedIn["macro-runner"] # gen
    BY <2>2, RegisteredAssumption
  <2> QED
    BY <2>1, <2>3 DEF SessionInv, TriggersNoted, MacroNoted, AtTurn
<1> QED
  BY <1>1, SessionInvariance, PTL
=============================================================================
