------------------------------ MODULE DurableLog ------------------------------
(***************************************************************************)
(* What the save path of a workspace promises, without its machinery: the  *)
(* mutations accepted since the workspace was opened reach the native      *)
(* store in an order that respects the happens-before edges the            *)
(* application establishes, without a hole, and a workspace is only left   *)
(* with every accepted mutation stored.                                    *)
(***************************************************************************)
CONSTANT Precedes(_, _)    \* Precedes(i, j): i was accepted before j and must be stored before it

VARIABLES accepted,   \* the mutations accepted since the workspace was opened
          durable     \* those the native store has committed

logVars == <<accepted, durable>>

\* A set of accepted mutations with no hole: what must come first is in it.
Closed(S) == \A j \in S, i \in accepted : Precedes(i, j) => i \in S

LogInit == accepted = {} /\ durable = {}

\* A mutation is accepted by the application service.
Accept ==
  /\ \E i \in accepted' \ accepted : accepted' = accepted \cup {i}
  /\ UNCHANGED durable

\* The native store commits one transaction.
Commit(S) ==
  /\ S # {} /\ S \cap durable = {}
  /\ Closed(durable \cup S)
  /\ durable' = durable \cup S
  /\ UNCHANGED accepted

\* Another workspace, or the same one again, is opened.
Open ==
  /\ accepted = durable
  /\ accepted' = {} /\ durable' = {}

LogNext ==
  \/ Accept
  \/ \E S \in SUBSET accepted : Commit(S)
  \/ Open

LogSpec == LogInit /\ [][LogNext]_logVars
================================================================================
