---------------------------- MODULE PortOwnership ----------------------------
(***************************************************************************)
(* What the sessions of the process promise each other about one serial    *)
(* port: whoever has a handle on it has reserved it, and a reservation     *)
(* passes on only when its holder has no handle left.  SerialConnection    *)
(* implements it.                                                          *)
(***************************************************************************)
CONSTANT Sessions

VARIABLES
  reserved,   \* the session that the port is reserved for, as a set
  handles     \* the sessions whose native handle on the port may be open

vars == <<reserved, handles>>

Init == reserved = {} /\ handles = {}

\* Session s reserves the free port, or its own again, and may open it.
Take(s) ==
  /\ reserved \subseteq {s}
  /\ reserved' = {s}
  /\ handles' \in {handles, handles \cup {s}}

\* Session s closes its handle and may give the port back.
Drop(s) ==
  /\ reserved = {s}
  /\ handles' = handles \ {s}
  /\ reserved' \in {{s}, {}}

Next == \E s \in Sessions : Take(s) \/ Drop(s)

Spec == Init /\ [][Next]_vars

\* No two sessions have a handle on the port.
OneHandle == \A s, t \in handles : s = t
==============================================================================
