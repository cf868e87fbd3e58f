------------------------ MODULE MCApplicationShutdown ------------------------
(* Two of the participants the bootstrap registers, with the priorities it gives them.
   The third, settings, is one more barrier of the priority of workspace-persistence; its
   drain is synchronous, and the theorems hold for any number of participants. *)
EXTENDS ApplicationShutdown

MCParticipants == {"application-quiesce", "workspace-persistence"}
MCPriority == [p \in MCParticipants |-> IF p = "application-quiesce" THEN 2 ELSE 1]
MCBarriers == {"workspace-persistence"}
================================================================================
