-------------------------- MODULE MCWorkspaceSaving --------------------------
(* A small instance: one budget unit is one small frame, a large frame or *)
(* document exceeds the batch budget.                                      *)
EXTENDS WorkspaceSaving

MCSizes == {1, 3}
===============================================================================
