----------------------------- MODULE MCAutoLog -----------------------------
(* A small instance of AutoLog for TLC.                                    *)
EXTENDS AutoLog, TLC

\* Two frames that share a batch and one that needs its own.
MCSizeOf == <<1, 1, 2>>

\* Calls of enable() differ only in their names.
MCSymmetry == Permutations(Enables)
=============================================================================
