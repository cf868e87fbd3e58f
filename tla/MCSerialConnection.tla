------------------------- MODULE MCSerialConnection -------------------------
(* Small instances of SerialConnection for TLC.                            *)
EXTENDS SerialConnection
=============================================================================
