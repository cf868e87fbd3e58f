----------------------- MODULE MCSerialWriteScheduler -----------------------
(* Small instances of SerialWriteScheduler for TLC.                        *)
EXTENDS SerialWriteScheduler

\* The empty payload, one shorter than a chunk and one of two chunks.
MCPayloadLens == {0, 1, 3}
=============================================================================
