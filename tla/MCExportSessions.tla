---------------------------- MODULE MCExportSessions ----------------------------
(* One export of the renderer's frames and one that may read the durable   *)
(* capture, to the same file or to another of the same directory.          *)
EXTENDS ExportSessions, TLC

CONSTANTS e1, e2, t1, t2
MCChoices == (e1 :> {t1}) @@ (e2 :> {t1, t2})
=============================================================================
