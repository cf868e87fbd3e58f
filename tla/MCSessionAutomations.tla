------------------------ MODULE MCSessionAutomations ------------------------
(* Small instances of SessionAutomations for TLC.                          *)
EXTENDS SessionAutomations

\* In the order the session runtime registers them.
MCAutomations == <<"serial-shell", "cyclic-send", "macro-runner", "trigger-responses">>
=============================================================================
