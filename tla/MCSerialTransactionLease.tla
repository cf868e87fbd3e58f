---------------------- MODULE MCSerialTransactionLease ----------------------
(* Small instances of SerialTransactionLease for TLC.                      *)
EXTENDS SerialTransactionLease

\* Two automations, so that one can be paused while the other refuses.
MCAutomations == <<"cyclic-send", "trigger-responses">>
=============================================================================
