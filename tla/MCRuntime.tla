------------------------------ MODULE MCRuntime ------------------------------
(* One client, which may call again while its abandoned call is still        *)
(* queued, and the notification of the daemon's own transactions.            *)
EXTENDS UbusRuntime

CONSTANTS c1, child
==============================================================================
