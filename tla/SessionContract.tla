-------------------------- MODULE SessionContract --------------------------
(***************************************************************************)
(* What a CWMP session promises its caller: it is open, it is served by    *)
(* the ACS for a while, and then it closes once and for all with one of    *)
(* the outcomes the daemon is written for.  Tr069Daemon.tla assumes exactly *)
(* this of a session; CwmpSession.tla is shown to implement it.            *)
(***************************************************************************)
EXTENDS CwmpTypes

VARIABLES open,    \* TRUE while CwmpSession::run is executing
          result   \* the SessionOutcome returned, Failed while open

vars == <<open, result>>

Init == open = TRUE /\ result = Failed

Close == /\ open
         /\ open' = FALSE
         /\ result' \in ContractOutcomes

Next == Close

Spec == Init /\ [][Next]_vars /\ WF_vars(Close)

==========================================================================
