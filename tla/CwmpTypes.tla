---------------------------- MODULE CwmpTypes ----------------------------
(***************************************************************************)
(* Vocabulary shared by the session, its contract and the daemon.          *)
(***************************************************************************)

(* CWMP event codes the daemon puts in an Inform (Tr069Daemon::run). *)
Bootstrap         == "0 BOOTSTRAP"
Boot              == "1 BOOT"
Periodic          == "2 PERIODIC"
ValueChange       == "4 VALUE CHANGE"
ConnectionRequest == "6 CONNECTION REQUEST"
MReboot           == "M Reboot"

EventCodes ==
    {Bootstrap, Boot, Periodic, ValueChange, ConnectionRequest, MReboot}

(* SessionOutcome: what one CWMP session hands back to the daemon.  The     *)
(* download request and the reboot command key are kept only as flags.      *)
SessionOutcome ==
    [success : BOOLEAN, rebootRequested : BOOLEAN, download : BOOLEAN]

Outcome(success, reboot, download) ==
    [success |-> success, rebootRequested |-> reboot, download |-> download]

Failed == Outcome(FALSE, FALSE, FALSE)

(* The outcomes the daemon is written for: it acts on rebootRequested and   *)
(* on download without looking at success, and on one of them at most.      *)
ContractOutcomes ==
    {Failed, Outcome(TRUE, FALSE, FALSE),
     Outcome(TRUE, TRUE, FALSE), Outcome(TRUE, FALSE, TRUE)}

==========================================================================
