----------------------------- MODULE MCDaemon -----------------------------
(***************************************************************************)
(* Instances of Tr069Daemon for TLC: the profiles an edit may write.       *)
(***************************************************************************)
EXTENDS Tr069Daemon

CONSTANTS url, listener, listener2

Profile(e, u, p, m, l) ==
    [enable |-> e, url |-> u, periodic |-> p, mock |-> m, listener |-> l]

(* Managed with a periodic Inform, and not managed at all. *)
OnOff == {Profile(TRUE, url, TRUE, FALSE, listener),
          Profile(TRUE, NoUrl, TRUE, TRUE, NoListener)}

(* The same, and managed with other credentials for Connection Requests. *)
OnOffOther == OnOff \cup {Profile(TRUE, url, TRUE, FALSE, listener2)}

(* Always managed, with a periodic Inform, in mock mode; failing reads make  *)
(* it any of the others.                                                     *)
MockManaged == {Profile(TRUE, url, TRUE, TRUE, listener)}

(* Always managed, without a periodic Inform. *)
NeverPeriodic == {Profile(TRUE, url, FALSE, FALSE, listener)}

==========================================================================
