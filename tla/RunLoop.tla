------------------------------ MODULE RunLoop ------------------------------
(***************************************************************************)
(* What the run loop of tr69d promises to those who ask it for something   *)
(* (Tr069Daemon::requestStop and its like): the abstract loop that         *)
(* Tr069Daemon details, and that UbusRuntime takes for the daemon thread.  *)
(* Both implement it, so the two modules speak of the same loop.           *)
(***************************************************************************)
CONSTANT Flags  \* what may be requested, "stop" and "reload" among it

VARIABLES
    phase,      \* where the daemon thread is, as far as a request can tell:
                \* "off", "busy", "testing" (about to look at the requests),
                \* "expired" (the period is over, nothing was requested in it),
                \* "blocking" (found nothing, but no waiter yet), "blocked"
    flags       \* stop_, connectionRequested_, reloadRequested_, ...

vars == <<phase, flags>>

Init == phase = "off" /\ flags = {}

(* A request is kept, and wakes a waiter. *)
Request(flag) ==
    /\ flags' = flags \cup {flag}
    /\ phase' = IF phase = "blocked" THEN "testing" ELSE phase

NewProcess == phase' = "off" /\ flags' = {}

Begin == phase = "off" /\ phase' = "busy" /\ UNCHANGED flags

(* Sessions and what follows them: a reload may be taken up here, a stop     *)
(* keeps the loop from waiting.                                              *)
Work ==
    /\ phase = "busy"
    /\ flags' \in {flags, flags \ {"reload"}}
    /\ phase' \in IF "stop" \in flags THEN {"busy", "off"}
                 ELSE IF flags' # flags THEN {"busy"} ELSE {"busy", "testing"}

(* A request is acted on: a stop before all others, and for good. *)
Take ==
    /\ phase \in {"testing", "expired"}
    /\ \/ "stop" \in flags /\ phase' = "off" /\ UNCHANGED flags
       \/ \E flag \in flags \ {"stop"} : flags' = flags \ {flag} /\ phase' = "busy"

FindNothing ==
    /\ phase = "testing" /\ flags = {}
    /\ phase' = "blocking"
    /\ UNCHANGED flags

Block == phase = "blocking" /\ phase' = "blocked" /\ UNCHANGED flags

SpuriousWakeup == phase = "blocked" /\ phase' = "testing" /\ UNCHANGED flags

(* A period that ends looks at the requests made meanwhile. *)
Expire ==
    /\ phase = "blocked"
    /\ phase' \in IF flags = {} THEN {"expired", "busy"} ELSE {"testing"}
    /\ UNCHANGED flags

Periodic == phase = "expired" /\ phase' = "busy" /\ UNCHANGED flags

Next ==
    \/ \E flag \in Flags : Request(flag)
    \/ NewProcess \/ Begin \/ Work \/ Take \/ FindNothing
    \/ Block \/ SpuriousWakeup \/ Expire \/ Periodic

Spec == Init /\ [][Next]_vars

---------------------------------------------------------------------------
(* The loop goes to sleep on a request only if the request was made in the   *)
(* gap between the test and the wait: never on one it could have seen, and   *)
(* never on one made while it slept (waitForNextInform, requestStop).        *)
Asleep == phase \in {"blocking", "blocked"}
SleepsOnlyPastGap == [][(Asleep' /\ flags' # {}) => phase = "blocking"]_vars

(* Requests are not lost: one that disappears is what the loop is now busy   *)
(* with, or gave way to a stop; a stop disappears only with its process.     *)
RequestsKept ==
    [][\A flag \in flags \ flags' :
          \/ phase' = "off" /\ flags' = {}
          \/ flag # "stop" /\ (phase' = "busy" \/ "stop" \in flags)]_vars

==========================================================================
