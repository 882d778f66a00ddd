---------------------------- MODULE MCSettings ----------------------------
(* Integers of 4, 3 and 2 bits for the 64, 32 and 16 of the target, and the *)
(* numbers next to their ends.                                              *)
EXTENDS Settings

CONSTANTS own, loopback, acs, localhost

(* The ConnectionRequestURL and the other two settings do not act on each   *)
(* other: a state explored has values for one side only.                    *)
OneSide ==
    \/ store.enable = Missing /\ store.interval = Missing
    \/ /\ store.port = Missing /\ store.url = Missing
       /\ \A s \in 1..Sources : address[s] = Missing
===========================================================================
