------------------------- MODULE TransferContract -------------------------
(* What an ACS may rely on about a Download: it hears of no result before   *)
(* it has the acknowledgement, and then of one at most.                     *)
CONSTANT Commands
VARIABLE progress

Init == progress = [c \in Commands |-> "unknown"]

Acknowledge(c) ==
    /\ progress[c] = "unknown"
    /\ progress' = [progress EXCEPT ![c] = "acked"]

Report(c) ==
    /\ progress[c] = "acked"
    /\ \E result \in {"ok", "fault"} : progress' = [progress EXCEPT ![c] = result]

Next == \E c \in Commands : Acknowledge(c) \/ Report(c)

Spec == Init /\ [][Next]_progress
===========================================================================
