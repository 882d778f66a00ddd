---------------------------- MODULE MCTransfer ----------------------------
(* Three Downloads, two of them into the same file. *)
EXTENDS Transfer

CONSTANTS c1, c2, c3, image, config

TwoFiles == [c \in {c1, c2, c3} |-> IF c = c3 THEN config ELSE image]
===========================================================================
