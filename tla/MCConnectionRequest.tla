------------------------ MODULE MCConnectionRequest ------------------------
(* Three peers, each with a password that is sometimes the configured one;  *)
(* one of them writes cnonce first.  Two objects: the second follows a      *)
(* restart.                                                                 *)
EXTENDS ConnectionRequestServer

CONSTANTS acs, other, reversed, p1, p2

Secrets == [c \in {acs, other, reversed} |-> IF c = other THEN p2 ELSE p1]
============================================================================
