--------------------------- MODULE MCTransaction ---------------------------
(* Small instances of UciTransaction: the ACS URL and the ParameterKey.      *)
(* Others write a milestone of the daemon and, as every other transaction    *)
(* does, the ParameterKey.                                                   *)
EXTENDS UciTransaction

CONSTANTS url, parameterKey, milestone, v1, v2, bad

(* Raw values are the values themselves, and one that normalize refuses. *)
Plain == [p \in ({url, parameterKey} \X {v1, v2, bad}) |->
             IF p[2] = bad THEN Refused ELSE p[2]]

Item(k, v) == [key |-> k, value |-> v]

(* One item, the same key twice, a refused value behind a good one, and a    *)
(* parameter that is read-only.                                              *)
AllKinds ==
    {[items |-> <<Item(url, v2)>>, key |-> v1],
     [items |-> <<Item(url, v1), Item(url, v2)>>, key |-> v2],
     [items |-> <<Item(url, v1), Item(url, bad)>>, key |-> v2],
     [items |-> <<Item(parameterKey, v1)>>, key |-> v1]}
============================================================================
