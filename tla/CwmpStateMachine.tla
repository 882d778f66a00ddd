------------------------- MODULE CwmpStateMachine -------------------------
(***************************************************************************)
(* CwmpStateMachine.cpp: the table of legal CWMP session states.  The      *)
(* object is only a state and a guard, so it is modelled by the operators  *)
(* a session applies to its own state variable.                            *)
(***************************************************************************)

CwmpStates ==
    {"Idle", "Connecting", "InformSent", "RpcProcessing", "SessionClose"}

(* Mutant: the table forgets that one RPC may follow another. *)
ValidTransitionsSingleRpc ==
    { <<"Idle", "Connecting">>,
      <<"Connecting", "InformSent">>,
      <<"InformSent", "RpcProcessing">>, <<"InformSent", "SessionClose">>,
      <<"RpcProcessing", "SessionClose">>,
      <<"SessionClose", "Idle">> }

ValidTransitions ==
    { <<"Idle", "Connecting">>,
      <<"Connecting", "InformSent">>,
      <<"InformSent", "RpcProcessing">>, <<"InformSent", "SessionClose">>,
      <<"RpcProcessing", "RpcProcessing">>, <<"RpcProcessing", "SessionClose">>,
      <<"SessionClose", "Idle">> }

Valid(state, next) == <<state, next>> \in ValidTransitions

(* CwmpStateMachine::transition: an illegal request leaves the state alone. *)
Transition(state, next) == IF Valid(state, next) THEN next ELSE state

==========================================================================
