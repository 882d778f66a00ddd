------------------------- MODULE CwmpSessionProofs -------------------------
(***************************************************************************)
(* Theorems about one CWMP session, for every bound on the ACS's RPCs: its *)
(* types, its safety invariants, and that it implements SessionContract    *)
(* (every step closes the session within the contract, or stutters).       *)
(***************************************************************************)
EXTENDS CwmpSession, TLAPS

(* An HTTP reply carries a body the session knows. *)
LEMMA ReplyType ==
    ASSUME NEW r \in Replies
    PROVE  r.ok \in BOOLEAN /\ r.body \in Bodies
<1>1. "Empty" \in Bodies
  BY DEF Bodies
<1>2. CASE r = [ok |-> FALSE, body |-> "Empty"]
  BY <1>1, <1>2
<1>3. CASE \E b \in Bodies : r = [ok |-> TRUE, body |-> b]
  BY <1>3
<1> QED
  BY <1>2, <1>3 DEF Replies

(* What AcsAnswers leaves of the RPC count stays within its bound. *)
LEMMA IssuedType ==
    ASSUME NEW r \in Replies, issued \in 0..MaxRpcs, AcsAnswers(r)
    PROVE  issued' \in 0..MaxRpcs
BY MaxRpcsAssumption DEF AcsAnswers

(* The outcomes the session builds are SessionOutcomes. *)
LEMMA OutcomeTypes ==
    /\ Failed \in SessionOutcome
    /\ \A o \in SessionOutcome :
         /\ [o EXCEPT !.success = TRUE] \in SessionOutcome
         /\ \A m \in Bodies : Updated(o, m) \in SessionOutcome
         /\ Returned(o) \in SessionOutcome
BY DEF Failed, Outcome, SessionOutcome, Updated, Returned

(* The fields of an outcome are what it was built from. *)
LEMMA OutcomeFields ==
    \A a, b, c \in BOOLEAN :
      /\ Outcome(a, b, c) \in SessionOutcome
      /\ Outcome(a, b, c).success = a
      /\ Outcome(a, b, c).rebootRequested = b
      /\ Outcome(a, b, c).download = c
BY DEF Outcome, SessionOutcome

(* Only success is ever assigned to a finished outcome. *)
LEMMA SuccessAssigned ==
    \A a, b, c \in BOOLEAN : [Outcome(a, b, c) EXCEPT !.success = TRUE] = Outcome(TRUE, b, c)
<1>1. \A o \in SessionOutcome : \A d \in BOOLEAN :
        [o EXCEPT !.success = d]
          = [success |-> d, rebootRequested |-> o.rebootRequested, download |-> o.download]
  BY DEF SessionOutcome
<1> TAKE a, b, c \in BOOLEAN
<1>2. /\ Outcome(a, b, c) \in SessionOutcome
      /\ Outcome(a, b, c).rebootRequested = b /\ Outcome(a, b, c).download = c
  BY OutcomeFields
<1>4. [Outcome(a, b, c) EXCEPT !.success = TRUE]
        = [success |-> TRUE, rebootRequested |-> Outcome(a, b, c).rebootRequested,
           download |-> Outcome(a, b, c).download]
  BY <1>1, <1>2
<1>3. Outcome(TRUE, b, c) = [success |-> TRUE, rebootRequested |-> b, download |-> c]
  BY DEF Outcome
<1> QED
  BY <1>2, <1>3, <1>4

(* CwmpStateMachine::transition leaves the machine in one of its states. *)
LEMMA TransitionType ==
    \A s \in CwmpStates : \A n \in CwmpStates : Transition(s, n) \in CwmpStates
BY DEF Transition

(* The initial session is well typed. *)
LEMMA TypeInit == Init => TypeOK
<1> SUFFICES ASSUME Init PROVE TypeOK
  OBVIOUS
<1>1. pc \in Pcs /\ state \in CwmpStates /\ body \in Bodies
  BY DEF Init, Pcs, CwmpStates, Bodies
<1>2. outcome \in SessionOutcome /\ result \in SessionOutcome
  BY OutcomeTypes DEF Init
<1>3. issued \in 0..MaxRpcs /\ unanswered \in Nat
  BY MaxRpcsAssumption DEF Init
<1> QED
  BY <1>1, <1>2, <1>3 DEF Init, TypeOK

(* Every step of a session keeps it well typed. *)
LEMMA TypeStep == TypeOK /\ [Next]_vars => TypeOK'
<1> SUFFICES ASSUME TypeOK, [Next]_vars PROVE TypeOK'
  OBVIOUS
<1> USE DEF TypeOK, Pcs
<1>1. CASE BeginInform
  <2>1. state' \in CwmpStates
    BY <1>1, TransitionType DEF BeginInform, CwmpStates
  <2> QED
    BY <1>1, <2>1 DEF BeginInform
<1>2. ASSUME NEW r \in Replies, InformReply(r) PROVE TypeOK'
  <2>1. state' \in CwmpStates
    BY <1>2, TransitionType DEF InformReply, MoveTo, CwmpStates
  <2>2. result' \in SessionOutcome
    BY <1>2, OutcomeTypes DEF InformReply, Return
  <2> QED
    BY <1>2, <2>1, <2>2 DEF InformReply, MoveTo, Return
<1>3. ASSUME NEW r \in Replies, TransferReply(r) PROVE TypeOK'
  BY <1>3, OutcomeTypes DEF TransferReply, Return
<1>4. ASSUME NEW r \in Replies, EmptyReply(r) PROVE TypeOK'
  <2>1. issued' \in 0..MaxRpcs /\ body' \in Bodies
    BY <1>4, IssuedType, ReplyType DEF EmptyReply
  <2> QED
    BY <1>4, <2>1, OutcomeTypes DEF EmptyReply, Return
<1>5. CASE ParseFailure
  BY <1>5, OutcomeTypes DEF ParseFailure, Return
<1>6. ASSUME NEW committed \in BOOLEAN, HandleRpc(committed) PROVE TypeOK'
  <2>1. state' \in CwmpStates
    BY <1>6, TransitionType DEF HandleRpc, MoveTo, CwmpStates
  <2> QED
    BY <1>6, <2>1 DEF HandleRpc, MoveTo
<1>7. ASSUME NEW r \in Replies, AnswerReply(r) PROVE TypeOK'
  <2>1. issued' \in 0..MaxRpcs /\ body' \in Bodies
    BY <1>7, IssuedType, ReplyType DEF AnswerReply, AfterFailedAnswer
  <2>2. outcome' \in SessionOutcome /\ result' \in SessionOutcome
    BY <1>7, OutcomeTypes DEF AnswerReply, AfterFailedAnswer, Return
  <2>3. confirmed' \subseteq Bodies /\ unanswered' \in Nat /\ pc' \in Pcs
    BY <1>7 DEF AnswerReply, AfterFailedAnswer, Return
  <2> QED
    BY <1>7, <2>1, <2>2, <2>3 DEF AnswerReply
<1>8. CASE Close
  <2>1. state' \in CwmpStates
    BY <1>8, TransitionType DEF Close, CwmpStates
  <2>2. outcome' \in SessionOutcome /\ result' \in SessionOutcome
    BY <1>8, OutcomeTypes DEF Close, Return
  <2> QED
    BY <1>8, <2>1, <2>2 DEF Close, Return
<1>9. CASE UNCHANGED vars
  BY <1>9 DEF vars
<1> QED
  BY <1>1, <1>2, <1>3, <1>4, <1>5, <1>6, <1>7, <1>8, <1>9 DEF Next

(* Every variable of a session stays in its type. *)
THEOREM SessionTypeCorrect == Spec => []TypeOK
BY TypeInit, TypeStep, PTL DEF Spec

---------------------------------------------------------------------------
(* Where the session is fixes the state of the state machine... *)
StateFollowsPc ==
    /\ pc = "inform" => state = "Connecting"
    /\ pc \in {"transfer", "empty"} => state = "InformSent"
    /\ pc = "rpc" => state \in {"InformSent", "RpcProcessing"}
    /\ pc \in {"answer", "close"} => state = "RpcProcessing"

(* ... and the outcome collected so far ... *)
OutcomeFollowsPc ==
    /\ pc \notin {"close", "done"} =>
         outcome = Failed /\ "Reboot" \notin confirmed /\ "Download" \notin confirmed
    /\ pc = "close" =>
         \/ /\ outcome = Outcome(FALSE, TRUE, FALSE)
            /\ "Reboot" \in confirmed /\ "Download" \notin confirmed
         \/ /\ outcome = Outcome(FALSE, FALSE, TRUE)
            /\ "Reboot" \notin confirmed /\ "Download" \in confirmed
    /\ pc # "done" => result = Failed

(* ... and whether a committed SetParameterValues can be unanswered. *)
AnsweredFollowsPc ==
    /\ pc \notin {"answer", "done"} => unanswered = 0
    /\ pc = "answer" /\ body # "SetParameterValues" => unanswered = 0

SessionInv ==
    /\ StateFollowsPc /\ OutcomeFollowsPc /\ AnsweredFollowsPc
    /\ TransitionsAccepted /\ ConfirmedWorkReported /\ SuccessDrainsAcs
    /\ UnansweredSetIsLast

(* The transitions the session relies on are in the table. *)
LEMMA TransitionTable ==
    /\ Valid("Idle", "Connecting") /\ Valid("Connecting", "InformSent")
    /\ Valid("InformSent", "RpcProcessing") /\ Valid("InformSent", "SessionClose")
    /\ Valid("RpcProcessing", "RpcProcessing") /\ Valid("RpcProcessing", "SessionClose")
    /\ Valid("SessionClose", "Idle")
BY DEF Valid, ValidTransitions

(* The session's invariant holds at first. *)
LEMMA SessionInit == Init => SessionInv
BY DEF Init, SessionInv, StateFollowsPc, OutcomeFollowsPc, AnsweredFollowsPc,
       TransitionsAccepted, ConfirmedWorkReported, SuccessDrainsAcs, UnansweredSetIsLast

(* Every step of a session keeps its invariant. *)
LEMMA SessionStep == TypeOK /\ SessionInv /\ [Next]_vars => SessionInv'
<1> SUFFICES ASSUME TypeOK, SessionInv, [Next]_vars PROVE SessionInv'
  OBVIOUS
<1>0. /\ outcome \in SessionOutcome /\ body \in Bodies /\ rejected \in BOOLEAN
      /\ unanswered \in Nat
  BY DEF TypeOK
<1> USE DEF SessionInv, StateFollowsPc, OutcomeFollowsPc, AnsweredFollowsPc,
            TransitionsAccepted, ConfirmedWorkReported, SuccessDrainsAcs,
            UnansweredSetIsLast, Failed, Outcome
<1>1. CASE BeginInform
  BY <1>1, TransitionTable DEF BeginInform, Transition
<1>2. ASSUME NEW r \in Replies, InformReply(r) PROVE SessionInv'
  <2>1. CASE r.ok /\ r.body = "InformResponse"
    BY <1>2, <2>1, TransitionTable DEF InformReply, MoveTo, Transition
  <2>2. CASE ~(r.ok /\ r.body = "InformResponse")
    BY <1>2, <2>2 DEF InformReply, Return, Returned
  <2> QED
    BY <2>1, <2>2
<1>3. ASSUME NEW r \in Replies, TransferReply(r) PROVE SessionInv'
  BY <1>3 DEF TransferReply, Return, Returned
<1>4. ASSUME NEW r \in Replies, EmptyReply(r) PROVE SessionInv'
  BY <1>4 DEF EmptyReply, Return, Returned
<1>5. CASE ParseFailure
  BY <1>5 DEF ParseFailure, Return, Returned
<1>6. ASSUME NEW committed \in BOOLEAN, HandleRpc(committed) PROVE SessionInv'
  BY <1>0, <1>6, TransitionTable DEF HandleRpc, MoveTo, Transition
<1>7. ASSUME NEW r \in Replies, AnswerReply(r) PROVE SessionInv'
  <2>1. CASE r.ok
    <3>1. /\ outcome' = Updated(Failed, body) /\ confirmed' = confirmed \cup {body}
          /\ pc' = IF EndsLoop(outcome') THEN "close" ELSE "rpc"
          /\ unanswered' = IF body = "SetParameterValues" THEN 0 ELSE unanswered
          /\ UNCHANGED <<state, result, rejected>>
          /\ pc = "answer"
      BY <1>7, <2>1 DEF AnswerReply
    <3>2. /\ body = "Reboot" => Updated(Failed, body) = Outcome(FALSE, TRUE, FALSE)
          /\ body = "Download" => Updated(Failed, body) = Outcome(FALSE, FALSE, TRUE)
          /\ body \notin {"Reboot", "Download"} => Updated(Failed, body) = Failed
      BY DEF Updated
    <3>3. pc' = IF body \in {"Reboot", "Download"} THEN "close" ELSE "rpc"
      BY <3>1, <3>2 DEF EndsLoop
    <3>4. unanswered' = 0
      BY <3>1
    <3>5. OutcomeFollowsPc'
      <4>1. CASE body = "Reboot"
        BY <3>1, <3>2, <3>3, <4>1
      <4>2. CASE body = "Download"
        BY <3>1, <3>2, <3>3, <4>2
      <4>3. CASE body \notin {"Reboot", "Download"}
        BY <3>1, <3>2, <3>3, <4>3
      <4> QED
        BY <4>1, <4>2, <4>3
    <3> QED
      BY <3>1, <3>3, <3>4, <3>5
  <2>2. CASE ~r.ok
    BY <1>0, <1>7, <2>2 DEF AnswerReply, AfterFailedAnswer, Return, Returned
  <2> QED
    BY <2>1, <2>2
<1>8. CASE Close
  <2>1. ~rejected'
    BY <1>8, TransitionTable DEF Close, ReadyToClose, Transition
  <2>2. CASE pc = "close"
    BY <1>0, <1>8, <2>1, <2>2 DEF Close, Return, Returned
  <2>3. CASE pc = "rpc" /\ body = "Empty"
    BY <1>0, <1>8, <2>1, <2>3 DEF Close, Return, Returned
  <2> QED
    BY <1>8, <2>2, <2>3 DEF Close, ReadyToClose
<1>9. CASE UNCHANGED vars
  BY <1>9 DEF vars
<1> QED
  BY <1>1, <1>2, <1>3, <1>4, <1>5, <1>6, <1>7, <1>8, <1>9 DEF Next

(* The session's inductive invariant, from which the four properties below. *)
THEOREM SessionInvariant == Spec => []SessionInv
BY SessionInit, SessionStep, SessionTypeCorrect, PTL DEF Spec

(* The session's state machine never refuses a transition. *)
THEOREM TransitionsNeverRefused == Spec => []TransitionsAccepted
<1>1. SessionInv => TransitionsAccepted
  BY DEF SessionInv
<1> QED
  BY <1>1, SessionInvariant, PTL

(* run reports exactly the confirmed reboot or download. *)
THEOREM RunReportsConfirmedWork == Spec => []ConfirmedWorkReported
<1>1. SessionInv => ConfirmedWorkReported
  BY DEF SessionInv
<1> QED
  BY <1>1, SessionInvariant, PTL

(* Success means the ACS has no more work, or a Reboot or Download cut it off. *)
THEOREM SuccessMeansDrained == Spec => []SuccessDrainsAcs
<1>1. SessionInv => SuccessDrainsAcs
  BY DEF SessionInv
<1> QED
  BY <1>1, SessionInvariant, PTL

(* One committed SetParameterValues at most is left unanswered, by a failure. *)
THEOREM OneUnansweredSet == Spec => []UnansweredSetIsLast
<1>1. SessionInv => UnansweredSetIsLast
  BY DEF SessionInv
<1> QED
  BY <1>1, SessionInvariant, PTL

---------------------------------------------------------------------------
(* Refinement of SessionContract. *)

ReturnsInContract == \A o \in ContractOutcomes : Returned(o) \in ContractOutcomes

(* What run and runTransferComplete return is in the contract. *)
LEMMA ReturnedInContract == ReturnsInContract
<1> SUFFICES ASSUME NEW o \in ContractOutcomes PROVE Returned(o) \in ContractOutcomes
  BY DEF ReturnsInContract
<1>1. CASE mode = "run"
  BY <1>1 DEF Returned
<1>2. CASE mode # "run"
  <2>1. o.success \in BOOLEAN
    <3>1. \A a, b, c \in BOOLEAN : Outcome(a, b, c).success = a
      BY DEF Outcome
    <3> QED
      BY <3>1 DEF ContractOutcomes, Failed
  <2>2. Returned(o) = Outcome(o.success, FALSE, FALSE)
    BY <1>2 DEF Returned
  <2>3. CASE o.success = TRUE
    BY <2>2, <2>3 DEF ContractOutcomes
  <2>4. CASE o.success = FALSE
    BY <2>2, <2>4 DEF ContractOutcomes, Failed
  <2> QED
    BY <2>1, <2>3, <2>4
<1> QED
  BY <1>1, <1>2

(* The instance has its own copy of the vocabulary. *)
LEMMA SameVocabulary ==
    Contract!Failed = Failed /\ Contract!ContractOutcomes = ContractOutcomes
BY DEF Contract!Failed, Failed, Contract!ContractOutcomes, ContractOutcomes,
       Contract!Outcome, Outcome

(* Every step of a session is a step of its contract or leaves it alone. *)
LEMMA ContractStep == TypeOK /\ SessionInv /\ [Next]_vars => [Contract!Next]_(Contract!vars)
<1> SUFFICES ASSUME TypeOK, SessionInv, [Next]_vars
             PROVE  Contract!Close \/ UNCHANGED <<pc # "done", result>>
  BY DEF Contract!Next, Contract!vars
<1> USE DEF Contract!Close
<1>1. CASE pc' = "done" /\ pc # "done"
  <2>1. PICK o \in ContractOutcomes : result' = Returned(o)
    <3>1. CASE Close
      <4>1. result' = Returned([outcome EXCEPT !.success = TRUE])
        BY <3>1 DEF Close, Return
      <4>2. outcome \in {Failed, Outcome(FALSE, TRUE, FALSE), Outcome(FALSE, FALSE, TRUE)}
        BY <3>1 DEF Close, ReadyToClose, SessionInv, OutcomeFollowsPc
      <4>4. [outcome EXCEPT !.success = TRUE] \in ContractOutcomes
        BY <4>2, SuccessAssigned DEF ContractOutcomes, Failed
      <4> QED
        BY <4>1, <4>4
    <3>2. CASE ~Close
      <4>1. result' = Returned(Failed)
        BY <1>1, <3>2
           DEF Next, vars, BeginInform, InformReply, TransferReply, EmptyReply, ParseFailure,
               HandleRpc, AnswerReply, AfterFailedAnswer, Return, SessionInv, OutcomeFollowsPc
      <4> QED
        BY <4>1 DEF ContractOutcomes
    <3> QED
      BY <3>1, <3>2
  <2> QED
    BY <1>1, <2>1, ReturnedInContract, SameVocabulary DEF ReturnsInContract
<1>2. CASE pc' # "done"
  BY <1>2 DEF Next, vars, BeginInform, InformReply, TransferReply, EmptyReply, ParseFailure,
              HandleRpc, AnswerReply, AfterFailedAnswer, Return, Close
<1>3. CASE pc = "done"
  BY <1>3 DEF Next, vars, BeginInform, InformReply, TransferReply, EmptyReply, ParseFailure,
              HandleRpc, AnswerReply, Close, ReadyToClose
<1> QED
  BY <1>1, <1>2, <1>3

(* A session closes once, with an outcome of the contract (safety part). *)
THEOREM SessionImplementsContract ==
    Spec => Contract!Init /\ [][Contract!Next]_(Contract!vars)
<1>1. Init => Contract!Init
  BY SameVocabulary DEF Init, Contract!Init
<1> QED
  BY <1>1, ContractStep, SessionTypeCorrect, SessionInvariant, PTL DEF Spec

---------------------------------------------------------------------------
(* How long a session may still last: its POSTs and local steps, once the    *)
(* ACS has issued all the RPCs it will.                                      *)
RpcsLeft == MaxRpcs - issued

StepsLeft ==
    CASE pc = "begin"    -> 2 * RpcsLeft + 7
      [] pc = "inform"   -> 2 * RpcsLeft + 6
      [] pc = "transfer" -> 2 * RpcsLeft + 5
      [] pc = "empty"    -> 2 * RpcsLeft + 4
      [] pc = "rpc"      -> IF body = "Empty" THEN 1 ELSE 2 * RpcsLeft + 3
      [] pc = "answer"   -> 2 * RpcsLeft + 2
      [] pc = "close"    -> 1
      [] OTHER           -> 0

LEMMA StepsOf ==
    /\ pc = "begin" => StepsLeft = 2 * RpcsLeft + 7
    /\ pc = "inform" => StepsLeft = 2 * RpcsLeft + 6
    /\ pc = "transfer" => StepsLeft = 2 * RpcsLeft + 5
    /\ pc = "empty" => StepsLeft = 2 * RpcsLeft + 4
    /\ pc = "rpc" /\ body = "Empty" => StepsLeft = 1
    /\ pc = "rpc" /\ body # "Empty" => StepsLeft = 2 * RpcsLeft + 3
    /\ pc = "answer" => StepsLeft = 2 * RpcsLeft + 2
    /\ pc = "close" => StepsLeft = 1
    /\ pc = "done" => StepsLeft = 0
BY DEF StepsLeft

LEMMA StepsOfNext ==
    /\ pc' = "inform" => StepsLeft' = 2 * RpcsLeft' + 6
    /\ pc' = "transfer" => StepsLeft' = 2 * RpcsLeft' + 5
    /\ pc' = "empty" => StepsLeft' = 2 * RpcsLeft' + 4
    /\ pc' = "rpc" /\ body' = "Empty" => StepsLeft' = 1
    /\ pc' = "rpc" /\ body' # "Empty" => StepsLeft' = 2 * RpcsLeft' + 3
    /\ pc' = "answer" => StepsLeft' = 2 * RpcsLeft' + 2
    /\ pc' = "close" => StepsLeft' = 1
    /\ pc' = "done" => StepsLeft' = 0
BY DEF StepsLeft

(* A reply to the empty POST or to a response uses up an RPC, or says that   *)
(* there are no more.                                                        *)
LEMMA RpcsUsedUp ==
    ASSUME TypeOK, NEW r \in Replies, AcsAnswers(r)
    PROVE  /\ RpcsLeft \in Nat /\ RpcsLeft' \in Nat
           /\ r.body = "Empty" => RpcsLeft' = RpcsLeft
           /\ r.body # "Empty" => RpcsLeft' = RpcsLeft - 1
<1>1. issued \in 0..MaxRpcs /\ issued' \in 0..MaxRpcs
  BY IssuedType DEF TypeOK
<1>2. issued' = IF r.body = "Empty" THEN issued ELSE issued + 1
  BY DEF AcsAnswers
<1> QED
  BY <1>1, <1>2, MaxRpcsAssumption DEF RpcsLeft

(* A session of either kind comes to its end in a number of steps only the   *)
(* ACS can raise, by issuing another RPC, two steps for each: there is no    *)
(* other way round the loop of processAcsMessages, and no failed POST is     *)
(* repeated.                                                                 *)
THEOREM SessionBounded ==
    Spec => /\ [](StepsLeft \in 0..(2 * MaxRpcs + 7))
            /\ [][StepsLeft' < StepsLeft]_vars
<1>1. TypeOK => StepsLeft \in 0..(2 * MaxRpcs + 7)
  <2> SUFFICES ASSUME TypeOK PROVE StepsLeft \in 0..(2 * MaxRpcs + 7)
    OBVIOUS
  <2>1. RpcsLeft \in 0..MaxRpcs
    BY MaxRpcsAssumption DEF TypeOK, RpcsLeft
  <2>2. pc \in Pcs
    BY DEF TypeOK
  <2> QED
    BY <2>1, <2>2, StepsOf, MaxRpcsAssumption DEF Pcs
<1>2. TypeOK /\ [Next]_vars => [StepsLeft' < StepsLeft]_vars
  <2> SUFFICES ASSUME TypeOK, Next PROVE StepsLeft' < StepsLeft
    OBVIOUS
  <2> USE StepsOf, StepsOfNext
  <2>0. RpcsLeft \in Nat /\ (issued' = issued => RpcsLeft' = RpcsLeft)
    BY MaxRpcsAssumption DEF TypeOK, RpcsLeft
  <2>1. CASE BeginInform
    BY <2>0, <2>1 DEF BeginInform
  <2>2. ASSUME NEW r \in Replies, InformReply(r) PROVE StepsLeft' < StepsLeft
    <3>1. pc' \in {"empty", "transfer", "done"}
      BY <2>2 DEF InformReply, Return
    <3> QED
      BY <2>0, <2>2, <3>1 DEF InformReply
  <2>3. ASSUME NEW r \in Replies, TransferReply(r) PROVE StepsLeft' < StepsLeft
    <3>1. pc' \in {"empty", "done"}
      BY <2>3 DEF TransferReply, Return
    <3> QED
      BY <2>0, <2>3, <3>1 DEF TransferReply
  <2>4. ASSUME NEW r \in Replies, EmptyReply(r) PROVE StepsLeft' < StepsLeft
    <3>1. pc' = "done" \/ (pc' = "rpc" /\ body' = r.body)
      BY <2>4 DEF EmptyReply, Return
    <3> QED
      BY <2>4, <3>1, RpcsUsedUp DEF EmptyReply
  <2>5. CASE ParseFailure
    BY <2>0, <2>5 DEF ParseFailure, Return
  <2>6. ASSUME NEW committed \in BOOLEAN, HandleRpc(committed) PROVE StepsLeft' < StepsLeft
    BY <2>0, <2>6 DEF HandleRpc
  <2>7. ASSUME NEW r \in Replies, AnswerReply(r) PROVE StepsLeft' < StepsLeft
    <3>1. pc' \in {"done", "close"} \/ (pc' = "rpc" /\ body' = r.body)
      BY <2>7 DEF AnswerReply, AfterFailedAnswer, Return
    <3> QED
      BY <2>7, <3>1, RpcsUsedUp DEF AnswerReply
  <2>8. CASE Close
    BY <2>0, <2>8 DEF Close, ReadyToClose, Return
  <2> QED
    BY <2>1, <2>2, <2>3, <2>4, <2>5, <2>6, <2>7, <2>8 DEF Next
<1> QED
  BY <1>1, <1>2, SessionTypeCorrect, PTL DEF Spec

==========================================================================
