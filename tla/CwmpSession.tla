---------------------------- MODULE CwmpSession ----------------------------
(***************************************************************************)
(* CwmpSession.cpp with RpcHandler::handle: one CWMP session of the CPE    *)
(* against an ACS that may answer anything, fail, or lose its answer.      *)
(*                                                                         *)
(* A session object lives for one call, either of run (the Inform session) *)
(* or of runTransferComplete (the session that reports a download).  Every *)
(* step but Close and ParseFailure ends with the return of a blocking HTTP *)
(* POST: the environment is the ACS's choice of reply.  Message            *)
(* texts, ids and parameter lists are abstracted to the method name.       *)
(***************************************************************************)
EXTENDS Naturals, CwmpTypes, CwmpStateMachine

CONSTANTS MaxRpcs,   \* bound: RPCs the ACS issues in one session
          Modes      \* which entry points are explored: "run", "transfer"

ASSUME MaxRpcsAssumption == MaxRpcs \in Nat
ASSUME ModesAssumption == Modes \subseteq {"run", "transfer"}

(* The methods parseRpc can find in a body; "Unknown" is any method name   *)
(* the handler does not know, the ACS's own ...Response names included.    *)
Methods == {"GetParameterValues", "GetParameterNames", "SetParameterValues",
            "Reboot", "Download", "Unknown"}
Bodies  == Methods \cup
           {"Empty", "Malformed", "InformResponse", "TransferCompleteResponse"}

(* HttpResponse as the session uses it.  A reply that is not ok() stands    *)
(* for a POST the ACS never got, an answer that was lost and a status that  *)
(* is not 2xx alike; its body is never looked at.                           *)
Replies == {[ok |-> FALSE, body |-> "Empty"]}
           \cup {[ok |-> TRUE, body |-> b] : b \in Bodies}

VARIABLES
    mode,       \* the entry point called
    pc,         \* the POST whose reply is awaited, or the next local step
    state,      \* stateMachine_
    body,       \* the ACS message being processed
    outcome,    \* the SessionOutcome under construction
    result,     \* what the caller receives
    issued,     \* RPCs the ACS has issued (bounded by MaxRpcs)
    rejected,   \* ghost: transition() returned false at least once
    confirmed,  \* ghost: methods whose response POST was answered ok()
    unanswered  \* ghost: committed SetParameterValues not answered ok()

vars == <<mode, pc, state, body, outcome, result, issued,
          rejected, confirmed, unanswered>>

Pcs == {"begin", "inform", "transfer", "empty", "rpc", "answer", "close", "done"}

TypeOK ==
    /\ mode \in Modes
    /\ pc \in Pcs
    /\ state \in CwmpStates
    /\ body \in Bodies
    /\ outcome \in SessionOutcome
    /\ result \in SessionOutcome
    /\ issued \in 0..MaxRpcs
    /\ rejected \in BOOLEAN
    /\ confirmed \subseteq Bodies
    /\ unanswered \in Nat

Init ==
    /\ mode \in Modes
    /\ pc = "begin"
    /\ state = "Idle"
    /\ body = "Empty"
    /\ outcome = Failed
    /\ result = Failed
    /\ issued = 0
    /\ rejected = FALSE
    /\ confirmed = {}
    /\ unanswered = 0

---------------------------------------------------------------------------
(* Every transition() call of the session ignores the returned bool. *)
MoveTo(next) ==
    /\ state' = Transition(state, next)
    /\ rejected' = (rejected \/ ~Valid(state, next))

(* Mutant: the session that reports a download returns no flags at all. *)
ReturnedSuccessOnly(o) == IF mode = "run" THEN o ELSE [success |-> o.success]

(* run returns the outcome; runTransferComplete only its success flag. *)
Returned(o) == IF mode = "run" THEN o ELSE Outcome(o.success, FALSE, FALSE)

Return(o) ==
    /\ pc' = "done"
    /\ result' = Returned(o)

(* The ACS's side of a POST: it may always fail, and while fewer than      *)
(* MaxRpcs RPCs were issued it may answer with anything.                   *)
AcsAnswers(r) ==
    /\ r \in Replies
    /\ issued' = IF r.body = "Empty" THEN issued ELSE issued + 1
    /\ issued' <= MaxRpcs

(* beginInform, up to the POST of the Inform. *)
BeginInform ==
    /\ pc = "begin"
    /\ pc' = "inform"
    /\ state' = Transition("Idle", "Connecting")
    /\ rejected' = (rejected \/ ~Valid("Idle", "Connecting"))
    /\ UNCHANGED <<mode, body, outcome, result, issued, confirmed, unanswered>>

(* beginInform, from the reply to the Inform: InformResponse is required. *)
InformReply(r) ==
    /\ pc = "inform"
    /\ IF r.ok /\ r.body = "InformResponse"
         THEN /\ MoveTo("InformSent")
              /\ pc' = IF mode = "run" THEN "empty" ELSE "transfer"
              /\ UNCHANGED result
         ELSE /\ state' = "Idle"
              /\ Return(Failed)
              /\ UNCHANGED rejected
    /\ UNCHANGED <<mode, body, outcome, issued, confirmed, unanswered>>

(* runTransferComplete: the reply to the TransferComplete message. *)
TransferReply(r) ==
    /\ pc = "transfer"
    /\ IF r.ok /\ r.body = "TransferCompleteResponse"
         THEN pc' = "empty" /\ UNCHANGED result
         ELSE Return(Failed)
    /\ UNCHANGED <<mode, state, body, outcome, issued,
                   rejected, confirmed, unanswered>>

(* The reply to the empty POST carries the first RPC, if there is one. *)
EmptyReply(r) ==
    /\ pc = "empty"
    /\ AcsAnswers(r)
    /\ IF r.ok
         THEN pc' = "rpc" /\ body' = r.body /\ UNCHANGED result
         ELSE Return(Failed) /\ UNCHANGED body
    /\ UNCHANGED <<mode, state, outcome, rejected, confirmed, unanswered>>

---------------------------------------------------------------------------
(* processAcsMessages: parseRpc finds no method in the body. *)
ParseFailure ==
    /\ pc = "rpc"
    /\ body = "Malformed"
    /\ Return(outcome)
    /\ UNCHANGED <<mode, state, body, outcome, issued,
                   rejected, confirmed, unanswered>>

(* processAcsMessages up to the POST of the response: parse, transition,   *)
(* RpcHandler::handle.  handle changes device state for one method only: a *)
(* SetParameterValues transaction is committed, or refused with a fault.   *)
HandleRpc(committed) ==
    /\ pc = "rpc"
    /\ body \notin {"Empty", "Malformed"}
    /\ committed => body = "SetParameterValues"
    /\ MoveTo("RpcProcessing")
    /\ unanswered' = IF committed THEN unanswered + 1 ELSE unanswered
    /\ pc' = "answer"
    /\ UNCHANGED <<mode, body, outcome, result, issued, confirmed>>

(* Mutant: the handler's download request is not copied to the outcome. *)
UpdatedRebootOnly(o, method) ==
    Outcome(o.success, o.rebootRequested \/ method = "Reboot", o.download)

(* What a confirmed response adds to the outcome. *)
Updated(o, method) ==
    Outcome(o.success, o.rebootRequested \/ method = "Reboot",
            o.download \/ method = "Download")

(* Mutant: the loop goes on after Reboot or Download. *)
EndsLoopNever(o) == FALSE

(* The break of the loop: nothing more is processed in this session. *)
EndsLoop(o) == o.rebootRequested \/ o.download

(* Mutant: a failed response POST does not end the session. *)
AfterFailedAnswerGoesOn == pc' = "rpc" /\ body' = "Empty" /\ UNCHANGED result

(* A failed response POST returns the outcome as it stood before this RPC. *)
AfterFailedAnswer == Return(outcome) /\ UNCHANGED body

(* processAcsMessages, from the reply to the response POST. *)
AnswerReply(r) ==
    /\ pc = "answer"
    /\ AcsAnswers(r)
    /\ IF r.ok
         THEN /\ confirmed' = confirmed \cup {body}
              /\ outcome' = Updated(outcome, body)
              /\ body' = r.body
              /\ unanswered' = IF body = "SetParameterValues" THEN 0 ELSE unanswered
              /\ pc' = IF EndsLoop(outcome') THEN "close" ELSE "rpc"
              /\ UNCHANGED result
         ELSE /\ AfterFailedAnswer
              /\ UNCHANGED <<outcome, confirmed, unanswered>>
    /\ UNCHANGED <<mode, state, rejected>>

(* Mutant: the session is closed whatever the ACS still wants. *)
ClosesAlways == pc \in {"rpc", "close"}

ReadyToClose == pc = "close" \/ (pc = "rpc" /\ body = "Empty")

(* The end of processAcsMessages: SessionClose, Idle, success. *)
Close ==
    /\ ReadyToClose
    /\ LET closing == Transition(state, "SessionClose")
       IN  /\ state' = Transition(closing, "Idle")
           /\ rejected' = (rejected \/ ~Valid(state, "SessionClose")
                                    \/ ~Valid(closing, "Idle"))
    /\ outcome' = [outcome EXCEPT !.success = TRUE]
    /\ Return(outcome')
    /\ UNCHANGED <<mode, body, issued, confirmed, unanswered>>

Next ==
    \/ BeginInform
    \/ \E r \in Replies : InformReply(r)
    \/ \E r \in Replies : TransferReply(r)
    \/ \E r \in Replies : EmptyReply(r)
    \/ ParseFailure
    \/ \E committed \in BOOLEAN : HandleRpc(committed)
    \/ \E r \in Replies : AnswerReply(r)
    \/ Close

(* Every POST returns: libcurl is given a 30 s timeout (HttpClient::post).  *)
Spec == Init /\ [][Next]_vars /\ WF_vars(Next)

---------------------------------------------------------------------------
(* The state machine accepts every transition the session asks for: run,   *)
(* runTransferComplete and processAcsMessages ignore transition()'s result, *)
(* so a refusal would leave state_ silently behind the session.            *)
TransitionsAccepted == ~rejected

(* run reports the reboot and the download whose response the ACS accepted, *)
(* and no other: the daemon acts on exactly what the ACS confirmed.         *)
ConfirmedWorkReported ==
    (pc = "done" /\ mode = "run") =>
        /\ result.rebootRequested <=> "Reboot" \in confirmed
        /\ result.download <=> "Download" \in confirmed

(* A session succeeds only when the ACS has no more work for it, except     *)
(* that work is left behind a Reboot or a Download (the break of the loop). *)
SuccessDrainsAcs ==
    (pc = "done" /\ result.success) =>
        body = "Empty" \/ confirmed \cap {"Reboot", "Download"} # {}

(* At most one committed SetParameterValues of a session is unanswered, and *)
(* none is when the session succeeds: after a failed response POST nothing  *)
(* more is applied that the ACS does not know of.                           *)
UnansweredSetIsLast ==
    /\ unanswered <= 1
    /\ (pc = "done" /\ result.success) => unanswered = 0

(* The session implements its contract: it closes, once, with an outcome    *)
(* the daemon is written for, never a failure that also asks for a reboot   *)
(* or a download, and never both of them.                                   *)
Contract == INSTANCE SessionContract WITH open <- (pc # "done"), result <- result
ImplementsContract == Contract!Spec

(* DESIGN.md: "Reboot is acknowledged before RebootHandler runs".  A reboot *)
(* the ACS was confirmed is reported to the daemon, in a session of either  *)
(* kind, so that RebootHandler does run.                                    *)
AcknowledgedRebootReported ==
    (pc = "done" /\ "Reboot" \in confirmed) => result.rebootRequested

==========================================================================
