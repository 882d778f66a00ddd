------------------- MODULE ConnectionRequestServerProofs -------------------
(***************************************************************************)
(* What holds of ConnectionRequestServer for any peers, passwords and      *)
(* number of restarts.                                                     *)
(***************************************************************************)
EXTENDS ConnectionRequestServer, TLAPS

(* Where the two threads can be at the same time. *)
ThreadsInStep ==
    /\ owner = "stopped" => thread = "none" /\ fd = "closed"
    /\ owner = "close" => thread = "none"
    /\ owner \in {"started", "shutdown"} => thread # "none" /\ fd = "open"
    /\ owner = "join" => thread # "none" /\ fd = "shut"
    /\ fd = "closed" => owner = "stopped"
    /\ owner # "started" => running = FALSE

(* An object that was started has a nonce. *)
Numbered == server \in Nat /\ (owner # "stopped" => server # 0)

OwnerOK == owner \in {"stopped", "started", "shutdown", "join", "close"}

Inv == OwnerOK /\ ThreadsInStep /\ Numbered

(* The descriptor, the running flag and the two threads' positions always fit. *)
LEMMA InvHolds == Spec => []Inv
<1>1. Init => Inv
  BY DEF Init, Inv, OwnerOK, ThreadsInStep, Numbered
<1>2. Inv /\ [Next]_vars => Inv'
  <2> SUFFICES ASSUME Inv, [Next]_vars PROVE Inv'
    OBVIOUS
  <2> USE DEF Inv, OwnerOK, ThreadsInStep, Numbered
  <2>1. CASE StartFails \/ Start
    BY <2>1 DEF StartFails, Start
  <2>2. CASE ClearRunning \/ StopStep
    BY <2>2 DEF ClearRunning, StopStep, Shutdown, Join, CloseListener
  <2>3. CASE ServeStep
    <3>1. owner' = owner /\ fd' = fd /\ running' = running /\ server' = server
      BY <2>3 DEF ServeStep, LoopTest, Select, Accept, Serve
    <3>2. thread # "none" /\ thread' # "none"
      BY <2>3 DEF ServeStep, LoopTest, Select, Accept, Serve
    <3> QED
      BY <3>1, <3>2
  <2>4. CASE \E c \in Clients : Connect(c) \/ Send(c) \/ SendCut(c) \/ HangUp(c)
    BY <2>4 DEF Connect, Send, SendCut, HangUp
  <2>5. CASE UNCHANGED vars
    BY <2>5 DEF vars
  <2> QED
    BY <2>1, <2>2, <2>3, <2>4, <2>5 DEF Next
<1> QED
  BY <1>1, <1>2, PTL DEF Spec

(* For any number of peers and restarts the serve thread never works on a   *)
(* listening descriptor that stop() has closed.                             *)
THEOREM SocketNeverClosedUnderThread == Spec => []SocketOutlivesThread
<1>1. Inv => SocketOutlivesThread
  BY DEF Inv, OwnerOK, ThreadsInStep, SocketOutlivesThread
<1> QED
  BY <1>1, InvHolds, PTL

(* The sets of values in which the state stays, and who is being served.    *)
LEMMA RequestForms ==
    /\ Silent \in Requests /\ Empty \in Requests /\ Plain \in Requests
    /\ \A n \in Nonces, p \in Passwords, first \in {"nonce", "cnonce"} : Digest(n, p, first) \in Requests
    /\ Silent.kind # "digest" /\ Empty.kind # "digest" /\ Plain.kind # "digest"
    /\ Empty # Silent
<1>1. Silent.kind = "silent" /\ Empty.kind = "empty" /\ Plain.kind = "plain"
  BY DEF Silent, Empty, Plain
<1>2. Silent \in Requests /\ Empty \in Requests /\ Plain \in Requests
  BY DEF Requests
<1>3. \A n \in Nonces, p \in Passwords, first \in {"nonce", "cnonce"} : Digest(n, p, first) \in Requests
  BY DEF Requests
<1>4. Empty # Silent
  BY <1>1
<1> QED
  BY <1>1, <1>2, <1>3, <1>4

(* Every variable of the listener stays in its type (start, stop, serve, peers). *)
THEOREM ServerTypeCorrect == Spec => []TypeOK
<1> USE ClientsAssumption, BoundsAssumption
<1>1. Init => TypeOK
  <2> SUFFICES ASSUME Init PROVE TypeOK
    OBVIOUS
  <2>1. 0 \in Nonces
    BY DEF Nonces
  <2>2. current \in Clients \cup {Nobody} /\ (thread = "recv" <=> current # Nobody)
    BY DEF Init
  <2>3. inbox \in [Clients -> Requests]
    BY RequestForms DEF Init
  <2>4. known \in [Clients -> Nonces] /\ server \in Nonces
    BY <2>1 DEF Init
  <2>5. got \in [Clients -> {"none", "reset", "204", "400", "401"}]
    BY DEF Init
  <2>6. cuts \in 0..MaxCuts /\ backlog \in Seq(Clients)
    BY DEF Init
  <2>7. config \in Configs
    BY DEF Init
  <2> QED
    BY <2>2, <2>3, <2>4, <2>5, <2>6, <2>7 DEF Init, TypeOK
<1>2. TypeOK /\ Inv /\ [Next]_vars => TypeOK'
  <2> SUFFICES ASSUME TypeOK, Inv, [Next]_vars PROVE TypeOK'
    OBVIOUS
  <2> USE DEF TypeOK
  <2>1. CASE StartFails \/ Start
    <3>1. server' \in Nonces
      BY <2>1 DEF StartFails, Start, Nonces
    <3>2. thread = "none" /\ current = Nobody
      BY <2>1 DEF StartFails, Start, Inv, ThreadsInStep
    <3> QED
      BY <2>1, <3>1, <3>2 DEF StartFails, Start, peers
  <2>2. CASE ClearRunning
    BY <2>2 DEF ClearRunning, peers
  <2>3. CASE Shutdown
    BY <2>3, RequestForms DEF Shutdown
  <2>4. CASE Join \/ CloseListener
    BY <2>4 DEF Join, CloseListener, peers
  <2>5. CASE LoopTest \/ Select
    BY <2>5 DEF LoopTest, Select, peers
  <2>6. CASE Accept
    <3>1. backlog # <<>> => Head(backlog) \in Clients /\ Tail(backlog) \in Seq(Clients)
      OBVIOUS
    <3> QED
      BY <2>6, <3>1 DEF Accept, peers
  <2>7. CASE Serve
    <3>1. current \in Clients
      BY <2>7 DEF Serve
    <3>2. inbox' \in [Clients -> Requests]
      BY <2>7, RequestForms DEF Serve
    <3>3. known' \in [Clients -> Nonces]
      BY <2>7 DEF Serve, Challenge
    <3>4. got' \in [Clients -> {"none", "reset", "204", "400", "401"}]
      BY <2>7 DEF Serve
    <3>6. thread' = "loop" /\ current' = Nobody
      BY <2>7 DEF Serve, CloseClient
    <3> QED
      BY <2>7, <3>2, <3>3, <3>4, <3>6 DEF Serve
  <2>8. ASSUME NEW c \in Clients, Connect(c) PROVE TypeOK'
    BY <2>8, RequestForms DEF Connect
  <2>9. ASSUME NEW c \in Clients, Send(c) PROVE TypeOK'
    <3>1. (IF known[c] = 0 THEN Plain
           ELSE Digest(known[c], Secret[c], First(c))) \in Requests
      BY RequestForms DEF First
    <3> QED
      BY <2>9, <3>1 DEF Send
  <2>10. ASSUME NEW c \in Clients, SendCut(c) \/ HangUp(c) PROVE TypeOK'
    BY <2>10, RequestForms DEF SendCut, HangUp
  <2>11. CASE UNCHANGED vars
    BY <2>11 DEF vars
  <2> QED
    BY <2>1, <2>2, <2>3, <2>4, <2>5, <2>6, <2>7, <2>8, <2>9, <2>10, <2>11
       DEF Next, ServeStep, StopStep
<1> QED
  BY <1>1, <1>2, InvHolds, PTL DEF Spec

(* A Digest answer that waits to be read was made by its peer from the      *)
(* challenge it got last and from the password it was given.                *)
AnswersOwn ==
    \A c \in Clients :
        inbox[c].kind = "digest" =>
            inbox[c] = Digest(known[c], Secret[c], First(c))

(* A peer's answer stays its own: it is gone before a new challenge arrives. *)
LEMMA AnswersOwnHolds == Spec => []AnswersOwn
<1> USE ClientsAssumption, RequestForms
<1>1. Init => AnswersOwn
  BY DEF Init, AnswersOwn
<1>2. TypeOK /\ AnswersOwn /\ [Next]_vars => AnswersOwn'
  <2> SUFFICES ASSUME TypeOK, AnswersOwn, [Next]_vars, NEW c \in Clients,
                      inbox'[c].kind = "digest"
               PROVE  inbox'[c] = Digest(known'[c], Secret[c], First(c))
    BY DEF AnswersOwn
  <2> USE DEF TypeOK, AnswersOwn
  <2>1. CASE StartFails \/ Start \/ ClearRunning \/ Join \/ CloseListener
    BY <2>1 DEF StartFails, Start, ClearRunning, Join, CloseListener, peers
  <2>2. CASE Shutdown
    BY <2>2 DEF Shutdown
  <2>3. CASE LoopTest \/ Select \/ Accept
    BY <2>3 DEF LoopTest, Select, Accept, peers
  <2>4. CASE Serve
    <3>1. inbox'[c] = inbox[c] /\ known'[c] = known[c] /\ c # current
      BY <2>4 DEF Serve
    <3> QED
      BY <3>1
  <2>5. CASE \E d \in Clients : Connect(d) \/ SendCut(d) \/ HangUp(d)
    <3> PICK d \in Clients : Connect(d) \/ SendCut(d) \/ HangUp(d)
      BY <2>5
    <3>1. d # c /\ inbox'[c] = inbox[c] /\ known' = known
      BY DEF Connect, SendCut, HangUp
    <3> QED
      BY <3>1
  <2>6. CASE \E d \in Clients : Send(d)
    <3> PICK d \in Clients : Send(d)
      BY <2>6
    <3> QED
      BY DEF Send
  <2>7. CASE UNCHANGED vars
    BY <2>7 DEF vars
  <2> QED
    BY <2>1, <2>2, <2>3, <2>4, <2>5, <2>6, <2>7 DEF Next, ServeStep, StopStep
<1> QED
  BY <1>1, <1>2, ServerTypeCorrect, PTL DEF Spec

(* For any peers, passwords and restarts: who gets through holds the        *)
(* password in force and was challenged by the object that lets him.        *)
THEOREM OnlyAuthorizedRequests == Spec => RequestsAuthorized
<1> DEFINE A == \A c \in Clients :
                   (got[c] # "204" /\ got'[c] = "204" /\ config.auth # "none") =>
                       known[c] = server /\ Secret[c] = config.password
<1>1. TypeOK /\ Inv /\ AnswersOwn /\ [Next]_vars => [A]_vars
  <2> SUFFICES ASSUME TypeOK, Inv, AnswersOwn, Next, NEW c \in Clients,
                      got[c] # "204", got'[c] = "204", config.auth # "none"
               PROVE  known[c] = server /\ Secret[c] = config.password
    BY DEF vars
  <2>1. Serve /\ c = current
    BY DEF Next, ServeStep, StopStep, StartFails, Start, ClearRunning, Shutdown, Join,
           CloseListener, LoopTest, Select, Accept, Connect, Send, SendCut, HangUp,
           peers, TypeOK, Serve
  <2>2. Authorized(inbox[c])
    BY <2>1 DEF Serve, TypeOK
  <2>3. ReadNonce(inbox[c]) = server /\ inbox[c].password = config.password
    BY <2>2 DEF Authorized
  <2>4. inbox[c] = Digest(known[c], Secret[c], First(c))
    BY <2>2 DEF Authorized, AnswersOwn
  <2>5. server # 0
    BY <2>1 DEF Serve, Inv, ThreadsInStep, Numbered
  <2> QED
    BY <2>3, <2>4, <2>5 DEF Digest, ReadNonce
<1> QED
  BY <1>1, ServerTypeCorrect, InvHolds, AnswersOwnHolds, PTL DEF Spec, RequestsAuthorized

---------------------------------------------------------------------------
(* What is left to do of a stop: its own steps, and those of the thread it   *)
(* waits for.                                                                *)
Stopping == owner \in {"shutdown", "join", "close"}

OwnStepsLeft ==
    CASE owner = "shutdown" -> 3 [] owner = "join" -> 2 [] owner = "close" -> 1 [] OTHER -> 0

ThreadStepsLeft ==
    CASE thread = "select" -> 4 [] thread = "accept" -> 3 [] thread = "recv" -> 2
      [] thread = "loop" -> 1 [] OTHER -> 0

StepsLeft == OwnStepsLeft + ThreadStepsLeft

(* A stop that has begun is over within seven steps of the two threads,     *)
(* whatever the peers do: the thread serves at most the connection it has    *)
(* or is about to accept, never the rest of the queue, and nothing starts it *)
(* again.  What StopReturns rests on; only a silent peer can hold it up.     *)
THEOREM StopBounded ==
    Spec => [][Stopping => (owner' = owner /\ thread' = thread) \/ StepsLeft' < StepsLeft]_vars
<1> DEFINE A == Stopping => (owner' = owner /\ thread' = thread) \/ StepsLeft' < StepsLeft
<1>1. Inv /\ [Next]_vars => [A]_vars
  <2> SUFFICES ASSUME Inv, Next, Stopping PROVE A
    OBVIOUS
  <2> USE DEF Inv, ThreadsInStep, Stopping, StepsLeft, OwnStepsLeft, ThreadStepsLeft
  <2>0. OwnStepsLeft \in Nat /\ ThreadStepsLeft \in Nat
    OBVIOUS
  <2>1. CASE StopStep
    <3>1. CASE Shutdown
      BY <2>0, <3>1 DEF Shutdown
    <3>2. CASE Join
      BY <2>0, <3>2 DEF Join
    <3>3. CASE CloseListener
      BY <2>0, <3>3 DEF CloseListener
    <3> QED
      BY <2>1, <3>1, <3>2, <3>3 DEF StopStep
  <2>2. CASE ServeStep
    <3>1. CASE LoopTest
      BY <2>0, <3>1 DEF LoopTest, GoesOn
    <3>2. CASE Select
      BY <2>0, <3>2 DEF Select
    <3>3. CASE Accept
      BY <2>0, <3>3 DEF Accept
    <3>4. CASE Serve
      BY <2>0, <3>4 DEF Serve
    <3> QED
      BY <2>2, <3>1, <3>2, <3>3, <3>4 DEF ServeStep
  <2>3. CASE StartFails \/ Start \/ ClearRunning
    BY <2>3 DEF StartFails, Start, ClearRunning
  <2>4. CASE \E c \in Clients : Connect(c) \/ Send(c) \/ SendCut(c) \/ HangUp(c)
    BY <2>4 DEF Connect, Send, SendCut, HangUp
  <2> QED
    BY <2>1, <2>2, <2>3, <2>4 DEF Next
<1> QED
  BY <1>1, InvHolds, PTL DEF Spec

---------------------------------------------------------------------------
(* What the listener, with Digest on, makes of a request it reads.  A peer   *)
(* with the right password whose header names nonce first is refused only if *)
(* it did not answer the challenge of the running object, and learns that    *)
(* challenge by the refusal: its next whole answer to this object gets       *)
(* through.  A peer whose header names cnonce first is never let through,    *)
(* whatever it answers: digestValue reads the wrong value.  These two facts  *)
(* are what RightPasswordServed, and its exception, rest on (authorized,     *)
(* digestValue, challenge).                                                  *)
THEOREM AnswersJudged ==
    Spec => [][\A c \in Clients :
                  (Serve /\ c = current /\ config.auth # "none") =>
                      /\ (got'[c] = "401" /\ Secret[c] = config.password
                            /\ c \notin CnonceFirst)
                         => /\ inbox[c].kind # "digest" \/ known[c] # server
                            /\ known'[c] = server
                      /\ c \in CnonceFirst => got'[c] # "204"]_vars
<1> DEFINE Judged(c) ==
      /\ (got'[c] = "401" /\ Secret[c] = config.password /\ c \notin CnonceFirst)
         => /\ inbox[c].kind # "digest" \/ known[c] # server
            /\ known'[c] = server
      /\ c \in CnonceFirst => got'[c] # "204"
<1> DEFINE A == \A c \in Clients :
                   (Serve /\ c = current /\ config.auth # "none") => Judged(c)
<1>1. TypeOK /\ Inv /\ AnswersOwn /\ [Next]_vars => [A]_vars
  <2> SUFFICES ASSUME TypeOK, Inv, AnswersOwn, NEW c \in Clients, Serve, c = current,
                      config.auth # "none"
               PROVE  Judged(c)
    OBVIOUS
  <2>1. ASSUME got'[c] = "401", Secret[c] = config.password, c \notin CnonceFirst
        PROVE  /\ inbox[c].kind # "digest" \/ known[c] # server
               /\ known'[c] = server
    <3>1. ~Authorized(inbox[c]) /\ known' = [known EXCEPT ![c] = server]
      BY <2>1 DEF Serve, Challenge, TypeOK
    <3>2. known'[c] = server
      BY <3>1 DEF TypeOK
    <3>3. ASSUME inbox[c].kind = "digest" PROVE known[c] # server
      <4>1. inbox[c] = Digest(known[c], Secret[c], First(c))
        BY <3>3 DEF AnswersOwn
      <4>2. ReadNonce(inbox[c]) = known[c] /\ inbox[c].password = config.password
        BY <2>1, <4>1 DEF Digest, ReadNonce, First
      <4> QED
        BY <3>1, <3>3, <4>2 DEF Authorized
    <3> QED
      BY <3>2, <3>3
  <2>2. ASSUME c \in CnonceFirst, got'[c] = "204" PROVE FALSE
    <3>1. Authorized(inbox[c])
      BY <2>2 DEF Serve, TypeOK
    <3>2. ReadNonce(inbox[c]) = server /\ inbox[c].kind = "digest"
      BY <3>1 DEF Authorized
    <3>3. inbox[c].first = "cnonce"
      <4>1. inbox[c] = Digest(known[c], Secret[c], First(c))
        BY <3>2 DEF AnswersOwn
      <4>2. First(c) = "cnonce"
        BY <2>2 DEF First
      <4> QED
        BY <4>1, <4>2 DEF Digest
    <3>4. server # 0
      BY DEF Serve, Inv, ThreadsInStep, Numbered
    <3> QED
      BY <3>2, <3>3, <3>4 DEF ReadNonce
  <2> QED
    BY <2>1, <2>2
<1> QED
  BY <1>1, ServerTypeCorrect, InvHolds, AnswersOwnHolds, PTL DEF Spec

============================================================================
