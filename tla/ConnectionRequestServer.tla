---------------------- MODULE ConnectionRequestServer ----------------------
(***************************************************************************)
(* ConnectionRequestServer.cpp: the HTTP listener an ACS uses to ask for a *)
(* session.  The daemon thread starts it and, whenever its settings        *)
(* change, stops it and starts a new object with a new nonce; the serve    *)
(* thread takes one connection after the other; peers connect, send a      *)
(* request, go silent or hang up when they please.                         *)
(*                                                                         *)
(* A request is what authorized() looks at.  MD5 is taken as injective: a  *)
(* digest is the pair of the nonce and the password it was made from, and  *)
(* a password stands for user name, realm and password, which authorized() *)
(* wants equal all three (the uri it only wants present).  The nonce of an *)
(* object is the number of the object.  A peer sends its own answers: the  *)
(* code, which does not count nc, would take a copy of another's as well.  *)
(***************************************************************************)
EXTENDS Naturals, Sequences, SequencesExt

CONSTANTS Clients,        \* the peers
          Passwords,      \* connection request passwords in use
          Secret,         \* Secret[c]: the password the peer c was given
          CnonceFirst,    \* the peers whose header names cnonce before nonce
          MaxServers,     \* bound: server objects created
          MaxCuts,        \* bound: requests cut in two, connections given up
          Nobody

ASSUME ClientsAssumption == Nobody \notin Clients /\ Secret \in [Clients -> Passwords]
ASSUME OrderAssumption == CnonceFirst \subseteq Clients
ASSUME BoundsAssumption == MaxServers \in Nat /\ MaxCuts \in Nat

VARIABLES
    owner,    \* the daemon thread: where it is in start and stop
    running,  \* running_
    fd,       \* listenFd_
    thread,   \* the serve thread's next step
    current,  \* the connection being served
    server,   \* number of the object, and its nonce_ (0: none yet)
    config,   \* its auth mode and password
    backlog,  \* connections not yet accepted
    inbox,    \* what a connected peer has sent
    known,    \* the nonce a peer was last challenged with
    got,      \* the last answer a peer received
    cuts      \* requests cut and connections given up so far

vars == <<owner, running, fd, thread, current, server, config, backlog,
          inbox, known, got, cuts>>
peers == <<inbox, known, got, cuts>>

Nonces == 0..MaxServers

(* recv returns nothing when the peer hung up; Silent: nothing yet.         *)
Silent == [kind |-> "silent"]
Empty  == [kind |-> "empty"]
Plain  == [kind |-> "plain"]
Digest(n, p, first) ==
    [kind |-> "digest", nonce |-> n, password |-> p, first |-> first]
Requests ==
    {Silent, Empty, Plain}
        \cup {Digest(n, p, first) : n \in Nonces, p \in Passwords,
                                   first \in {"nonce", "cnonce"}}

Configs == [auth : {"none", "Digest"}, password : Passwords]

TypeOK ==
    /\ owner \in {"stopped", "started", "shutdown", "join", "close"}
    /\ running \in BOOLEAN
    /\ fd \in {"closed", "open", "shut"}
    /\ thread \in {"none", "loop", "select", "accept", "recv", "returned"}
    /\ current \in Clients \cup {Nobody}
    /\ thread = "recv" <=> current # Nobody
    /\ server \in Nonces
    /\ config \in Configs
    /\ backlog \in Seq(Clients)
    /\ inbox \in [Clients -> Requests]
    /\ known \in [Clients -> Nonces]
    /\ got \in [Clients -> {"none", "reset", "204", "400", "401"}]
    /\ cuts \in 0..MaxCuts

Init ==
    /\ owner = "stopped" /\ running = FALSE /\ fd = "closed" /\ thread = "none"
    /\ current = Nobody /\ server = 0 /\ config \in Configs /\ backlog = <<>>
    /\ inbox = [c \in Clients |-> Silent]
    /\ known = [c \in Clients |-> 0]
    /\ got = [c \in Clients |-> "none"]
    /\ cuts = 0

---------------------------------------------------------------------------
(* The daemon thread: start, and stop in its four steps. *)

(* A socket, address, bind or listen error leaves the object unused; the    *)
(* daemon drops it.                                                         *)
StartFails ==
    /\ owner = "stopped" /\ server < MaxServers
    /\ server' = server + 1
    /\ config' \in Configs
    /\ UNCHANGED <<owner, running, fd, thread, current, backlog, peers>>

Start ==
    /\ owner = "stopped" /\ server < MaxServers
    /\ server' = server + 1
    /\ config' \in Configs
    /\ fd' = "open" /\ running' = TRUE /\ thread' = "loop"
    /\ owner' = "started"
    /\ UNCHANGED <<current, backlog, peers>>

ClearRunning ==
    /\ owner = "started"
    /\ running' = FALSE
    /\ owner' = "shutdown"
    /\ UNCHANGED <<fd, thread, current, server, config, backlog, peers>>

(* shutdown(SHUT_RDWR): pending connections are reset, select returns.      *)
Shutdown ==
    /\ owner = "shutdown"
    /\ fd' = "shut"
    /\ backlog' = <<>>
    /\ got' = [c \in Clients |-> IF Contains(backlog, c) THEN "reset" ELSE got[c]]
    /\ inbox' = [c \in Clients |-> IF Contains(backlog, c) THEN Silent ELSE inbox[c]]
    /\ owner' = "join"
    /\ UNCHANGED <<running, thread, current, server, config, known, cuts>>

(* Mutant: the thread is not waited for. *)
JoinDetaches ==
    /\ owner = "join"
    /\ owner' = "close"
    /\ UNCHANGED <<running, fd, thread, current, server, config, backlog, peers>>

Join ==
    /\ owner = "join" /\ thread = "returned"
    /\ thread' = "none"
    /\ owner' = "close"
    /\ UNCHANGED <<running, fd, current, server, config, backlog, peers>>

CloseListener ==
    /\ owner = "close"
    /\ fd' = "closed"
    /\ owner' = "stopped"
    /\ UNCHANGED <<running, thread, current, server, config, backlog, peers>>

---------------------------------------------------------------------------
(* The serve thread. *)

(* Mutant: running_ is not tested. *)
GoesOnForever == TRUE

GoesOn == running

LoopTest ==
    /\ thread = "loop"
    /\ thread' = IF GoesOn THEN "select" ELSE "returned"
    /\ UNCHANGED <<owner, running, fd, current, server, config, backlog, peers>>

(* select returns for a pending connection, for a listener that was shut    *)
(* down, and with nothing after a second.                                   *)
Select ==
    /\ thread = "select"
    /\ thread' = IF backlog # <<>> \/ fd = "shut" THEN "accept" ELSE "loop"
    /\ UNCHANGED <<owner, running, fd, current, server, config, backlog, peers>>

Accept ==
    /\ thread = "accept"
    /\ IF backlog # <<>>
         THEN /\ current' = Head(backlog) /\ backlog' = Tail(backlog)
              /\ thread' = "recv"
         ELSE thread' = "loop" /\ UNCHANGED <<current, backlog>>
    /\ UNCHANGED <<owner, running, fd, server, config, peers>>

(* Mutant: the nonce is not compared. *)
AuthorizedAnyNonce(r) ==
    \/ config.auth = "none"
    \/ r.kind = "digest" /\ r.password = config.password

(* digestValue looks for the text nonce=, which it also finds in an earlier *)
(* cnonce=: it then returns what the peer made up, which is no object's.    *)
ReadNonce(r) == IF r.first = "cnonce" THEN 0 ELSE r.nonce

Authorized(r) ==
    \/ config.auth = "none"
    \/ /\ r.kind = "digest"
       /\ ReadNonce(r) = server
       /\ r.password = config.password

(* Mutant: the challenge names the nonce of the first object. *)
ChallengeOld == 1

(* challenge(): the nonce of this object. *)
Challenge == server

(* Mutant: the connection is not closed after the answer. *)
CloseClientNot == UNCHANGED current

CloseClient == current' = Nobody

(* recv blocks until the peer sends or hangs up, without a timeout.  One    *)
(* recv is all that is read; the answer follows and the connection closes.  *)
Serve ==
    /\ thread = "recv" /\ inbox[current] # Silent
    /\ LET r == inbox[current]
       IN  \/ /\ r.kind = "empty"
              /\ got' = [got EXCEPT ![current] = "400"]
              /\ UNCHANGED known
           \/ /\ r.kind # "empty" /\ Authorized(r)
              /\ got' = [got EXCEPT ![current] = "204"]
              /\ UNCHANGED known
           \/ /\ r.kind # "empty" /\ ~Authorized(r)
              /\ got' = [got EXCEPT ![current] = "401"]
              /\ known' = [known EXCEPT ![current] = Challenge]
    /\ inbox' = [inbox EXCEPT ![current] = Silent]
    /\ CloseClient
    /\ thread' = "loop"
    /\ UNCHANGED <<owner, running, fd, server, config, backlog, cuts>>

---------------------------------------------------------------------------
(* The peers. *)

Connected(c) == c = current \/ Contains(backlog, c)

Connect(c) ==
    /\ fd = "open" /\ ~Connected(c)
    /\ backlog' = Append(backlog, c)
    /\ inbox' = [inbox EXCEPT ![c] = Silent]
    /\ got' = [got EXCEPT ![c] = "none"]
    /\ UNCHANGED <<owner, running, fd, thread, current, server, config, known,
                   cuts>>

(* What the peer's Authorization header names first. *)
First(c) == IF c \in CnonceFirst THEN "cnonce" ELSE "nonce"

(* A peer answers the challenge it was given. *)
Send(c) ==
    /\ Connected(c) /\ inbox[c] = Silent
    /\ inbox' = [inbox EXCEPT ![c] =
                    IF known[c] = 0 THEN Plain
                    ELSE Digest(known[c], Secret[c], First(c))]
    /\ UNCHANGED <<owner, running, fd, thread, current, server, config, backlog, known,
                   got, cuts>>

(* Only the first part of a request arrives with the first recv, without    *)
(* its Authorization header or without a complete request line.             *)
SendCut(c) ==
    /\ Connected(c) /\ inbox[c] = Silent /\ cuts < MaxCuts
    /\ \E r \in {Plain, Empty} : inbox' = [inbox EXCEPT ![c] = r]
    /\ cuts' = cuts + 1
    /\ UNCHANGED <<owner, running, fd, thread, current, server, config, backlog, known,
                   got>>

(* A peer hangs up before it sent anything. *)
HangUp(c) ==
    /\ Connected(c) /\ inbox[c] = Silent /\ cuts < MaxCuts
    /\ inbox' = [inbox EXCEPT ![c] = Empty]
    /\ cuts' = cuts + 1
    /\ UNCHANGED <<owner, running, fd, thread, current, server, config, backlog, known,
                   got>>

ServeStep == LoopTest \/ Select \/ Accept \/ Serve
StopStep  == Shutdown \/ Join \/ CloseListener

Next ==
    \/ StartFails \/ Start \/ ClearRunning
    \/ StopStep
    \/ ServeStep
    \/ \E c \in Clients : Connect(c) \/ Send(c) \/ SendCut(c) \/ HangUp(c)

Spec == Init /\ [][Next]_vars

(* The two threads are scheduled.  Nobody is obliged to stop or start the   *)
(* server, and the peers are obliged to nothing.                            *)
FairSpec == Spec /\ WF_vars(ServeStep) /\ WF_vars(StopStep)

---------------------------------------------------------------------------
(* The serve thread never selects on or accepts from a descriptor that was  *)
(* closed (and may by then be somebody else's): stop closes it only after   *)
(* the thread was joined, and a new object starts with no thread behind.    *)
SocketOutlivesThread ==
    thread \in {"loop", "select", "accept"} => fd # "closed"

(* With Digest on, the daemon is only asked for a session on behalf of a    *)
(* peer that has the password now configured and was challenged by the      *)
(* object now running: no answer outlives the restart that changed the      *)
(* password (serve: a 204 is the answer that goes with onRequest_).         *)
RequestsAuthorized ==
    [][\A c \in Clients :
          (got[c] # "204" /\ got'[c] = "204" /\ config.auth # "none") =>
              known[c] = server /\ Secret[c] = config.password]_vars

(* The thread sits in recv, on a peer that has sent nothing.                *)
HeldBySilence == thread = "recv" /\ inbox[current] = Silent

(* One thing alone keeps stop() from returning, and with it the daemon from *)
(* applying new settings or from exiting: a peer that is connected and      *)
(* silent for ever.  Peers that come and go, that queue up, that talk all   *)
(* the time or that hang up do not (stop, serve).                           *)
StopReturns == (owner = "shutdown" ~> owner = "stopped") \/ <>[]HeldBySilence

(* A peer that holds the right password and tries again and again gets its  *)
(* request through to any object that stays, though a challenge of an       *)
(* earlier object, a reset or a cut request may cost it another round, and  *)
(* whatever the others send.  Two things lock it out: another peer that is  *)
(* silent for ever, as there is one thread for all, and a header that names *)
(* cnonce before nonce (serve, authorized).                                 *)
Settled(c) == owner = "started" /\ config.password = Secret[c]
Persists(c) == WF_vars(Connect(c)) /\ WF_vars(Send(c))
RightPasswordServed ==
    \A c \in Clients \ CnonceFirst :
        (Persists(c) /\ <>[]Settled(c)) => []<>(got[c] = "204") \/ <>[]HeldBySilence
============================================================================
