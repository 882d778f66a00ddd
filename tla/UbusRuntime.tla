----------------------------- MODULE UbusRuntime -----------------------------
(***************************************************************************)
(* The process tr69d in its ubus build: main.cpp, UbusServer.cpp and the   *)
(* mutex of lua_transformer.cpp.  The main thread runs the event loop of   *)
(* libubox and serves the ubus object "tr69"; the daemon thread runs       *)
(* Tr069Daemon::run.  They meet in three places: the request flags with    *)
(* their condition variable, the mutex of the Lua engine, and, less        *)
(* visibly, ubus itself: a transaction that has committed runs             *)
(* `ubus call tr69 reload` and waits for the answer of its own process,    *)
(* with the mutex held.                                                    *)
(*                                                                         *)
(* A call of a client that stops waiting stays in the queue: ubusd has     *)
(* passed it on and takes nothing back.  What a session does is left to    *)
(* CwmpSession, what the flags do to the run loop to Tr069Daemon.          *)
(***************************************************************************)
EXTENDS Naturals, Sequences

CONSTANTS
    Clients,       \* processes that call the object: trs, hotplug, init script
    Child,         \* the `ubus call` a transaction of the daemon runs
    Gone,          \* stands for a caller that no longer waits
    ClientMethods, \* the methods the clients call
    MaxQueue,      \* bound: calls that wait to be handled
    Timed          \* the daemon waits with a period (PeriodicInformEnable)

Callers == Clients \cup {Child}
FlagMethods == {"reload", "reconnect", "inform_now"}
Methods == FlagMethods \cup {"status"}

ASSUME CallersAssumption == Child \notin Clients /\ Gone \notin Callers
ASSUME MethodsAssumption == ClientMethods \subseteq Methods
ASSUME BoundsAssumption == MaxQueue \in Nat \ {0} /\ Timed \in BOOLEAN

VARIABLES
    main,      \* the next step of the main thread
    daemon,    \* the next step of the daemon thread
    lua,       \* who holds LuaTransformer::mutex_
    flags,     \* stop_, reloadRequested_, reconnectRequested_, informNowRequested_
    cancelled, \* uloop_cancelled
    woken,     \* a byte in the pipe that wakes the poll
    ubusd,     \* the bus daemon is up
    queue,     \* calls passed on to this process, the one in progress first
    call,      \* what each caller knows of its call
    owed       \* ghost: callers whose reload was passed on, not yet requested

vars == <<main, daemon, lua, flags, cancelled, woken, ubusd, queue, call, owed>>

(* ubus_add_object succeeded, ubus_remove_object has not run. *)
Looping == main \in {"check", "poll", "status", "reading"}
Registered == Looping \/ main \in {"starting", "stopping", "joining"}

Calls == [caller : Callers \cup {Gone}, method : Methods]

TypeOK ==
    /\ main \in {"init", "starting", "check", "poll", "status", "reading",
                 "stopping", "joining", "exited"}
    /\ daemon \in {"unborn", "boot", "work", "locking", "inLua", "notifying",
                   "wait", "blocking", "blocked", "returned", "ended"}
    /\ lua \in {"none", "main", "daemon"}
    /\ flags \subseteq FlagMethods \cup {"stop"}
    /\ {cancelled, woken, ubusd} \subseteq BOOLEAN
    /\ queue \in Seq(Calls)
    /\ call \in [Callers -> {"idle", "waiting", "accepted", "failed"}]
    /\ owed \subseteq Callers
    /\ main \in {"status", "reading"} => queue # <<>> /\ Head(queue).method = "status"

Init ==
    /\ main = "init" /\ daemon = "unborn"
    /\ lua = "none" /\ flags = {}
    /\ cancelled = FALSE /\ woken = FALSE /\ ubusd = TRUE
    /\ queue = <<>> /\ call = [c \in Callers |-> "idle"] /\ owed = {}

---------------------------------------------------------------------------
(* Calls on the bus. *)

(* `ubus call tr69 <method>` by c: it fails at once when the bus or the      *)
(* object is not there.                                                      *)
Calling(c, method) ==
    IF ubusd /\ Registered
      THEN /\ queue' = Append(queue, [caller |-> c, method |-> method])
           /\ call' = [call EXCEPT ![c] = "waiting"]
           /\ owed' = IF method = "reload" THEN owed \cup {c} ELSE owed
      ELSE /\ call' = [call EXCEPT ![c] = "failed"]
           /\ UNCHANGED <<queue, owed>>

Call(c, method) ==
    /\ call[c] # "waiting"
    /\ Len(queue) < MaxQueue
    /\ Calling(c, method)
    /\ UNCHANGED <<main, daemon, lua, flags, cancelled, woken, ubusd>>

(* Mutant: the notification waits for its answer as long as it takes. *)
GivesUpUnlessChild(c) == c # Child

(* The ubus tool gives up after 30 seconds. *)
GivesUp(c) == TRUE

(* Mutant: the calls of those who gave up are taken back. *)
ForgottenDropped(callers) ==
    SelectSeq(queue, LAMBDA entry : entry.caller \notin callers)

Forgotten(callers) ==
    [i \in 1..Len(queue) |->
        IF queue[i].caller \in callers THEN [queue[i] EXCEPT !.caller = Gone]
                                       ELSE queue[i]]

CallTimeout(c) ==
    /\ call[c] = "waiting" /\ GivesUp(c)
    /\ call' = [call EXCEPT ![c] = "failed"]
    /\ queue' = Forgotten({c})
    /\ UNCHANGED <<main, daemon, lua, flags, cancelled, woken, ubusd, owed>>

(* Mutant: the reply goes to everybody who waits. *)
AnswerToAll ==
    /\ queue' = Tail(queue)
    /\ call' = [c \in Callers |-> IF call[c] = "waiting" THEN "accepted" ELSE call[c]]

(* ubus_send_reply and the end of the handler: the caller, if it still       *)
(* waits, has its answer, and the loop goes on to the next call.             *)
Answer ==
    /\ queue' = Tail(queue)
    /\ call' = [c \in Callers |-> IF c = Head(queue).caller THEN "accepted" ELSE call[c]]

(* The bus goes down: nobody gets an answer, but what it had passed on is in  *)
(* the socket of this process.                                               *)
UbusdStops ==
    /\ ubusd
    /\ ubusd' = FALSE
    /\ call' = [c \in Callers |-> IF call[c] = "waiting" THEN "failed" ELSE call[c]]
    /\ queue' = Forgotten(Callers)
    /\ UNCHANGED <<main, daemon, lua, flags, cancelled, woken, owed>>

---------------------------------------------------------------------------
(* What the handlers do to the daemon. *)

(* Mutant: only a daemon that waits is asked. *)
RequestOfSleeper(flag) ==
    IF daemon \in {"wait", "blocking", "blocked"}
      THEN flags' = flags \cup {flag} /\ daemon' = "wait"
      ELSE UNCHANGED <<flags, daemon>>

(* Mutant: the waiter is not notified. *)
RequestUnheard(flag) == flags' = flags \cup {flag} /\ UNCHANGED daemon

(* requestReload, requestStop and their like: set the flag, then notify_all. *)
(* Nobody takes waitMutex_, so a thread about to block is not woken.         *)
Request(flag) ==
    /\ flags' = flags \cup {flag}
    /\ daemon' = IF daemon = "blocked" THEN "wait" ELSE daemon

---------------------------------------------------------------------------
(* The main thread. *)

(* UbusServer::initialize, then the daemon thread; without a bus, return 1.  *)
Initialize ==
    /\ main = "init"
    /\ IF ubusd THEN main' = "starting" /\ daemon' = "boot"
                ELSE main' = "exited" /\ UNCHANGED daemon
    /\ UNCHANGED <<lua, flags, cancelled, woken, ubusd, queue, call, owed>>

(* uloop_run forgets a cancellation made before it. *)
EnterLoop ==
    /\ main = "starting"
    /\ cancelled' = FALSE
    /\ main' = "check"
    /\ UNCHANGED <<daemon, lua, flags, woken, ubusd, queue, call, owed>>

(* The head of the loop, and the test after each message. *)
CheckCancelled ==
    /\ main = "check"
    /\ main' = IF cancelled THEN "stopping" ELSE "poll"
    /\ UNCHANGED <<daemon, lua, flags, cancelled, woken, ubusd, queue, call, owed>>

(* The poll returns because a signal wrote to the pipe. *)
WakeUp ==
    /\ main = "poll" /\ woken
    /\ woken' = FALSE
    /\ main' = "check"
    /\ UNCHANGED <<daemon, lua, flags, cancelled, ubusd, queue, call, owed>>

(* The socket is at its end: libubus cancels the loop. *)
ConnectionLost ==
    /\ main = "poll" /\ ~ubusd /\ queue = <<>>
    /\ cancelled' = TRUE
    /\ main' = "check"
    /\ UNCHANGED <<daemon, lua, flags, woken, ubusd, queue, call, owed>>

(* reload, reconnect, inform_now.  One request pays for every reload passed  *)
(* on so far: their commits came before it.                                  *)
HandleFlag ==
    /\ main = "poll" /\ queue # <<>> /\ Head(queue).method \in FlagMethods
    /\ Request(Head(queue).method)
    /\ owed' = IF Head(queue).method = "reload" /\ "reload" \in flags' THEN {} ELSE owed
    /\ Answer
    /\ main' = "check"
    /\ UNCHANGED <<lua, cancelled, woken, ubusd>>

(* status() has copied the state and the configuration and asks the data     *)
(* model for the connection request URL.                                     *)
HandleStatus ==
    /\ main = "poll" /\ queue # <<>> /\ Head(queue).method = "status"
    /\ main' = "status"
    /\ UNCHANGED <<daemon, lua, flags, cancelled, woken, ubusd, queue, call, owed>>

StatusLock ==
    /\ main = "status" /\ lua = "none"
    /\ lua' = "main"
    /\ main' = "reading"
    /\ UNCHANGED <<daemon, flags, cancelled, woken, ubusd, queue, call, owed>>

StatusReply ==
    /\ main = "reading"
    /\ lua' = "none"
    /\ Answer
    /\ main' = "check"
    /\ UNCHANGED <<daemon, flags, cancelled, woken, ubusd, owed>>

(* Mutant: the daemon is not told before it is waited for. *)
StopUnsaid == UNCHANGED <<flags, daemon>>

StopDaemon == Request("stop")

RequestStop ==
    /\ main = "stopping"
    /\ StopDaemon
    /\ main' = "joining"
    /\ UNCHANGED <<lua, cancelled, woken, ubusd, queue, call, owed>>

(* Mutant: the objects are destroyed once the daemon has left its loop,      *)
(* without waiting for the thread.                                           *)
JoinedEarly == daemon \in {"returned", "ended"}

Joined == daemon = "ended"

(* daemonThread.join(), the destructors of UbusServer and Tr069Daemon.  The  *)
(* calls still in the socket die with it.                                    *)
JoinAndExit ==
    /\ main = "joining" /\ Joined
    /\ main' = "exited"
    /\ queue' = <<>> /\ owed' = {}
    /\ UNCHANGED <<daemon, lua, flags, cancelled, woken, ubusd, call>>

---------------------------------------------------------------------------
(* The daemon thread. *)

(* The transformer script is loaded, or run returns 1. *)
Boot ==
    /\ daemon = "boot"
    /\ daemon' \in {"work", "returned"}
    /\ UNCHANGED <<main, lua, flags, cancelled, woken, ubusd, queue, call, owed>>

(* A refresh of the configuration or an RPC of a session needs the engine. *)
NeedLua ==
    /\ daemon = "work"
    /\ daemon' = "locking"
    /\ UNCHANGED <<main, lua, flags, cancelled, woken, ubusd, queue, call, owed>>

Lock ==
    /\ daemon = "locking" /\ lua = "none"
    /\ lua' = "daemon"
    /\ daemon' = "inLua"
    /\ UNCHANGED <<main, flags, cancelled, woken, ubusd, queue, call, owed>>

(* A getter, or a transaction that failed. *)
LuaReturns ==
    /\ daemon = "inLua"
    /\ lua' = "none"
    /\ daemon' = "work"
    /\ UNCHANGED <<main, flags, cancelled, woken, ubusd, queue, call, owed>>

(* notify_runtime_reload, after the commit and the read-back. *)
Notify ==
    /\ daemon = "inLua" /\ Len(queue) < MaxQueue
    /\ Calling(Child, "reload")
    /\ daemon' = "notifying"
    /\ UNCHANGED <<main, lua, flags, cancelled, woken, ubusd>>

(* Mutant: the lock is not given back when the notification failed. *)
LuaAfterNotifyLeaked == IF call[Child] = "accepted" THEN "none" ELSE lua

(* The result of the notification is ignored; the lock_guard goes out of scope. *)
LuaAfterNotify == "none"

Notified ==
    /\ daemon = "notifying" /\ call[Child] # "waiting"
    /\ lua' = LuaAfterNotify
    /\ call' = [call EXCEPT ![Child] = "idle"]
    /\ daemon' = "work"
    /\ UNCHANGED <<main, flags, cancelled, woken, ubusd, queue, owed>>

(* The end of a session: a reload or a changed configuration starts another  *)
(* one, unless the loop is to stop.                                          *)
SessionEnds ==
    /\ daemon = "work"
    /\ flags' = flags \ {"reload"}
    /\ daemon' \in IF "stop" \in flags THEN {"returned"}
                   ELSE IF "reload" \in flags THEN {"work"} ELSE {"work", "wait"}
    /\ UNCHANGED <<main, lua, cancelled, woken, ubusd, queue, call, owed>>

(* The order in which waitForNextInform takes the requests. *)
First == CHOOSE f \in flags :
            \/ f = "reconnect"
            \/ f = "inform_now" /\ "reconnect" \notin flags
            \/ f = "reload" /\ flags = {"reload"}

TestWake ==
    /\ daemon = "wait"
    /\ CASE flags = {} -> daemon' = "blocking" /\ UNCHANGED flags
         [] "stop" \in flags -> daemon' = "returned" /\ UNCHANGED flags
         [] OTHER -> daemon' = "work" /\ flags' = flags \ {First}
    /\ UNCHANGED <<main, lua, cancelled, woken, ubusd, queue, call, owed>>

Block ==
    /\ daemon = "blocking"
    /\ daemon' = "blocked"
    /\ UNCHANGED <<main, lua, flags, cancelled, woken, ubusd, queue, call, owed>>

(* wait_for expires; what was requested meanwhile is looked at first. *)
Period ==
    /\ daemon = "blocked" /\ Timed
    /\ daemon' = IF flags = {} THEN "work" ELSE "wait"
    /\ UNCHANGED <<main, lua, flags, cancelled, woken, ubusd, queue, call, owed>>

(* The end of the thread's function.  uloop_end, called by ubus.stop(), sets *)
(* a variable and wakes nobody.                                              *)
Leave ==
    /\ daemon = "returned"
    /\ cancelled' = TRUE
    /\ daemon' = "ended"
    /\ UNCHANGED <<main, lua, flags, woken, ubusd, queue, call, owed>>

---------------------------------------------------------------------------
(* SIGINT or SIGTERM, from uloop_init on. *)
Signal ==
    /\ Looping \/ main = "starting"
    /\ cancelled' = TRUE /\ woken' = TRUE
    /\ UNCHANGED <<main, daemon, lua, flags, ubusd, queue, call, owed>>

MainStep ==
    \/ Initialize \/ EnterLoop \/ CheckCancelled
    \/ WakeUp \/ ConnectionLost \/ HandleFlag \/ HandleStatus
    \/ StatusLock \/ StatusReply
    \/ RequestStop \/ JoinAndExit

DaemonStep ==
    \/ Boot \/ NeedLua \/ Lock \/ LuaReturns \/ Notify \/ Notified
    \/ SessionEnds \/ TestWake \/ Block \/ Period \/ Leave

Environment ==
    \/ \E c \in Clients, m \in ClientMethods : Call(c, m)
    \/ \E c \in Callers : CallTimeout(c)
    \/ UbusdStops \/ Signal

Next == MainStep \/ DaemonStep \/ Environment

Spec == Init /\ [][Next]_vars

(* Both threads are scheduled; a thread that waits for the mutex gets it     *)
(* when it is free again and again (between two uses the daemon waits for    *)
(* the network); sessions and their RPCs come to an end, and so does the     *)
(* join of the listener when the daemon restarts it or ends, as long as no   *)
(* peer of its is silent for ever (ConnectionRequestServer: StopReturns); a  *)
(* wait_for expires; the ubus tool gives up.  Nothing is assumed of clients  *)
(* and signals.                                                              *)
FairSpec ==
    /\ Spec
    /\ WF_vars(MainStep) /\ WF_vars(DaemonStep)
    /\ SF_vars(StatusLock) /\ SF_vars(Lock) /\ SF_vars(SessionEnds)
    /\ WF_vars(CallTimeout(Child))

---------------------------------------------------------------------------
(* The server, the daemon and its engine are destroyed only when the thread  *)
(* that uses them has ended (main.cpp: daemonThread.join before return).     *)
DestroyedUnused ==
    main = "exited" => daemon \in {"unborn", "ended"} /\ lua = "none"

(* A caller that is told its reload was accepted is right: the daemon was    *)
(* asked to reload after the call was made (UbusServer::reload).             *)
AcceptedMeansRequested ==
    \A c \in Callers : call[c] = "accepted" => c \notin owed

(* Whoever waits for the other thread gets on: the notification inside a     *)
(* transaction comes back, even when the thread that has to answer it waits  *)
(* for the mutex the transaction holds, or has left its loop                 *)
(* (transformer.lua: notify_runtime_reload); and status() gets past that     *)
(* mutex, delayed by a transaction, never blocked for good                   *)
(* (Tr069Daemon::status).                                                    *)
WaitsEnd ==
    /\ daemon = "notifying" ~> daemon # "notifying"
    /\ main = "status" ~> main # "status"

(* A reload that was passed on is requested from the daemon even if its      *)
(* caller has given up and reported a failed notification, unless the        *)
(* process is about to end: no commit is left unannounced.                   *)
Leaving == main \in {"stopping", "joining", "exited"}
ReloadDelivered == \A c \in Callers : c \in owed ~> (c \notin owed \/ Leaving)

(* A cancelled loop leads to the end of the process: after a signal, after   *)
(* the loss of the bus, and, if the daemon thread ended by itself, with the  *)
(* next call that wakes the poll.  This holds where the daemon waits with a  *)
(* period: requestStop notifies without the mutex (Tr069Daemon.cpp:398), and *)
(* a stop that falls into the gap before an untimed wait is lost.            *)
Noticed == Looping /\ cancelled /\ (woken \/ queue # <<>> \/ main # "poll")
CancelEndsProcess == Timed => (Noticed ~> main = "exited")

(* The daemon thread treats requests as the loop of Tr069Daemon does: both   *)
(* implement RunLoop.                                                        *)
Phase == CASE daemon \in {"unborn", "boot", "returned", "ended"} -> "off"
           [] daemon = "wait" -> "testing"
           [] daemon \in {"blocking", "blocked"} -> daemon
           [] OTHER -> "busy"
Loop == INSTANCE RunLoop WITH phase <- Phase, Flags <- FlagMethods \cup {"stop"}
ImplementsRunLoop == Loop!Spec

==============================================================================
