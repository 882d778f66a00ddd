------------------------- MODULE UbusRuntimeProofs -------------------------
(* Safety of the ubus runtime for any clients, methods and queue bound.     *)
EXTENDS UbusRuntime, TLAPS

USE CallersAssumption, MethodsAssumption, BoundsAssumption DEF Callers, FlagMethods, Methods

(* Giving up changes who waits for a call, never the call (CallTimeout).    *)
LEMMA ForgottenKeeps ==
    ASSUME queue \in Seq(Calls), NEW S \in SUBSET Callers
    PROVE  /\ Forgotten(S) \in Seq(Calls)
           /\ Len(Forgotten(S)) = Len(queue)
           /\ \A i \in 1..Len(queue) :
                /\ Forgotten(S)[i].method = queue[i].method
                /\ Forgotten(S)[i].caller \in {queue[i].caller, Gone} \ S
<1> DEFINE q == Forgotten(S)
<1>1. Len(queue) \in Nat /\ \A i \in 1..Len(queue) : queue[i] \in Calls
  OBVIOUS
<1>2. ASSUME NEW i \in 1..Len(queue)
      PROVE  /\ q[i] \in Calls
             /\ q[i].method = queue[i].method
             /\ q[i].caller \in {queue[i].caller, Gone} \ S
  <2>1. q[i] = IF queue[i].caller \in S THEN [queue[i] EXCEPT !.caller = Gone] ELSE queue[i]
    BY DEF Forgotten
  <2>2. queue[i] \in Calls
    BY <1>1
  <2>3. CASE queue[i].caller \in S
    BY <2>1, <2>2, <2>3 DEF Calls
  <2>4. CASE queue[i].caller \notin S
    BY <2>1, <2>2, <2>4
  <2> QED
    BY <2>3, <2>4
<1>3. q \in [1..Len(queue) -> Calls]
  BY <1>2 DEF Forgotten
<1>4. q \in Seq(Calls) /\ Len(q) = Len(queue)
  BY <1>1, <1>3
<1> QED
  BY <1>2, <1>4

(* The first call leaves the queue, the others move up (ubus_send_reply).   *)
LEMMA TailMovesUp ==
    ASSUME queue \in Seq(Calls), queue # <<>>
    PROVE  /\ Tail(queue) \in Seq(Calls)
           /\ Len(queue) \in Nat \ {0}
           /\ Len(Tail(queue)) = Len(queue) - 1
           /\ \A i \in 1..(Len(queue) - 1) : Tail(queue)[i] = queue[i + 1]
           /\ Head(queue) = queue[1] /\ Head(queue) \in Calls
  OBVIOUS

(* A new call waits behind the others (ubus call).                          *)
LEMMA AppendQueues ==
    ASSUME queue \in Seq(Calls), NEW e \in Calls
    PROVE  /\ Append(queue, e) \in Seq(Calls)
           /\ Len(Append(queue, e)) = Len(queue) + 1
           /\ \A i \in 1..Len(queue) : Append(queue, e)[i] = queue[i]
           /\ Append(queue, e)[Len(queue) + 1] = e
           /\ Append(queue, e) # <<>>
           /\ queue # <<>> => Head(Append(queue, e)) = Head(queue)
  OBVIOUS

---------------------------------------------------------------------------
(* The state of the process is well typed, and the call that status() is    *)
(* answering stays at the head of the queue whatever its caller does        *)
(* (UbusServer::status).                                                    *)
THEOREM RuntimeTypeCorrect == Spec => []TypeOK
<1>1. Init => TypeOK
  <2> SUFFICES ASSUME Init PROVE TypeOK
    OBVIOUS
  <2>1. {cancelled, woken, ubusd} \subseteq BOOLEAN
    BY DEF Init
  <2>2. queue \in Seq(Calls) /\ call \in [Callers -> {"idle", "waiting", "accepted", "failed"}]
    BY DEF Init
  <2> QED
    BY <2>1, <2>2 DEF Init, TypeOK
<1>2. ASSUME TypeOK, [Next]_vars
      PROVE  TypeOK'
  <2> USE <1>2 DEF TypeOK
  <2>1. ASSUME NEW c \in Callers, NEW m \in Methods, Calling(c, m), main' = main
        PROVE  /\ queue' \in Seq(Calls)
               /\ call' \in [Callers -> {"idle", "waiting", "accepted", "failed"}]
               /\ owed' \subseteq Callers
               /\ main' \in {"status", "reading"} =>
                     queue' # <<>> /\ Head(queue').method = "status"
    <3>1. [caller |-> c, method |-> m] \in Calls
      BY DEF Calls
    <3>2. CASE ubusd /\ Registered
      <4> DEFINE e == [caller |-> c, method |-> m]
      <4>1. /\ queue' = Append(queue, e)
            /\ call' = [call EXCEPT ![c] = "waiting"]
            /\ owed' = IF m = "reload" THEN owed \cup {c} ELSE owed
        BY <2>1, <3>2 DEF Calling
      <4>2. queue' \in Seq(Calls) /\ queue' # <<>>
        BY <3>1, <4>1, AppendQueues
      <4>3. queue # <<>> => Head(queue') = Head(queue)
        BY <3>1, <4>1, AppendQueues
      <4> QED
        BY <2>1, <4>1, <4>2, <4>3
    <3>3. CASE ~(ubusd /\ Registered)
      BY <2>1, <3>3 DEF Calling
    <3> QED
      BY <3>2, <3>3
  <2>2. ASSUME queue # <<>>, Answer
        PROVE  /\ queue' \in Seq(Calls)
               /\ call' \in [Callers -> {"idle", "waiting", "accepted", "failed"}]
    BY <2>2, TailMovesUp DEF Answer
  <2>3. ASSUME NEW S \in SUBSET Callers, queue' = Forgotten(S), main' = main
        PROVE  /\ queue' \in Seq(Calls)
               /\ main' \in {"status", "reading"} =>
                     queue' # <<>> /\ Head(queue').method = "status"
    <3>1. /\ queue' \in Seq(Calls) /\ Len(queue') = Len(queue)
          /\ \A i \in 1..Len(queue) : queue'[i].method = queue[i].method
      BY <2>3, ForgottenKeeps
    <3>2. ASSUME queue # <<>>
          PROVE  queue' # <<>> /\ Head(queue').method = Head(queue).method
      <4>1. Len(queue) \in Nat \ {0}
        BY <3>2, TailMovesUp
      <4>2. queue' # <<>> /\ 1 \in 1..Len(queue)
        BY <3>1, <4>1
      <4>3. Head(queue') = queue'[1] /\ Head(queue) = queue[1]
        BY <3>1, <3>2, <4>2
      <4> QED
        BY <3>1, <4>2, <4>3
    <3> QED
      BY <2>3, <3>1, <3>2
  <2>4. ASSUME NEW c \in Clients, NEW m \in ClientMethods, Call(c, m)
        PROVE  TypeOK'
    BY <2>1, <2>4 DEF Call
  <2>5. ASSUME NEW c \in Callers, CallTimeout(c)
        PROVE  TypeOK'
    <3>1. {c} \in SUBSET Callers
      OBVIOUS
    <3> QED
      BY <2>3, <2>5, <3>1 DEF CallTimeout
  <2>6. CASE UbusdStops
    <3>1. Callers \in SUBSET Callers
      OBVIOUS
    <3> QED
      BY <2>3, <2>6, <3>1 DEF UbusdStops
  <2>7. CASE HandleFlag
    <3>1. flags' \subseteq FlagMethods \cup {"stop"} /\ daemon' \in {daemon, "wait"}
      BY <2>7 DEF HandleFlag, Request
    <3> QED
      BY <2>2, <2>7, <3>1 DEF HandleFlag
  <2>8. CASE StatusReply
    BY <2>2, <2>8 DEF StatusReply
  <2>9. CASE RequestStop
    BY <2>9 DEF RequestStop, StopDaemon, Request
  <2>10. CASE Initialize \/ EnterLoop \/ CheckCancelled \/ WakeUp \/ ConnectionLost
              \/ HandleStatus \/ StatusLock
    BY <2>10 DEF Initialize, EnterLoop, CheckCancelled, WakeUp, ConnectionLost,
                 HandleStatus, StatusLock
  <2>11. CASE JoinAndExit
    BY <2>11 DEF JoinAndExit
  <2>12. CASE Notify
    BY <2>1, <2>12 DEF Notify
  <2>13. CASE SessionEnds
    BY <2>13 DEF SessionEnds
  <2>14. CASE TestWake
    BY <2>14 DEF TestWake
  <2>15. CASE Boot \/ NeedLua \/ Lock \/ LuaReturns \/ Notified
              \/ Block \/ Period \/ Leave
    BY <2>15 DEF Boot, NeedLua, Lock, LuaReturns, Notified, LuaAfterNotify,
                 Block, Period, Leave
  <2>16. CASE Signal
    BY <2>16 DEF Signal
  <2>17. CASE UNCHANGED vars
    BY <2>17 DEF vars
  <2> QED
    BY <1>2, <2>4, <2>5, <2>6, <2>7, <2>8, <2>9, <2>10, <2>11, <2>12, <2>13, <2>14,
       <2>15, <2>16, <2>17 DEF Next, MainStep, DaemonStep, Environment
<1> QED
  BY <1>1, <1>2, PTL DEF Spec

---------------------------------------------------------------------------
(* The mutex is held by a thread that is inside the engine and by nobody     *)
(* else, so a failed or timed-out notification gives it back                 *)
(* (lua_transformer.cpp: the lock_guard of each method).                     *)
MutexAccounted ==
    /\ lua = "daemon" <=> daemon \in {"inLua", "notifying"}
    /\ lua = "main" <=> main = "reading"

(* The thread exists from the end of initialize to the end of its function. *)
ThreadAccounted ==
    /\ main = "init" => daemon = "unborn"
    /\ main = "exited" => daemon \in {"unborn", "ended"}
    /\ lua \in {"none", "main", "daemon"}

(* Inductive together: what holds the mutex, and what exists. *)
LEMMA ThreadAlways == Spec => [](MutexAccounted /\ ThreadAccounted)
<1> DEFINE IInv == MutexAccounted /\ ThreadAccounted
<1>1. Init => IInv
  BY DEF Init, MutexAccounted, ThreadAccounted
<1>2. ASSUME IInv, [Next]_vars
      PROVE  IInv'
  <2> USE <1>2 DEF MutexAccounted, ThreadAccounted
  <2>1. CASE \/ \E c \in Clients, m \in ClientMethods : Call(c, m)
             \/ \E c \in Callers : CallTimeout(c)
             \/ UbusdStops \/ Signal \/ UNCHANGED vars
    BY <2>1 DEF Call, CallTimeout, UbusdStops, Signal, Looping, vars
  <2>2. CASE HandleFlag
    <3>1. daemon' = daemon \/ (daemon = "blocked" /\ daemon' = "wait")
      BY <2>2 DEF HandleFlag, Request
    <3> QED
      BY <2>2, <3>1 DEF HandleFlag
  <2>3. CASE RequestStop
    <3>1. daemon' = daemon \/ (daemon = "blocked" /\ daemon' = "wait")
      BY <2>3 DEF RequestStop, StopDaemon, Request
    <3> QED
      BY <2>3, <3>1 DEF RequestStop
  <2>4. CASE Initialize \/ EnterLoop \/ CheckCancelled \/ WakeUp \/ ConnectionLost
             \/ HandleStatus \/ StatusLock \/ StatusReply
    BY <2>4 DEF Initialize, EnterLoop, CheckCancelled, WakeUp, ConnectionLost,
                HandleStatus, StatusLock, StatusReply
  <2>5. CASE JoinAndExit
    BY <2>5 DEF JoinAndExit, Joined
  <2>6. CASE \/ Boot \/ NeedLua \/ Lock \/ LuaReturns \/ Notify \/ Notified
    BY <2>6 DEF Boot, NeedLua, Lock, LuaReturns, Notify, Notified, LuaAfterNotify
  <2>7. CASE SessionEnds \/ TestWake \/ Block \/ Period \/ Leave
    BY <2>7 DEF SessionEnds, TestWake, Block, Period, Leave
  <2> QED
    BY <1>2, <2>1, <2>2, <2>3, <2>4, <2>5, <2>6, <2>7
       DEF Next, MainStep, DaemonStep, Environment
<1> QED
  BY <1>1, <1>2, PTL DEF Spec

(* Both threads obey the mutex, and none of them is left behind when main   *)
(* returns (lock_guard in lua_transformer.cpp, join in main.cpp).           *)
THEOREM MutexAndLifetime == Spec => [](MutexAccounted /\ DestroyedUnused)
<1>1. MutexAccounted /\ ThreadAccounted => MutexAccounted /\ DestroyedUnused
  BY DEF MutexAccounted, ThreadAccounted, DestroyedUnused
<1> QED
  BY <1>1, ThreadAlways, PTL

---------------------------------------------------------------------------
(* Whose name is in the queue waits for that call and has no other there.   *)
WaitingInQueue ==
    \A i \in 1..Len(queue), c \in Callers :
        queue[i].caller = c =>
            /\ call[c] = "waiting"
            /\ \A j \in 1..Len(queue) : queue[j].caller = c => i = j

(* An owed reload is in the queue, before every call its caller made since. *)
ReloadAhead(j) == \E i \in 1..Len(queue) : i <= j /\ queue[i].method = "reload"

OwedInQueue ==
    \A c \in owed :
        /\ call[c] # "accepted"
        /\ ReloadAhead(Len(queue))
        /\ \A j \in 1..Len(queue) : queue[j].caller = c => ReloadAhead(j)

QueueInv == WaitingInQueue /\ OwedInQueue

(* Calling keeps the order: the new call is behind everything owed (`ubus   *)
(* call tr69 <method>`).                                                    *)
LEMMA CallingKeepsQueue ==
    ASSUME TypeOK, QueueInv, NEW c \in Callers, NEW m \in Methods,
           call[c] # "waiting", Calling(c, m)
    PROVE  QueueInv'
<1> USE DEF TypeOK
<1>1. CASE ubusd /\ Registered
  <2> DEFINE e == [caller |-> c, method |-> m]
  <2>1. /\ queue' = Append(queue, e)
        /\ call' = [call EXCEPT ![c] = "waiting"]
        /\ owed' = IF m = "reload" THEN owed \cup {c} ELSE owed
    BY <1>1 DEF Calling
  <2>2. e \in Calls
    BY DEF Calls
  <2>n. PICK n \in Nat : n = Len(queue)
    OBVIOUS
  <2>3. /\ Len(queue') = n + 1
        /\ \A i \in 1..n : queue'[i] = queue[i]
        /\ queue'[n + 1] = e
    BY <2>1, <2>2, <2>n, AppendQueues
  <2>4. ASSUME NEW j \in 1..n, ReloadAhead(j)
        PROVE  ReloadAhead(j)'
    BY <2>3, <2>4, <2>n DEF ReloadAhead
  <2>5. m = "reload" => ReloadAhead(n + 1)'
    BY <2>3 DEF ReloadAhead
  <2>6. ReloadAhead(n) => ReloadAhead(n + 1)'
    BY <2>3, <2>n DEF ReloadAhead
  <2>7. WaitingInQueue'
    BY <2>1, <2>3, <2>n DEF QueueInv, WaitingInQueue
  <2>8. ASSUME NEW d \in owed'
        PROVE  /\ call'[d] # "accepted"
               /\ ReloadAhead(Len(queue))'
               /\ \A j \in 1..Len(queue') : queue'[j].caller = d => ReloadAhead(j)'
    <3>1. call'[d] # "accepted"
      BY <2>1, <2>8 DEF QueueInv, OwedInQueue
    <3>2. d \in owed \/ (d = c /\ m = "reload")
      BY <2>1, <2>8
    <3>3. ReloadAhead(n + 1)'
      BY <2>5, <2>6, <2>n, <3>2 DEF QueueInv, OwedInQueue
    <3>4. ASSUME NEW j \in 1..n, queue[j].caller = d
          PROVE  ReloadAhead(j)'
      <4>1. d \in owed
        BY <2>n, <3>2, <3>4 DEF QueueInv, WaitingInQueue
      <4> QED
        BY <2>4, <2>n, <3>4, <4>1 DEF QueueInv, OwedInQueue
    <3>5. \A j \in 1..Len(queue') : queue'[j].caller = d => ReloadAhead(j)'
      BY <2>3, <3>3, <3>4
    <3> QED
      BY <2>3, <3>1, <3>3, <3>5
  <2> QED
    BY <2>7, <2>8 DEF QueueInv, OwedInQueue
<1>2. CASE ~(ubusd /\ Registered)
  <2>1. call' = [call EXCEPT ![c] = "failed"] /\ queue' = queue /\ owed' = owed
    BY <1>2 DEF Calling
  <2> QED
    BY <2>1 DEF QueueInv, WaitingInQueue, OwedInQueue, ReloadAhead
<1> QED
  BY <1>1, <1>2

(* Giving up leaves the calls, and so the reloads, where they are.          *)
LEMMA GivingUpKeepsQueue ==
    ASSUME TypeOK, QueueInv, NEW S \in SUBSET Callers,
           queue' = Forgotten(S), owed' = owed,
           \A c \in Callers : call'[c] = IF c \in S /\ call[c] = "waiting" THEN "failed"
                                                                     ELSE call[c]
    PROVE  QueueInv'
<1> USE DEF TypeOK
<1>1. /\ Len(queue') = Len(queue)
      /\ \A i \in 1..Len(queue) :
           /\ queue'[i].method = queue[i].method
           /\ queue'[i].caller \in {queue[i].caller, Gone} \ S
  BY ForgottenKeeps
<1>2. \A j \in 1..Len(queue) : ReloadAhead(j) => ReloadAhead(j)'
  BY <1>1 DEF ReloadAhead
<1>3. WaitingInQueue'
  BY <1>1 DEF QueueInv, WaitingInQueue
<1>4. ReloadAhead(Len(queue)) => ReloadAhead(Len(queue))'
  BY <1>1 DEF ReloadAhead
<1>5. OwedInQueue'
  BY <1>1, <1>2, <1>4 DEF QueueInv, OwedInQueue
<1> QED
  BY <1>3, <1>5 DEF QueueInv

(* Answering a call that is no reload: the caller answered is owed nothing, *)
(* because its reload would be ahead of the head of the queue.              *)
LEMMA AnswerKeepsQueue ==
    ASSUME TypeOK, QueueInv, queue # <<>>, Answer,
           \/ Head(queue).method # "reload" /\ owed' = owed
           \/ owed' = {}
    PROVE  QueueInv'
<1> USE DEF TypeOK
<1>1. /\ Len(queue) \in Nat \ {0}
      /\ Len(queue') = Len(queue) - 1
      /\ \A i \in 1..(Len(queue) - 1) : queue'[i] = queue[i + 1]
      /\ Head(queue) = queue[1]
  BY TailMovesUp DEF Answer
<1>2. \A c \in Callers : call'[c] = IF c = queue[1].caller THEN "accepted" ELSE call[c]
  BY <1>1 DEF Answer
<1>3. WaitingInQueue'
  <2>1. ASSUME NEW i \in 1..Len(queue'), NEW c \in Callers, queue'[i].caller = c
        PROVE  /\ call'[c] = "waiting"
               /\ \A j \in 1..Len(queue') : queue'[j].caller = c => i = j
    <3>1. /\ i + 1 \in 1..Len(queue) /\ queue[i + 1].caller = c
          /\ \A j \in 1..Len(queue') :
                j + 1 \in 1..Len(queue) /\ queue'[j] = queue[j + 1]
      BY <1>1, <2>1
    <3>2. \A j \in 1..Len(queue) : queue[j].caller = c => j = i + 1
      BY <3>1 DEF QueueInv, WaitingInQueue
    <3>3. queue[1].caller # c
      BY <1>1, <2>1, <3>2
    <3>4. call'[c] = "waiting"
      BY <1>2, <3>1, <3>3 DEF QueueInv, WaitingInQueue
    <3>5. ASSUME NEW j \in 1..Len(queue'), queue'[j].caller = c
          PROVE  i = j
      <4>1. j + 1 = i + 1
        BY <3>1, <3>2, <3>5
      <4> QED
        BY <1>1, <4>1
    <3> QED
      BY <3>4, <3>5
  <2> QED
    BY <2>1 DEF WaitingInQueue
<1>4. CASE owed' = {}
  BY <1>3, <1>4 DEF QueueInv, OwedInQueue
<1>5. CASE queue[1].method # "reload" /\ owed' = owed
  <2>n. PICK n \in Nat : n = Len(queue) - 1
    BY <1>1
  <2>1. ASSUME NEW j \in 1..n, ReloadAhead(j + 1)
        PROVE  ReloadAhead(j)'
    <3>1. PICK i \in 1..(n + 1) : i <= j + 1 /\ queue[i].method = "reload"
      BY <1>1, <2>1, <2>n DEF ReloadAhead
    <3>2. i - 1 \in 1..n /\ i - 1 <= j /\ queue'[i - 1] = queue[i]
      BY <1>1, <1>5, <2>n, <3>1
    <3> QED
      BY <1>1, <2>n, <3>1, <3>2 DEF ReloadAhead
  <2>2. ~ReloadAhead(1)
    BY <1>1, <1>5 DEF ReloadAhead
  <2>3. ASSUME NEW d \in owed
        PROVE  /\ call'[d] # "accepted"
               /\ ReloadAhead(n)'
               /\ \A j \in 1..n : queue'[j].caller = d => ReloadAhead(j)'
    <3>1. queue[1].caller # d
      BY <1>1, <2>2, <2>3 DEF QueueInv, OwedInQueue
    <3>2. ReloadAhead(n + 1)
      BY <1>1, <2>n, <2>3 DEF QueueInv, OwedInQueue
    <3>3. n # 0
      BY <2>2, <3>2
    <3>4. call'[d] # "accepted"
      BY <1>2, <2>3, <3>1 DEF QueueInv, OwedInQueue
    <3>5. ASSUME NEW j \in 1..n, queue'[j].caller = d
          PROVE  ReloadAhead(j)'
      <4>1. j + 1 \in 1..Len(queue) /\ queue[j + 1].caller = d
        BY <1>1, <2>n, <3>5
      <4>2. ReloadAhead(j + 1)
        BY <2>3, <4>1 DEF QueueInv, OwedInQueue
      <4> QED
        BY <2>1, <4>2
    <3> QED
      BY <2>1, <3>2, <3>3, <3>4, <3>5
  <2> QED
    BY <1>1, <1>3, <1>5, <2>n, <2>3 DEF QueueInv, OwedInQueue
<1> QED
  BY <1>1, <1>4, <1>5

(* The notification is called from a transaction, and waited for there.     *)
ChildInTransaction ==
    /\ call[Child] = "waiting" => daemon = "notifying"
    /\ main = "init" => daemon = "unborn"

LEMMA OneNotification ==
    ASSUME TypeOK, ChildInTransaction, [Next]_vars
    PROVE  ChildInTransaction'
<1> USE DEF ChildInTransaction, TypeOK
<1>1. ASSUME NEW c \in Clients, NEW m \in ClientMethods, Call(c, m)
      PROVE  ChildInTransaction'
  <2>1. c # Child /\ call'[Child] = call[Child]
    BY <1>1 DEF Call, Calling
  <2> QED
    BY <1>1, <2>1 DEF Call
<1>2. CASE (\E c \in Callers : CallTimeout(c)) \/ UbusdStops
  BY <1>2 DEF CallTimeout, UbusdStops
<1>3. CASE HandleFlag
  <2>1. call'[Child] = "waiting" => call[Child] = "waiting"
    BY <1>3 DEF HandleFlag, Answer
  <2>2. daemon = "notifying" => daemon' = "notifying"
    BY <1>3 DEF HandleFlag, Request
  <2> QED
    BY <1>3, <2>1, <2>2 DEF HandleFlag
<1>4. CASE StatusReply
  BY <1>4 DEF StatusReply, Answer
<1>5. CASE RequestStop
  BY <1>5 DEF RequestStop, StopDaemon, Request
<1>6. CASE Notify \/ Notified
  BY <1>6 DEF Notify, Notified
<1>7. CASE \/ Initialize \/ EnterLoop \/ CheckCancelled \/ WakeUp \/ ConnectionLost
           \/ HandleStatus \/ StatusLock \/ JoinAndExit
  BY <1>7 DEF Initialize, EnterLoop, CheckCancelled, WakeUp, ConnectionLost,
              HandleStatus, StatusLock, JoinAndExit
<1>8. CASE \/ Boot \/ NeedLua \/ Lock \/ LuaReturns \/ SessionEnds \/ TestWake
           \/ Block \/ Period \/ Leave \/ Signal \/ UNCHANGED vars
  BY <1>8 DEF Boot, NeedLua, Lock, LuaReturns, SessionEnds, TestWake, Block, Period,
              Leave, Signal, vars
<1> QED
  BY <1>1, <1>2, <1>3, <1>4, <1>5, <1>6, <1>7, <1>8
     DEF Next, MainStep, DaemonStep, Environment

(* The queue holds what is owed, in order, whoever gave up and whenever.     *)
LEMMA QueueAlways == Spec => [](QueueInv /\ TypeOK)
<1>1. Init => QueueInv /\ ChildInTransaction
  BY DEF Init, QueueInv, WaitingInQueue, OwedInQueue, ChildInTransaction
<1>2. ASSUME TypeOK, QueueInv, ChildInTransaction, [Next]_vars
      PROVE  QueueInv'
  <2> USE <1>2
  <2>1. ASSUME UNCHANGED <<queue, call, owed>>
        PROVE  QueueInv'
    BY <2>1 DEF QueueInv, WaitingInQueue, OwedInQueue, ReloadAhead
  <2>2. ASSUME NEW c \in Clients, NEW m \in ClientMethods, Call(c, m)
        PROVE  QueueInv'
    BY <2>2, CallingKeepsQueue DEF Call
  <2>3. ASSUME NEW c \in Callers, CallTimeout(c)
        PROVE  QueueInv'
    <3>1. {c} \in SUBSET Callers
      OBVIOUS
    <3>2. \A d \in Callers :
             call'[d] = IF d \in {c} /\ call[d] = "waiting" THEN "failed" ELSE call[d]
      BY <2>3 DEF CallTimeout, TypeOK
    <3> QED
      BY <2>3, <3>1, <3>2, GivingUpKeepsQueue DEF CallTimeout
  <2>4. CASE UbusdStops
    <3>1. \A d \in Callers :
             call'[d] = IF d \in Callers /\ call[d] = "waiting" THEN "failed" ELSE call[d]
      BY <2>4 DEF UbusdStops
    <3> QED
      BY <2>4, <3>1, GivingUpKeepsQueue DEF UbusdStops
  <2>5. CASE HandleFlag
    <3>1. Head(queue).method = "reload" => owed' = {}
      BY <2>5 DEF HandleFlag, Request
    <3> QED
      BY <2>5, <3>1, AnswerKeepsQueue DEF HandleFlag
  <2>6. CASE StatusReply
    <3>1. queue # <<>> /\ Head(queue).method # "reload"
      BY <2>6 DEF StatusReply, TypeOK
    <3> QED
      BY <2>6, <3>1, AnswerKeepsQueue DEF StatusReply
  <2>7. CASE JoinAndExit
    BY <2>7 DEF JoinAndExit, QueueInv, WaitingInQueue, OwedInQueue
  <2>8. CASE Notify
    <3>1. call[Child] # "waiting"
      BY <2>8 DEF Notify, ChildInTransaction
    <3> QED
      BY <2>8, <3>1, CallingKeepsQueue DEF Notify
  <2>9. CASE Notified
    BY <2>9 DEF Notified, TypeOK, QueueInv, WaitingInQueue, OwedInQueue, ReloadAhead
  <2>10. CASE \/ Initialize \/ EnterLoop \/ CheckCancelled \/ WakeUp \/ ConnectionLost
              \/ HandleStatus \/ StatusLock \/ RequestStop
    BY <2>1, <2>10 DEF Initialize, EnterLoop, CheckCancelled, WakeUp, ConnectionLost,
                       HandleStatus, StatusLock, RequestStop
  <2>11. CASE \/ Boot \/ NeedLua \/ Lock \/ LuaReturns \/ SessionEnds \/ TestWake
              \/ Block \/ Period \/ Leave \/ Signal \/ UNCHANGED vars
    BY <2>1, <2>11 DEF Boot, NeedLua, Lock, LuaReturns, SessionEnds, TestWake,
                       Block, Period, Leave, Signal, vars
  <2> QED
    BY <2>2, <2>3, <2>4, <2>5, <2>6, <2>7, <2>8, <2>9, <2>10, <2>11
       DEF Next, MainStep, DaemonStep, Environment
<1> QED
  BY <1>1, <1>2, RuntimeTypeCorrect, OneNotification, PTL DEF Spec

(* A caller that is told its reload was accepted is right, whoever gave up  *)
(* before it and whatever the thread was doing (UbusServer::reload).        *)
THEOREM AcceptedReloadsRequested == Spec => []AcceptedMeansRequested
<1>1. QueueInv => AcceptedMeansRequested
  BY DEF QueueInv, OwedInQueue, AcceptedMeansRequested
<1> QED
  BY <1>1, QueueAlways, PTL

(* As long as a reload is owed, a reload call waits in the queue of the      *)
(* loop, and the poll cannot sleep: what ReloadDelivered rests on            *)
(* (notify_runtime_reload, UbusServer::reload).                              *)
THEOREM OwedReloadIsQueued ==
    Spec => [](owed # {} => \E i \in 1..Len(queue) : queue[i].method = "reload")
<1>1. QueueInv => (owed # {} => \E i \in 1..Len(queue) : queue[i].method = "reload")
  BY DEF QueueInv, OwedInQueue, ReloadAhead
<1> QED
  BY <1>1, QueueAlways, PTL

---------------------------------------------------------------------------
(* Who can go on: the guards of the steps that need nobody outside.          *)
MainCanGo ==
    \/ main \in {"init", "starting", "check", "reading", "stopping"}
    \/ main = "poll" /\ (woken \/ queue # <<>> \/ ~ubusd)
    \/ main = "status" /\ lua = "none"
    \/ main = "joining" /\ Joined

DaemonCanGo ==
    \/ daemon \in {"boot", "work", "inLua", "wait", "blocking", "returned"}
    \/ daemon = "locking" /\ lua = "none"
    \/ daemon = "notifying" /\ call[Child] # "waiting"
    \/ daemon = "blocked" /\ Timed

NotificationTimesOut == daemon = "notifying" /\ call[Child] = "waiting"

(* Nothing to do until somebody calls, signals or requests. *)
AtRest ==
    \/ main = "exited"
    \/ main = "poll" /\ daemon \in {"blocked", "ended"}

(* The stop came in the gap before Block, and no period ends the wait. *)
StopLost == main = "joining" /\ daemon = "blocked" /\ "stop" \in flags /\ ~Timed

(* The thread that is joined has been told to stop, and exists. *)
StopTold ==
    /\ main = "joining" => "stop" \in flags
    /\ daemon = "unborn" => main \in {"init", "exited"}

(* First is one of the requests, and not the stop. *)
LEMMA FirstIsRequested ==
    ASSUME TypeOK, flags # {}, "stop" \notin flags
    PROVE  First \in flags /\ First \in FlagMethods
<1>1. \E f \in flags : \/ f = "reconnect"
                       \/ f = "inform_now" /\ "reconnect" \notin flags
                       \/ f = "reload" /\ flags = {"reload"}
  BY DEF TypeOK
<1> QED
  BY <1>1 DEF First, TypeOK

LEMMA StopToldStep == TypeOK /\ StopTold /\ [Next]_vars => StopTold'
<1> SUFFICES ASSUME TypeOK, StopTold, [Next]_vars PROVE StopTold'
  OBVIOUS
<1> USE DEF StopTold
<1>1. CASE HandleFlag
  BY <1>1 DEF HandleFlag, Request
<1>2. CASE RequestStop
  BY <1>2 DEF RequestStop, StopDaemon, Request
<1>3. CASE SessionEnds
  BY <1>3 DEF SessionEnds
<1>4. CASE TestWake
  <2>1. "stop" \in flags => "stop" \in flags'
    BY <1>4 DEF TestWake
  <2> QED
    BY <1>4, <2>1 DEF TestWake
<1>5. CASE \/ Initialize \/ EnterLoop \/ CheckCancelled \/ WakeUp \/ ConnectionLost
           \/ HandleStatus \/ StatusLock \/ StatusReply \/ JoinAndExit
  BY <1>5 DEF Initialize, EnterLoop, CheckCancelled, WakeUp, ConnectionLost, HandleStatus,
              StatusLock, StatusReply, JoinAndExit
<1>6. CASE \/ Boot \/ NeedLua \/ Lock \/ LuaReturns \/ Notify \/ Notified
           \/ Block \/ Period \/ Leave
  BY <1>6 DEF Boot, NeedLua, Lock, LuaReturns, Notify, Notified, Block, Period, Leave
<1>7. CASE \/ \E c \in Clients, m \in ClientMethods : Call(c, m)
           \/ \E c \in Callers : CallTimeout(c)
           \/ UbusdStops \/ Signal \/ UNCHANGED vars
  BY <1>7 DEF Call, CallTimeout, UbusdStops, Signal, vars
<1> QED
  BY <1>1, <1>2, <1>3, <1>4, <1>5, <1>6, <1>7 DEF Next, MainStep, DaemonStep, Environment

(* The two threads never wait for each other in a circle: at any time one of *)
(* them can go on, or the notification times out, or the process is at rest, *)
(* or, without a period, a stop was lost in the gap before Block.  Main may  *)
(* wait for the mutex, the answer to a notification for main, the join for   *)
(* the thread (main.cpp, lua_transformer.cpp, notify_runtime_reload).        *)
THEOREM NoCircularWait ==
    Spec => [](MainCanGo \/ DaemonCanGo \/ NotificationTimesOut \/ AtRest \/ StopLost)
<1>1. Init => StopTold
  BY DEF Init, StopTold
<1>2. TypeOK /\ MutexAccounted /\ StopTold
        => MainCanGo \/ DaemonCanGo \/ NotificationTimesOut \/ AtRest \/ StopLost
  <2> SUFFICES ASSUME TypeOK, MutexAccounted, StopTold
               PROVE  MainCanGo \/ DaemonCanGo \/ NotificationTimesOut \/ AtRest \/ StopLost
    OBVIOUS
  <2> USE DEF TypeOK, MutexAccounted, StopTold, MainCanGo, DaemonCanGo,
              NotificationTimesOut, AtRest, StopLost, Joined
  <2>1. CASE main \in {"init", "starting", "check", "reading", "stopping", "exited"}
    BY <2>1
  <2>2. CASE main = "status"
    BY <2>2
  <2>3. CASE main = "poll"
    BY <2>3
  <2>4. CASE main = "joining"
    BY <2>4
  <2> QED
    BY <2>1, <2>2, <2>3, <2>4
<1> QED
  BY <1>1, <1>2, StopToldStep, RuntimeTypeCorrect, MutexAndLifetime, PTL DEF Spec

(* How many steps of main are left until the join, once the loop is told. *)
StepsToJoin == CASE main = "poll" -> 5 [] main = "status" -> 4 [] main = "reading" -> 3
                 [] main = "check" -> 2 [] main = "stopping" -> 1 [] OTHER -> 0

LEMMA StepsOf ==
    /\ main = "poll" => StepsToJoin = 5
    /\ main = "status" => StepsToJoin = 4
    /\ main = "reading" => StepsToJoin = 3
    /\ main = "check" => StepsToJoin = 2
    /\ main = "stopping" => StepsToJoin = 1
BY DEF StepsToJoin

LEMMA StepsOfNext ==
    /\ main' = "poll" => StepsToJoin' = 5
    /\ main' = "status" => StepsToJoin' = 4
    /\ main' = "reading" => StepsToJoin' = 3
    /\ main' = "check" => StepsToJoin' = 2
    /\ main' = "stopping" => StepsToJoin' = 1
BY DEF StepsToJoin

(* A cancelled loop runs down: no step of main but brings it nearer to the   *)
(* join, and the cancellation is not taken back, whatever calls still come   *)
(* in: what CancelEndsProcess rests on (main.cpp, uloop_end).                *)
THEOREM CancelledRunsDown ==
    Spec => [][cancelled /\ Looping
                => cancelled' /\ (main' = main \/ StepsToJoin' < StepsToJoin)]_vars
<1>1. ASSUME TypeOK, [Next]_vars
      PROVE  [cancelled /\ Looping
                => cancelled' /\ (main' = main \/ StepsToJoin' < StepsToJoin)]_vars
  <2> SUFFICES ASSUME cancelled = TRUE, Looping, Next
               PROVE  cancelled' = TRUE /\ (main' = main \/ StepsToJoin' < StepsToJoin)
    BY <1>1 DEF TypeOK
  <2>1. CASE MainStep
    <3> USE StepsOf, StepsOfNext DEF Looping
    <3>1. CASE CheckCancelled
      BY <3>1 DEF CheckCancelled
    <3>2. CASE WakeUp
      BY <3>2 DEF WakeUp
    <3>4. CASE ConnectionLost
      BY <3>4 DEF ConnectionLost
    <3>5. CASE HandleStatus
      BY <3>5 DEF HandleStatus
    <3>6. CASE StatusLock
      BY <3>6 DEF StatusLock
    <3>7. CASE HandleFlag
      BY <3>7 DEF HandleFlag
    <3>8. CASE StatusReply
      BY <3>8 DEF StatusReply
    <3>3. CASE Initialize \/ EnterLoop \/ RequestStop \/ JoinAndExit
      BY <3>3 DEF Initialize, EnterLoop, RequestStop, JoinAndExit
    <3> QED
      BY <2>1, <3>1, <3>2, <3>3, <3>4, <3>5, <3>6, <3>7, <3>8 DEF MainStep
  <2>2. CASE DaemonStep
    BY <2>2 DEF DaemonStep, Boot, NeedLua, Lock, LuaReturns, Notify, Notified, SessionEnds,
                TestWake, Block, Period, Leave
  <2>3. CASE Environment
    BY <2>3 DEF Environment, Call, CallTimeout, UbusdStops, Signal
  <2> QED
    BY <2>1, <2>2, <2>3 DEF Next
<1> QED
  BY <1>1, RuntimeTypeCorrect, PTL DEF Spec

---------------------------------------------------------------------------
(* The refinement of RunLoop.                                              *)
Busy == {"work", "locking", "inLua", "notifying"}

LEMMA PhaseOf ==
    /\ daemon \in {"unborn", "boot", "returned", "ended"} => Phase = "off"
    /\ daemon \in Busy => Phase = "busy"
    /\ daemon = "wait" => Phase = "testing"
    /\ daemon \in {"blocking", "blocked"} => Phase = daemon
BY DEF Phase, Busy

LEMMA PhaseOfNext ==
    /\ daemon' \in {"unborn", "boot", "returned", "ended"} => Phase' = "off"
    /\ daemon' \in Busy => Phase' = "busy"
    /\ daemon' = "wait" => Phase' = "testing"
    /\ daemon' \in {"blocking", "blocked"} => Phase' = daemon'
BY DEF Phase, Busy

(* A request of the main thread is one of the loop. *)
LEMMA RequestOfMain ==
    ASSUME NEW f \in FlagMethods \cup {"stop"}, Request(f)
    PROVE  Loop!Next
<1>1. Phase' = IF Phase = "blocked" THEN "testing" ELSE Phase
  BY DEF Request, Phase
<1> QED
  BY <1>1 DEF Request, Loop!Next, Loop!Request

(* Every step of the process is one of the loop, or none. *)
LEMMA LoopStep ==
    TypeOK /\ ThreadAccounted /\ [Next]_vars => [Loop!Next]_Loop!vars
<1> SUFFICES ASSUME TypeOK, ThreadAccounted, [Next]_vars PROVE [Loop!Next]_Loop!vars
  OBVIOUS
<1> USE PhaseOf, PhaseOfNext DEF Loop!vars
<1>1. CASE UNCHANGED <<daemon, flags>>
  BY <1>1 DEF Phase
<1>2. CASE daemon \in Busy /\ daemon' \in Busy /\ UNCHANGED flags
  BY <1>2
<1>3. CASE HandleFlag
  BY <1>3, RequestOfMain DEF HandleFlag
<1>4. CASE RequestStop
  BY <1>4, RequestOfMain DEF RequestStop, StopDaemon
<1>5. CASE Initialize
  BY <1>1, <1>5 DEF Initialize, ThreadAccounted
<1>6. CASE Boot
  BY <1>6 DEF Boot, Busy, Loop!Next, Loop!Begin
<1>7. CASE SessionEnds
  BY <1>7 DEF SessionEnds, Busy, Loop!Next, Loop!Work
<1>8. CASE TestWake
  <2>1. CASE flags = {}
    BY <1>8, <2>1 DEF TestWake, Loop!Next, Loop!FindNothing
  <2>2. CASE "stop" \in flags
    BY <1>8, <2>2 DEF TestWake, Loop!Next, Loop!Take
  <2>3. CASE flags # {} /\ "stop" \notin flags
    <3>1. daemon' \in Busy /\ flags' = flags \ {First} /\ First \in flags \ {"stop"}
      BY <1>8, <2>3, FirstIsRequested DEF TestWake, Busy
    <3> QED
      BY <1>8, <3>1 DEF TestWake, Loop!Next, Loop!Take
  <2> QED
    BY <2>1, <2>2, <2>3
<1>9. CASE Block
  BY <1>9 DEF Block, Loop!Next, Loop!Block
<1>10. CASE Period
  BY <1>10 DEF Period, Busy, Loop!Next, Loop!Expire
<1>11. CASE Leave
  BY <1>11 DEF Leave
<1>12. CASE NeedLua \/ Lock \/ LuaReturns \/ Notify \/ Notified
  BY <1>2, <1>12 DEF NeedLua, Lock, LuaReturns, Notify, Notified, Busy
<1>13. CASE \/ EnterLoop \/ CheckCancelled \/ WakeUp \/ ConnectionLost \/ HandleStatus
            \/ StatusLock \/ StatusReply \/ JoinAndExit
  BY <1>1, <1>13 DEF EnterLoop, CheckCancelled, WakeUp, ConnectionLost, HandleStatus,
                     StatusLock, StatusReply, JoinAndExit
<1>14. CASE \/ \E c \in Clients, m \in ClientMethods : Call(c, m)
            \/ \E c \in Callers : CallTimeout(c)
            \/ UbusdStops \/ Signal \/ UNCHANGED vars
  BY <1>1, <1>14 DEF Call, CallTimeout, UbusdStops, Signal, vars
<1> QED
  BY <1>3, <1>4, <1>5, <1>6, <1>7, <1>8, <1>9, <1>10, <1>11, <1>12, <1>13, <1>14
     DEF Next, MainStep, DaemonStep, Environment

(* The daemon thread of this process is the loop Tr069Daemon details: both   *)
(* do with requests what RunLoop says.                                       *)
THEOREM RuntimeImplementsRunLoop == Spec => ImplementsRunLoop
<1>1. Init => Loop!Init
  BY DEF Init, Loop!Init, Phase
<1> QED
  BY <1>1, LoopStep, RuntimeTypeCorrect, ThreadAlways, PTL
     DEF Spec, ImplementsRunLoop, Loop!Spec

(* A step of the loop goes to sleep on a request only from the gap, and      *)
(* takes a request out only to act on it.                                    *)
LEMMA LoopStepPromises ==
    ASSUME Loop!Next, ~UNCHANGED <<Phase, flags>>
    PROVE  /\ Loop!Asleep' /\ flags' # {} => Phase = "blocking"
           /\ \A flag \in flags \ flags' :
                 \/ Phase' = "off" /\ flags' = {}
                 \/ flag # "stop" /\ (Phase' = "busy" \/ "stop" \in flags)
<1> USE DEF Loop!Asleep
<1>1. ASSUME NEW flag, Loop!Request(flag)
      PROVE  flags \ flags' = {} /\ (Loop!Asleep' /\ flags' # {} => Phase = "blocking")
  BY <1>1 DEF Loop!Request
<1>2. CASE Loop!NewProcess \/ Loop!Work \/ Loop!Take
  BY <1>2 DEF Loop!NewProcess, Loop!Work, Loop!Take
<1>3. CASE \/ Loop!Begin \/ Loop!FindNothing \/ Loop!Block
           \/ Loop!SpuriousWakeup \/ Loop!Expire \/ Loop!Periodic
  BY <1>3 DEF Loop!Begin, Loop!FindNothing, Loop!Block, Loop!SpuriousWakeup,
              Loop!Expire, Loop!Periodic
<1> QED
  BY <1>1, <1>2, <1>3 DEF Loop!Next

(* So no reload that was accepted, and no stop before the join, is lost by   *)
(* the thread; it sleeps on one only from the gap before Block.              *)
THEOREM ThreadLosesNoRequest == Spec => Loop!SleepsOnlyPastGap /\ Loop!RequestsKept
<1>1. [Loop!Next]_Loop!vars
        => [(Loop!Asleep' /\ flags' # {}) => Phase = "blocking"]_Loop!vars
  BY LoopStepPromises DEF Loop!vars
<1>2. [Loop!Next]_Loop!vars
        => [\A flag \in flags \ flags' :
              \/ Phase' = "off" /\ flags' = {}
              \/ flag # "stop" /\ (Phase' = "busy" \/ "stop" \in flags)]_Loop!vars
  BY LoopStepPromises DEF Loop!vars
<1> QED
  BY <1>1, <1>2, RuntimeImplementsRunLoop, PTL
     DEF ImplementsRunLoop, Loop!Spec, Loop!SleepsOnlyPastGap, Loop!RequestsKept

============================================================================
