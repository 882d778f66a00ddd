------------------------- MODULE Tr069DaemonProofs -------------------------
(***************************************************************************)
(* Theorems about the daemon's main loop, for every value of the constants. *)
(***************************************************************************)
EXTENDS Tr069Daemon, TLAPS

(* A refresh in progress knows where to return to. *)
CallerKnown ==
    pc \in {"refresh", "settings", "restart"} => ret \in Returns \ {"none"}

TypeInv == TypeOK /\ CallerKnown

USE DEF CwmpUp, StopSeen, Exit, CallRefresh

(* The constants and the modes of the switches, in the form the proofs need. *)
LEMMA ConstantTypes ==
    /\ NoUrl \notin Urls /\ NoListener \notin Listeners
    /\ DefaultListener \in Listeners
    /\ Profiles \subseteq Settings
    /\ AllowMock \in BOOLEAN
BY ValuesAssumption, ProfilesAssumption, SwitchesAssumption

(* A store that a profile was written to is a store. *)
LEMMA EditedType ==
    ASSUME NEW u \in Config, NEW p \in Profiles
    PROVE  Edited(u, p) \in Config
BY ConstantTypes DEF Edited, Config, Settings

(* A store or config_ with a milestone changed is one still. *)
LEMMA MilestoneTypes ==
    ASSUME NEW c \in Config, NEW b \in BOOLEAN
    PROVE  /\ [c EXCEPT !.bootstrapDone = b] \in Config
           /\ [c EXCEPT !.pendingReboot = b] \in Config
BY DEF Config

(* The member defaults of DaemonConfig are a configuration. *)
LEMMA UnreadType == UnreadConfig \in Config
BY ConstantTypes DEF UnreadConfig, Config

(* refreshConfig starts from a well-typed scratch record. *)
LEMMA NothingReadType == NothingRead \in Management
BY DEF NothingRead, Management

(* The contract's outcomes are SessionOutcomes. *)
LEMMA OutcomeType ==
    /\ Failed \in ContractOutcomes
    /\ \A o \in ContractOutcomes : o \in SessionOutcome
BY DEF ContractOutcomes, Failed, Outcome, SessionOutcome

(* The event lists run builds hold event codes only. *)
LEMMA EventTypes ==
    /\ BootEvents \subseteq EventCodes
    /\ \A flag \in Flags : WakeEvents(flag) \subseteq EventCodes
    /\ {Boot, MReboot} \subseteq EventCodes
    /\ {Periodic} \subseteq EventCodes /\ {ValueChange} \subseteq EventCodes
BY DEF BootEvents, WakeEvents, EventCodes, Boot, Bootstrap, MReboot, Periodic,
       ValueChange, ConnectionRequest

(* The initial daemon is well typed. *)
LEMMA TypeInit == Init => TypeInv
<1> SUFFICES ASSUME Init PROVE TypeInv
  OBVIOUS
<1>1. uci \in Config /\ flash \in Config
  BY UnreadType, EditedType DEF Init
<1>2. config \in Config /\ upd \in Management /\ outcome \in ContractOutcomes
  BY UnreadType, NothingReadType, OutcomeType DEF Init
<1>3. flags \subseteq Flags /\ events \subseteq EventCodes
  BY DEF Init
<1>4. pc \in Pcs /\ ret \in Returns /\ scan \in 0..6
  BY DEF Init, Pcs, Returns
<1>7. /\ signaled \in BOOLEAN
      /\ changed \in BOOLEAN /\ reloadSeen \in BOOLEAN /\ owed \in BOOLEAN
      /\ touched \in BOOLEAN /\ cause \in BOOLEAN /\ untold \in BOOLEAN
  BY Zenon DEF Init
<1>5. /\ state \in {"starting", "idle", "connecting", "error"}
      /\ server \in Listeners \cup {NoListener}
      /\ contact \in {"none", "inform", "bootstrap"}
  BY DEF Init
<1>6. CallerKnown
  BY DEF Init, CallerKnown
<1> QED
  BY <1>1, <1>2, <1>3, <1>4, <1>5, <1>6, <1>7 DEF TypeInv, TypeOK

(* Every step of the daemon and of its environment keeps the types. *)
LEMMA TypeStep == TypeInv /\ [Next]_vars => TypeInv'
<1> SUFFICES ASSUME TypeInv, [Next]_vars PROVE TypeInv'
  OBVIOUS
<1> USE DEF TypeInv, TypeOK, CallerKnown, Pcs, Returns, local, ghosts
<1>1. CASE ReadManagement
  <2>1. upd' \in Management
    <3>1. uci.enable \in BOOLEAN /\ uci.periodic \in BOOLEAN /\ uci.url \in Urls \cup {NoUrl}
      BY DEF Config
    <3>2. PICK e \in Read(uci.enable, TRUE), u \in Read(uci.url, NoUrl),
               p \in Read(uci.periodic, TRUE) :
                 upd' = [enable |-> e, url |-> u, periodic |-> p]
      BY <1>1 DEF ReadManagement
    <3>3. e \in BOOLEAN /\ u \in Urls \cup {NoUrl} /\ p \in BOOLEAN
      BY <3>1, <3>2 DEF Read
    <3> QED
      BY <3>2, <3>3 DEF Management
  <2>2. touched' \in BOOLEAN /\ untold' \in BOOLEAN
    BY <1>1 DEF ReadManagement
  <2> QED
    BY <1>1, <2>1, <2>2 DEF ReadManagement
<1>2. CASE ApplyConfig
  <2>1. config' \in Config
    <3>1. PICK m \in Read(uci.mock, FALSE), b \in Read(uci.bootstrapDone, FALSE),
               r \in Read(uci.pendingReboot, FALSE),
               l \in Read(uci.listener, DefaultListener) : config' = NewConfig(m, b, r, l)
      BY <1>2, Zenon DEF ApplyConfig
    <3>2. /\ uci.bootstrapDone \in BOOLEAN /\ uci.pendingReboot \in BOOLEAN
          /\ uci.mock \in BOOLEAN /\ uci.listener \in Listeners \cup {NoListener}
          /\ config.url \in Urls \cup {NoUrl}
      BY DEF Config
    <3>3. /\ upd.enable \in BOOLEAN /\ upd.periodic \in BOOLEAN
          /\ KeepUrl(upd.url, config.url, Initial) \in Urls \cup {NoUrl}
      BY <3>2 DEF Management, KeepUrl
    <3>4. /\ b \in BOOLEAN /\ r \in BOOLEAN /\ (AllowMock /\ m) \in BOOLEAN
          /\ l \in Listeners \cup {NoListener}
      BY <3>1, <3>2, ConstantTypes DEF Read
    <3> QED
      BY <3>1, <3>3, <3>4 DEF Config, NewConfig
  <2>2. changed' \in BOOLEAN /\ touched' \in BOOLEAN /\ untold' \in BOOLEAN
    BY <1>2 DEF ApplyConfig, ConfigChanged
  <2>3. pc' \in Pcs /\ ret' \in Returns /\ CallerKnown'
    BY <1>2 DEF ApplyConfig
  <2>4. upd' \in Management
    BY <1>2, NothingReadType DEF ApplyConfig
  <2> QED
    BY <1>2, <2>1, <2>2, <2>3, <2>4 DEF ApplyConfig
<1>3. CASE RestartServer
  BY <1>3 DEF RestartServer, Config
<1>4. CASE Start \/ NotReady
  BY <1>4 DEF Start, NotReady
<1>5. CASE Booted
  BY <1>5, EventTypes DEF Booted
<1>6. CASE Top
  BY <1>6 DEF Top
<1>7. ASSUME NEW o \in ContractOutcomes, SessionEnd(o) PROVE TypeInv'
  BY <1>7 DEF SessionEnd
<1>8. CASE PersistBootstrap
  <2>1. config' \in Config /\ uci' \in Config /\ touched' \in BOOLEAN
    BY <1>8, MilestoneTypes DEF PersistBootstrap, BootstrapRecorded, UciSet
  <2> QED
    BY <1>8, <2>1 DEF PersistBootstrap
<1>9. CASE CommitBootstrap \/ CommitClear
  BY <1>9 DEF CommitBootstrap, CommitClear, Commit, UciCommit
<1>10. CASE ClearReboot
  <2>1. config' \in Config /\ uci' \in Config /\ touched' \in BOOLEAN
    BY <1>10, MilestoneTypes DEF ClearReboot, UciSet
  <2> QED
    BY <1>10, <2>1 DEF ClearReboot
<1>11. CASE Download \/ TransferComplete
  BY <1>11 DEF Download, TransferComplete
<1>12. CASE PersistReboot
  <2>1. config' \in Config /\ uci' \in Config /\ touched' \in BOOLEAN
    BY <1>12, MilestoneTypes DEF PersistReboot, UciSet
  <2>7. pc' \in Pcs /\ changed' \in BOOLEAN /\ cause' \in BOOLEAN
    BY <1>12 DEF PersistReboot
  <2>8. TypeOK'
    BY <1>12, <2>1, <2>7 DEF PersistReboot
  <2>9. CallerKnown'
    BY <1>12 DEF PersistReboot
  <2> QED
    BY <2>8, <2>9
<1>13. CASE CommitReboot
  BY <1>13 DEF CommitReboot, UciCommit, Config
<1>14. CASE ExecuteReboot
  BY <1>14 DEF ExecuteReboot
<1>15. CASE MockBoot
  <2>1. events' \subseteq EventCodes /\ outcome' \in ContractOutcomes
    BY <1>15, EventTypes, OutcomeType DEF MockBoot
  <2>7. pc' \in Pcs /\ changed' \in BOOLEAN /\ cause' \in BOOLEAN
    BY <1>15 DEF MockBoot
  <2>8. TypeOK'
    BY <1>15, <2>1, <2>7 DEF MockBoot
  <2>9. CallerKnown'
    BY <1>15 DEF MockBoot
  <2> QED
    BY <2>8, <2>9
<1>16. CASE DrainReload
  BY <1>16, OutcomeType DEF DrainReload, Drained
<1>17. CASE Decide
  <2>1. events' \subseteq EventCodes
    BY <1>17, EventTypes DEF Decide
  <2>7. /\ pc' \in Pcs /\ server' \in Listeners \cup {NoListener}
        /\ changed' \in BOOLEAN /\ cause' \in BOOLEAN /\ reloadSeen' \in BOOLEAN
    BY <1>17 DEF Decide
  <2>8. TypeOK'
    BY <1>17, <2>1, <2>7 DEF Decide
  <2>9. CallerKnown'
    BY <1>17 DEF Decide
  <2> QED
    BY <2>8, <2>9
<1>18. CASE TestWake \/ Block \/ Timeout
  <2>1. signaled' \in BOOLEAN
    BY <1>18 DEF TestWake, Block, Timeout, Wake
  <2>2. scan' \in 0..6
    BY <1>18 DEF TestWake, Block, Timeout
  <2> QED
    BY <1>18, <2>1, <2>2 DEF TestWake, Block, Timeout
<1>19. CASE TestFlag
  <2>1. scan' \in 0..6
    BY <1>19 DEF TestFlag, AfterTest
  <2>2. events' \subseteq EventCodes
    <3> DEFINE flag == WakeOrder[scan]
    <3>1. flag \in Flags
      BY <1>19 DEF TestFlag, WakeOrder, Flags
    <3>2. events' = events \/ events' = WakeEvents(flag)
      BY <1>19 DEF TestFlag
    <3> QED
      BY <3>1, <3>2, EventTypes
  <2>3. flags' \subseteq Flags /\ signaled' \in BOOLEAN
    BY <1>19 DEF TestFlag
  <2>4. pc' \in Pcs /\ ret' \in Returns /\ CallerKnown'
    BY <1>19 DEF TestFlag
  <2>5. server' \in Listeners \cup {NoListener}
    BY <1>19 DEF TestFlag
  <2> QED
    BY <1>19, <2>1, <2>2, <2>3, <2>4, <2>5 DEF TestFlag
<1>20. CASE NoFlag
  <2>1. events' \subseteq EventCodes
    BY <1>20, EventTypes DEF NoFlag
  <2>2. scan' \in 0..6
    BY <1>20 DEF NoFlag
  <2>7. pc' \in Pcs /\ signaled' \in BOOLEAN
    BY <1>20 DEF NoFlag
  <2>8. TypeOK'
    BY <1>20, <2>1, <2>2, <2>7 DEF NoFlag
  <2>9. CallerKnown'
    BY <1>20 DEF NoFlag
  <2> QED
    BY <2>8, <2>9
<1>21. CASE Reloaded
  <2>1. events' \subseteq EventCodes
    BY <1>21, EventTypes DEF Reloaded, Flags
  <2>7. pc' \in Pcs /\ changed' \in BOOLEAN /\ cause' \in BOOLEAN
    BY <1>21 DEF Reloaded
  <2>8. TypeOK'
    BY <1>21, <2>1, <2>7 DEF Reloaded
  <2>9. CallerKnown'
    BY <1>21 DEF Reloaded
  <2> QED
    BY <2>8, <2>9
<1>22. ASSUME NEW flag \in Requests, Request(flag) PROVE TypeInv'
  BY <1>22, RequestsAssumption DEF Request
<1>23. CASE SpuriousWakeup
  BY <1>23 DEF SpuriousWakeup
<1>24. ASSUME NEW p \in Profiles, Edit(p) PROVE TypeInv'
  BY <1>24, EditedType DEF Edit
<1>25. CASE Respawn \/ Crash \/ PowerLoss
  <2>1. uci' \in Config /\ flash' \in Config /\ owed' \in BOOLEAN
    BY <1>25 DEF Respawn, Crash, PowerLoss, Restart
  <2>2. config' \in Config /\ upd' \in Management /\ outcome' \in ContractOutcomes
    BY <1>25, UnreadType, NothingReadType, OutcomeType
       DEF Respawn, Crash, PowerLoss, Restart
  <2>3. flags' \subseteq Flags /\ events' \subseteq EventCodes
    BY <1>25 DEF Respawn, Crash, PowerLoss, Restart
  <2>6. pc' \in Pcs /\ ret' \in Returns /\ scan' \in 0..6
    BY <1>25 DEF Respawn, Crash, PowerLoss, Restart
  <2>7. /\ signaled' \in BOOLEAN
        /\ changed' \in BOOLEAN /\ reloadSeen' \in BOOLEAN
        /\ touched' \in BOOLEAN /\ cause' \in BOOLEAN /\ untold' \in BOOLEAN
    BY <1>25, Zenon DEF Respawn, Crash, PowerLoss, Restart
  <2>8. TypeOK'
    BY <1>25, <2>1, <2>2, <2>3, <2>6, <2>7 DEF Respawn, Crash, PowerLoss, Restart
  <2>9. CallerKnown'
    BY <1>25 DEF Respawn, Crash, PowerLoss, Restart
  <2> QED
    BY <2>8, <2>9
<1>26. CASE UNCHANGED vars
  BY <1>26 DEF vars
<1> QED
  BY <1>1, <1>2, <1>3, <1>4, <1>5, <1>6, <1>7, <1>8, <1>9, <1>10, <1>11, <1>12, <1>13,
     <1>14, <1>15, <1>16, <1>17, <1>18, <1>19, <1>20, <1>21, <1>22, <1>23, <1>24, <1>25,
     <1>26 DEF Next, DaemonStep, Environment

(* Every variable stays in its type. *)
THEOREM TypeCorrect == Spec => [](TypeOK /\ CallerKnown)
<1>1. Init => TypeInv
  BY TypeInit
<1>2. TypeInv /\ [Next]_vars => TypeInv'
  BY TypeStep
<1> QED
  BY <1>1, <1>2, PTL DEF Spec, TypeInv

---------------------------------------------------------------------------
(* Where a refresh returns to is never inside a persist step. *)
LEMMA CallerIsNoClear ==
    TypeInv /\ (pc = "settings" \/ pc = "restart")
      => ret \in {"booted", "reboot", "mockBoot", "decide", "reloaded"}
BY DEF TypeInv, CallerKnown, Returns

(* The daemon leaves a session by its end alone, unless its process dies. *)
LEMMA OnlySessionEnds ==
    ASSUME Next, pc = "session", pc' = "bootstrap"
    PROVE  \E o \in ContractOutcomes : SessionEnd(o)
BY DEF Next, DaemonStep, Environment, ReadManagement, ApplyConfig, RestartServer, Start,
       NotReady, Booted, Top, PersistBootstrap, CommitBootstrap, Commit, ClearReboot,
       CommitClear, Download, TransferComplete, PersistReboot, CommitReboot, ExecuteReboot,
       MockBoot, DrainReload, Decide, TestWake, Block, Timeout, TestFlag, NoFlag, Reloaded,
       Request, SpuriousWakeup, Edit, Respawn, Crash, PowerLoss, Restart

(* Nor the decision after a session, but by Decide. *)
LEMMA OnlyDecideLeaves ==
    ASSUME Next, pc = "decide", pc' = "top"
    PROVE  Decide
BY DEF Next, DaemonStep, Environment, ReadManagement, ApplyConfig, RestartServer, Start,
       NotReady, Booted, Top, SessionEnd, PersistBootstrap, CommitBootstrap, Commit,
       ClearReboot, CommitClear, Download, TransferComplete, PersistReboot, CommitReboot,
       ExecuteReboot, MockBoot, DrainReload, TestWake, Block, Timeout, TestFlag, NoFlag,
       Reloaded, Request, SpuriousWakeup, Edit, Respawn, Crash, PowerLoss, Restart

---------------------------------------------------------------------------
(* The reboot event.                                                       *)

(* A session that reported the reboot has paid the debt before the record   *)
(* is cleared.                                                             *)
PaidBeforeCleared ==
    /\ (/\ pc \in {"bootstrap", "bootstrapCommit", "clear"}
        /\ outcome.success /\ MReboot \in events) => ~owed
    /\ pc = "clearCommit" => ~owed

(* Between the first read and the first Inform config_ knows of the debt. *)
BootKnows ==
    (/\ pc = "booted" \/ (pc = "restart" /\ Initial)
     /\ owed /\ ~ReadFaults) => config.pendingReboot

RebootInv == RebootEventKept /\ PaidBeforeCleared /\ BootKnows

(* Every step keeps an owed reboot on record (pending_reboot_event). *)
LEMMA RebootStep == TypeInv /\ RebootInv /\ [Next]_vars => RebootInv'
<1> SUFFICES ASSUME TypeInv, RebootInv, [Next]_vars PROVE RebootInv'
  OBVIOUS
<1>0. /\ uci \in Config /\ flash \in Config /\ config \in Config
      /\ outcome \in ContractOutcomes /\ owed \in BOOLEAN
  BY DEF TypeInv, TypeOK
<1> USE DEF RebootInv, RebootEventKept, PaidBeforeCleared, BootKnows, Initial, local, ghosts
<1>1. CASE ReadManagement
  BY <1>1 DEF ReadManagement
<1>2. CASE ApplyConfig
  <2>1. RebootEventKept' /\ PaidBeforeCleared'
    BY <1>2, CallerIsNoClear DEF ApplyConfig
  <2>2. ~ReadFaults => config'.pendingReboot = uci.pendingReboot
    BY <1>2 DEF ApplyConfig, NewConfig, Read
  <2>3. BootKnows'
    BY <1>2, <2>2 DEF ApplyConfig
  <2> QED
    BY <2>1, <2>3
<1>3. CASE RestartServer
  BY <1>3, CallerIsNoClear DEF RestartServer
<1>4. CASE Start \/ NotReady
  BY <1>4 DEF Start, NotReady
<1>5. CASE Booted
  BY <1>5 DEF Booted
<1>6. CASE Top
  BY <1>6 DEF Top
<1>7. ASSUME NEW o \in ContractOutcomes, SessionEnd(o) PROVE RebootInv'
  BY <1>7 DEF SessionEnd
<1>8. CASE PersistBootstrap
  BY <1>0, <1>8 DEF PersistBootstrap, UciSet, Config
<1>9. CASE CommitBootstrap \/ CommitClear
  BY <1>9 DEF CommitBootstrap, CommitClear, Commit, UciCommit
<1>10. CASE ClearReboot
  BY <1>0, <1>10 DEF ClearReboot, RebootReported, UciSet, Config
<1>11. CASE Download \/ TransferComplete
  BY <1>11 DEF Download, TransferComplete
<1>12. CASE PersistReboot
  BY <1>0, <1>12 DEF PersistReboot, UciSet, Config
<1>13. CASE CommitReboot
  BY <1>13 DEF CommitReboot, UciCommit
<1>14. CASE ExecuteReboot
  BY <1>14 DEF ExecuteReboot
<1>15. CASE MockBoot
  BY <1>15 DEF MockBoot
<1>16. CASE DrainReload
  BY <1>16 DEF DrainReload
<1>17. CASE Decide
  BY <1>17 DEF Decide
<1>18. CASE TestWake \/ Block \/ Timeout
  BY <1>18 DEF TestWake, Block, Timeout
<1>19. CASE TestFlag
  BY <1>19 DEF TestFlag
<1>20. CASE NoFlag
  BY <1>20 DEF NoFlag
<1>21. CASE Reloaded
  BY <1>21 DEF Reloaded
<1>22. ASSUME NEW flag \in Requests, Request(flag) PROVE RebootInv'
  BY <1>22 DEF Request
<1>23. CASE SpuriousWakeup
  BY <1>23 DEF SpuriousWakeup
<1>24. ASSUME NEW p \in Profiles, Edit(p) PROVE RebootInv'
  BY <1>0, <1>24 DEF Edit, Edited, Config
<1>25. CASE Respawn \/ Crash \/ PowerLoss
  BY <1>25 DEF Respawn, Crash, PowerLoss, Restart
<1>26. CASE UNCHANGED vars
  BY <1>26 DEF vars
<1> QED
  BY <1>1, <1>2, <1>3, <1>4, <1>5, <1>6, <1>7, <1>8, <1>9, <1>10, <1>11, <1>12, <1>13,
     <1>14, <1>15, <1>16, <1>17, <1>18, <1>19, <1>20, <1>21, <1>22, <1>23, <1>24, <1>25,
     <1>26 DEF Next, DaemonStep, Environment

(* A reboot on record survives everything but its own report. *)
THEOREM RebootEventNeverLost == Spec => []RebootEventKept
<1>1. Init => RebootInv
  BY DEF Init, RebootInv, RebootEventKept, PaidBeforeCleared, BootKnows
<1>2. TypeInv /\ RebootInv /\ [Next]_vars => RebootInv'
  BY RebootStep
<1>3. RebootInv => RebootEventKept
  BY DEF RebootInv
<1> QED
  BY <1>1, <1>2, <1>3, TypeCorrect, PTL DEF Spec, TypeInv

(* The events of a boot are on their way to the ACS only from start-up, or   *)
(* from a mock boot, to the session that carries them; what replaces them is *)
(* no boot.  Meanwhile no reboot becomes owed that they do not name.         *)
BootEventsWhole ==
    (pc \in {"top", "session"} /\ Boot \in events /\ owed /\ ~ReadFaults) =>
        MReboot \in events

(* Every step keeps the events of a boot and the reboot owed together. *)
LEMMA BootEventsStep ==
    TypeInv /\ RebootInv /\ BootEventsWhole /\ [Next]_vars => BootEventsWhole'
<1> SUFFICES ASSUME TypeInv, RebootInv, BootEventsWhole, [Next]_vars
             PROVE  BootEventsWhole'
  OBVIOUS
<1>0. /\ Boot \notin {Periodic} /\ Boot \notin {ValueChange}
      /\ \A flag : Boot \notin WakeEvents(flag)
  BY DEF Boot, Periodic, ValueChange, ConnectionRequest, WakeEvents
<1> USE DEF BootEventsWhole, local, ghosts
<1>1. CASE ReadManagement
  BY <1>1 DEF ReadManagement
<1>2. CASE ApplyConfig \/ RestartServer
  BY <1>2, CallerIsNoClear DEF ApplyConfig, RestartServer
<1>3. CASE Start \/ NotReady
  BY <1>3 DEF Start, NotReady
<1>4. CASE Booted
  <2>1. (owed /\ ~ReadFaults) => config.pendingReboot
    BY <1>4 DEF Booted, RebootInv, BootKnows
  <2> QED
    BY <1>4, <2>1 DEF Booted, BootEvents
<1>5. CASE Top
  BY <1>5 DEF Top
<1>6. ASSUME NEW o \in ContractOutcomes, SessionEnd(o) PROVE BootEventsWhole'
  BY <1>6 DEF SessionEnd
<1>7. CASE PersistBootstrap \/ CommitBootstrap \/ ClearReboot \/ CommitClear
  BY <1>7 DEF PersistBootstrap, CommitBootstrap, ClearReboot, CommitClear, Commit
<1>8. CASE Download \/ TransferComplete
  BY <1>8 DEF Download, TransferComplete
<1>9. CASE PersistReboot \/ CommitReboot \/ ExecuteReboot
  BY <1>9 DEF PersistReboot, CommitReboot, ExecuteReboot
<1>10. CASE MockBoot
  BY <1>10 DEF MockBoot
<1>11. CASE DrainReload
  BY <1>11 DEF DrainReload
<1>12. CASE Decide
  BY <1>0, <1>12 DEF Decide
<1>13. CASE TestWake \/ Block \/ Timeout
  BY <1>13 DEF TestWake, Block, Timeout
<1>14. CASE TestFlag
  BY <1>0, <1>14 DEF TestFlag
<1>15. CASE NoFlag \/ Reloaded
  BY <1>0, <1>15 DEF NoFlag, Reloaded
<1>16. ASSUME NEW flag \in Requests, Request(flag) PROVE BootEventsWhole'
  BY <1>16 DEF Request
<1>17. CASE SpuriousWakeup
  BY <1>17 DEF SpuriousWakeup
<1>18. ASSUME NEW p \in Profiles, Edit(p) PROVE BootEventsWhole'
  BY <1>18 DEF Edit
<1>19. CASE Respawn \/ Crash \/ PowerLoss
  BY <1>19 DEF Respawn, Crash, PowerLoss, Restart
<1>20. CASE UNCHANGED vars
  BY <1>20 DEF vars
<1> QED
  BY <1>1, <1>2, <1>3, <1>4, <1>5, <1>6, <1>7, <1>8, <1>9, <1>10, <1>11, <1>12, <1>13,
     <1>14, <1>15, <1>16, <1>17, <1>18, <1>19, <1>20 DEF Next, DaemonStep, Environment

(* Whatever was lost, failed or crashed before: when the ACS accepts an      *)
(* Inform that tells it of a boot, no reboot it asked for is left unreported. *)
THEOREM BootLeavesNoRebootOwed == Spec => BootReportsReboot
<1> DEFINE Reports ==
      (/\ pc = "session" /\ pc' = "bootstrap" /\ outcome'.success
       /\ Boot \in events /\ ~ReadFaults) => ~owed'
<1>1. Init => RebootInv /\ BootEventsWhole
  BY DEF Init, RebootInv, RebootEventKept, PaidBeforeCleared, BootKnows, BootEventsWhole
<1>2. TypeInv /\ RebootInv /\ BootEventsWhole /\ [Next]_vars
        => RebootInv' /\ BootEventsWhole'
  BY RebootStep, BootEventsStep
<1>3. BootEventsWhole /\ [Next]_vars => [Reports]_vars
  <2> SUFFICES ASSUME BootEventsWhole, Next, pc = "session", pc' = "bootstrap",
                      outcome'.success, Boot \in events, ~ReadFaults
               PROVE  ~owed'
    BY DEF vars
  <2>1. PICK o \in ContractOutcomes : SessionEnd(o)
    BY OnlySessionEnds
  <2>2. owed => MReboot \in events
    BY DEF BootEventsWhole
  <2> QED
    BY <2>1, <2>2 DEF SessionEnd
<1> QED
  BY <1>1, <1>2, <1>3, TypeCorrect, PTL DEF Spec, TypeInv, BootReportsReboot

---------------------------------------------------------------------------
(* The Connection Request listener. *)

(* Every step keeps the listener on the settings in config_. *)
LEMMA ListenerStep ==
    TypeInv /\ ListenerMatchesConfig /\ [Next]_vars => ListenerMatchesConfig'
<1> SUFFICES ASSUME TypeInv, ListenerMatchesConfig, [Next]_vars
             PROVE  ListenerMatchesConfig'
  OBVIOUS
<1>0. config \in Config
  BY DEF TypeInv, TypeOK
<1> USE DEF ListenerMatchesConfig, local, ghosts
<1>1. CASE ReadManagement
  BY <1>0, <1>1 DEF ReadManagement
<1>2. CASE ApplyConfig
  BY <1>2 DEF ApplyConfig, ListenerChanged
<1>3. CASE RestartServer
  BY <1>0, <1>3 DEF RestartServer
<1>4. CASE Start \/ NotReady
  BY <1>0, <1>4 DEF Start, NotReady
<1>5. CASE Booted
  BY <1>0, <1>5 DEF Booted
<1>6. CASE Top
  BY <1>0, <1>6 DEF Top
<1>7. ASSUME NEW o \in ContractOutcomes, SessionEnd(o) PROVE ListenerMatchesConfig'
  BY <1>0, <1>7 DEF SessionEnd
<1>8. CASE PersistBootstrap
  BY <1>0, <1>8 DEF PersistBootstrap, BootstrapRecorded, UciSet, Config
<1>9. CASE CommitBootstrap \/ CommitClear
  BY <1>0, <1>9 DEF CommitBootstrap, CommitClear, Commit, UciCommit
<1>10. CASE ClearReboot
  BY <1>0, <1>10 DEF ClearReboot, Config
<1>11. CASE Download \/ TransferComplete
  BY <1>0, <1>11 DEF Download, TransferComplete
<1>12. CASE PersistReboot
  BY <1>0, <1>12 DEF PersistReboot, UciSet, Config
<1>13. CASE CommitReboot
  BY <1>0, <1>13 DEF CommitReboot, UciCommit
<1>14. CASE ExecuteReboot
  BY <1>0, <1>14 DEF ExecuteReboot
<1>15. CASE MockBoot
  BY <1>0, <1>15 DEF MockBoot
<1>16. CASE DrainReload
  BY <1>0, <1>16 DEF DrainReload, Drained
<1>17. CASE Decide
  BY <1>0, <1>17 DEF Decide
<1>18. CASE TestWake \/ Block \/ Timeout
  BY <1>0, <1>18 DEF TestWake, Block, Timeout
<1>19. CASE TestFlag
  BY <1>0, <1>19 DEF TestFlag, Refreshes
<1>20. CASE NoFlag
  BY <1>0, <1>20 DEF NoFlag
<1>21. CASE Reloaded
  BY <1>0, <1>21 DEF Reloaded
<1>22. ASSUME NEW flag \in Requests, Request(flag) PROVE ListenerMatchesConfig'
  BY <1>0, <1>22 DEF Request
<1>23. CASE SpuriousWakeup
  BY <1>0, <1>23 DEF SpuriousWakeup
<1>24. ASSUME NEW p \in Profiles, Edit(p) PROVE ListenerMatchesConfig'
  BY <1>0, <1>24 DEF Edit, Edited, Config
<1>25. CASE Respawn \/ Crash \/ PowerLoss
  BY <1>0, <1>25 DEF Respawn, Crash, PowerLoss, Restart
<1>26. CASE UNCHANGED vars
  BY <1>0, <1>26 DEF vars
<1> QED
  BY <1>1, <1>2, <1>3, <1>4, <1>5, <1>6, <1>7, <1>8, <1>9, <1>10, <1>11, <1>12, <1>13,
     <1>14, <1>15, <1>16, <1>17, <1>18, <1>19, <1>20, <1>21, <1>22, <1>23, <1>24, <1>25,
     <1>26 DEF Next, DaemonStep, Environment

(* A running listener always serves the settings in force. *)
THEOREM ListenerNeverStale == Spec => []ListenerMatchesConfig
<1>1. Init => ListenerMatchesConfig
  BY DEF Init, ListenerMatchesConfig
<1> QED
  BY <1>1, ListenerStep, TypeCorrect, PTL DEF Spec, TypeInv

---------------------------------------------------------------------------
(* The configuration and the store. *)

(* The options read by the first half of a refresh, as the store has them. *)
ReadSoFar == [enable |-> uci.enable, url |-> uci.url, periodic |-> uci.periodic]

(* While nothing touched the store behind the daemon's back, config_ agrees *)
(* with it, and so does a refresh under way; a refresh that finds a change   *)
(* therefore has a cause.                                                    *)
Tracking ==
    /\ (/\ pc \notin {"start", "exited", "settings"}
        /\ ~(pc = "refresh" /\ Initial)) => touched \/ Agrees(config, uci)
    /\ pc = "settings" => touched \/ upd = ReadSoFar
    /\ (pc = "settings" /\ ~Initial) => touched \/ cause \/ Agrees(config, uci)
    /\ ((pc = "decide" \/ (pc = "restart" /\ ~Initial)) /\ changed) => touched \/ cause

(* From a read of the store to the session that may write it, a change the   *)
(* daemon has not read is one it was not told of or has a request pending for. *)
Told ==
    pc \in {"settings", "restart", "booted", "reloaded", "mockBoot", "decide", "top",
            "wait", "blocking", "blocked", "scan", "session"}
      => (touched => untold \/ "reload" \in flags)

ConfigInv == Tracking /\ Told

(* config_ is tracked at first: nothing was read yet. *)
LEMMA ConfigInit == Init => ConfigInv
BY DEF Init, ConfigInv, Tracking, Told

(* A refresh that reads the store as it is ends with a config_ that agrees,  *)
(* and changes nothing if config_ agreed before.                             *)
LEMMA ApplyAgrees ==
    ASSUME TypeInv, upd = ReadSoFar
    PROVE  LET new == NewConfig(uci.mock, uci.bootstrapDone, uci.pendingReboot, uci.listener)
           IN  /\ Agrees(new, uci)
               /\ (~Initial /\ Agrees(config, uci)) => new = config
<1>1. uci \in Config /\ config \in Config
  BY DEF TypeInv, TypeOK
<1> DEFINE new == NewConfig(uci.mock, uci.bootstrapDone, uci.pendingReboot, uci.listener)
<1>2. Agrees(new, uci)
  BY <1>1 DEF NewConfig, ReadSoFar, KeepUrl, Agrees, Config
<1>3. ASSUME ~Initial, Agrees(config, uci) PROVE new = config
  BY <1>1, <1>3 DEF NewConfig, ReadSoFar, KeepUrl, Agrees, Config
<1> QED
  BY <1>2, <1>3

(* Every step keeps track of how far config_ and the store agree. *)
LEMMA ConfigStep == TypeInv /\ ConfigInv /\ [Next]_vars => ConfigInv'
<1> SUFFICES ASSUME TypeInv, ConfigInv, [Next]_vars PROVE ConfigInv'
  OBVIOUS
<1>0. /\ uci \in Config /\ config \in Config
      /\ touched \in BOOLEAN /\ untold \in BOOLEAN /\ cause \in BOOLEAN /\ changed \in BOOLEAN
  BY DEF TypeInv, TypeOK
<1> USE DEF ConfigInv, Tracking, Told, Initial, local, ghosts
<1>1. CASE ReadManagement
  BY <1>0, <1>1 DEF ReadManagement, ReadSoFar
<1>2. CASE ApplyConfig
  <2>1. ASSUME ~touched' PROVE Agrees(config', uci')
    BY <1>0, <1>2, <2>1, ApplyAgrees DEF ApplyConfig
  <2>2. ASSUME ~Initial, ~touched', ~cause PROVE ~changed'
    BY <1>0, <1>2, <2>2, ApplyAgrees DEF ApplyConfig, ConfigChanged
  <2> QED
    BY <1>0, <1>2, <2>1, <2>2, CallerIsNoClear DEF ApplyConfig
<1>3. CASE RestartServer
  BY <1>0, <1>3, CallerIsNoClear DEF RestartServer
<1>4. CASE Start \/ NotReady
  BY <1>0, <1>4 DEF Start, NotReady
<1>5. CASE Booted
  BY <1>0, <1>5 DEF Booted
<1>6. CASE Top
  BY <1>0, <1>6 DEF Top
<1>7. ASSUME NEW o \in ContractOutcomes, SessionEnd(o) PROVE ConfigInv'
  BY <1>0, <1>7 DEF SessionEnd
<1>8. CASE PersistBootstrap
  BY <1>0, <1>8 DEF PersistBootstrap, BootstrapRecorded, UciSet, Config, Agrees
<1>9. CASE CommitBootstrap \/ CommitClear
  BY <1>0, <1>9 DEF CommitBootstrap, CommitClear, Commit, UciCommit
<1>10. CASE ClearReboot
  BY <1>0, <1>10 DEF ClearReboot, UciSet, Config, RebootReported, Agrees
<1>11. CASE Download \/ TransferComplete
  BY <1>0, <1>11 DEF Download, TransferComplete
<1>12. CASE PersistReboot
  BY <1>0, <1>12 DEF PersistReboot, UciSet, Config, Agrees
<1>13. CASE CommitReboot
  BY <1>0, <1>13 DEF CommitReboot, UciCommit
<1>14. CASE ExecuteReboot
  BY <1>0, <1>14 DEF ExecuteReboot
<1>15. CASE MockBoot
  BY <1>0, <1>15 DEF MockBoot
<1>16. CASE DrainReload
  BY <1>0, <1>16 DEF DrainReload, Drained
<1>17. CASE Decide
  BY <1>0, <1>17 DEF Decide
<1>18. CASE TestWake \/ Block \/ Timeout
  BY <1>0, <1>18 DEF TestWake, Block, Timeout
<1>19. CASE TestFlag
  BY <1>0, <1>19 DEF TestFlag, Refreshes
<1>20. CASE NoFlag
  BY <1>0, <1>20 DEF NoFlag
<1>21. CASE Reloaded
  BY <1>0, <1>21 DEF Reloaded
<1>22. ASSUME NEW flag \in Requests, Request(flag) PROVE ConfigInv'
  BY <1>0, <1>22 DEF Request, ReadSoFar
<1>23. CASE SpuriousWakeup
  BY <1>0, <1>23 DEF SpuriousWakeup
<1>24. ASSUME NEW p \in Profiles, Edit(p) PROVE ConfigInv'
  BY <1>0, <1>24 DEF Edit, Edited, Config
<1>25. CASE Respawn \/ Crash \/ PowerLoss
  BY <1>0, <1>25 DEF Respawn, Crash, PowerLoss, Restart
<1>26. CASE UNCHANGED vars
  BY <1>0, <1>26 DEF vars, ReadSoFar, Agrees
<1> QED
  BY <1>1, <1>2, <1>3, <1>4, <1>5, <1>6, <1>7, <1>8, <1>9, <1>10, <1>11, <1>12, <1>13,
     <1>14, <1>15, <1>16, <1>17, <1>18, <1>19, <1>20, <1>21, <1>22, <1>23, <1>24, <1>25,
     <1>26 DEF Next, DaemonStep, Environment

(* config_ agrees with the store but for edits since it was read (refreshConfig). *)
THEOREM ConfigTracked == Spec => []ConfigInv
<1> QED
  BY ConfigInit, ConfigStep, TypeCorrect, PTL DEF Spec, TypeInv

(* The daemon never sleeps on a configuration it was told is stale. *)
THEOREM SleepsOnCurrentConfig == Spec => []QuiescentConfigCurrent
<1>1. ConfigInv => QuiescentConfigCurrent
  BY DEF ConfigInv, Tracking, Told, QuiescentConfigCurrent
<1> QED
  BY <1>1, ConfigTracked, PTL

(* No session after a session without a cause outside the daemon. *)
THEOREM ValueChangeHasCause == Spec => NoUncausedValueChange
<1> DEFINE Caused == (pc = "decide" /\ pc' = "top") => reloadSeen \/ cause \/ touched
<1>1. TypeInv /\ ConfigInv /\ [Next]_vars => [Caused]_vars
  <2> SUFFICES ASSUME ConfigInv, Next, pc = "decide", pc' = "top"
               PROVE  reloadSeen \/ cause \/ touched
    BY DEF vars
  <2>1. reloadSeen \/ changed
    BY OnlyDecideLeaves DEF Decide, Exit
  <2> QED
    BY <2>1 DEF ConfigInv, Tracking
<1> QED
  BY <1>1, ConfigTracked, TypeCorrect, PTL DEF Spec, TypeInv, NoUncausedValueChange

---------------------------------------------------------------------------
(* The bootstrap and the ACS. *)

(* A successful session has been seen by the ACS before it is recorded. *)
ContactMade == (pc = "bootstrap" /\ outcome.success) => contact # "none"

(* Before its first read is applied, a process has no URL. *)
UnreadHasNoUrl ==
    (pc = "start" \/ (pc \in {"refresh", "settings"} /\ Initial)) => config.url = NoUrl

ContactInv == BootstrapAfterContact /\ ContactMade /\ UnreadHasNoUrl

(* No milestone is set on a fresh device. *)
LEMMA ContactInit == Init => ContactInv
<1> SUFFICES ASSUME Init PROVE ContactInv
  OBVIOUS
<1>1. uci.bootstrapDone = FALSE /\ flash.bootstrapDone = FALSE
  BY DEF Init, Edited, UnreadConfig
<1> QED
  BY <1>1 DEF Init, UnreadConfig, ContactInv, BootstrapAfterContact, ContactMade,
              UnreadHasNoUrl

(* Every step records the bootstrap only after a successful session. *)
LEMMA ContactStep == TypeInv /\ ContactInv /\ [Next]_vars => ContactInv'
<1> SUFFICES ASSUME TypeInv, ContactInv, [Next]_vars PROVE ContactInv'
  OBVIOUS
<1>0. /\ uci \in Config /\ flash \in Config /\ config \in Config
      /\ contact \in {"none", "inform", "bootstrap"}
  BY DEF TypeInv, TypeOK
<1> USE DEF ContactInv, BootstrapAfterContact, ContactMade, UnreadHasNoUrl, Initial,
            local, ghosts
<1>1. CASE ReadManagement
  BY <1>0, <1>1 DEF ReadManagement
<1>2. CASE ApplyConfig
  BY <1>0, <1>2, CallerIsNoClear DEF ApplyConfig
<1>3. CASE RestartServer
  BY <1>0, <1>3, CallerIsNoClear DEF RestartServer
<1>4. CASE Start \/ NotReady
  BY <1>0, <1>4 DEF Start, NotReady
<1>5. CASE Booted
  BY <1>0, <1>5 DEF Booted
<1>6. CASE Top
  BY <1>0, <1>6 DEF Top
<1>7. ASSUME NEW o \in ContractOutcomes, SessionEnd(o) PROVE ContactInv'
  BY <1>0, <1>7 DEF SessionEnd
<1>8. CASE PersistBootstrap
  BY <1>0, <1>8 DEF PersistBootstrap, BootstrapReached, BootstrapRecorded, UciSet, Config
<1>9. CASE CommitBootstrap \/ CommitClear
  BY <1>0, <1>9 DEF CommitBootstrap, CommitClear, Commit, UciCommit
<1>10. CASE ClearReboot
  BY <1>0, <1>10 DEF ClearReboot, UciSet, Config
<1>11. CASE Download \/ TransferComplete
  BY <1>0, <1>11 DEF Download, TransferComplete
<1>12. CASE PersistReboot
  BY <1>0, <1>12 DEF PersistReboot, UciSet, Config
<1>13. CASE CommitReboot
  BY <1>0, <1>13 DEF CommitReboot, UciCommit
<1>14. CASE ExecuteReboot
  BY <1>0, <1>14 DEF ExecuteReboot
<1>15. CASE MockBoot
  BY <1>0, <1>15 DEF MockBoot
<1>16. CASE DrainReload
  BY <1>0, <1>16 DEF DrainReload, Drained
<1>17. CASE Decide
  BY <1>0, <1>17 DEF Decide
<1>18. CASE TestWake \/ Block \/ Timeout
  BY <1>0, <1>18 DEF TestWake, Block, Timeout
<1>19. CASE TestFlag
  BY <1>0, <1>19 DEF TestFlag, Refreshes
<1>20. CASE NoFlag
  BY <1>0, <1>20 DEF NoFlag
<1>21. CASE Reloaded
  BY <1>0, <1>21 DEF Reloaded
<1>22. ASSUME NEW flag \in Requests, Request(flag) PROVE ContactInv'
  BY <1>0, <1>22 DEF Request
<1>23. CASE SpuriousWakeup
  BY <1>0, <1>23 DEF SpuriousWakeup
<1>24. ASSUME NEW p \in Profiles, Edit(p) PROVE ContactInv'
  BY <1>0, <1>24 DEF Edit, Edited, Config
<1>25. CASE Respawn \/ Crash \/ PowerLoss
  BY <1>0, <1>25 DEF Respawn, Crash, PowerLoss, Restart, UnreadConfig
<1>26. CASE UNCHANGED vars
  BY <1>0, <1>26 DEF vars
<1> QED
  BY <1>1, <1>2, <1>3, <1>4, <1>5, <1>6, <1>7, <1>8, <1>9, <1>10, <1>11, <1>12, <1>13,
     <1>14, <1>15, <1>16, <1>17, <1>18, <1>19, <1>20, <1>21, <1>22, <1>23, <1>24, <1>25,
     <1>26 DEF Next, DaemonStep, Environment

(* No bootstrap is on record that no ACS has seen anything of. *)
THEOREM BootstrapNeverEarly == Spec => []BootstrapAfterContact
<1>1. ContactInv => BootstrapAfterContact
  BY DEF ContactInv
<1> QED
  BY <1>1, ContactInit, ContactStep, TypeCorrect, PTL DEF Spec, TypeInv

(* So the milestones in the store can be relied on after any crash, power    *)
(* loss or failed write (run: pending_reboot_event, bootstrap_done).         *)
THEOREM MilestonesAreTrue == Spec => []MilestonesTrue
BY RebootEventNeverLost, BootstrapNeverEarly, PTL DEF MilestonesTrue

(* Only EnableCWMP takes a running daemon off line. *)
THEOREM AcsLeftOnlyWhenDisabled == Spec => LeavesAcsOnlyDisabled
<1> DEFINE Keeps == (CwmpUp /\ ~CwmpUp' /\ pc' # "start") => ~upd.enable
<1>1. TypeInv /\ ContactInv /\ [Next]_vars => [Keeps]_vars
  <2> SUFFICES ASSUME TypeInv, ContactInv, Next, CwmpUp, ~CwmpUp', pc' # "start"
               PROVE  ~upd.enable
    BY DEF vars
  <2>0. config \in Config
    BY DEF TypeInv, TypeOK
  <2>1. CASE ApplyConfig
    <3>1. ~Initial
      BY <2>1 DEF ApplyConfig, ContactInv, UnreadHasNoUrl
    <3>2. config'.enable = upd.enable /\ config'.url = KeepUrl(upd.url, config.url, Initial)
      BY <2>1 DEF ApplyConfig, NewConfig
    <3>3. config'.url # NoUrl
      BY <3>1, <3>2 DEF KeepUrl
    <3> QED
      BY <3>2, <3>3
  <2>2. CASE PersistBootstrap \/ ClearReboot \/ PersistReboot
    BY <2>0, <2>2 DEF PersistBootstrap, BootstrapRecorded, ClearReboot, PersistReboot, Config
  <2>3. CASE Respawn \/ Crash \/ PowerLoss
    BY <2>3 DEF Respawn, Crash, PowerLoss, Restart
  <2>4. CASE UNCHANGED config
    BY <2>4
  <2> QED
    BY <2>1, <2>2, <2>3, <2>4
       DEF Next, DaemonStep, Environment, ReadManagement, RestartServer, Start, NotReady,
           Booted, Top, SessionEnd, CommitBootstrap, Commit, CommitClear, Download,
           TransferComplete, CommitReboot, ExecuteReboot, MockBoot, DrainReload, Decide,
           TestWake, Block, Timeout, TestFlag, NoFlag, Reloaded, Request, SpuriousWakeup,
           Edit, local
<1> QED
  BY <1>1, ContactInit, ContactStep, TypeCorrect, PTL
     DEF Spec, TypeInv, LeavesAcsOnlyDisabled

---------------------------------------------------------------------------
(* The refinement of RunLoop.                                              *)

(* Phase by phase; every other step of the thread is work. *)
Busy == Pcs \ {"start", "exited", "wait", "scan", "blocking", "blocked"}

LEMMA PhaseOf ==
    /\ pc \in {"start", "exited"} => Phase = "off"
    /\ pc \in Busy => Phase = "busy"
    /\ pc = "wait" => Phase = "testing"
    /\ pc = "scan" /\ signaled => Phase = "testing"
    /\ pc = "scan" /\ ~signaled => Phase = "expired"
    /\ pc = "blocking" => Phase = "blocking"
    /\ pc = "blocked" => Phase = "blocked"
BY DEF Phase, Busy, Pcs

LEMMA PhaseOfNext ==
    /\ pc' \in {"start", "exited"} => Phase' = "off"
    /\ pc' \in Busy => Phase' = "busy"
    /\ pc' = "wait" => Phase' = "testing"
    /\ pc' = "scan" /\ signaled' => Phase' = "testing"
    /\ pc' = "scan" /\ ~signaled' => Phase' = "expired"
    /\ pc' = "blocking" => Phase' = "blocking"
    /\ pc' = "blocked" => Phase' = "blocked"
BY DEF Phase, Busy, Pcs

(* A refresh goes from work to work. *)
LEMMA RefreshIsWork ==
    TypeInv /\ (ReadManagement \/ ApplyConfig \/ RestartServer)
        => pc \in Busy /\ pc' \in Busy /\ UNCHANGED flags
<1> USE DEF Busy, Pcs
<1>1. ReadManagement => pc = "refresh" /\ pc' = "settings" /\ UNCHANGED flags
  BY DEF ReadManagement
<1>2. ApplyConfig => pc = "settings" /\ pc' \in {"restart", ret} /\ UNCHANGED flags
  BY DEF ApplyConfig
<1>3. RestartServer => pc = "restart" /\ pc' = ret /\ UNCHANGED flags
  BY DEF RestartServer
<1>4. TypeInv /\ pc \in {"refresh", "settings", "restart"} => ret \in Busy
  BY DEF TypeInv, CallerKnown, Returns
<1> QED
  BY <1>1, <1>2, <1>3, <1>4

(* What a session leaves to be done, up to the reload flag, is work. *)
LEMMA MilestonesAreWork ==
    (\/ Booted \/ \E o \in ContractOutcomes : SessionEnd(o)
     \/ PersistBootstrap \/ CommitBootstrap \/ ClearReboot \/ CommitClear
     \/ Download \/ TransferComplete \/ PersistReboot \/ CommitReboot
     \/ ExecuteReboot \/ MockBoot \/ Reloaded)
        => pc \in Busy /\ pc' \in Busy /\ UNCHANGED flags
<1> USE DEF Busy, Pcs
<1>1. Booted \/ MockBoot \/ Reloaded => pc \in Busy /\ pc' \in Busy /\ UNCHANGED flags
  BY DEF Booted, MockBoot, Reloaded
<1>2. ASSUME NEW o \in ContractOutcomes, SessionEnd(o)
      PROVE  pc \in Busy /\ pc' \in Busy /\ UNCHANGED flags
  BY <1>2 DEF SessionEnd
<1>3. PersistBootstrap \/ CommitBootstrap \/ ClearReboot \/ CommitClear
        => pc \in Busy /\ pc' \in Busy /\ UNCHANGED flags
  BY DEF PersistBootstrap, CommitBootstrap, ClearReboot, CommitClear, Commit
<1>4. Download \/ TransferComplete \/ PersistReboot \/ CommitReboot \/ ExecuteReboot
        => pc \in Busy /\ pc' \in Busy /\ UNCHANGED flags
  BY DEF Download, TransferComplete, PersistReboot, CommitReboot, ExecuteReboot
<1> QED
  BY <1>1, <1>2, <1>3, <1>4

(* Every step of the daemon and of its environment is one of the loop, or none. *)
LEMMA LoopStep == TypeInv /\ [Next]_vars => [Loop!Next]_Loop!vars
<1> SUFFICES ASSUME TypeInv, [Next]_vars PROVE [Loop!Next]_Loop!vars
  OBVIOUS
<1> USE PhaseOf, PhaseOfNext DEF Loop!vars
<1>1. CASE pc \in Busy /\ pc' \in Busy /\ UNCHANGED flags
  BY <1>1
<1>2. CASE Start
  <2>1. pc' \in Busy
    BY <1>2 DEF Start, Busy, Pcs
  <2> QED
    BY <1>2, <2>1 DEF Start, Loop!Next, Loop!Begin
<1>3. CASE NotReady
  BY <1>3 DEF NotReady
<1>4. CASE Top
  <2>1. pc \in Busy
    BY <1>4 DEF Top, Busy, Pcs
  <2>2. CASE StopSeen
    BY <1>4, <2>1, <2>2 DEF Top, Loop!Next, Loop!Work
  <2>3. CASE ~StopSeen /\ ~CwmpUp
    BY <1>4, <2>1, <2>3 DEF Top, Loop!Next, Loop!Work
  <2>4. CASE ~StopSeen /\ CwmpUp
    BY <1>1, <1>4, <2>4 DEF Top, Busy, Pcs
  <2> QED
    BY <2>2, <2>3, <2>4
<1>5. CASE DrainReload
  <2>1. pc \in Busy /\ pc' \in Busy /\ flags' = flags \ {"reload"}
    BY <1>5 DEF DrainReload, Drained, Busy, Pcs
  <2> QED
    BY <2>1 DEF Loop!Next, Loop!Work
<1>6. CASE Decide
  <2>1. pc \in Busy /\ flags' = flags
    BY <1>6 DEF Decide, Busy, Pcs
  <2>2. pc' \in Busy \/ (StopSeen /\ pc' = "exited") \/ (~StopSeen /\ pc' = "wait")
    BY <1>6 DEF Decide, Busy, Pcs
  <2> QED
    BY <2>1, <2>2 DEF Loop!Next, Loop!Work
<1>7. CASE TestWake
  BY <1>7 DEF TestWake, Wake, Loop!Next, Loop!FindNothing
<1>8. CASE Block
  BY <1>8 DEF Block, Loop!Next, Loop!Block
<1>9. CASE Timeout
  BY <1>9 DEF Timeout, Wake, Loop!Next, Loop!Expire
<1>10. CASE TestFlag
  <2> DEFINE flag == WakeOrder[scan]
  <2>1. pc = "scan" /\ Phase \in {"testing", "expired"}
    BY <1>10 DEF TestFlag
  <2>2. CASE flag \notin flags
    BY <1>10, <2>2 DEF TestFlag, Phase
  <2>3. CASE flag \in flags /\ flag = "stop"
    BY <1>10, <2>1, <2>3 DEF TestFlag, Loop!Next, Loop!Take
  <2>4. CASE flag \in flags /\ flag # "stop"
    <3>1. flags' = flags \ {flag} /\ pc' \in Busy
      BY <1>10, <2>4 DEF TestFlag, Busy, Pcs
    <3> QED
      BY <2>1, <2>4, <3>1 DEF Loop!Next, Loop!Take
  <2> QED
    BY <2>2, <2>3, <2>4
<1>11. CASE NoFlag
  <2>1. CASE signaled
    BY <1>11, <2>1 DEF NoFlag
  <2>2. CASE ~signaled
    BY <1>11, <2>2 DEF NoFlag, Busy, Pcs, Loop!Next, Loop!Periodic
  <2> QED
    BY <2>1, <2>2
<1>12. ASSUME NEW flag \in Requests, Request(flag) PROVE [Loop!Next]_Loop!vars
  <2>1. flag \in Flags
    BY RequestsAssumption
  <2>2. CASE pc = "blocked"
    BY <1>12, <2>1, <2>2 DEF Request, Loop!Next, Loop!Request
  <2>3. CASE pc # "blocked"
    <3>1. Phase' = Phase /\ Phase # "blocked"
      BY <1>12, <2>3 DEF Request, local, Phase
    <3> QED
      BY <1>12, <2>1, <3>1 DEF Request, Loop!Next, Loop!Request
  <2> QED
    BY <2>2, <2>3
<1>13. CASE SpuriousWakeup
  BY <1>13 DEF SpuriousWakeup, Loop!Next, Loop!SpuriousWakeup
<1>14. ASSUME NEW p \in Profiles, Edit(p) PROVE [Loop!Next]_Loop!vars
  BY <1>14 DEF Edit, local, Phase
<1>15. CASE Respawn \/ Crash \/ PowerLoss
  BY <1>15 DEF Respawn, Crash, PowerLoss, Restart, Loop!Next, Loop!NewProcess
<1>16. CASE UNCHANGED vars
  BY <1>16 DEF vars, local, Phase
<1> QED
  BY <1>1, <1>2, <1>3, <1>4, <1>5, <1>6, <1>7, <1>8, <1>9, <1>10, <1>11, <1>12, <1>13,
     <1>14, <1>15, <1>16, RefreshIsWork, MilestonesAreWork DEF Next, DaemonStep, Environment

(* The daemon's loop keeps RunLoop's promises, for any requests, settings    *)
(* and faults.                                                               *)
THEOREM DaemonImplementsRunLoop == Spec => ImplementsRunLoop
<1>1. Init => Loop!Init
  BY DEF Init, Loop!Init, Phase
<1> QED
  BY <1>1, LoopStep, TypeCorrect, PTL DEF Spec, ImplementsRunLoop, Loop!Spec, TypeInv

(* A step of the loop goes to sleep on a request only from the gap, and      *)
(* takes a request out only to act on it.                                    *)
LEMMA LoopStepPromises ==
    ASSUME Loop!Next, ~UNCHANGED <<Phase, flags>>
    PROVE  /\ Loop!Asleep' /\ flags' # {} => Phase = "blocking"
           /\ \A flag \in flags \ flags' :
                 \/ Phase' = "off" /\ flags' = {}
                 \/ flag # "stop" /\ (Phase' = "busy" \/ "stop" \in flags)
<1> USE DEF Loop!Asleep
<1>1. ASSUME NEW flag, Loop!Request(flag)
      PROVE  flags \ flags' = {} /\ (Loop!Asleep' /\ flags' # {} => Phase = "blocking")
  BY <1>1 DEF Loop!Request
<1>2. CASE Loop!NewProcess \/ Loop!Work \/ Loop!Take
  BY <1>2 DEF Loop!NewProcess, Loop!Work, Loop!Take
<1>3. CASE \/ Loop!Begin \/ Loop!FindNothing \/ Loop!Block
           \/ Loop!SpuriousWakeup \/ Loop!Expire \/ Loop!Periodic
  BY <1>3 DEF Loop!Begin, Loop!FindNothing, Loop!Block, Loop!SpuriousWakeup,
              Loop!Expire, Loop!Periodic
<1> QED
  BY <1>1, <1>2, <1>3 DEF Loop!Next

(* What RunLoop promises holds of the daemon: it never sleeps on a request   *)
(* but on one from the gap before Block, loses none, and forgets no stop     *)
(* (requestStop, requestReload, triggerConnectionRequest).                   *)
THEOREM DaemonLosesNoRequest == Spec => Loop!SleepsOnlyPastGap /\ Loop!RequestsKept
<1>1. [Loop!Next]_Loop!vars
        => [(Loop!Asleep' /\ flags' # {}) => Phase = "blocking"]_Loop!vars
  BY LoopStepPromises DEF Loop!vars
<1>2. [Loop!Next]_Loop!vars
        => [\A flag \in flags \ flags' :
              \/ Phase' = "off" /\ flags' = {}
              \/ flag # "stop" /\ (Phase' = "busy" \/ "stop" \in flags)]_Loop!vars
  BY LoopStepPromises DEF Loop!vars
<1> QED
  BY <1>1, <1>2, DaemonImplementsRunLoop, PTL
     DEF ImplementsRunLoop, Loop!Spec, Loop!SleepsOnlyPastGap, Loop!RequestsKept

---------------------------------------------------------------------------
(* How far the end of the loop is once stop_ is set: the longest way goes    *)
(* from a session over its milestones, a download with the refresh after it, *)
(* a reboot, and the refresh after the session.                              *)
RankAt(p) ==
    CASE p = "top" -> 1
      [] p \in {"wait", "booted", "reloaded", "mockBoot", "decide"} -> 2
      [] p = "blocked" -> 3
      [] p = "blocking" -> 4
      [] p \in {"start", "drain"} -> 6
      [] p = "rebootExec" -> 7
      [] p = "rebootCommit" -> 8
      [] p = "reboot" -> 9
      [] p = "transfer" -> 13
      [] p = "download" -> 14
      [] p = "clearCommit" -> 15
      [] p = "clear" -> 16
      [] p = "bootstrapCommit" -> 17
      [] p = "bootstrap" -> 18
      [] p = "session" -> 19
      [] OTHER -> 0

ScanRank(i) == IF i = 1 THEN 1 ELSE IF i = 6 THEN 3 ELSE 11 - i

StepsToExit ==
    CASE pc = "refresh"  -> RankAt(ret) + 3
      [] pc = "settings" -> RankAt(ret) + 2
      [] pc = "restart"  -> RankAt(ret) + 1
      [] pc = "scan"     -> ScanRank(scan)
      [] OTHER           -> RankAt(pc)

LEMMA Ranks ==
    /\ RankAt("exited") = 0
    /\ RankAt("top") = 1
    /\ RankAt("wait") = 2
    /\ RankAt("blocked") = 3
    /\ RankAt("blocking") = 4
    /\ RankAt("booted") = 2
    /\ RankAt("reloaded") = 2
    /\ RankAt("mockBoot") = 2
    /\ RankAt("decide") = 2
    /\ RankAt("start") = 6
    /\ RankAt("drain") = 6
    /\ RankAt("rebootExec") = 7
    /\ RankAt("rebootCommit") = 8
    /\ RankAt("reboot") = 9
    /\ RankAt("transfer") = 13
    /\ RankAt("download") = 14
    /\ RankAt("clearCommit") = 15
    /\ RankAt("clear") = 16
    /\ RankAt("bootstrapCommit") = 17
    /\ RankAt("bootstrap") = 18
    /\ RankAt("session") = 19
BY DEF RankAt

LEMMA RanksBounded ==
    (\A p \in Pcs : RankAt(p) \in 0..19) /\ (\A r \in Returns : RankAt(r) \in 0..9)
BY DEF RankAt, Returns

LEMMA ExitOf ==
    /\ pc \notin {"refresh", "settings", "restart", "scan"} => StepsToExit = RankAt(pc)
    /\ pc = "refresh" => StepsToExit = RankAt(ret) + 3
    /\ pc = "settings" => StepsToExit = RankAt(ret) + 2
    /\ pc = "restart" => StepsToExit = RankAt(ret) + 1
    /\ pc = "scan" => StepsToExit = ScanRank(scan)
BY DEF StepsToExit

LEMMA ExitOfNext ==
    /\ pc' \notin {"refresh", "settings", "restart", "scan"} => StepsToExit' = RankAt(pc')
    /\ pc' = "refresh" => StepsToExit' = RankAt(ret') + 3
    /\ pc' = "settings" => StepsToExit' = RankAt(ret') + 2
    /\ pc' = "restart" => StepsToExit' = RankAt(ret') + 1
    /\ pc' = "scan" => StepsToExit' = ScanRank(scan')
BY DEF StepsToExit

(* A stop is acted on: once stop_ is set, every step of the daemon thread    *)
(* brings the end of run nearer, nineteen steps away at most, so at most the  *)
(* one session, download and reboot under way are finished; nobody takes the *)
(* stop back.  Only a wait without a period may not end (requestStop, run).  *)
THEOREM StopRunsDown ==
    Spec => /\ [](StepsToExit \in 0..19)
            /\ [][("stop" \in flags /\ pc' # "start")
                      => /\ "stop" \in flags'
                         /\ (pc' = pc /\ scan' = scan) \/ StepsToExit' < StepsToExit]_vars
<1>1. TypeInv => StepsToExit \in 0..19
  <2> SUFFICES ASSUME TypeInv PROVE StepsToExit \in 0..19
    OBVIOUS
  <2>1. RankAt(pc) \in 0..19 /\ RankAt(ret) \in 0..9
    BY RanksBounded DEF TypeInv, TypeOK
  <2>2. ScanRank(scan) \in 0..19
    BY DEF ScanRank, TypeInv, TypeOK
  <2> QED
    BY <2>1, <2>2, ExitOf
<1>2. TypeInv /\ [Next]_vars
        => [("stop" \in flags /\ pc' # "start")
               => /\ "stop" \in flags'
                  /\ (pc' = pc /\ scan' = scan) \/ StepsToExit' < StepsToExit]_vars
  <2> DEFINE Down == /\ "stop" \in flags'
                     /\ (pc' = pc /\ scan' = scan) \/ StepsToExit' < StepsToExit
  <2> SUFFICES ASSUME TypeInv, Next, "stop" \in flags, pc' # "start" PROVE Down
    OBVIOUS
  <2> USE Ranks, ExitOf, ExitOfNext DEF local
  <2>0. RankAt(ret) \in Nat
    BY RanksBounded DEF TypeInv, TypeOK
  <2>1. CASE ReadManagement
    BY <2>0, <2>1 DEF ReadManagement
  <2>2. CASE ApplyConfig
    <3>1. /\ pc = "settings" /\ UNCHANGED flags
          /\ (pc' = "restart" /\ ret' = ret) \/ pc' = ret
      BY <2>2 DEF ApplyConfig
    <3>2. ret \notin {"refresh", "settings", "restart", "scan"}
      BY <3>1 DEF TypeInv, CallerKnown, Returns
    <3> QED
      BY <2>0, <3>1, <3>2
  <2>3. CASE RestartServer
    <3>1. pc = "restart" /\ UNCHANGED flags /\ pc' = ret
      BY <2>3 DEF RestartServer
    <3>2. ret \notin {"refresh", "settings", "restart", "scan"}
      BY <3>1 DEF TypeInv, CallerKnown, Returns
    <3> QED
      BY <2>0, <3>1, <3>2
  <2>4. CASE Start \/ NotReady
    BY <2>4 DEF Start, NotReady
  <2>5. CASE Booted \/ MockBoot \/ Reloaded
    BY <2>5 DEF Booted, MockBoot, Reloaded
  <2>6. CASE Top
    BY <2>6 DEF Top
  <2>7. ASSUME NEW o \in ContractOutcomes, SessionEnd(o) PROVE Down
    BY <2>7 DEF SessionEnd
  <2>8. CASE PersistBootstrap \/ CommitBootstrap
    BY <2>8 DEF PersistBootstrap, CommitBootstrap, Commit
  <2>9. CASE ClearReboot \/ CommitClear
    BY <2>9 DEF ClearReboot, CommitClear, Commit
  <2>10. CASE Download \/ TransferComplete
    BY <2>10 DEF Download, TransferComplete
  <2>11. CASE PersistReboot \/ CommitReboot
    BY <2>11 DEF PersistReboot, CommitReboot
  <2>12. CASE ExecuteReboot \/ DrainReload
    BY <2>12 DEF ExecuteReboot, DrainReload, Drained
  <2>13. CASE Decide
    BY <2>13 DEF Decide
  <2>14. CASE TestWake
    <3>1. pc = "wait" /\ pc' = "scan" /\ scan' = 1 /\ UNCHANGED flags
      BY <2>14 DEF TestWake, Wake
    <3> QED
      BY <3>1 DEF ScanRank
  <2>15. CASE Block
    BY <2>15 DEF Block
  <2>16. CASE Timeout
    BY <2>16 DEF Timeout, ScanRank
  <2>17. CASE TestFlag
    <3>1. pc = "scan" /\ scan \in 1..5
      BY <2>17 DEF TestFlag
    <3>2. CASE scan = 1
      <4>1. pc' = "exited" /\ UNCHANGED flags
        BY <2>17, <3>2 DEF TestFlag, WakeOrder
      <4> QED
        BY <3>1, <3>2, <4>1 DEF ScanRank
    <3>3. CASE scan # 1
      <4>1. WakeOrder[scan] # "stop"
        BY <3>1, <3>3 DEF WakeOrder
      <4>2. "stop" \in flags'
        BY <2>17, <4>1 DEF TestFlag
      <4>3. \/ pc' = "scan" /\ scan' = scan + 1
            \/ pc' = "refresh" /\ ret' = "reloaded"
            \/ pc' = "top"
        BY <2>17, <4>1 DEF TestFlag, AfterTest
      <4>4. StepsToExit \in 6..9
        BY <3>1, <3>3 DEF ScanRank
      <4>5. pc' = "scan" /\ scan' = scan + 1 => StepsToExit' < StepsToExit
        BY <3>1, <3>3 DEF ScanRank
      <4>6. pc' = "refresh" /\ ret' = "reloaded" => StepsToExit' = 5
        OBVIOUS
      <4>7. pc' = "top" => StepsToExit' = 1
        OBVIOUS
      <4> QED
        BY <4>2, <4>3, <4>4, <4>5, <4>6, <4>7
    <3> QED
      BY <3>2, <3>3
  <2>18. CASE NoFlag
    <3>1. pc = "scan" /\ scan = 6 /\ pc' \in {"wait", "top"} /\ UNCHANGED flags
      BY <2>18 DEF NoFlag
    <3> QED
      BY <3>1 DEF ScanRank
  <2>19. ASSUME NEW flag \in Requests, Request(flag) PROVE Down
    BY <2>19 DEF Request
  <2>20. CASE SpuriousWakeup
    BY <2>20 DEF SpuriousWakeup
  <2>21. ASSUME NEW p \in Profiles, Edit(p) PROVE Down
    BY <2>21 DEF Edit
  <2>22. CASE Respawn \/ Crash \/ PowerLoss
    BY <2>22 DEF Respawn, Crash, PowerLoss, Restart
  <2> QED
    BY <2>1, <2>2, <2>3, <2>4, <2>5, <2>6, <2>7, <2>8, <2>9, <2>10, <2>11, <2>12, <2>13,
       <2>14, <2>15, <2>16, <2>17, <2>18, <2>19, <2>20, <2>21, <2>22
       DEF Next, DaemonStep, Environment
<1> QED
  BY <1>1, <1>2, TypeCorrect, PTL DEF Spec, TypeInv

==========================================================================
