---------------------------- MODULE Tr069Daemon ----------------------------
(***************************************************************************)
(* Tr069Daemon.cpp: the main loop of tr69d.  One thread runs sessions,     *)
(* persists its milestones in UCI, re-reads its configuration and waits on *)
(* a condition variable.  The UBUS thread, the signal handler and the      *)
(* Connection Request server set atomic flags and notify; other processes  *)
(* (the trs CLI, an administrator's uci, the ACS through the transformer)  *)
(* edit the UCI store; the process may crash and the device lose power.    *)
(*                                                                         *)
(* A step of the daemon is the code between two points where another actor *)
(* can be observed: a UCI command, an atomic flag, a blocking call.  A     *)
(* session is what SessionContract promises.  A UCI store is its content   *)
(* as `uci get` shows it (staged changes included) and as it would survive *)
(* a power loss (committed).  String settings are model values.            *)
(***************************************************************************)
EXTENDS Naturals, Sequences, CwmpTypes

CONSTANTS
    Urls,            \* non-empty ACS URLs
    NoUrl,           \* the empty ACS URL
    Listeners,       \* enabled bind/port/credentials/auth settings
    NoListener,      \* the listener is disabled, or not running
    DefaultListener, \* what unreadable listener options default to
    Profiles,        \* the settings an edit of the store may write
    Requests,        \* the flags other threads may set
    AllowMock,       \* TR69_ALLOW_MOCK_REBOOT
    WriteFaults,     \* uci set and uci commit may fail
    ReadFaults,      \* uci get may fail, the default is used instead
    Crashes          \* the process may die, the device may lose power

Flags == {"stop", "connection", "reconnect", "informNow", "reload"}

Settings == [enable : BOOLEAN, url : Urls \cup {NoUrl}, periodic : BOOLEAN,
             mock : BOOLEAN, listener : Listeners \cup {NoListener}]

ASSUME ValuesAssumption ==
    NoUrl \notin Urls /\ NoListener \notin Listeners /\ DefaultListener \in Listeners
ASSUME ProfilesAssumption == Profiles \subseteq Settings
ASSUME RequestsAssumption == Requests \subseteq Flags
ASSUME SwitchesAssumption ==
    {AllowMock, WriteFaults, ReadFaults, Crashes} \subseteq BOOLEAN

(* DaemonConfig, and the options of the tr69 package it is read from. *)
Config == [enable : BOOLEAN, url : Urls \cup {NoUrl}, periodic : BOOLEAN,
           mock : BOOLEAN, listener : Listeners \cup {NoListener},
           bootstrapDone : BOOLEAN, pendingReboot : BOOLEAN]

Management == [enable : BOOLEAN, url : Urls \cup {NoUrl}, periodic : BOOLEAN]

VARIABLES
    pc,         \* the next step of the daemon thread
    ret,        \* where the running refreshConfig returns to
    flags,      \* stop_, connectionRequested_, reconnectRequested_, ...
    scan,       \* position in waitForNextInform's chain of tests
    signaled,   \* waitForNextInform's signaled
    config,     \* config_
    upd,        \* the part of `updated` read so far by refreshConfig
    changed,    \* the result of the last refreshConfig
    reloadSeen, \* reloadDuringSession
    events,     \* events of the next Inform (the order is fixed by the code)
    outcome,    \* outcome of the session just run
    state,      \* state_
    server,     \* the running connectionServer_ (NoListener: none)
    uci,        \* the store as uci get sees it
    flash,      \* the store as it survives a power loss
    owed,       \* ghost: a reboot was recorded durably, not yet reported
    contact,    \* ghost: what the ACS has seen: nothing, an Inform, a bootstrap
    touched,    \* ghost: config and store may differ since the last read
    cause,      \* ghost: `touched` as the running refreshConfig found it
    untold      \* ghost: an edit no reload request was made for since

ghosts == <<owed, contact, touched, cause, untold>>
local  == <<scan, signaled, upd, changed, reloadSeen>>
vars   == <<pc, ret, flags, local, config, events, outcome, state,
            server, uci, flash, ghosts>>

Pcs == {"start", "refresh", "settings", "restart", "booted", "top", "session",
        "bootstrap", "bootstrapCommit", "clear", "clearCommit", "download",
        "transfer", "reboot", "rebootCommit", "rebootExec", "mockBoot", "drain",
        "decide", "wait", "blocking", "blocked", "scan", "reloaded", "exited"}
Returns == {"none", "booted", "reboot", "mockBoot", "decide", "reloaded"}

(* waitForNextInform tests the flags in this order. *)
WakeOrder == <<"stop", "connection", "reconnect", "informNow", "reload">>

TypeOK ==
    /\ pc \in Pcs
    /\ ret \in Returns
    /\ flags \subseteq Flags
    /\ scan \in 0..6
    /\ signaled \in BOOLEAN
    /\ config \in Config
    /\ upd \in Management
    /\ changed \in BOOLEAN
    /\ reloadSeen \in BOOLEAN
    /\ events \subseteq EventCodes
    /\ outcome \in ContractOutcomes
    /\ state \in {"starting", "idle", "connecting", "error"}
    /\ server \in Listeners \cup {NoListener}
    /\ uci \in Config
    /\ flash \in Config
    /\ owed \in BOOLEAN
    /\ contact \in {"none", "inform", "bootstrap"}
    /\ touched \in BOOLEAN
    /\ cause \in BOOLEAN
    /\ untold \in BOOLEAN

NothingRead == [enable |-> FALSE, url |-> NoUrl, periodic |-> FALSE]

(* The store with the options of profile p edited.  No edit touches the     *)
(* daemon's own milestones: they are not in the device map.                 *)
Edited(u, p) ==
    [u EXCEPT !.enable = p.enable, !.url = p.url, !.periodic = p.periodic,
              !.mock = p.mock, !.listener = p.listener]

(* Member defaults of DaemonConfig: the state of config_ before the first read. *)
UnreadConfig ==
    [enable |-> TRUE, url |-> NoUrl, periodic |-> TRUE, mock |-> TRUE,
     listener |-> DefaultListener, bootstrapDone |-> FALSE, pendingReboot |-> FALSE]

(* A device fresh from the factory: any profile, no milestone. *)
Init ==
    /\ pc = "start" /\ ret = "none"
    /\ flags = {} /\ scan = 0 /\ signaled = FALSE
    /\ config = UnreadConfig /\ upd = NothingRead
    /\ changed = FALSE /\ reloadSeen = FALSE
    /\ events = {} /\ outcome = Failed /\ state = "starting"
    /\ server = NoListener
    /\ uci \in {Edited(UnreadConfig, p) : p \in Profiles}
    /\ flash = uci
    /\ owed = FALSE /\ contact = "none"
    /\ touched = FALSE /\ cause = FALSE /\ untold = FALSE

---------------------------------------------------------------------------
(* refreshConfig and readConfig.  The options are fetched by one uci process *)
(* after the other, so an edit may fall between them: the settings the       *)
(* data model serves are read first, the rest afterwards.                    *)

(* A read may fail, and then yields the default of readConfig. *)
Read(value, default) == IF ReadFaults THEN {value, default} ELSE {value}

(* refreshConfig begins; ret is the statement after the call. *)
CallRefresh(caller) == pc' = "refresh" /\ ret' = caller

ReadManagement ==
    /\ pc = "refresh"
    /\ \E e \in Read(uci.enable, TRUE), u \in Read(uci.url, NoUrl),
          p \in Read(uci.periodic, TRUE) :
         LET misread == <<e, u, p>> # <<uci.enable, uci.url, uci.periodic>>
         IN  /\ upd' = [enable |-> e, url |-> u, periodic |-> p]
             /\ touched' = misread
             /\ untold' = misread
    /\ cause' = touched
    /\ pc' = "settings"
    /\ UNCHANGED <<ret, flags, scan, signaled, changed, reloadSeen, config, events,
                   outcome, state, server, uci, flash, owed, contact>>

(* Mutant: an unreadable URL overwrites the one in use. *)
KeepUrlNever(read, previous, initial) == read

(* An empty URL read back is ignored, except at start-up. *)
KeepUrl(read, previous, initial) ==
    IF ~initial /\ read = NoUrl THEN previous ELSE read

(* Mutant: only the switch is compared, not the address and credentials. *)
ListenerSwitched(new, old) ==
    (new.listener = NoListener) # (old.listener = NoListener)

ListenerChanged(new, old) == new.listener # old.listener

(* runtimeConfigEqual and the two milestones. *)
ConfigChanged(new, old, initial) == initial \/ new # old

(* refreshConfig(true) is run()'s first call. *)
Initial == ret = "booted"

(* `updated`, once the remaining options are read. *)
NewConfig(m, b, r, l) ==
    [enable |-> upd.enable, url |-> KeepUrl(upd.url, config.url, Initial),
     periodic |-> upd.periodic, mock |-> AllowMock /\ m,
     listener |-> l, bootstrapDone |-> b, pendingReboot |-> r]

(* The listener is restarted by refreshConfig when its settings changed, and *)
(* by run() after the initial read.                                          *)
ApplyConfig ==
    /\ pc = "settings"
    /\ \E m \in Read(uci.mock, FALSE), b \in Read(uci.bootstrapDone, FALSE),
          r \in Read(uci.pendingReboot, FALSE), l \in Read(uci.listener, DefaultListener) :
         LET new == NewConfig(m, b, r, l)
             misread == <<m, b, r, l>> # <<uci.mock, uci.bootstrapDone,
                                           uci.pendingReboot, uci.listener>>
         IN  /\ config' = new
             /\ changed' = ConfigChanged(new, config, Initial)
             /\ IF Initial \/ ListenerChanged(new, config)
                  THEN pc' = "restart" /\ UNCHANGED ret
                  ELSE pc' = ret /\ ret' = "none"
             /\ touched' = (touched \/ misread)
             /\ untold' = (untold \/ misread)
    /\ upd' = NothingRead
    /\ UNCHANGED <<flags, scan, signaled, reloadSeen, events, outcome, state,
                   server, uci, flash, owed, contact, cause>>

(* restartConnectionRequestServer: the old server is stopped and joined,     *)
(* which takes as long as Joining says; the new one may fail to bind, and is *)
(* then dropped for good.                                                    *)
RestartServer ==
    /\ pc = "restart"
    /\ server' \in {config.listener, NoListener}
    /\ pc' = ret /\ ret' = "none"
    /\ UNCHANGED <<flags, local, config, events, outcome, state, uci, flash, ghosts>>

---------------------------------------------------------------------------
(* run(): start-up. *)
Start ==
    /\ pc = "start"
    /\ CallRefresh("booted")
    /\ UNCHANGED <<flags, local, config, events, outcome, state, server, uci, flash, ghosts>>

(* The transformer script did not load: run returns 1. *)
NotReady ==
    /\ pc = "start"
    /\ pc' = "exited"
    /\ UNCHANGED <<ret, flags, local, config, events, outcome, state, server,
                   uci, flash, ghosts>>

(* Mutant: the pending reboot is forgotten at start-up. *)
BootEventsWithoutReboot ==
    {Boot} \cup (IF config.bootstrapDone THEN {} ELSE {Bootstrap})

BootEvents ==
    {Boot} \cup (IF config.bootstrapDone THEN {} ELSE {Bootstrap})
           \cup (IF config.pendingReboot THEN {MReboot} ELSE {})

Booted ==
    /\ pc = "booted"
    /\ state' = "idle"
    /\ events' = BootEvents
    /\ pc' = "top"
    /\ changed' = FALSE /\ cause' = FALSE
    /\ UNCHANGED <<ret, flags, scan, signaled, upd, reloadSeen, config, outcome, server,
                   uci, flash, owed, contact, touched, untold>>

(* The end of run: the server is stopped and joined. *)
Exit == pc' = "exited" /\ server' = NoListener

CwmpUp == config.enable /\ config.url # NoUrl

StopSeen == "stop" \in flags

(* The head of the loop: leave, idle, or open a session. *)
Top ==
    /\ pc = "top"
    /\ \/ /\ StopSeen
          /\ Exit
          /\ UNCHANGED state
       \/ /\ ~StopSeen /\ ~CwmpUp
          /\ pc' = "wait"
          /\ UNCHANGED <<state, server>>
       \/ /\ ~StopSeen /\ CwmpUp
          /\ state' = "connecting"
          /\ pc' = "session"
          /\ UNCHANGED server
    /\ UNCHANGED <<ret, flags, local, config, events, outcome, uci, flash, ghosts>>

(* session.run(events) returns. *)
SessionEnd(o) ==
    /\ pc = "session"
    /\ outcome' = o
    /\ state' = IF o.success THEN "idle" ELSE "error"
    /\ contact' = CASE ~o.success -> contact
                    [] o.success /\ Bootstrap \in events -> "bootstrap"
                    [] OTHER -> IF contact = "none" THEN "inform" ELSE contact
    /\ owed' = (owed /\ ~(o.success /\ MReboot \in events))
    /\ pc' = "bootstrap"
    /\ UNCHANGED <<ret, flags, local, config, events, server, uci, flash,
                   touched, cause, untold>>

---------------------------------------------------------------------------
(* Milestones: each is recorded in memory, then set and committed in UCI; a *)
(* failure of either command is logged and otherwise ignored, and commit is *)
(* tried even after set failed.                                             *)

UciSet(store) ==
    \/ uci' = store /\ UNCHANGED touched
    \/ WriteFaults /\ touched' = TRUE /\ UNCHANGED uci

UciCommit ==
    \/ flash' = uci
    \/ WriteFaults /\ UNCHANGED flash

BootstrapReached == outcome.success /\ ~config.bootstrapDone

(* Mutant: only the store learns of the bootstrap, not config_. *)
BootstrapRecordedInUciOnly == UNCHANGED config

BootstrapRecorded == config' = [config EXCEPT !.bootstrapDone = TRUE]

PersistBootstrap ==
    /\ pc = "bootstrap"
    /\ IF BootstrapReached
         THEN /\ BootstrapRecorded
              /\ UciSet([uci EXCEPT !.bootstrapDone = TRUE])
              /\ pc' = "bootstrapCommit"
         ELSE /\ pc' = "clear"
              /\ UNCHANGED <<config, uci, touched>>
    /\ UNCHANGED <<ret, flags, local, events, outcome, state, server, flash,
                   owed, contact, cause, untold>>

Commit(from, to) ==
    /\ pc = from
    /\ UciCommit
    /\ pc' = to
    /\ UNCHANGED <<ret, flags, local, config, events, outcome, state, server, uci, ghosts>>

CommitBootstrap == Commit("bootstrapCommit", "clear")

(* Mutant: any successful session clears the reboot event. *)
RebootReportedBySuccess == outcome.success /\ config.pendingReboot

RebootReported ==
    outcome.success /\ config.pendingReboot /\ MReboot \in events

ClearReboot ==
    /\ pc = "clear"
    /\ IF RebootReported
         THEN /\ config' = [config EXCEPT !.pendingReboot = FALSE]
              /\ UciSet([uci EXCEPT !.pendingReboot = FALSE])
              /\ pc' = "clearCommit"
         ELSE /\ pc' = "download"
              /\ UNCHANGED <<config, uci, touched>>
    /\ UNCHANGED <<ret, flags, local, events, outcome, state, server, flash,
                   owed, contact, cause, untold>>

CommitClear == Commit("clearCommit", "download")

---------------------------------------------------------------------------
(* DownloadManager::execute, if the ACS asked for a download: it blocks for  *)
(* the delay and the transfer, and touches nothing of the daemon.            *)
Download ==
    /\ pc = "download"
    /\ pc' = IF outcome.download THEN "transfer" ELSE "reboot"
    /\ UNCHANGED <<ret, flags, local, config, events, outcome, state, server,
                   uci, flash, ghosts>>

(* runTransferComplete: its result is ignored.  A refresh follows. *)
TransferComplete ==
    /\ pc = "transfer"
    /\ CallRefresh("reboot")
    /\ UNCHANGED <<flags, local, config, events, outcome, state, server, uci, flash, ghosts>>

PersistReboot ==
    /\ pc = "reboot"
    /\ IF outcome.rebootRequested
         THEN /\ config' = [config EXCEPT !.pendingReboot = TRUE]
              /\ UciSet([uci EXCEPT !.pendingReboot = TRUE])
              /\ pc' = "rebootCommit"
         ELSE /\ pc' = "drain"
              /\ UNCHANGED <<config, uci, touched>>
    /\ changed' = FALSE /\ cause' = FALSE
    /\ UNCHANGED <<ret, flags, scan, signaled, upd, reloadSeen, events, outcome, state,
                   server, flash, owed, contact, untold>>

(* The reboot is owed to the ACS once it is recorded, in /tmp and on flash. *)
CommitReboot ==
    /\ pc = "rebootCommit"
    /\ UciCommit
    /\ owed' = (owed \/ (uci.pendingReboot /\ flash'.pendingReboot))
    /\ pc' = "rebootExec"
    /\ UNCHANGED <<ret, flags, local, config, events, outcome, state, server, uci,
                   contact, touched, cause, untold>>

(* RebootHandler::execute: in mock mode only a log line; otherwise           *)
(* /sbin/reboot, which returns at once, while the daemon goes on until the   *)
(* system takes it down (PowerLoss).                                         *)
ExecuteReboot ==
    /\ pc = "rebootExec"
    /\ IF config.mock THEN CallRefresh("mockBoot") ELSE pc' = "drain" /\ UNCHANGED ret
    /\ UNCHANGED <<flags, local, config, events, outcome, state, server, uci, flash, ghosts>>

MockBoot ==
    /\ pc = "mockBoot"
    /\ events' = {Boot, MReboot}
    /\ outcome' = Failed
    /\ pc' = "top"
    /\ changed' = FALSE /\ cause' = FALSE
    /\ UNCHANGED <<ret, flags, scan, signaled, upd, reloadSeen, config, state, server,
                   uci, flash, owed, contact, touched, untold>>

---------------------------------------------------------------------------
(* Mutant: the flag is loaded, not exchanged. *)
DrainedNot(set) == set

Drained(set) == set \ {"reload"}

(* reloadRequested_.exchange(false), before the refresh it asks for. *)
DrainReload ==
    /\ pc = "drain"
    /\ reloadSeen' = ("reload" \in flags)
    /\ flags' = Drained(flags)
    /\ outcome' = Failed
    /\ CallRefresh("decide")
    /\ UNCHANGED <<scan, signaled, upd, changed, config, events, state, server,
                   uci, flash, ghosts>>

Decide ==
    /\ pc = "decide"
    /\ IF reloadSeen \/ changed
         THEN events' = {ValueChange} /\ pc' = "top" /\ UNCHANGED server
         ELSE /\ IF StopSeen THEN Exit ELSE pc' = "wait" /\ UNCHANGED server
              /\ UNCHANGED events
    /\ changed' = FALSE /\ reloadSeen' = FALSE /\ cause' = FALSE
    /\ UNCHANGED <<ret, flags, scan, signaled, upd, config, outcome, state,
                   uci, flash, owed, contact, touched, untold>>

---------------------------------------------------------------------------
(* waitForNextInform. *)

(* Mutant: the predicate forgets the connection request. *)
WakeWithoutConnection == flags \ {"connection"} # {}

(* The predicate `wake` of the wait. *)
Wake == flags # {}

(* The predicate evaluated under waitMutex_: at first, after a notification  *)
(* and after a spurious wake-up.                                             *)
TestWake ==
    /\ pc = "wait"
    /\ IF Wake
         THEN pc' = "scan" /\ scan' = 1 /\ signaled' = TRUE
         ELSE pc' = "blocking" /\ UNCHANGED <<scan, signaled>>
    /\ UNCHANGED <<ret, flags, upd, changed, reloadSeen, config, events, outcome, state,
                   server, uci, flash, ghosts>>

(* The thread joins the waiters.  The notifiers do not take waitMutex_, so a *)
(* notification before this step finds nobody to wake.                       *)
Block ==
    /\ pc = "blocking"
    /\ pc' = "blocked"
    /\ UNCHANGED <<ret, flags, local, config, events, outcome, state, server,
                   uci, flash, ghosts>>

(* wait_for expires and returns the predicate; wait never does. *)
Timeout ==
    /\ pc = "blocked"
    /\ CwmpUp /\ config.periodic
    /\ signaled' = Wake
    /\ pc' = "scan" /\ scan' = 1
    /\ UNCHANGED <<ret, flags, upd, changed, reloadSeen, config, events, outcome, state,
                   server, uci, flash, ghosts>>

(* Mutant: a Connection Request is informed as a periodic one. *)
WakeEventsPeriodic(flag) ==
    IF flag \in {"connection", "informNow"} THEN {Periodic} ELSE {ValueChange}

WakeEvents(flag) ==
    CASE flag = "connection" -> {ConnectionRequest}
      [] flag = "informNow"  -> {Periodic}
      [] OTHER               -> {ValueChange}

(* Mutant: the chain of tests runs past its last flag. *)
AfterTestOffByOne(i) == i + 2

AfterTest(i) == i + 1

(* Mutant: a reload wakes the loop without re-reading the configuration. *)
RefreshesNever(flag) == FALSE

Refreshes(flag) == flag = "reload"

(* One test of the chain: stop_ is only read, the others are exchanged. *)
TestFlag ==
    /\ pc = "scan" /\ scan \in 1..5
    /\ LET flag == WakeOrder[scan]
       IN  IF flag \notin flags
             THEN /\ scan' = AfterTest(scan)
                  /\ UNCHANGED <<pc, ret, flags, signaled, events, server>>
             ELSE /\ scan' = 0 /\ signaled' = FALSE
                  /\ IF flag = "stop"
                       THEN Exit /\ UNCHANGED <<ret, flags, events>>
                       ELSE /\ flags' = flags \ {flag}
                            /\ UNCHANGED server
                            /\ IF Refreshes(flag)
                                 THEN CallRefresh("reloaded") /\ UNCHANGED events
                                 ELSE /\ events' = WakeEvents(flag)
                                      /\ pc' = "top" /\ UNCHANGED ret
    /\ UNCHANGED <<upd, changed, reloadSeen, config, outcome, state, uci, flash, ghosts>>

(* No flag was set: the period has elapsed, or the wait starts over. *)
NoFlag ==
    /\ pc = "scan" /\ scan = 6
    /\ scan' = 0 /\ signaled' = FALSE
    /\ IF signaled THEN pc' = "wait" /\ UNCHANGED events
                   ELSE pc' = "top" /\ events' = {Periodic}
    /\ UNCHANGED <<ret, flags, upd, changed, reloadSeen, config, outcome, state, server,
                   uci, flash, ghosts>>

Reloaded ==
    /\ pc = "reloaded"
    /\ events' = WakeEvents("reload")
    /\ pc' = "top"
    /\ changed' = FALSE /\ cause' = FALSE
    /\ UNCHANGED <<ret, flags, scan, signaled, upd, reloadSeen, config, outcome, state,
                   server, uci, flash, owed, contact, touched, untold>>

---------------------------------------------------------------------------
(* The other actors. *)

(* requestStop, requestReload, requestReconnect, requestInformNow and        *)
(* triggerConnectionRequest: set the flag, then notify_all.  Setting a flag  *)
(* that nobody is waiting for and notifying nobody commute with every step   *)
(* of the daemon but Block, so the two are one step here.                    *)
Request(flag) ==
    /\ pc # "exited"
    /\ flag = "connection" => server # NoListener
    /\ flags' = flags \cup {flag}
    /\ pc' = IF pc = "blocked" THEN "wait" ELSE pc
    /\ untold' = (untold /\ flag # "reload")
    /\ UNCHANGED <<ret, local, config, events, outcome, state, server, uci, flash,
                   owed, contact, touched, cause>>

(* condition_variable permits a wake-up nobody asked for. *)
SpuriousWakeup ==
    /\ pc = "blocked"
    /\ pc' = "wait"
    /\ UNCHANGED <<ret, flags, local, config, events, outcome, state, server,
                   uci, flash, ghosts>>

(* The ACS in a session, the trs CLI or an administrator edits the store,    *)
(* with or without committing it.  The reload request that should follow is  *)
(* a Request of its own and may never come.                                  *)
Edit(p) ==
    /\ uci' = Edited(uci, p)
    /\ flash' \in {flash, uci'}
    /\ touched' = TRUE /\ untold' = TRUE
    /\ UNCHANGED <<pc, ret, flags, local, config, events, outcome, state, server,
                   owed, contact, cause>>

(* A new process on the given store. *)
Restart(store) ==
    /\ pc' = "start" /\ ret' = "none"
    /\ flags' = {} /\ scan' = 0 /\ signaled' = FALSE
    /\ config' = UnreadConfig /\ upd' = NothingRead
    /\ changed' = FALSE /\ reloadSeen' = FALSE
    /\ events' = {} /\ outcome' = Failed /\ state' = "starting"
    /\ server' = NoListener
    /\ uci' = store
    /\ touched' = FALSE /\ cause' = FALSE /\ untold' = FALSE
    /\ UNCHANGED <<flash, owed, contact>>

(* procd respawns the daemon after it exited or died. *)
Respawn   == pc = "exited" /\ Restart(uci)
Crash     == Crashes /\ pc # "exited" /\ Restart(uci)

(* Staged changes live in /tmp and are lost with the power. *)
PowerLoss == Crashes /\ Restart(flash)

DaemonStep ==
    \/ ReadManagement \/ ApplyConfig \/ RestartServer
    \/ Start \/ NotReady \/ Booted \/ Top
    \/ \E o \in ContractOutcomes : SessionEnd(o)
    \/ PersistBootstrap \/ CommitBootstrap
    \/ ClearReboot \/ CommitClear
    \/ Download \/ TransferComplete
    \/ PersistReboot \/ CommitReboot \/ ExecuteReboot \/ MockBoot
    \/ DrainReload \/ Decide
    \/ TestWake \/ Block \/ Timeout \/ TestFlag \/ NoFlag \/ Reloaded

Environment ==
    \/ \E flag \in Requests : Request(flag)
    \/ SpuriousWakeup
    \/ \E p \in Profiles : Edit(p)
    \/ Respawn \/ Crash \/ PowerLoss

Next == DaemonStep \/ Environment

Spec == Init /\ [][Next]_vars

(* The next step of the daemon thread stops the listener, in a restart or at *)
(* the end of run, and so joins its thread, which may sit in recv for as     *)
(* long as a peer is silent (ConnectionRequestServer).                       *)
Leaving ==
    /\ StopSeen
    /\ \/ pc = "top"
       \/ pc = "scan" /\ scan = 1
       \/ pc = "decide" /\ ~reloadSeen /\ ~changed
Joining == server # NoListener /\ (pc = "restart" \/ Leaving)

(* The daemon thread is scheduled, a wait_for expires, and its blocking      *)
(* calls are bounded but for the join; nothing is assumed of the others.     *)
FairSpec == Spec /\ WF_vars(~Joining /\ DaemonStep)

---------------------------------------------------------------------------
(* Once a reboot is recorded on flash, the record outlives crashes, power    *)
(* losses, edits by others and sessions that do not report it: it is only    *)
(* cleared after the ACS accepted an Inform with "M Reboot"                  *)
(* (run: pending_reboot_event).                                              *)
RebootEventKept == owed => uci.pendingReboot /\ flash.pendingReboot

(* The ACS never learns that the device booted without learning of the       *)
(* reboot it asked for: an accepted Inform with "1 BOOT" leaves no reboot    *)
(* owed, as long as UCI can be read at start-up.  No such Inform need come:  *)
(* a daemon that is idle at start-up or whose first session fails replaces   *)
(* these events by those of its next wake-up, and the report waits, on       *)
(* record, for another process (run: events.push_back("M Reboot")).          *)
BootReportsReboot ==
    [][(/\ pc = "session" /\ pc' = "bootstrap" /\ outcome'.success
        /\ Boot \in events /\ ~ReadFaults) => ~owed']_vars

(* The listener, when one runs, serves the settings in config_: after every  *)
(* refresh, torn or not, no request is authenticated with old credentials.   *)
ListenerMatchesConfig ==
    pc # "restart" => server \in {NoListener, config.listener}

(* config_ holds what the store holds; an empty URL is not taken over. *)
Agrees(c, u) ==
    /\ c.enable = u.enable /\ c.periodic = u.periodic
    /\ c.url = u.url \/ u.url = NoUrl
    /\ c.mock = (AllowMock /\ u.mock)
    /\ c.listener = u.listener
    /\ c.bootstrapDone = u.bootstrapDone /\ c.pendingReboot = u.pendingReboot

(* The daemon never goes to sleep on a stale configuration it was told of:   *)
(* when it is blocked, no reload is pending and every edit was followed by a *)
(* reload request, config_ agrees with the store.  The exchange of the flag  *)
(* before the refresh is what makes this true of edits during a refresh.     *)
QuiescentConfigCurrent ==
    (pc = "blocked" /\ "reload" \notin flags /\ ~untold) => Agrees(config, uci)

(* The session after a session has a cause: run goes straight into another   *)
(* session with "4 VALUE CHANGE" only if a reload was requested or something *)
(* other than a successful write of the daemon itself changed the store (or  *)
(* a UCI command failed) since it was read before.                           *)
NoUncausedValueChange ==
    [][(pc = "decide" /\ pc' = "top") => reloadSeen \/ cause \/ touched]_vars

(* bootstrap_done is never stored before an ACS accepted an Inform. *)
BootstrapAfterContact ==
    uci.bootstrapDone \/ flash.bootstrapDone => contact # "none"

(* The milestones in the store tell the truth. *)
MilestonesTrue == RebootEventKept /\ BootstrapAfterContact

(* A running daemon leaves its ACS only when it reads EnableCWMP as false:   *)
(* no failed or empty read of the URL takes it off line.                     *)
LeavesAcsOnlyDisabled ==
    [][(CwmpUp /\ ~CwmpUp' /\ pc' # "start") => ~upd.enable]_vars

(* A process that is gone, or a new one, owes nothing to earlier requests. *)
Gone == pc \in {"exited", "start"}

(* Every wait has a time limit: periodic Informs are on, and no failed read  *)
(* at start-up has left the daemon without an ACS.  In an untimed wait the   *)
(* next three may fail, by the wake-up lost before Block.                    *)
WaitsTimed == [](pc \in {"wait", "blocking", "blocked"} => CwmpUp /\ config.periodic)

(* No join lasts for ever: no peer of the listener is silent for ever.       *)
ListenerStops == []<>~Joining

(* requestStop ends the run loop; and a reload request is taken up, whatever *)
(* else keeps the daemon busy, but in mock mode a rebooting ACS may put it   *)
(* off with the refresh of a mock boot.                                      *)
StopTerminates == "stop" \in flags ~> Gone
ReloadServed == "reload" \in flags ~> ("reload" \notin flags \/ Gone \/ pc = "mockBoot")
StopAndReloadServed ==
    (WaitsTimed /\ ListenerStops) => StopTerminates /\ ReloadServed

(* Sessions that follow each other without a wait. *)
BackToBack == pc = "session" /\ events \cap {ValueChange, MReboot} # {}

(* A Connection Request produces a session with "6 CONNECTION REQUEST",      *)
(* unless back-to-back sessions keep the daemon from waiting for ever, or    *)
(* the join of a listener never returns.                                     *)
ConnectionRequestInforms ==
    (<>[]~BackToBack /\ ListenerStops) =>
        ("connection" \in flags ~> (Gone \/ (pc = "session" /\ ConnectionRequest \in events)))

(* As long as waits have a time limit, every Connection Request informs      *)
(* (triggerConnectionRequest, waitForNextInform).                            *)
ConnectionInformsWhenTimed == WaitsTimed => ConnectionRequestInforms

(* What the loop does with requests is what RunLoop says: it looks at them   *)
(* before it sleeps and when it wakes, and goes to sleep on one only in the  *)
(* gap before Block (waitForNextInform).                                     *)
Phase == CASE pc \in {"start", "exited"} -> "off"
           [] pc = "wait" -> "testing"
           [] pc = "scan" -> IF signaled THEN "testing" ELSE "expired"
           [] pc \in {"blocking", "blocked"} -> pc
           [] OTHER -> "busy"
Loop == INSTANCE RunLoop WITH phase <- Phase
ImplementsRunLoop == Loop!Spec

(* GENIEACS_TEST.md: "The first successful session contains 0 BOOTSTRAP".    *)
FirstSessionIsBootstrap == uci.bootstrapDone => contact = "bootstrap"

==========================================================================
