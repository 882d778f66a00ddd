# A TLA+ model of tr69d

`tr69d` is a TR-069 (CWMP) client for OpenWrt.  It runs sessions against an
auto-configuration server (ACS), lets the ACS read and write parameters that a
Lua "transformer" keeps in UCI, listens for connection requests, downloads
files and reboots the device.  This directory models the program's control with
TLA+, checks the models with TLC on small instances and proves their main
properties with TLAPS for every value of the constants.

All paths below are relative to the repository.

## 1. The system

### Parts, state, operations

| Part | Code | State | Operations |
|---|---|---|---|
| Daemon main loop | `src/Tr069Daemon.cpp` | `config_`, five atomic flags, `events`, `state_`, the listener object, two milestones in UCI (`bootstrap_done`, `pending_reboot_event`) | `run`, `refreshConfig`, `waitForNextInform`, `restartConnectionRequestServer`, `requestStop/Reload/Reconnect/InformNow`, `triggerConnectionRequest`, `status` |
| CWMP session | `src/CwmpSession.cpp` | `stateMachine_`, the outcome under construction, the HTTP handle | `run`, `runTransferComplete` |
| State machine | `src/CwmpStateMachine.cpp` | one of five states | `transition`, `reset` |
| RPC handler | `src/cwmp/rpc_handler.cpp` | none | `handle` for five methods and a fault |
| SOAP | `src/SoapParser.cpp`, `src/SoapBuilder.cpp` | none | parse, build |
| HTTP client | `src/HttpClient.cpp` | a curl handle and its cookies | `post`, `download` |
| Transformer | `transformer/transformer.lua` | none of its own; the UCI store (`/etc/config` and the staging area), or a mock file | `getParameterValues`, `getParameterNames`, `setParameterValues` |
| Lua bridge | `src/transformer/lua_transformer.cpp` | a Lua state behind a mutex | the three calls above |
| Device map | `transformer/maps/Device.map` | a constant table | types, ranges, UCI keys |
| Connection Request listener | `src/ConnectionRequestServer.cpp` | descriptor, `running_`, serve thread, nonce | `start`, `stop`, `serve` |
| UCI adapter | `src/UciAdapter.cpp` | the UCI store | `get`, `set`, `commit` |
| Download manager | `src/DownloadManager.cpp` | files in `/tmp` | `execute` |
| Reboot handler | `src/RebootHandler.cpp` | none | `execute` |
| Runtime | `src/main.cpp`, `src/UbusServer.cpp` | the event loop, two threads | start, stop, the ubus methods |
| trg, trs | `transformer/cli.lua` | a process per call | get, set |
| Supervision | `openwrt/files/etc/init.d/tr69` | procd's instance | start, respawn, reload |
| Wi-Fi recovery | `openwrt/imagebuilder/files/usr/sbin/dev-wifi-recovery` | the radios of the demonstration image | restart |
| Mock ACS | `docker/acs-mock/server.py` | a device store on disk | Inform, list |

### How they interact

The daemon thread is the only one that opens sessions and writes `config_`.
Others reach it through atomic flags and a condition variable: the ubus thread
(`reload`, `reconnect`, `inform_now`), the signal handler or the end of the
event loop (`stop`), and the listener's serve thread (`connection`).  All
persistent state is in UCI, reached by one short-lived `uci` process per
command: by the daemon for its milestones and its configuration, by the
transformer inside the daemon when the ACS sets parameters, by `trs` in another
process, by administrators.  UCI stages changes per package in `/tmp`, visible
to all at once, until somebody's `commit` of the package writes all of them to
flash.  After a successful `setParameterValues` the transformer calls
`ubus call tr69 reload`, which sets the daemon's reload flag.

### What is hard, and what makes each part correct

* **Daemon**: edits of the store while it is being read, requests between any
  two of its steps, crashes between a `set`, a `commit` and a reboot, failing
  commands that are only logged.  Correct: no recorded reboot is lost and none
  is cleared unreported; the milestones are true; it never sleeps on a
  configuration it was told is stale; its listener serves the current settings;
  its own writes do not keep it busy; a failed read does not take it off its
  ACS; stop, reload and connection requests are acted on.
* **Session**: the ACS decides everything, every POST may fail after it took
  effect.  Correct: the caller acts on exactly what the ACS confirmed; success
  means the ACS is done; the state machine is never left behind.
* **Transaction**: not atomic, any command may fail, others use the same
  staging area and write the same keys (every transaction writes the
  `ParameterKey`), the power may go.  Correct, but for the keys two of them
  write at once: accepted means durable, rejected means undone unless the
  rollback fails too, no key ever gets a value of another or of an earlier
  request, others' staged values survive, and no half is ever durable by
  itself, whether the process is killed or the power goes.
* **Configuration values**: written by one language, by hand as well, read by
  another that parses again, with integers of three widths.  Correct: what was
  accepted is what the daemon works with, and the ACS is sent to a listener that
  is there, never to itself.
* **Download**: many calls that may fail one after the other, between two
  sessions whose messages may be lost.  Correct: what is reported is what is on
  disk, a started download is reported or lost with the report session, the ACS
  hears one acknowledgement and then one result at most, the job ends.
* **Listener**: restarted by one thread while another serves, one peer at a
  time and without a time limit.  Correct: no use of a closed descriptor, no
  request without the current credentials; and nothing but a peer that is
  connected and silent for ever keeps stop from returning or the right password
  from being served.
* **Runtime**: the daemon thread calls its own process over ubus with the Lua
  mutex held, the main thread takes that mutex to answer `status`, and main
  joins the daemon thread.  Correct: every wait ends, an accepted or passed-on
  reload reaches the daemon, a cancelled loop ends the process, nothing is
  destroyed in use.

The list with the lines where each hazard bites is `hazards` in `PROJECT.json`.

## 2. Modules

    CwmpTypes            event codes, SessionOutcome, the contract's outcomes
    CwmpStateMachine     the transition table
    SessionContract      abstract: open, then closed once with an outcome
    CwmpSession          the session; implements SessionContract
    RunLoop              abstract: what the run loop does with requests
    Tr069Daemon          the daemon; a session is a step of SessionContract;
                         implements RunLoop
    UciTransaction       setParameterValues, uci command by uci command
    Settings             what becomes of a value between the store and its use
    TransferContract     abstract: acknowledged, then reported at most once
    Transfer             a Download and its report; implements TransferContract
    ConnectionRequestServer   the listener, its thread and its peers
    UbusRuntime          event loop, daemon thread, Lua mutex, calls on the bus;
                         its daemon thread implements RunLoop
    *Proofs              theorems on the module of that name
    MCDaemon, MCTransaction, MCSettings, MCTransfer,
    MCConnectionRequest, MCRuntime                  instances for TLC

**Composition.**  `Tr069Daemon` does not embed `CwmpSession`: its action
`SessionEnd` picks any outcome in `ContractOutcomes`, which is all that
`SessionContract` allows, and `CwmpSession` is shown to implement
`SessionContract` (refinement mapping `open <- pc # "done"`).  In the same way
`Edit` stands for what `UciTransaction` does to the store, in any order and
with any part committed, and `RestartServer` and the request `"connection"` for
what the listener does to the daemon.  `Download` and `TransferComplete` of the
daemon are one step each; `Transfer` takes them apart, and reduces the sessions
to what matters for a download: is the ACS's command acknowledged, is the result
told.  `Settings` says how the records `Tr069Daemon` treats as values come about.
`UbusRuntime` reduces `run` to the points
where it meets the main thread (flags, mutex, notification, end) and says how
the other flags of `Tr069Daemon`'s `Request` come about.  That the loop it
reduces `run` to is the one `Tr069Daemon` details is not left to the eye: both
implement `RunLoop` (`Loop`, with the operator `Phase` of each module as the
refinement mapping and the flags as they are), whose promises are that no
request is lost (`RequestsKept`) and that the thread goes to sleep on one only
if it came in the gap between test and wait (`SleepsOnlyPastGap`).

### CwmpSession

One object lives for one call.  `pc` names the POST whose reply is awaited; each
action but `Close` and `ParseFailure` is the code from one reply to the next
POST.  A reply is not `ok` (nothing sent, answer lost, status not 2xx) or has a
body that is one of the methods, one of the responses the session asks for,
empty or malformed.  `HandleRpc` is `RpcHandler::handle`: only
`SetParameterValues` changes the device, and its transaction may be committed or
refused.  `MaxRpcs` bounds the RPCs an ACS issues.  Ghosts: `confirmed` (methods
whose response was answered), `unanswered`, `rejected`.

### Tr069Daemon

A step is the code between two points where somebody else can interfere: a
`uci` command, an access to an atomic flag, a blocking call.  `refreshConfig`
reads in two steps (`ReadManagement`, `ApplyConfig`), so that an edit may tear
the configuration; `waitForNextInform` is split into the test of the predicate,
the moment the thread joins the waiters (`Block`), the wake-up and the chain of
flag tests.  `Request(f)` sets flag `f` and notifies: the two commute with all
steps of the daemon but `Block`, and a notification before `Block` wakes nobody.
The store is two records: `uci`, what `uci get` shows, and `flash`, what
survives a power loss.  `Edit` writes any profile to `uci`, committed or not;
`Crash`, `PowerLoss` and `Respawn` start a new process.  `RestartServer` and
`Exit` contain the join of the listener's thread, which need not end: while
`Joining` holds, no fairness is assumed of the daemon.  Switches name the
faults a run explores: `WriteFaults`, `ReadFaults`, `Crashes`, `AllowMock`.
Ghosts: `owed` (a reboot recorded on flash and not yet reported), `contact`,
`touched`/`cause` (may the store differ from what was last read), `untold`
(was there an edit without a reload request since).

The string settings are a URL, a listener setting (bind, port, credentials and
authentication together) and booleans.  Two URLs are no more than one and
`NoUrl` to this code, which only compares them and tests them for emptiness;
the proofs hold for any set.

### UciTransaction

`pc` is the next `uci` command of the transaction and `i` the assignment it is
for; `ParameterKey` is the last assignment, as in the code.  Nothing is touched
before all items are valid (`Begin`).  `Set` or `Commit` failing, or a read-back
that differs, starts the rollback, which restores key by key in any order,
ignores failures and commits.  Between any two commands other processes may set
or delete keys in `Foreign`, those of the transaction among them, and commit the
package, the process may be killed (`Die`: what it staged stays for anybody to
commit), and the device may lose power.  Ghosts: `before` (its keys at `Begin`),
`shared` (somebody else committed since), `clashed` (keys of the transaction that
somebody else wrote since).  `before`, `todo` and the other ghosts outlive a killed
process, so that the properties speak of what it left behind until the next
transaction begins or somebody commits.  What a key in `clashed` ends with is
between the two writers: either may win, and a rollback puts back its own
original.  The properties are about the others, `Kept`, and about what that
clash does to them.
`MaxTroubles` bounds what goes wrong within one transaction: failing commands,
a clash, and a parameter named twice in a request, whose first read-back cannot
succeed.
With one trouble the rollback succeeds; with two it may fail itself, and nobody
looks.  `RejectedLeavesNoTrace` and `NoHalfTransaction` are therefore about
transactions with at most one, while `WritesItsOwnOnly` holds whatever fails: a
key of the transaction nobody else wrote only ever gets the value assigned to it or the one it
had, or is removed (an original that could not be read is restored as absent), so a
mixture is one of old, new and lost values, never a value of another key or of an
earlier transaction.
An absent option is `Missing`; with the Lua 5.1 of the target `capture` yields
an empty string for it, and setting an option to the empty string removes it, so
that both branches of `restore_originals` are `Missing` here.

### Settings

The transformer's `normalize` for `EnableCWMP` and `PeriodicInformInterval`, the
reads of these and of the port in `readConfig` and `UciAdapter::getUnsigned`, the
16 bits of `bind`, and the getter of `ConnectionRequestURL` with its checks and
its list of places to look for an address.  The ACS writes through `normalize`,
an administrator writes any text or deletes the option.  A text is its form
(digits, digits after a plus or a blank, after a minus, before other text, none)
and a number, so that `std::stoul` is what it does, not the identity: it skips
blanks and a plus, negates modulo its width, stops at the first other character
and throws on overflow, while the transformer's patterns admit digits only.  The widths
are constants.  `stage` is a ghost: what happened since the last write; `meant`
is one: what the ACS's values mean.  That the listener may be disabled is one of
the reasons for which `Bind` may leave it unbound.

### Transfer

`pc` is the next library call of `DownloadManager::execute` and
`HttpClient::download`, or the message of the report session whose reply is
awaited.  Each may fail.  `files` is what is on disk under each name, `acked` and
`told` what the ACS got, which may be more than what the daemon knows it got.
Two commands may have the same target.  `Crash` ends the process and its job,
`PowerLoss` takes the files as well (`/tmp` is in RAM), and `Respawn` is procd's
new process: `up` tells a job that died with its process from one that was
dropped.  Commands are issued once.  `cause = "flush"` is the failure of `fclose`
that `download()` does not look at and reports as a success; `cause = "remains"`
is a failed transfer whose fragment `std::remove` failed to remove, which nobody
notices either; after a `curl_easy_init` that fails the empty file stays.

### ConnectionRequestServer

The owner's `start` is one step, `stop` four (`running_`, `shutdown`, `join`,
`close`).  The serve thread loops through `LoopTest`, `Select`, `Accept`,
`Serve`.  Peers connect, send a request that answers the last challenge they
got, send only a part of one, stay silent, or hang up.  The nonce of a server
object is its number; a digest is the pair of nonce and password, i.e. MD5 is
taken as injective.  A header also has an order: `digestValue` finds the text
`nonce=` in an earlier `cnonce=` too, so that the peers in `CnonceFirst` are
refused whatever they answer (`ReadNonce`).  Peers send answers of their own; the
code does not count `nc` and would take a copy of another's header for as long as
the object lives, as `docs/GENIEACS_TEST.md:122` admits.
`MaxServers` bounds the objects created, `MaxCuts` the cut requests
and lost connections.

### UbusRuntime

`main` and `daemon` are the next steps of the two threads, `queue` the calls
ubusd has passed on (the one being answered first), `call` what each caller
knows.  A caller that gives up stays in the queue as `Gone`: nothing takes the
call back.  `status` stops the loop until the mutex is free (`HandleStatus`,
`StatusLock`, `StatusReply`); a transaction of the daemon calls `reload` as
`Child` between `Notify` and `Notified` with `lua = "daemon"`.  So the circular
wait (main for the mutex, the daemon for main's answer) is reachable and only
the 30 seconds of the `ubus` tool end it.  Afterwards main answers `status`,
finds the abandoned `reload` and requests it.  libubox and libubus are external
and modelled from their use: `uloop_run` clears the cancellation, `uloop_end`
sets it without waking the poll, a signal sets it and wakes the poll, a lost bus
sets it.  A `status` reply copies state and configuration before it waits and
may be as old as that wait; nothing promises more.  `MaxQueue` bounds the calls
not yet handled, those abandoned included.  Ghost: `owed` (callers whose reload
was passed on and not yet requested).

## 3. What TLC checks

| Run | Question | Result |
|---|---|---|
| `session` | types; the state machine accepts every transition; confirmed work is reported; success drains the ACS; at most one unanswered set; refinement of `SessionContract` | holds, 2.6 thousand states |
| `session_transfer_reboot` | is a reboot acknowledged in *any* session reported? | no (finding 3) |
| `daemon_core` | types; the milestones are true (reboot event kept, bootstrap after contact); a boot that is informed reports the reboot; listener current; no sleep on a stale configuration; no uncaused session | holds, 2.7 million states |
| `daemon_live` | with reads that fail, while waits are timed and the listener can be stopped: stop ends the loop, reload is served, a connection request is informed; only `EnableCWMP` takes the daemon off its ACS; refinement of `RunLoop` | holds, 0.37 million states |
| `daemon_lost_wakeup` | connection request is informed without periodic Informs? | no (finding 2) |
| `daemon_bootstrap` | is the first successful session a `0 BOOTSTRAP`? | no (finding 1) |
| `transaction` | types; accepted is durable; rejected leaves no trace; no half durable by itself; its own values into its own keys, others' staged values kept; beside writers of the same keys | holds, 1.4 million states |
| `transaction_shared` | is no half durable even when another process commits? | no (finding 4) |
| `transfer` | types; the report matches the disk; a started download is reported; refinement of `TransferContract`; the job ends | holds, 7 thousand states |
| `settings` | accepted values are applied; the advertised URL is served | holds, 0.9 million states |
| `listener` | types; no closed descriptor in use; requests authorized; only a peer silent for ever keeps stop from returning; right password served, silence of another apart | holds, 0.47 million states |
| `runtime` | types; nothing destroyed in use; an accepted reload was requested; notification and `status` return; passed-on reloads are requested; a cancelled loop ends the process; refinement of `RunLoop` | holds, 126 thousand states |

**Bounds and why they suffice.**  Three RPCs allow an RPC after an RPC after an
RPC, a reboot behind a set, and a failed answer at each position.  The daemon's
runs have no bound: flags and events are sets, there is no counter.  Requests
differ per run only to keep the state space small: each run has the flags its
properties are about: the core run has `reload`, on which the configuration
depends, the live run those whose service it checks; `reconnect` and
`inform_now` occur in the run of finding 2 and, as requests of the bus, in
`runtime`, and the theorems hold for all five.  Three profiles of the core run
switch everything that matters to the safety properties on and off and change
the listener's settings while it stays on; the live run has one, with CWMP,
periodic Informs and mock reboots on, and failing reads give every other
combination.  A transaction has up to two items and the
`ParameterKey`, a repeated key, an invalid value behind a valid one and a
read-only parameter, over two values; two successive transactions, and so
rollbacks onto a previous transaction's values, occur because transactions
repeat.  Others write the `ParameterKey`, as every transaction does, and one key
that is none of the transaction's.  Two troubles are the least with which a
rollback fails.  Two listener objects are the least that has a nonce from before
a restart; two peers the least for a queue, and a third has the header that is
misread.  Three calls in the queue are a
`status`, the notification behind it and an abandoned call; the client and the
daemon's own notification are the two callers that can stand in each other's way.
Three downloads into two names have one overwrite another's file, one reported
while the next is acknowledged, and one dropped in the session that reports
another.  `Settings` has integers of 4, 3 and 2 bits for 64, 32 and 16: what
happens at a width happens at its end, and the numbers written include 0, the
largest value of the range, one beyond each width (negated ones among them) and one
inside all.  `OneSide` restricts the states explored to those where either the
boolean and the interval or the port, the URL and the addresses have values: the
two sides do not act on each other, and the proofs do not use it.  Two places for
an address are the least that has a first one passed over.

**Deadlock** is checked but for the sessions and the runtime (which end) and the
listener (whose number of objects is bounded).

**Fairness.** A session: every POST returns, libcurl is given a timeout.  The
daemon: its thread is scheduled, its blocking calls end, a `wait_for` expires;
nothing is assumed of requests, edits, respawns or spurious wake-ups.
`StopAndReloadServed` and `ConnectionInformsWhenTimed` assume `WaitsTimed`:
whenever the daemon waits, CWMP is up and periodic Informs are on, so that its
wait is a `wait_for`.  The code guarantees it only as long as the reads at
start-up succeed and the settings say so; in an untimed wait the properties fail
by the wake-up of finding 2, which a request that comes just before the wait
shares.  `ConnectionRequestInforms` is conditional on back-to-back sessions
coming to an end, since an ACS or an administrator can cause one after the
other. `StopAndReloadServed` allows for the refresh of a mock reboot, which
applies the edit without taking the flag.  The join of the listener's thread is
no step that is assumed to end: the three properties have the antecedent
`ListenerStops`, that the daemon is not stuck in it for ever.  The listener: its
two threads are scheduled, and nothing is assumed of peers.  `recv` has no
timeout, so `StopReturns` says that a stop returns or the thread is held, from
some time on for ever, by a peer that is connected and silent (`HeldBySilence`):
that hazard is the code's, and the property shows that it is the only one.
`RightPasswordServed` has what the peer in question does as its antecedent
(`Persists`: it connects and sends again and again), nothing of the others, and
the same exception, as one thread serves all.  The runtime: both threads are
scheduled, the join of the listener's thread is taken as ending, a thread
waiting for the mutex gets it when it is free again and again (`std::mutex`
alone does not promise it, but between two uses the daemon waits for the
network), sessions end, the `ubus` tool gives up.  A download: sleeps end and
every transfer and POST has a time limit.  The limit is real but the sleep is
long: `DelaySeconds` is an `unsigned` (and `stoul` takes "-1" for its largest
value), slept on the daemon thread; `JobEnds` says that it ends, not when.
Without periodic Informs the process may not end after a cancellation, by the
lost wake-up of finding 2: `CancelEndsProcess` is therefore about timed waits,
and says so (`Timed`).

**Mutants.**  Each property is also checked against a bug that would break it,
stated as an operator next to the definition it replaces: a guard dropped, a
reset forgotten, a result ignored.

## 4. Findings

1. `docs/GENIEACS_TEST.md:28` promises `0 BOOTSTRAP` in the first successful
   session.  When the first session fails, or there is no ACS URL at start-up,
   the events are overwritten by the next wake-up and `bootstrap_done` is stored
   after a session without it (`Tr069Daemon.cpp:284-305, 344-355`).  `M Reboot`
   is overwritten in the same way: after a reboot the ACS asked for, a process
   that starts without a URL, or whose first session fails, does not send it
   (`docs/SYSTEM_OVERVIEW_FLOW.md:402` has it sent).  The milestone stays, so the
   next process reports that reboot: `MilestonesTrue` is that it is kept,
   `BootReportsReboot` that an accepted Inform of a boot has it.
2. `docs/GENIEACS_TEST.md:74` says a connection request wakes the daemon.
   `triggerConnectionRequest` takes no lock, so flag and notification may fall
   between the test of the predicate and the wait (`Tr069Daemon.cpp:224-241`);
   without periodic Informs the wait then lasts until somebody else notifies.
   The other request functions have the same form; `requestStop` then leaves
   the process hanging in `join`.
3. `docs/DESIGN.md:106` has `RebootHandler` run after a reboot is acknowledged.
   In the session that reports a download it does not (`CwmpSession.cpp:102`).
4. `docs/RPI5_IMAGE.md:67` calls writes transactional.  The staging area is
   shared, so another process's commit can make half of a transaction durable
   (`transformer.lua:438-460`, `Tr069Daemon.cpp:300`).

## 5. What is proved

All theorems hold for every value of the constants that satisfies the named
assumptions of the modules: for the daemon that `NoUrl` and `NoListener` are not
among the other values and that the profiles are settings; for the transaction
that the `ParameterKey` is not writable and that requests are sequences of
assignments, while other processes may write any key; for the settings that the widths
of the integers are ordered, that the range of the interval and the default port
fit in theirs, and that the ACS's host is not an address of the device; for the
others only types and that the marks (`Missing`, `Absent`, ...) are no values.

* **CwmpSessionProofs**: type correctness (`SessionTypeCorrect`), then the
  inductive invariant `SessionInv` (`SessionInvariant`): what each `pc` implies
  for the state machine, the outcome and the ghosts.  The four safety properties
  follow from it; the same invariant shows that each step is a step of
  `SessionContract` or a stutter (`SessionImplementsContract`).
* **Tr069DaemonProofs**: type correctness needs to know which callers
  `refreshConfig` returns to (`CallerKnown`).  `RebootEventKept` is not
  inductive: between `ClearReboot`'s set and its commit the two stores differ,
  and the proof needs that `config_` cannot hold the event as pending behind a
  session that reported it unless nothing is owed (`PaidBeforeCleared`), and that
  the first read of a process knows of an owed reboot (`BootKnows`).
  `BootLeavesNoRebootOwed` adds `BootEventsWhole`: events that name the boot name
  the owed reboot as well, until they are overwritten as a whole.
  `QuiescentConfigCurrent` and `NoUncausedValueChange` follow from `ConfigInv`:
  unless `touched`, `config_` (or, during a refresh, what was read so far)
  agrees with the store, and unless `untold` the daemon has a reload pending or
  has nothing to be told.  `BootstrapAfterContact` needs `ContactMade`: the
  milestone in `config_` is as true as the one in the store.  With
  `RebootEventKept` it is `MilestonesTrue`.  `LoopStep` shows that each action is
  a step of `RunLoop` or a stutter (`DaemonImplementsRunLoop`), from which the
  daemon's share of its promises follows (`DaemonLosesNoRequest`).
  `StopRunsDown` has a rank, `StepsToExit`: from anywhere in the loop at most
  nineteen steps of the thread remain once `stop_` is set, the longest way through
  a session's milestones, a download, its refresh and a reboot; nobody takes the
  stop back.
* **UciTransactionProofs**: `WritesItsOwnOnly` from `OwnKeysOnly` (assignments and
  originals are the transaction's own keys) and `OriginalsGenuine` (an original is
  what the key held at `Begin`, or nothing where reading it failed), for any number
  of failures.  `AcceptedIsDurable` from `Checked` (from the commit
  on both stores agree on the assigned keys nobody else wrote, and the read-back has
  compared what lies behind `i`), whatever keys others write.
  `RejectedIsUndone` and `NeverHalfDurable` hold for any `MaxTroubles`, of the
  transactions with at most one trouble, as the properties say: with two the
  rollback itself may fail, unnoticed.  Their invariant `Undoable` says, per `pc`,
  what the originals hold, which keys the rollback still owes, and what flash may
  be; `Counted` that a rollback has used up a trouble, so that with one it
  succeeds, and so has a clash.  A read-back that differs is a trouble of its own
  only for a repeated key or one others wrote (`LastWins`,
  `DifferentMeansRepeated`).  `TransactionBounded`: a request of
  n assignments runs at most 4n + 2 commands, whatever fails; the rollback's share
  needs that the originals are no more than the assignments.
* **TransferProofs**: `ReportMatchesDisk` from `ReportTrue`, which follows the file
  through the calls; `StartedIsReported` step by step; the refinement from
  `OneReport`: what is told or under way was acknowledged, and what is under way was
  not told.  `JobBounded`: nine steps from acknowledgement to the end of the
  report session, and no other job starts among them.
* **SettingsProofs**: type correctness, with what each read can yield (`Widths`);
  `AcceptedValueApplied` from `Current` (a value of the ACS is in
  the store in normal form, and after a read `config` is what the store reads as)
  and `ReadsAsIs` (nothing in the admitted range is cut); `AdvertisedUrlServed` from
  `Reachable` and `SanePort` (a sane port reads as what it is written as).
* **ConnectionRequestServerProofs**: `SocketOutlivesThread` from an invariant on
  where the two threads may be together (`ThreadsInStep`); type correctness;
  `RequestsAuthorized` from `AnswersOwn`: a Digest answer under way was made from
  its peer's last challenge and its own password, so what `authorized` accepts was
  challenged by the running object and knows the password.  `AnswersJudged`
  is the converse: the right password, in a header that names `nonce` first, is
  turned away only unchallenged by the running object, and the refusal hands out
  its challenge; a header that names `cnonce` first never gets through.  `StopBounded`: seven
  steps of the two threads end a `stop`, since `ThreadsInStep` has `running_` false
  from then on; connections still in the backlog are not served.
* **UbusRuntimeProofs**: the mutex and the order of shutdown from where each
  thread is; `AcceptedMeansRequested` from `QueueInv`: whoever is named in the
  queue waits and is named once, and a reload owed to a caller is in the queue
  before every later call of that caller, so an answer to the later one finds
  nothing owed.  The same invariant gives `OwedReloadIsQueued`: the poll cannot
  sleep while a reload is owed.  `NoCircularWait`: at any time main or the daemon
  can take a step, or the notification's time limit ends the wait, or there is
  nothing to do; the one exception, named `StopLost`, is the thread joined while it
  sleeps without a period on a stop from the gap (finding 2).
  `CancelledRunsDown`: five steps of main from the cancellation to the join.
  `RuntimeImplementsRunLoop` and `ThreadLosesNoRequest` are as for the daemon.

The theorems on bounded numbers of steps (`SessionBounded`, of a session: two
steps for each RPC the ACS issues, seven besides; `StopRunsDown`,
`TransactionBounded`, `JobBounded`, `StopBounded`, `CancelledRunsDown`) are the
safety cores of the liveness properties.  With the fairness that each next
step is taken some time (section 3), the program's thread reaches its end, and
that no other actor lengthens its way is what the theorems show; in `StopRunsDown`
and `CancelledRunsDown` there remains that the steps are enabled, which in
`UbusRuntime` is `NoCircularWait`.  The
promises of `RunLoop` are proved once in each implementing module, through
`Loop!Next`, since the proof system cannot cite an instantiated theorem.

Only model-checked: all liveness (the provers do not do fairness nor `ENABLED`),
that is `StopAndReloadServed`, `ConnectionInformsWhenTimed`, the three of the
runtime, `JobEnds`, the two of the listener and the liveness half of
`ImplementsContract`; and the findings.  The mutex itself (`MutexAccounted`) is
only proved, as part of `MutexAndLifetime`.


## 6. Plan

Done, in this order because the daemon and the session carry the program: types,
state machine, contract, session; daemon; transaction; listener; runtime; the
download; the settings; the run loop as a contract of its own; the theorems of
section 5.  What may follow:

1. The session and the download composed in one module, where the dropped
   Download of a report session and the one of a normal session are the same
   action.
2. Proofs of what `WaitsTimed` stands for: the configuration under which every
   wait of the daemon has a period, as an invariant of `config` and `state`.
3. Two transactions spelled out over one store, instead of one and `Foreign`:
   both write the `ParameterKey`, so the question is what each may leave in it.

## 7. Seen on the way, not run

Differences between code and documents that no behaviour depends on here:
`conn_request.auth` defaults to `None` in `Device.map` and to `Digest` in
`Tr069Daemon.cpp:150`; `enable='1'` written by hand reads as disabled, since
`readConfig` compares with `"true"`; `mock_mode` has no effect without
`TR69_ALLOW_MOCK_REBOOT`; the download directory is `/tmp/tr69-downloads` in
`Tr069Daemon.cpp:94` and `/tmp/tr069-downloads` in `docs/DESIGN.md:104`; a port
that is 0, negative or above 65535 is bound and advertised as different numbers
(`Sane` excludes it from `AdvertisedUrlServed`), and so is one behind a plus or a
blank, which `std::stoul` takes and the getter's pattern does not; a configured
URL on the ACS's host with an unusual port is accepted;
`DefaultActiveNotificationThrottle` has no range in `Device.map` and is cut to 32
bits unchecked (`Tr069Daemon.cpp:129-131`), but nothing uses it.

Weaknesses that the models show and no document denies, so that the properties
name them as exceptions: a peer that connects to the listener and sends nothing
holds its thread, and with it a restart of the listener or the end of the daemon
(`ConnectionRequestServer.cpp:57, 180`); a Digest header with `cnonce` before
`nonce` is refused every time (line 87); what a killed `trs` had staged is
committed by the next commit of anybody, a rollback included; a rollback puts
its original over the value another process gave the same key; a truncated file
is reported as downloaded when `fclose` fails (`HttpClient.cpp:98`).

## 8. Not modelled

Message texts and XML (layout), MD5 (a pure function with its own tests),
logging, printing, TLS options, fault texts, marshalling between C++ and Lua,
packaging, image and test scripts (the Wi-Fi recovery among them, which shares
nothing with the program but the interface), the mock ACS and the mock database
of the tests (one process writes its copy over another's, in tests only), generated build trees; the build without
ubus, whose only other part is a thread that waits for signals.  `retryMinimumWait`
and `retryMultiplier` are read by the daemon and used nowhere.
