----------------------------- MODULE Settings -----------------------------
(***************************************************************************)
(* From what is written into UCI to what the device does: normalize and    *)
(* the getter of ConnectionRequestURL in transformer.lua, the numeric      *)
(* reads of UciAdapter and readConfig, the 16 bits of the listening port.  *)
(* The ACS (and trs) write through the transformer; an administrator       *)
(* writes anything with `uci set`.  The daemon reads the store, restarts   *)
(* its listener and tells the ACS, in an Inform, where to reach it.  All   *)
(* reads of UCI succeed here; those that fail are in Tr069Daemon.          *)
(*                                                                         *)
(* The widths of C++ integers are the constants ULong, Unsigned and Port:  *)
(* the number of values of the type (2^64, 2^32, 2^16 on the target).      *)
(***************************************************************************)
EXTENDS Integers

CONSTANTS
    ULong, Unsigned, Port,
    MaxInterval,      \* upper end of PeriodicInformInterval in Device.map
    DefaultInterval, DefaultPort,
    Numbers,          \* the numbers anybody writes
    Usable, Unusable, \* IPv4 addresses of the device usable_ipv4 lets pass, or not
    Others,           \* other hosts, the ACS's and localhost among them
    AcsHost, AcsPort, \* of the ACS URL
    UsualPorts,       \* 3000 and 7547: those of the ACS in use with this client
    LocalHost,
    Sources,          \* where an address is looked for, the number of places (5)
    Missing           \* an absent option; also: no address, no listener, no port

ASSUME WidthAssumption ==
    /\ ULong \in Nat /\ Unsigned \in Nat /\ Port \in Nat
    /\ 1 < Port /\ Port <= Unsigned /\ Unsigned <= ULong
ASSUME DefaultAssumption ==
    /\ MaxInterval \in Nat /\ MaxInterval < Unsigned
    /\ DefaultInterval \in 1..MaxInterval /\ DefaultPort \in 1..(Port - 1)
ASSUME NumbersAssumption == Numbers \subseteq Nat
ASSUME HostAssumption ==
    /\ Usable \cap Unusable = {} /\ (Usable \cup Unusable) \cap Others = {}
    /\ {AcsHost, LocalHost} \subseteq Others
    /\ AcsPort \in (1..(Port - 1)) \cup {Missing} /\ UsualPorts \subseteq Nat
    /\ Sources \in Nat

(* Booleans in the spellings that differ to this code. *)
Spellings == {"true", "false", "1", "0", "TRUE", "maybe"}

(* Texts of a number: digits, digits after a blank or a plus, digits after  *)
(* a minus, digits before other text.  A text without digits reads like     *)
(* none at all.                                                             *)
Numerals ==
    [form : {"digits", "plus", "minus", "tail"}, n : Numbers]
        \cup {[form |-> "text", n |-> 0]}

(* conn_request.url as set by hand: any host, any port or none. *)
Urls == [host : Usable \cup Unusable \cup Others, port : (1..(Port - 1)) \cup {Missing}]

ASSUME MissingAssumption ==
    /\ Missing \notin Nat /\ Missing \notin Spellings
    /\ Missing \notin Usable \cup Unusable \cup Others
    /\ Missing \notin Numerals /\ Missing \notin Urls

VARIABLES
    store,      \* tr69 options: enable, interval, port, url
    address,    \* what each place yields: the interface (address, then device),
                \* the route to the ACS, the interface's static address, lan's
    config,     \* what the daemon applied: enable, interval, port
    bound,      \* port the listener is bound to, or Missing
    advertised, \* host and port of the ConnectionRequestURL the ACS has, or Missing
    meant,      \* ghost: what the values the ACS has set mean, Missing for others
    stage       \* ghost: since the last write nothing happened, a refresh, an Inform too

vars == <<store, address, config, bound, advertised, meant, stage>>

---------------------------------------------------------------------------
(* Reading and writing values. *)

Lower(word) == IF word = "TRUE" THEN "true" ELSE word

(* std::stoul: its value, or Missing when it throws.  Blanks and a plus are *)
(* skipped, a minus negates modulo the width, and what follows the digits   *)
(* is left unread.                                                          *)
Stoul(raw) ==
    IF raw.form = "text" \/ raw.n >= ULong THEN Missing
    ELSE IF raw.form = "minus" THEN (ULong - raw.n) % ULong ELSE raw.n

(* UciAdapter::getUnsigned: all of the text must be a number, which is cut  *)
(* to unsigned.                                                             *)
GetUnsigned(raw, fallback) ==
    IF raw = Missing \/ raw.form = "tail" \/ Stoul(raw) = Missing
    THEN fallback ELSE Stoul(raw) % Unsigned

(* The same for PeriodicInformInterval in readConfig, where text behind the *)
(* digits passes and zero does not.                                         *)
ReadInterval(raw) ==
    IF raw = Missing \/ Stoul(raw) = Missing THEN DefaultInterval
    ELSE IF Stoul(raw) % Unsigned = 0 THEN 1 ELSE Stoul(raw) % Unsigned

(* EnableCWMP: read() yields the text as it is, "true" for none. *)
ReadEnable(raw) == raw \in {"true", Missing}

(* Mutant: normalize keeps the spelling of a boolean. *)
NormalBooleanAsWritten(word) ==
    IF Lower(word) \in {"1", "true", "0", "false"} THEN word ELSE Missing

(* normalize for booleans and for unsignedInt with a range; Missing refuses. *)
NormalBoolean(word) ==
    IF Lower(word) \in {"1", "true"} THEN "true"
    ELSE IF Lower(word) \in {"0", "false"} THEN "false" ELSE Missing

NormalInterval(raw) ==
    IF raw.form = "digits" /\ 1 <= raw.n /\ raw.n <= MaxInterval THEN raw ELSE Missing

---------------------------------------------------------------------------
(* The ConnectionRequestURL. *)

(* configured_connection_request_url: not localhost, not an unusable        *)
(* address, not the ACS's own port nor a usual one on its host.             *)
ConfiguredUsable(u) ==
    /\ u # Missing
    /\ u.host \notin {LocalHost} \cup Unusable
    /\ u.host = AcsHost =>
           /\ Missing \notin {u.port, AcsPort}
           /\ u.port \notin {AcsPort} \cup UsualPorts

(* Mutant: any address will do, loopback too. *)
FoundAny(s) ==
    address[s] # Missing /\ \A t \in 1..(s - 1) : address[t] = Missing

(* Place s is the first with an address to advertise. *)
Found(s) ==
    address[s] \in Usable /\ \A t \in 1..(s - 1) : address[t] \notin Usable

(* The port in the URL is the text of the option, if all digits. *)
AdvertisedPort(raw) ==
    IF raw # Missing /\ raw.form = "digits" THEN raw.n ELSE DefaultPort

(* getters.connection_request_url, put into the Inform. *)
TellUrl ==
    \/ ConfiguredUsable(store.url) /\ advertised' = store.url
    \/ /\ ~ConfiguredUsable(store.url)
       /\ \E s \in 1..Sources :
              Found(s) /\ advertised' = [host |-> address[s], port |-> AdvertisedPort(store.port)]
    \/ /\ ~ConfiguredUsable(store.url) /\ ~\E s \in 1..Sources : Found(s)
       /\ advertised' = Missing

---------------------------------------------------------------------------
Applied(s) ==
    [enable |-> ReadEnable(s.enable), interval |-> ReadInterval(s.interval),
     port |-> GetUnsigned(s.port, DefaultPort)]

TypeOK ==
    /\ store \in [enable : Spellings \cup {Missing}, interval : Numerals \cup {Missing},
                  port : Numerals \cup {Missing}, url : Urls \cup {Missing}]
    /\ address \in [1..Sources -> Usable \cup Unusable \cup {Missing}]
    /\ config \in [enable : BOOLEAN, interval : 1..(Unsigned - 1), port : 0..(Unsigned - 1)]
    /\ bound \in 1..(Port - 1) \cup {Missing}
    /\ meant \in [enable : {"true", "false", Missing}, interval : Nat \cup {Missing}]
    /\ advertised \in [host : Usable \cup Others, port : Nat \cup {Missing}] \cup {Missing}
    /\ stage \in {"written", "read", "told"}

Nothing == [enable |-> Missing, interval |-> Missing, port |-> Missing, url |-> Missing]

Init ==
    /\ store = Nothing /\ address = [s \in 1..Sources |-> Missing]
    /\ config = Applied(store)
    /\ bound = Missing /\ advertised = Missing
    /\ meant = [enable |-> Missing, interval |-> Missing]
    /\ stage = "written"

(* setParameterValues of one parameter, by the ACS or by trs, that succeeds: *)
(* UciTransaction takes it apart.                                            *)
SetEnable(word) ==
    /\ NormalBoolean(word) # Missing
    /\ store' = [store EXCEPT !.enable = NormalBoolean(word)]
    /\ meant' = [meant EXCEPT !.enable = IF word \in {"true", "1", "TRUE"} THEN "true" ELSE "false"]
    /\ stage' = "written"
    /\ UNCHANGED <<address, config, bound, advertised>>

SetInterval(raw) ==
    /\ NormalInterval(raw) # Missing
    /\ store' = [store EXCEPT !.interval = NormalInterval(raw)]
    /\ meant' = [meant EXCEPT !.interval = raw.n]
    /\ stage' = "written"
    /\ UNCHANGED <<address, config, bound, advertised>>

(* An administrator sets or deletes one option, whatever the text. *)
Administrate ==
    /\ \/ /\ \E w \in Spellings \cup {Missing} : store' = [store EXCEPT !.enable = w]
          /\ meant' = [meant EXCEPT !.enable = Missing]
       \/ /\ \E raw \in Numerals \cup {Missing} : store' = [store EXCEPT !.interval = raw]
          /\ meant' = [meant EXCEPT !.interval = Missing]
       \/ /\ \E raw \in Numerals \cup {Missing} : store' = [store EXCEPT !.port = raw]
          /\ UNCHANGED meant
       \/ /\ \E u \in Urls \cup {Missing} : store' = [store EXCEPT !.url = u]
          /\ UNCHANGED meant
    /\ stage' = "written"
    /\ UNCHANGED <<address, config, bound, advertised>>

AddressChange(s) ==
    /\ \E a \in Usable \cup Unusable \cup {Missing} : address' = [address EXCEPT ![s] = a]
    /\ UNCHANGED <<store, config, bound, advertised, meant, stage>>

(* ConnectionRequestServer::start: 0 is any free port, and bind may fail. *)
Bind(port) ==
    \/ bound' = Missing
    \/ port % Port # 0 /\ bound' = port % Port
    \/ port % Port = 0 /\ bound' \in 1..(Port - 1)

(* A new process. *)
Start ==
    /\ config' = Applied(store) /\ Bind(config'.port)
    /\ stage' = "read"
    /\ UNCHANGED <<store, address, advertised, meant>>

(* refreshConfig: the listener is restarted when its settings changed, the  *)
(* port or one that is not modelled here.                                   *)
Refresh ==
    /\ config' = Applied(store)
    /\ \/ Bind(config'.port)
       \/ config'.port = config.port /\ UNCHANGED bound
    /\ stage' = IF stage = "written" THEN "read" ELSE stage
    /\ UNCHANGED <<store, address, advertised, meant>>

(* Every Inform carries the ConnectionRequestURL of the moment. *)
Inform ==
    /\ config.enable
    /\ TellUrl
    /\ stage' = IF stage = "read" THEN "told" ELSE stage
    /\ UNCHANGED <<store, address, config, bound, meant>>

Next ==
    \/ \E w \in Spellings : SetEnable(w)
    \/ \E raw \in Numerals : SetInterval(raw)
    \/ Administrate
    \/ \E s \in 1..Sources : AddressChange(s)
    \/ Start \/ Refresh \/ Inform

Spec == Init /\ [][Next]_vars

---------------------------------------------------------------------------
(* Properties. *)

(* A value the transformer accepted is the value the daemon works with once *)
(* it has read its configuration: no spelling of a boolean turns CWMP off   *)
(* that was to turn it on, and no interval Device.map admits is cut by the  *)
(* width of an integer or replaced by a default.                            *)
AcceptedValueApplied ==
    stage # "written" =>
        /\ meant.enable # Missing => (config.enable <=> meant.enable = "true")
        /\ meant.interval # Missing => config.interval = meant.interval

(* Ports 0, above 16 bits, negative ones and those behind a plus or a blank *)
(* are bound and advertised as different numbers; text that is no number is *)
(* the default for both.                                                    *)
Sane(raw) ==
    raw = Missing \/ raw.form \in {"tail", "text"}
    \/ (raw.form = "digits" /\ raw.n \in 1..(Port - 1))

(* The ACS is never sent to an unusable address, to localhost or to its own *)
(* port (SYSTEM_OVERVIEW_FLOW.md, section 9), and the port of a computed    *)
(* URL it has got is the one the listener is bound to, once the daemon has  *)
(* read a sane port and informed.                                           *)
AdvertisedUrlServed ==
    advertised # Missing =>
        /\ advertised.host \notin Unusable \cup {LocalHost}
        /\ ~(advertised.host = AcsHost /\ advertised.port = AcsPort)
        /\ stage = "told" /\ bound # Missing /\ Sane(store.port) =>
               advertised.port = bound \/ advertised = store.url
===========================================================================
