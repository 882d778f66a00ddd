-------------------------- MODULE SettingsProofs --------------------------
(***************************************************************************)
(* That what the ACS has set is what the daemon works with, and that the   *)
(* ACS is told where the listener is, for every width of the integers,     *)
(* every set of addresses and every text an administrator writes.          *)
(***************************************************************************)
EXTENDS Settings, TLAPS

(* The side of the store of TypeOK: the options have a form they can be     *)
(* read in.                                                                 *)
StoreOK ==
    /\ store \in [enable : Spellings \cup {Missing}, interval : Numerals \cup {Missing},
                  port : Numerals \cup {Missing}, url : Urls \cup {Missing}]
    /\ address \in [1..Sources -> Usable \cup Unusable \cup {Missing}]
    /\ meant \in [enable : {"true", "false", Missing}, interval : Nat \cup {Missing}]

(* The invariant above holds in every state. *)
LEMMA StoreOKHolds == Spec => []StoreOK
<1> USE DEF StoreOK
<1>1. Init => StoreOK
  BY DEF Init, Nothing
<1>2. StoreOK /\ [Next]_vars => StoreOK'
  <2> SUFFICES ASSUME StoreOK, [Next]_vars PROVE StoreOK'
    OBVIOUS
  <2>1. ASSUME NEW w \in Spellings, SetEnable(w) PROVE StoreOK'
    <3>1. NormalBoolean(w) \in Spellings
      BY <2>1 DEF SetEnable, NormalBoolean, Spellings
    <3>2. store' = [store EXCEPT !.enable = NormalBoolean(w)] /\ address' = address
      BY <2>1 DEF SetEnable
    <3> QED
      BY <2>1, <3>1, <3>2 DEF SetEnable
  <2>2. ASSUME NEW raw \in Numerals, SetInterval(raw) PROVE StoreOK'
    BY <2>2, NumbersAssumption DEF SetInterval, NormalInterval, Numerals
  <2>3. CASE Administrate
    BY <2>3 DEF Administrate
  <2>4. ASSUME NEW s \in 1..Sources, AddressChange(s) PROVE StoreOK'
    BY <2>4 DEF AddressChange
  <2>5. CASE Start \/ Refresh \/ Inform \/ UNCHANGED vars
    BY <2>5 DEF Start, Refresh, Inform, vars
  <2> QED
    BY <2>1, <2>2, <2>3, <2>4, <2>5 DEF Next
<1> QED
  BY <1>1, <1>2, PTL DEF Spec

(* What std::stoul and the reads on top of it yield. *)
LEMMA Widths ==
    ASSUME NEW raw \in Numerals \cup {Missing}
    PROVE  /\ raw # Missing => Stoul(raw) \in Nat \cup {Missing}
           /\ ReadInterval(raw) \in 1..(Unsigned - 1)
           /\ GetUnsigned(raw, DefaultPort) \in 0..(Unsigned - 1)
           /\ AdvertisedPort(raw) \in Nat
<1>1. ASSUME raw # Missing PROVE raw.n \in Nat
  <2>1. CASE raw \in [form : {"digits", "plus", "minus", "tail"}, n : Numbers]
    BY <2>1, NumbersAssumption
  <2>2. CASE raw = [form |-> "text", n |-> 0]
    BY <2>2
  <2> QED
    BY <1>1, <2>1, <2>2 DEF Numerals
<1>2. ASSUME raw # Missing PROVE Stoul(raw) \in Nat \cup {Missing}
  BY <1>1, <1>2, WidthAssumption DEF Stoul
<1>3. ReadInterval(raw) \in 1..(Unsigned - 1)
  <2>1. DefaultInterval \in 1..(Unsigned - 1)
    BY DefaultAssumption, WidthAssumption
  <2>2. CASE raw = Missing \/ Stoul(raw) = Missing
    BY <2>1, <2>2 DEF ReadInterval
  <2>3. CASE ~(raw = Missing \/ Stoul(raw) = Missing)
    <3>1. Stoul(raw) % Unsigned \in 0..(Unsigned - 1)
      BY <1>2, <2>3, WidthAssumption
    <3> QED
      BY <2>3, <3>1, WidthAssumption DEF ReadInterval
  <2> QED
    BY <2>2, <2>3
<1>4. GetUnsigned(raw, DefaultPort) \in 0..(Unsigned - 1)
  <2>1. DefaultPort \in 0..(Unsigned - 1)
    BY DefaultAssumption, WidthAssumption
  <2>2. CASE raw = Missing \/ raw.form = "tail" \/ Stoul(raw) = Missing
    BY <2>1, <2>2 DEF GetUnsigned
  <2>3. CASE ~(raw = Missing \/ raw.form = "tail" \/ Stoul(raw) = Missing)
    <3>1. Stoul(raw) % Unsigned \in 0..(Unsigned - 1)
      BY <1>2, <2>3, WidthAssumption
    <3> QED
      BY <2>3, <3>1 DEF GetUnsigned
  <2> QED
    BY <2>2, <2>3
<1>5. AdvertisedPort(raw) \in Nat
  BY <1>1, DefaultAssumption, WidthAssumption DEF AdvertisedPort
<1> QED
  BY <1>2, <1>3, <1>4, <1>5

(* The daemon's side of TypeOK. *)
DaemonOK ==
    /\ config \in [enable : BOOLEAN, interval : 1..(Unsigned - 1), port : 0..(Unsigned - 1)]
    /\ bound \in 1..(Port - 1) \cup {Missing}
    /\ advertised \in [host : Usable \cup Others, port : Nat \cup {Missing}] \cup {Missing}
    /\ stage \in {"written", "read", "told"}

(* The types of everything: no text makes the interval 0 or a number too    *)
(* wide, and no address the transformer must not advertise gets to the ACS. *)
THEOREM SettingsTypeCorrect == Spec => []TypeOK
<1> USE DEF DaemonOK
<1>1. StoreOK => Applied(store) \in
          [enable : BOOLEAN, interval : 1..(Unsigned - 1), port : 0..(Unsigned - 1)]
  <2> SUFFICES ASSUME StoreOK
               PROVE  /\ ReadEnable(store.enable) \in BOOLEAN
                      /\ ReadInterval(store.interval) \in 1..(Unsigned - 1)
                      /\ GetUnsigned(store.port, DefaultPort) \in 0..(Unsigned - 1)
    BY DEF Applied
  <2>1. store.interval \in Numerals \cup {Missing} /\ store.port \in Numerals \cup {Missing}
    BY DEF StoreOK
  <2>2. ReadEnable(store.enable) \in BOOLEAN
    BY DEF ReadEnable
  <2> QED
    BY <2>1, <2>2, Widths
<1>2. Init /\ StoreOK => DaemonOK
  BY <1>1 DEF Init
<1>3. StoreOK /\ StoreOK' /\ DaemonOK /\ [Next]_vars => DaemonOK'
  <2> SUFFICES ASSUME StoreOK, DaemonOK, [Next]_vars PROVE DaemonOK'
    OBVIOUS
  <2>1. ASSUME NEW w \in Spellings, SetEnable(w) PROVE DaemonOK'
    BY <2>1 DEF SetEnable
  <2>2. ASSUME NEW raw \in Numerals, SetInterval(raw) PROVE DaemonOK'
    BY <2>2 DEF SetInterval
  <2>3. CASE Administrate
    BY <2>3 DEF Administrate
  <2>4. ASSUME NEW s \in 1..Sources, AddressChange(s) PROVE DaemonOK'
    BY <2>4 DEF AddressChange
  <2>5. ASSUME config' = Applied(store), Bind(config'.port)
        PROVE  bound' \in 1..(Port - 1) \cup {Missing}
    <3>1. config'.port \in Nat
      BY <1>1, <2>5, WidthAssumption
    <3>2. config'.port % Port \in 0..(Port - 1)
      BY <3>1, WidthAssumption
    <3> QED
      BY <2>5, <3>2, WidthAssumption DEF Bind
  <2>6. CASE Start
    BY <1>1, <2>5, <2>6 DEF Start
  <2>7. CASE Refresh
    BY <1>1, <2>5, <2>7 DEF Refresh
  <2>8. CASE Inform
    <3>1. ASSUME ConfiguredUsable(store.url), advertised' = store.url PROVE DaemonOK'
      <4>1. store.url \in Urls /\ store.url.host \notin Unusable
        BY <3>1 DEF StoreOK, ConfiguredUsable
      <4>2. store.url \in [host : Usable \cup Others, port : Nat \cup {Missing}]
        BY <4>1, WidthAssumption DEF Urls
      <4> QED
        BY <2>8, <3>1, <4>2 DEF Inform
    <3>2. ASSUME NEW s \in 1..Sources, Found(s),
                 advertised' = [host |-> address[s], port |-> AdvertisedPort(store.port)]
          PROVE  DaemonOK'
      <4>1. AdvertisedPort(store.port) \in Nat
        BY Widths DEF StoreOK
      <4> QED
        BY <2>8, <3>2, <4>1 DEF Inform, Found
    <3>3. CASE advertised' = Missing
      BY <2>8, <3>3 DEF Inform
    <3> QED
      BY <2>8, <3>1, <3>2, <3>3 DEF Inform, TellUrl
  <2>9. CASE UNCHANGED vars
    BY <2>9 DEF vars
  <2> QED
    BY <2>1, <2>2, <2>3, <2>4, <2>6, <2>7, <2>8, <2>9 DEF Next
<1>4. StoreOK /\ DaemonOK => TypeOK
  BY DEF StoreOK, TypeOK
<1> QED
  BY <1>2, <1>3, <1>4, StoreOKHolds, PTL DEF Spec

---------------------------------------------------------------------------
(* A value of the ACS is in the store in its normal form, and a daemon that *)
(* has read since the last write works with what is in the store.           *)
Current ==
    /\ meant.enable # Missing => store.enable = meant.enable
    /\ meant.interval # Missing =>
           /\ meant.interval \in Numbers /\ meant.interval \in 1..MaxInterval
           /\ store.interval = [form |-> "digits", n |-> meant.interval]
    /\ stage # "written" => config = Applied(store)

(* The invariant above holds in every state. *)
LEMMA CurrentHolds == Spec => []Current
<1> USE DEF Current
<1>1. Init => Current
  BY DEF Init
<1>2. StoreOK /\ Current /\ [Next]_vars => Current'
  <2> SUFFICES ASSUME StoreOK, Current, [Next]_vars PROVE Current'
    OBVIOUS
  <2> USE DEF StoreOK
  <2>1. ASSUME NEW w \in Spellings, SetEnable(w) PROVE Current'
    <3>1. /\ store'.interval = store.interval /\ meant'.interval = meant.interval
          /\ store'.enable = NormalBoolean(w) /\ stage' = "written"
          /\ meant'.enable = IF w \in {"true", "1", "TRUE"} THEN "true" ELSE "false"
          /\ NormalBoolean(w) # Missing
      BY <2>1 DEF SetEnable
    <3>2. NormalBoolean(w) = meant'.enable
      BY <3>1 DEF NormalBoolean, Lower, Spellings
    <3> QED
      BY <3>1, <3>2
  <2>2. ASSUME NEW raw \in Numerals, SetInterval(raw) PROVE Current'
    <3>1. raw = [form |-> "digits", n |-> raw.n] /\ raw.n \in Numbers /\ raw.n \in 1..MaxInterval
      BY <2>2, NumbersAssumption DEF SetInterval, NormalInterval, Numerals
    <3> QED
      BY <2>2, <3>1 DEF SetInterval, NormalInterval
  <2>3. CASE Administrate
    BY <2>3 DEF Administrate
  <2>4. ASSUME NEW s \in 1..Sources, AddressChange(s) PROVE Current'
    BY <2>4 DEF AddressChange, Applied
  <2>5. CASE Start \/ Refresh \/ Inform \/ UNCHANGED vars
    BY <2>5 DEF Start, Refresh, Inform, vars, Applied
  <2> QED
    BY <2>1, <2>2, <2>3, <2>4, <2>5 DEF Next
<1> QED
  BY <1>1, <1>2, StoreOKHolds, PTL DEF Spec

(* A number below the width is read as it is. *)
LEMMA ReadsAsIs ==
    ASSUME NEW n \in Numbers, n \in 1..MaxInterval
    PROVE  ReadInterval([form |-> "digits", n |-> n]) = n
<1> DEFINE raw == [form |-> "digits", n |-> n]
<1>1. n \in Nat /\ n > 0 /\ n < ULong /\ n % Unsigned = n /\ n # Missing
  BY WidthAssumption, DefaultAssumption, MissingAssumption
<1>2. raw # Missing
  BY MissingAssumption DEF Numerals
<1>3. Stoul(raw) = n
  BY <1>1, WidthAssumption DEF Stoul
<1>4. ReadInterval(raw) = n
  <2>1. Stoul(raw) # Missing /\ Stoul(raw) % Unsigned = n /\ n # 0
    BY <1>1, <1>3
  <2> HIDE DEF raw
  <2> QED
    BY <1>2, <2>1 DEF ReadInterval
<1> QED
  BY <1>4

(* Whatever the widths: a boolean in any spelling and an interval in the    *)
(* range of Device.map arrive unchanged in the daemon's configuration.      *)
THEOREM AcceptedMeansApplied == Spec => []AcceptedValueApplied
<1>1. StoreOK /\ Current => AcceptedValueApplied
  <2> SUFFICES ASSUME StoreOK, Current, stage # "written"
               PROVE  /\ meant.enable # Missing => (config.enable <=> meant.enable = "true")
                      /\ meant.interval # Missing => config.interval = meant.interval
    BY DEF AcceptedValueApplied
  <2>1. config = Applied(store)
    BY DEF Current
  <2>2. ASSUME meant.enable # Missing PROVE config.enable <=> meant.enable = "true"
    BY <2>1, <2>2 DEF Current, Applied, ReadEnable
  <2>3. ASSUME meant.interval # Missing PROVE config.interval = meant.interval
    BY <2>1, <2>3, ReadsAsIs DEF Current, Applied
  <2> QED
    BY <2>2, <2>3
<1> QED
  BY <1>1, StoreOKHolds, CurrentHolds, PTL

---------------------------------------------------------------------------
(* A text that reads as a port and is written as one. *)
LEMMA SanePort ==
    ASSUME NEW raw \in Numerals \cup {Missing}, Sane(raw)
    PROVE  /\ AdvertisedPort(raw) \in 1..(Port - 1)
           /\ GetUnsigned(raw, DefaultPort) = AdvertisedPort(raw)
<1> USE DEF Sane, AdvertisedPort, GetUnsigned, Numerals
<1>1. CASE raw = Missing
  BY <1>1, DefaultAssumption
<1>2. CASE raw # Missing /\ raw.form \in {"tail", "text"}
  BY <1>2, DefaultAssumption DEF Stoul
<1>3. CASE raw # Missing /\ raw.form = "digits" /\ raw.n \in 1..(Port - 1)
  <2>1. raw.n \in Nat /\ raw.n < ULong /\ raw.n % Unsigned = raw.n /\ raw.n # Missing
    BY <1>3, WidthAssumption, MissingAssumption
  <2>2. Stoul(raw) = raw.n
    BY <1>3, <2>1, WidthAssumption DEF Stoul
  <2> QED
    BY <1>3, <2>1, <2>2
<1> QED
  BY <1>1, <1>2, <1>3

(* The listener, when it could bind, has the configured port if that is     *)
(* one, and what the ACS has after an Inform was computed from the store.   *)
Reachable ==
    /\ bound # Missing /\ config.port \in 1..(Port - 1) => bound = config.port
    /\ advertised # Missing =>
           /\ advertised.host \notin Unusable \cup {LocalHost}
           /\ ~(advertised.host = AcsHost /\ advertised.port = AcsPort)
    /\ stage = "told" =>
           \/ advertised = Missing
           \/ advertised = store.url
           \/ advertised.port = AdvertisedPort(store.port)

(* The invariant above holds in every state. *)
LEMMA ReachableHolds == Spec => []Reachable
<1> USE DEF Reachable
<1>1. Init => Reachable
  BY DEF Init
<1>2. StoreOK /\ Reachable /\ [Next]_vars => Reachable'
  <2> SUFFICES ASSUME StoreOK, Reachable, [Next]_vars PROVE Reachable'
    OBVIOUS
  <2>1. ASSUME NEW w \in Spellings, SetEnable(w) PROVE Reachable'
    BY <2>1 DEF SetEnable
  <2>2. ASSUME NEW raw \in Numerals, SetInterval(raw) PROVE Reachable'
    BY <2>2 DEF SetInterval
  <2>3. CASE Administrate
    BY <2>3 DEF Administrate
  <2>4. ASSUME NEW s \in 1..Sources, AddressChange(s) PROVE Reachable'
    BY <2>4 DEF AddressChange
  <2>5. ASSUME Bind(config'.port)
        PROVE  bound' # Missing /\ config'.port \in 1..(Port - 1) => bound' = config'.port
    BY <2>5, WidthAssumption DEF Bind
  <2>6. CASE Start
    BY <2>5, <2>6 DEF Start
  <2>7. CASE Refresh
    BY <2>5, <2>7 DEF Refresh
  <2>8. CASE Inform
    <3>1. CASE ConfiguredUsable(store.url) /\ advertised' = store.url
      BY <2>8, <3>1 DEF Inform, ConfiguredUsable
    <3>2. ASSUME NEW s \in 1..Sources, Found(s),
                 advertised' = [host |-> address[s], port |-> AdvertisedPort(store.port)]
          PROVE  Reachable'
      BY <2>8, <3>2, HostAssumption DEF Inform, Found
    <3>3. CASE advertised' = Missing
      BY <2>8, <3>3 DEF Inform
    <3> QED
      BY <2>8, <3>1, <3>2, <3>3 DEF Inform, TellUrl
  <2>9. CASE UNCHANGED vars
    BY <2>9 DEF vars
  <2> QED
    BY <2>1, <2>2, <2>3, <2>4, <2>6, <2>7, <2>8, <2>9 DEF Next
<1> QED
  BY <1>1, <1>2, StoreOKHolds, PTL DEF Spec

(* The ACS is sent to an address of the device or to a URL it was given,    *)
(* and, when that was computed and the port is sane, to a listener that is  *)
(* there or could not be bound at all.                                      *)
THEOREM AdvertisedIsServed == Spec => []AdvertisedUrlServed
<1>1. StoreOK /\ Current /\ Reachable => AdvertisedUrlServed
  <2> SUFFICES ASSUME StoreOK, Current, Reachable, advertised # Missing, stage = "told",
                      bound # Missing, Sane(store.port), advertised # store.url
               PROVE  advertised.port = bound
    BY DEF AdvertisedUrlServed, Reachable
  <2>1. advertised.port = AdvertisedPort(store.port)
    BY DEF Reachable
  <2>2. config.port = GetUnsigned(store.port, DefaultPort)
    BY DEF Current, Applied
  <2>3. store.port \in Numerals \cup {Missing}
    BY DEF StoreOK
  <2> QED
    BY <2>1, <2>2, <2>3, SanePort DEF Reachable
<1> QED
  BY <1>1, StoreOKHolds, CurrentHolds, ReachableHolds, PTL
===========================================================================
