SPECIFICATION Spec
CONSTANTS
    own = own
    loopback = loopback
    acs = acs
    localhost = localhost
    ULong = 16
    Unsigned = 8
    Port = 4
    MaxInterval = 7
    DefaultInterval = 5
    DefaultPort = 3
    Numbers = {0, 2, 7, 16}
    Usable = {own}
    Unusable = {loopback}
    Others = {acs, localhost}
    AcsHost = acs
    AcsPort = 3
    UsualPorts = {1, 3}
    LocalHost = localhost
    Sources = 2
    Missing = Missing
INVARIANTS
    AcceptedValueApplied
    AdvertisedUrlServed
CONSTRAINT
    OneSide

