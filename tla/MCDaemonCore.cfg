SPECIFICATION Spec
CONSTANTS
    url = url
    listener = listener
    listener2 = listener2
    Urls = {url}
    NoUrl = NoUrl
    Listeners = {listener, listener2}
    NoListener = NoListener
    DefaultListener = listener
    Profiles <- OnOffOther
    Requests = {"reload"}
    AllowMock = TRUE
    WriteFaults = TRUE
    ReadFaults = FALSE
    Crashes = TRUE
INVARIANTS
    TypeOK
    MilestonesTrue
    ListenerMatchesConfig
    QuiescentConfigCurrent
PROPERTIES
    BootReportsReboot
    NoUncausedValueChange
