SPECIFICATION Spec
CONSTANTS
    url = url
    listener = listener
    listener2 = listener2
    Urls = {url}
    NoUrl = NoUrl
    Listeners = {listener}
    NoListener = NoListener
    DefaultListener = listener
    Profiles <- OnOff
    Requests = {"reload"}
    AllowMock = FALSE
    WriteFaults = FALSE
    ReadFaults = FALSE
    Crashes = FALSE
INVARIANT FirstSessionIsBootstrap
