SPECIFICATION FairSpec
CONSTANTS
    url = url
    listener = listener
    listener2 = listener2
    Urls = {url}
    NoUrl = NoUrl
    Listeners = {listener}
    NoListener = NoListener
    DefaultListener = listener
    Profiles <- NeverPeriodic
    Requests = {"connection", "reconnect", "informNow"}
    AllowMock = FALSE
    WriteFaults = FALSE
    ReadFaults = FALSE
    Crashes = FALSE
PROPERTY ConnectionRequestInforms
