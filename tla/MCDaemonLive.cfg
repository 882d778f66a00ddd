SPECIFICATION FairSpec
CONSTANTS
    url = url
    listener = listener
    listener2 = listener2
    Urls = {url}
    NoUrl = NoUrl
    Listeners = {listener}
    NoListener = NoListener
    DefaultListener = listener
    Profiles <- MockManaged
    Requests = {"stop", "connection", "reload"}
    AllowMock = TRUE
    WriteFaults = FALSE
    ReadFaults = TRUE
    Crashes = FALSE
PROPERTIES
    StopAndReloadServed
    ImplementsRunLoop
    ConnectionInformsWhenTimed
    LeavesAcsOnlyDisabled
