CONSTANTS
    Client <- MCClient
    Setting = {"page", "video", "pages"}
    Kind <- MCKind
    Clients <- MCClients
    Sizes <- MCSizes
    Objects <- MCObjects
    CounterSize = 4
SPECIFICATION Spec
INVARIANTS
    NoAssertFails
    OneExchange
    PageCompleteAlone
PROPERTIES
    NeverWraps
    VideoComplete
    VideoClosesAfterCurrent
    StopIsReported
