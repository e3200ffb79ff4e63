CONSTANTS
    Client <- MCClient
    Setting = {"page"}
    Kind <- MCKind
    Clients <- MCClients
    Sizes <- MCSizes
    Objects <- MCObjects
    CounterSize = 4
SPECIFICATION Spec
PROPERTY ClosesAfterCurrent
