CONSTANTS
    Client <- MCClient
    Setting = {"pages"}
    Kind <- MCKind
    Clients <- MCClients
    Sizes <- MCSizes
    Objects <- MCObjects
    CounterSize = 4
SPECIFICATION Spec
INVARIANT PageComplete
