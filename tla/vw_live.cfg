SPECIFICATION FairSpec
CONSTANTS
    Microvm = {TRUE, FALSE}
    Clients <- LiveClients
    MaxWrites = 1
    MaxLag = 2
    MaxCrashes = 0
    Restorers = {}
PROPERTIES
    RpcAnswered
    WriteAnswered
    BoundaryEnds
    SourceEnds
CHECK_DEADLOCK FALSE
