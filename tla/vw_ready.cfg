SPECIFICATION FairSpec
CONSTANTS
    Microvm = {TRUE}
    Clients <- LiveClients
    MaxWrites = 1
    MaxLag = 2
    MaxCrashes = 0
    Restorers = {}
PROPERTIES
    ReadyIsAcknowledged
CHECK_DEADLOCK FALSE
