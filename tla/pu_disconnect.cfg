SPECIFICATION FairSpec
CONSTANTS
    VPs = {vp0, vp1}
    MaxHalts = 1
    CallsFail = FALSE
    SnapshotPort = FALSE
    MaxGuards = 1
    HaltSources <- OnlyHalt
    AsyncHalts = FALSE
    Debugger = TRUE
    Inspects = FALSE
    Calls <- DebugCalls
PROPERTIES
    ClientHearsOfHalt
