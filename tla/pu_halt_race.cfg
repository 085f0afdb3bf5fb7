SPECIFICATION FairSpec
CONSTANTS
    VPs = {vp0, vp1}
    MaxHalts = 1
    CallsFail = FALSE
    SnapshotPort = TRUE
    MaxGuards = 1
    HaltSources <- NoHalts
    AsyncHalts = FALSE
    Debugger = FALSE
    Inspects = FALSE
    Calls <- RaceCalls
PROPERTIES
    StopsEnd
CHECK_DEADLOCK FALSE
