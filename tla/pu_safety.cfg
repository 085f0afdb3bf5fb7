SPECIFICATION Spec
CONSTANTS
    VPs = {vp0, vp1}
    MaxHalts = 2
    CallsFail = TRUE
    SnapshotPort = TRUE
    MaxGuards = 1
    HaltSources <- AllHalts
    AsyncHalts = TRUE
    Debugger = FALSE
    Inspects = TRUE
    Calls <- AllCalls
SYMMETRY VpSymmetry
INVARIANTS
    TypeOK
    GuestRunsOnlyWhenPermitted
    CountsBalance
    NoPanic
    WriterStaysAtBoundary
    StoppedWhenTouched
    DirtyNeedsReset
CHECK_DEADLOCK FALSE
