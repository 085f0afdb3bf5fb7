SPECIFICATION Spec
CONSTANTS
    Microvm = {TRUE, FALSE}
    Clients <- ClientRpcs
    MaxWrites = 2
    MaxLag = 2
    MaxCrashes = 1
    Restorers = {r1, r2}
SYMMETRY RestorerSymmetry
INVARIANTS
    SourceQuietWhileShared
    CaptureIsGated
    BoundaryIsSound
    WorkerKnowsUnits
    TeardownQuiet
    RestoreIsGated
    ExitZeroIsDurable
    VisibleIsComplete
    ResumedOnce
PROPERTIES
    EveryWriteIsServed
CHECK_DEADLOCK FALSE
