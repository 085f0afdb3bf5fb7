SPECIFICATION FairSpec
CONSTANT MaxCalls = 4
INVARIANTS
    OneHolder
    CallsAreFlushed
    NoLostWakeup
PROPERTIES
    StopEnds
    CallsAreApplied
