SPECIFICATION FairSpec
CONSTANTS
    MaxUnits = 3
    Flaky = {1, 2, 3}
    Mortal = {2}
    Slow = {1}
    Removable = {2}
    TimeAware = {2}
INVARIANTS
    TransitionsInOrder
    RecordsAreReal
    RequestsFit
    AssertsOnlyOnBrokenUnits
PROPERTIES
    KeepsPromise
    OperationsEnd
