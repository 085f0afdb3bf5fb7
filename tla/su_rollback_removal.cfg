SPECIFICATION Spec
CONSTANTS
    MaxUnits = 3
    Flaky = {1}
    Mortal = {}
    Slow = {}
    Removable = {2}
    TimeAware = {2}
INVARIANTS
    RemovalIsTolerated
