SPECIFICATION Spec
CONSTANT MaxCalls = 1
INVARIANT StartedMeansRunning
