SPECIFICATION Spec
CONSTANTS
  w1 = w1  w2 = w2
  Workers <- TwoWorkers
  JobCount = 2
  MaxAttempts = 2
  Window = 1
  MaxCleanups = 1
  MaxStops = 0
  MaxFaults = 1
  NoJob = NoJob
INVARIANTS TypeOK OneLease
PROPERTIES ImplementsJobLifecycle
SYMMETRY Symmetry
