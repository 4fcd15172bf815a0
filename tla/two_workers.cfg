SPECIFICATION WorkersSpec
CONSTANTS
  o1 = o1  o2 = o2
  Operators <- TwoOperators
  MaxHandles = 3
  MaxProcs = 3
  MaxConsecutiveCrashes = 2
CHECK_DEADLOCK FALSE
INVARIANTS OneProcess
