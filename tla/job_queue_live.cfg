SPECIFICATION FairSpec
CONSTANTS
  w1 = w1  w2 = w2
  Workers <- OneWorker
  JobCount = 2
  MaxAttempts = 2
  Window = 1
  MaxCleanups = 1
  MaxStops = 1
  MaxFaults = 0
  NoJob = NoJob
PROPERTIES JobsSettle TicksKeepComing
