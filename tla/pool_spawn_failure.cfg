\* One of two spawns may fail while the constructor runs.
CONSTANTS
  NumThreads = 2
  MaxBatches = 1
  SpawnMayFail = TRUE
SPECIFICATION Spec
CHECK_DEADLOCK FALSE
PROPERTY
  StopIsHonoured
