\* Three workers, up to three batches, and a constructor whose spawns may fail.
\* The unwinding of a constructor that started a thread hangs, so deadlock is not
\* an error here; see pool_spawn_failure.cfg.
CONSTANTS
  NumThreads = 3
  MaxBatches = 3
  SpawnMayFail = TRUE
SPECIFICATION Spec
CHECK_DEADLOCK FALSE
INVARIANTS
  CallsBelongToTheOpenBatch
  ReturnsAfterEveryCall
  NoRace
  StopSeenAfterArrival
  DestroyedAfterLastExit
  IndInv
PROPERTIES
  CallsReturn
  ImplementsForkJoin
