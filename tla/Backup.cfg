\* Every fault of a run, with a pg_dump that warns up to once more than a pipe
\* holds; or three months of three backups, killed runs and failing unlinks.  A run
\* ends, or hangs; the clock stops.
SPECIFICATION MCSpec
CONSTANTS
  Chunks = 4
  Warnings = 2
  PipeSize = 1
  Faults = {"mkdir", "spawn", "dump", "gzip", "open", "write", "unlink", "rotate", "cancel"}
  Workers = 1
  DailyKeep = 2
  MonthlyKeep = 2
  PerMonth = 3
  MaxTime = 8
  MonthOf <- Months
  DirFaults = {"unlink", "kill"}
INVARIANTS
  SuccessIsComplete
  FailureLeavesNoFile
  MonthCovered
  NewestKept
  LatestWholeSurvives
PROPERTIES
  EveryBackupEnds
  ImplementsRotation
CHECK_DEADLOCK FALSE
