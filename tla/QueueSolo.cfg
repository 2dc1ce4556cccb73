\* One bot, three rows, no lost acknowledgement of mark_completed.
SPECIFICATION FairSpec
CONSTANTS
  j1 = j1
  j2 = j2
  j3 = j3
  b1 = b1
  b2 = b2
  b3 = b3
  NoJob = NoJob
  Jobs = {j1, j2, j3}
  Bots = {b1}
  MaxRetries <- TwoRetriesAndNone
  Unhandled = {j3}
  Faults = {"claim", "fail", "reap"}
  MaxStops = 1
INVARIANTS
  FirstAttemptsInOrder
PROPERTIES
  CompletedIsFinal
  ImplementsContract
  OrphansLeaveRunning
  JobsEndWhileWorkerLives
