\* Two bots, every fault, one stop of a process.
SPECIFICATION Spec
CONSTANTS
  j1 = j1
  j2 = j2
  j3 = j3
  b1 = b1
  b2 = b2
  b3 = b3
  NoJob = NoJob
  Jobs = {j1, j2}
  Bots = {b1, b2}
  MaxRetries <- TwoRetriesAndNone
  Unhandled = {}
  Faults = {"claim", "complete", "fail", "reap"}
  MaxStops = 1
SYMMETRY BotSymmetry
INVARIANTS
  OneExecutionPerAttempt
  ExclusiveUntilStale
  FailedOnlyWhenExhausted
  RetryOverrunBounded
