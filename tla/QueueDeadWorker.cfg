\* One bot, mark_failed may raise: the worker dies in a live process.
SPECIFICATION FairSpec
CONSTANTS
  j1 = j1
  j2 = j2
  j3 = j3
  b1 = b1
  b2 = b2
  b3 = b3
  NoJob = NoJob
  Jobs = {j1, j2}
  Bots = {b1}
  MaxRetries <- TwoRetriesAndNone
  Unhandled = {}
  Faults = {"fail"}
  MaxStops = 0
PROPERTIES
  EveryJobEnds
