\* on_ready and the loop both look for the channel, records come meanwhile, and
\* somebody may delete the channel; or: every message of up to nine characters
\* is cut in parts of three.  Either ends.
SPECIFICATION MCSpec
CONSTANTS
  Triggers = {ready, loop}
  Loop = loop
  Channels = {c1, c2, c3}
  None = None
  QueueMax = 2
  MaxRecords = 4
  Chunks <- SomeChunks
  Library = {3}
  MaxFaults = 2
  Limit = 3
  MaxLength = 9
  NL = NL
INVARIANTS
  PostedOnce
  PostedInOrder
  PartsFit
  NothingLost
PROPERTIES
  QueueDrains
CHECK_DEADLOCK FALSE
