\* Two runs at a time over both counters, with a category or none, no channel of
\* a counter or three, legacy voice channels that the search finds (those it does
\* not find are as none), one change of a counter, one exception.
SPECIFICATION FairSpec
CONSTANTS
  active = active
  agreements = agreements
  loop = loop
  resumed = resumed
  Gone = Gone
  Runs = {loop, resumed}
  Loop = loop
  Counters <- Both
  Values = {1, 2}
  Legacy = {"normalized"}
  Leftover <- Left
  Faults = {"count", "discord"}
  MaxChanges = 1
  MaxFaults = 1
INVARIANTS
  DuplicatesBounded
PROPERTIES
  LastChannelSurvives
  EventuallySettled
