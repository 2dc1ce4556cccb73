\* One command, two tasks of on_ready or on_resumed, the loop, one other
\* caller of the database, two restarts or failed calls.
SPECIFICATION StartFairSpec
CONSTANTS
  Commands = {link}
  Triggers = {event1, event2, loop}
  Members = {member}
  Loop = loop
  None = None
  MaxFaults = 2
INVARIANTS
  GuildOffersEnabled
  OneOfEach
  LeakBounded
PROPERTIES
  UpOnceMigrated
