\* One task of on_ready, the loop, one call that raises: the migration's.
SPECIFICATION StartFairSpec
CONSTANTS
  Commands = {link}
  Triggers = {event, loop}
  Members = {}
  Loop = loop
  None = None
  MaxFaults = 1
PROPERTIES
  SyncedOnStartup
