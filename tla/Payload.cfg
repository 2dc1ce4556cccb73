\* A payload with or without a key, three attempts.  A job that ended stops.
SPECIFICATION PayloadSpec
CONSTANTS
  Keys = {"test"}
  MaxRetries = 3
INVARIANTS
  PingsAnswered
CHECK_DEADLOCK FALSE
