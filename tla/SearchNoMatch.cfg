\* Two documents that may match nothing.
SPECIFICATION SearchSpec
CONSTANTS
  Docs = {d1, d2}
  Question = question
  Expansion = expansion
  DeepLimit = 2
  ContextLimit = 1
  MaxRank = 1
  MaxHits = 1
  MaxDeletions = 1
INVARIANT EmptyWhenNoneMatch
CHECK_DEADLOCK FALSE
