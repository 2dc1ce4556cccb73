\* Four messages of two users in two channels, a policy command, one slot for
\* the model, two threads.
\* The system may stop: messages and the clock are bounded.
SPECIFICATION FairSpec
CONSTANTS
  m1 = m1
  m2 = m2
  m3 = m3
  m4 = m4
  general = general
  helpdesk = helpdesk
  ann = ann
  bob = bob
  Messages = {m1, m2, m3, m4}
  Policies = {p1}
  Channel <- InChannel
  Author <- ByAuthor
  Injections = {m4}
  Cooldown = 2
  UserCooldown = 1
  MaxConcurrent = 1
  Threads = 2
  MaxTime = 4
INVARIANTS
  AcceptedSpaced
  InferencesWithinLimit
  OnlyTheAwaitedBegin
PROPERTIES
  EveryQuestionEnds
CHECK_DEADLOCK FALSE
