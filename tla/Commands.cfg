\* Linking: two users, two accounts, two codes, two commands at a time.
\* Lists: three groups, two callbacks at a time, a fault, an administrator.
\* Search: three documents of any marks, of which two are read and returned,
\* and two lookups; one deletion.  Passages: every text of up to fourteen
\* characters with three terms, in windows of six.
\* The system may stop: codes are bounded, accounts get linked for good, a
\* view may be left alone, and a search ends.
SPECIFICATION MCSpec
CONSTANTS
  u1 = u1
  u2 = u2
  a1 = a1
  a2 = a2
  Users = {u1, u2}
  Accounts = {a1, a2}
  Mailbox <- ReaderEach
  Challenges = {ch1, ch2}
  Commands = {c1, c2}
  MaxAttempts = 2
  MaxRestarts = 1
  Nobody = Nobody
  Elsewhere = Elsewhere
  Guess = Guess
  Groups = {news, staff, leads}
  Protected = {staff}
  Leadership = {leads}
  IsLeader = FALSE
  None = None
  Calls = {call1, call2}
  Faults = {"refused", "broken", "edit"}
  MaxFaults = 1
  MaxChanges = 1
  Docs = {d1, d2, d3}
  Question = question
  Expansion = expansion
  DeepLimit = 2
  ContextLimit = 2
  MaxRank = 1
  MaxHits = 1
  MaxDeletions = 1
  Size = 6
  Sections = 2
  MaxLength = 14
  MaxTerms = 3
SYMMETRY Interchangeable
INVARIANTS
  LinkedByMailboxReader
  SuccessIsTrue
  UsedChallengeIsForgotten
  SuccessIsReal
  ShownIsCurrent
  MatchIsAnswered
  EveryPlaceShown
PROPERTIES
  OutOfReach
CHECK_DEADLOCK FALSE
