CONSTANTS
  u1 = u1
  u2 = u2
  Users <- TwoUsers
  MinMembers = 2
  MaxMembers = 2
  Publisher = Publisher
  Notices <- Followed
  BackoffBase = 3
  BackoffMax = 4
  DurationSpan = 16
  MaxStreak = 3
  MaxFaults = 1
SPECIFICATION FairSpec
CHECK_DEADLOCK FALSE
INVARIANTS
  NoticeTellsTruth
  PauseBounded
PROPERTIES
  ImplementsMailbox
  AckedIsStored
  QueueDrains
  EveryMemberLearns
