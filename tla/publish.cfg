CONSTANTS
  u1 = u1
  u2 = u2
  Users <- TwoUsers
  MinMembers = 1
  MaxMembers = 2
  Requests <- NoRequests
  NoRequest = NoRequest
  NoUser = NoUser
  MaxFaults = 1
  MaxCopies = 1
SPECIFICATION FairSpec
CHECK_DEADLOCK FALSE
INVARIANTS
  SlotsConservedFromBirth
  OneSlotEach
  AnswerTellsTruth
  RankOvercountsOne
  RankAtRest
PROPERTIES
  MarkEnds
