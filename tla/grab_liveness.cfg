CONSTANTS
  u1 = u1
  u2 = u2
  u3 = u3
  r1 = r1
  r2 = r2
  NoUser = NoUser
  NoRequest = NoRequest
  Users <- OneUser
  Requests <- OneRequest
  MinMembers = 1
  MaxMembers = 1
  MaxFaults = 2
  MaxCopies = 1
  MaxBusy = 9
SPECIFICATION FairSpec
CHECK_DEADLOCK FALSE
PROPERTIES
  EveryGrabOrdered
  ScheduledCloseHappens
  LockIsFreed
