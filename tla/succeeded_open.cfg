CONSTANTS
  u1 = u1
  u2 = u2
  u3 = u3
  r1 = r1
  r2 = r2
  NoUser = NoUser
  NoRequest = NoRequest
  Users <- TwoUsers
  Requests <- OneRequest
  MinMembers = 1
  MaxMembers = 2
  MaxFaults = 0
  MaxCopies = 1
  MaxBusy = 9
SPECIFICATION Spec
CHECK_DEADLOCK FALSE
INVARIANTS
  SucceededStaysOpen
