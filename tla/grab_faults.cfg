CONSTANTS
  u1 = u1
  u2 = u2
  u3 = u3
  r1 = r1
  r2 = r2
  NoUser = NoUser
  NoRequest = NoRequest
  Users <- TwoUsers
  Requests <- TwoRequests
  MinMembers = 1
  MaxMembers = 2
  MaxFaults = 1
  MaxCopies = 1
  MaxBusy = 2
SPECIFICATION Spec
CHECK_DEADLOCK FALSE
SYMMETRY Symmetry2
CONSTRAINT FewBusy
INVARIANTS
  TypeOK
  NoLostGrab
  OrphansCostFaults
  RosterMatchesOrders
  RecruitingBelowMin
PROPERTIES
  OrderVerdictFinal
  GroupBuyVerdictFinal
  OnlyOwnerUnlocks
  CloseTaskKept
  ImplementsSlotPool
