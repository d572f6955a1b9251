CONSTANTS
  u1 = u1
  u2 = u2
  u3 = u3
  r1 = r1
  r2 = r2
  NoUser = NoUser
  NoRequest = NoRequest
  Users <- ThreeUsers
  Requests <- OneRequest
  MinMembers = 2
  MaxMembers = 2
  MaxFaults = 0
  MaxCopies = 1
  MaxBusy = 2
SPECIFICATION Spec
CHECK_DEADLOCK FALSE
SYMMETRY Symmetry3
CONSTRAINT FewBusyInTime
INVARIANTS
  SlotsConserved
  NoOversell
  GuardsAgree
  CountMatchesRoster
