SPECIFICATION Spec
CONSTANTS
  u1 = u1
  u2 = u2
  u3 = u3
  u4 = u4
  u5 = u5
  Users <- MCUsers
  InitialPanels <- MCPanels
  PageSize = 2
  MaxScan = 4
  HalfInts = 8
  MaxChanges = 2
  Queries <- MCQueries
SYMMETRY UserSymmetry
INVARIANTS
  TypeOK
  NobodyMissed
  NobodyTwice
  PageExact
