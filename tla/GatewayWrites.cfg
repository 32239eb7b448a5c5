SPECIFICATION Spec
CONSTANTS
  u1 = u1
  node1 = node1
  Users <- MCUsers
  Nodes <- MCNodes
  Values <- MCValues
  Tokens <- MCTokens
  Creds <- MCCreds
  Actors <- MCActors
  IPs <- MCIPs
  Texts <- MCTexts
  Plain = "plain"
  Extras <- MCExtras
  Requests = {r1, r2}
  Configs <- WriteConfigs
  Inputs <- WriteInputs
  InitialUsers <- WriteUsers
  MaxGen = 1
  MaxLate = 1
SYMMETRY RequestSymmetry
INVARIANTS
  LockExclusive
  UpdateWindow
PROPERTIES
  AtomicWrites
