SPECIFICATION FairSpec
CONSTANTS
  u1 = u1
  node1 = node1
  Users <- MCUsers
  Nodes <- MCNodes
  Values <- MCValues
  Tokens <- MCTokens
  Creds <- MCCreds
  Actors <- MCActors
  IPs <- MCIPs
  Texts <- MCTexts
  Plain = "plain"
  Extras <- MCExtras
  Requests = {r1, r2}
  Configs <- LiveConfigs
  Inputs <- LiveInputs
  InitialUsers <- ReloadUsers
  MaxGen = 2
  MaxLate = 0
PROPERTIES
  Answered
  OldStatesDrain
