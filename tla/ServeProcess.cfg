SPECIFICATION FairSpec
CONSTANTS
  Files <- MCFiles
  Texts = {"a", "b", "x"}
  Loadable <- MCLoadable
  Buildable <- MCBuildable
  ApiConns = {c1, c2}
  LocalConns = {p1}
  MaxEdits = 2
INVARIANTS
  TypeOK
  CutOnlyLate
PROPERTIES
  LastEditLoads
  TermEnds
CHECK_DEADLOCK FALSE
