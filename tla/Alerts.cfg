SPECIFICATION Spec
CONSTANTS
  Handlers = {h1, h2}
  AlertKeys = {k1, k2}
  QueueSize = 1
  Configs <- AlertConfigs
  MaxTime = 4
  MaxEvents = 4
SYMMETRY MCSymmetry
INVARIANTS
  TypeOK
  Accounted
  AlertRate
