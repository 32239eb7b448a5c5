SPECIFICATION Spec
CONSTANTS
  Callers = {c1, c2, c3}
  Keys = {k1}
  limit = 2
  window = 2
  MaxTime = 4
  MaxGen = 2
INVARIANTS
  TypeOK
  LongRunRate
