SPECIFICATION Spec
CONSTANTS
  Editors = {e1}
  Paths = {f1, f2}
  TokenIDs = {t1, t2}
  Creds = {c1, c2}
  MaxTime = 2
  MaxEdits = 4
INVARIANTS
  TypeOK
  EditUndone
  PrintedInForce
CHECK_DEADLOCK FALSE
