SPECIFICATION Spec
CONSTANTS
  Editors = {e1}
  Paths = {f1}
  TokenIDs = {t1}
  Creds = {c1}
  MaxTime = 1
  MaxEdits = 1
INVARIANTS
  ValidationRollback
CHECK_DEADLOCK FALSE
