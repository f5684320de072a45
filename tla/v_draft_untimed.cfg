SPECIFICATION Spec
CONSTANTS
  Timeout = 1
  Prelude = 2
  MaxMessages = 7
  MaxTime = 3
INVARIANTS
  DraftsAreTimed
CHECK_DEADLOCK FALSE
