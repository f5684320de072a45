SPECIFICATION Spec
CONSTANTS
  Timeout = 1
  Prelude = 2
  MaxMessages = 7
  MaxTime = 3
PROPERTIES
  DiscardedDraftsAreEmpty
CHECK_DEADLOCK FALSE
