SPECIFICATION Spec
CONSTANTS
  Timeout = 1
  Prelude = 2
  MaxMessages = 9
  MaxTime = 3
INVARIANTS
  TypeOK
  PostsArePrefixes
  OnlyOverlapHurts
CHECK_DEADLOCK FALSE
