SPECIFICATION FairSpec
CONSTANTS
  Initial = 1
  Cap = 3
  Interfaces = {i1, i2, i3}
  MaxDeaths = 2
INVARIANTS
  TypeOK
  NothingLeaks
  DelayIsCapped
  EarlyOnlyIfOvertaken
PROPERTIES
  LiveIsKept
  LossIsRepaired
