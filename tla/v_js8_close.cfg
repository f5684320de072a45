SPECIFICATION FairSpec
CONSTANTS
  Streams <- MCStreams
  StoreMessages = TRUE
PROPERTIES
  CloseFinishes
CHECK_DEADLOCK FALSE
