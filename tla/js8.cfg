SPECIFICATION FairSpec
CONSTANTS
  Streams <- MCStreams
  StoreMessages = TRUE
INVARIANTS
  TypeOK
  FramingIsExact
  NothingReadIsLost
  SocketIsClosed
PROPERTIES
  CloseStops
CHECK_DEADLOCK FALSE
