SPECIFICATION FairSpec
CONSTANTS
  a = a
  b = b
  NoRow = NoRow
  PeersRaise = TRUE
  Nodes = {a, b}
  Boards = {"General", "Urgent"}
  MaxRows <- MCMaxRows
  Says <- MCSays
  Numeral <- MCNumeral
  ShortName <- MCNames
  Allowed = {a}
  LetterToBoard <- MCLetters
  PeerBulletins <- MCPeerBulletins
  PeerMail = {}
  PeerChannels = {}
  Flaky = {a}
INVARIANTS
  TypeOK
  UrgentGate
  PeersHearOfLocal
  ComposingIsTimed
PROPERTIES
  DraftsAreNotDropped
  DraftsSettle
  ServesAsPromised
