SPECIFICATION FairSpec
CONSTANTS
  a = a
  b = b
  NoRow = NoRow
  PeersRaise = TRUE
  Nodes = {a, b}
  Boards = {"General"}
  MaxRows <- MCMaxRows
  Says <- MCSays
  Numeral <- MCNumeral
  ShortName <- MCNames
  Allowed = {}
  LetterToBoard <- MCLetters
  PeerBulletins = {}
  PeerMail <- MCPeerMail
  PeerChannels = {}
  Flaky = {b}
INVARIANTS
  TypeOK
  MailPrivacy
  ComposingIsTimed
PROPERTIES
  ReplyReachesAuthor
  DeletionsAreOwned
  DraftsAreNotDropped
  DraftsSettle
  ServesAsPromised
