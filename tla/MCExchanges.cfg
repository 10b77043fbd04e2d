SPECIFICATION ExchangesSpec
CONSTANTS
  Client = {c1, c2, c3}
  NoClient = NoClient
  MAX_HISTORY = 2
  InboxSize = 1
  MaxSends = 2
  Server = s
  MAX_MSG = 2
  MsgRuns = 3
  ShmRuns = 2
  Answerer = {b1, b2}
  NoOne = NoOne
  TcpClient = {t1, t2}
  UdpClient = {u1}
  SelectInbox = 1
SYMMETRY Symmetry
INVARIANTS
  TypesOK
  NoDuplicates
  NobodyUnlisted
  NumbersFollow
  AnswerOfRun
  BlockedByTheKilled
  StuckOnlyAlone
  NothingLeftBehind
  OwnAnswer
  BlocksOnlyToRead
PROPERTIES
  EachHears
CHECK_DEADLOCK FALSE
