SPECIFICATION FairSpec
CONSTANTS
  Client = {c1, c2, c3}
  NoClient = NoClient
  MAX_CLIENTS = 2
  MaxPort = 3
INVARIANTS
  ArgsNotFreedInUse
  OwnThread
PROPERTIES
  ServerEnds
