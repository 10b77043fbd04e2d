SPECIFICATION FairSpec
CONSTANTS
  Client = {c1, c2}
  NoClient = NoClient
  Server = {t1, t2}
  NoServer = NoServer
  QUEUE_SIZE = 1
  MaxFd = 2
PROPERTIES
  EveryClientAnswered
