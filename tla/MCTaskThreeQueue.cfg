SPECIFICATION Spec
CONSTANTS
  Client = {c1, c2, c3}
  NoClient = NoClient
  Server = {t1, t2}
  NoServer = NoServer
  QUEUE_SIZE = 2
  MaxFd = 3
SYMMETRY Symmetry
INVARIANTS
  OneOwner
  NobodyOversleeps
PROPERTIES
  FifoSpec
