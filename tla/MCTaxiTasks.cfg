SPECIFICATION FairSpec
CONSTANTS
  Pid = {p1, p2}
  NoPid = NoPid
  Dispatcher = Dispatcher
  MAX_DRIVERS = 2
  TaskTimer <- ShortAndPast
INVARIANTS
  SlotsTrackChildren
  NoShadow
  PipeHeldOpen
  Lockstep
PROPERTIES
  TaskRunsToItsEnd
  CommandEnds
  TaskEnds
  NoOrphans
