SPECIFICATION Spec
CONSTANTS
  Pid = {p1, p2}
  NoPid = NoPid
  Dispatcher = Dispatcher
  MAX_DRIVERS = 2
  TaskTimer <- NoTimes
INVARIANTS
  DispatcherSurvives
