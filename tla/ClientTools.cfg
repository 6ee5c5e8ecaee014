\* The programs of the client beside the test scripts.
SPECIFICATION FairSpec
CHECK_DEADLOCK FALSE
CONSTANTS
  Eths = {"eth0", "eth1"}
  SupportSets <- MCSupportSets
  Loads = {1, 2}
  Children = 2
  Rounds = 2
  SleepDuration = 5
  Rest = 3
  SendTime = 1
  ForkTime = 1
  Slack = 1
  BeginDelay = 2
  Durations = {0, 1, 3}
  StressTests = 3
  TESTS = 2
INVARIANTS
  WolLeftBehind
  NoLoadCarriedOver
  LoadedThroughout
  WindowCounted
  LinesInOrder
  FiguresOwnOrLate
PROPERTIES
  MsrLoadStops
  BusyLinesPassedOn
