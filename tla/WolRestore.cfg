\* Restoring Wake-on-LAN, as the comment in the scripts has it.
SPECIFICATION Spec
CHECK_DEADLOCK FALSE
CONSTANTS
  Eths = {"eth0", "eth1"}
  SupportSets <- OnlyG
  Loads = {1}
  Children = 0
  Rounds = 0
  SleepDuration = 1
  SendTime = 0
  ForkTime = 0
  Rest = 1
  Slack = 0
  BeginDelay = 1
  Durations = {0}
  StressTests = 1
  TESTS = 1
INVARIANTS
  OriginalStateRestored
