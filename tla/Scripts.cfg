\* The scripts on their own: all of them, one interrupted, another run after it.
SPECIFICATION ClientSpec
CHECK_DEADLOCK FALSE
CONSTANTS
  Iterations = 2
  Thunderbird = "thunderbird"
  Scripts <- AllScripts
  Stuck = {"SATA"}
  MaxInterrupts = 1
  MaxSessions = 2
INVARIANTS
  ClientTypeOK
  TagOrder
  AppsGone
  SettledFirst
  MeasuredAsNamed
  HooksDisabledAfterwards
