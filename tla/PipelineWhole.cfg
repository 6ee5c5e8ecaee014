\* No losses: what the scripts did is what statstool reports.
SPECIFICATION PipelineSpec
CHECK_DEADLOCK FALSE
CONSTANTS
  Iterations = 2
  Thunderbird = "thunderbird"
  Scripts <- PipelineScripts
  Stuck = {}
  MaxInterrupts = 0
  MaxSessions = 1
  TagPort = 3500
  Host <- MCHost
  FdLimit = 50
  QueueLimit = 2
  MaxTestRuns = 3
  OptionSets = {{}}
  MaxMishaps = 0
  MaxInFlight = 1
  MaxSamples = 1
  MaxArrivals = 1000
  MaxLines = 1000
INVARIANTS
  HarmlessLosses
  TestReportedAsRun
  MeasuredExactly
