\* A tag lost, duplicated or overtaken, or a script interrupted and another run.
SPECIFICATION PipelineSpec
CHECK_DEADLOCK FALSE
CONSTRAINT OneFault
CONSTANTS
  Iterations = 1
  Thunderbird = "thunderbird-bin"
  Scripts = {"backlight", "idle", "pm"}
  Stuck = {}
  MaxInterrupts = 1
  MaxSessions = 2
  TagPort = 3500
  Host <- MCHost
  FdLimit = 20
  QueueLimit = 2
  MaxTestRuns = 2
  OptionSets = {{"x"}}
  MaxMishaps = 1
  MaxInFlight = 2
  MaxSamples = 1
  MaxArrivals = 1000
  MaxLines = 1000
INVARIANTS
  HarmlessLosses
  
  MeasuredExactly
