\* Every tag gets into the log while descriptors last.
SPECIFICATION PipelineFairSpec
CHECK_DEADLOCK FALSE
CONSTANTS
  Iterations = 1
  Thunderbird = "thunderbird-bin"
  Scripts = {"idle", "backlight"}
  Stuck = {}
  MaxInterrupts = 0
  MaxSessions = 1
  TagPort = 3500
  Host <- MCHost
  FdLimit = 10
  QueueLimit = 2
  MaxTestRuns = 2
  OptionSets = {{}}
  MaxMishaps = 0
  MaxInFlight = 2
  MaxSamples = 0
  MaxArrivals = 1000
  MaxLines = 1000
PROPERTIES
  TagsLogged
