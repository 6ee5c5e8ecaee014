SPECIFICATION Spec
CHECK_DEADLOCK FALSE
CONSTANTS
  Big = 1000000
  Readings <- MCReadings
  Gaps = {1, 3}
  Starts <- MCStarts
  DstShift = 3600
  MaxSamples = 4
  MaxRuns = 3
INVARIANTS
  ElapsedKept
  AverageWithinExtremes
  TrapeziumExact
  DeviationIsPopulation
  SummaryIsPopulation
