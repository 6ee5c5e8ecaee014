\* The time between two lines, as the comment on the stamps' format has it.
SPECIFICATION Spec
CHECK_DEADLOCK FALSE
CONSTANTS
  Big = 1000000
  Readings <- MCReadings
  Gaps = {1, 3}
  Starts <- MCStarts
  DstShift = 0
  MaxSamples = 2
  MaxRuns = 1
INVARIANTS
  DurationInSeconds
