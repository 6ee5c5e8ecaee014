\* -x, as the usage text describes it.
SPECIFICATION Spec
CHECK_DEADLOCK FALSE
CONSTANTS
  Big = 1000
  MaxTestRuns = 2
  OptionSets = {{"x"}}
  MaxFiles = 1
  MaxLines = 6
  Tags = {"TEST_CLIENT", "TEST_BEGIN", "TEST_END"}
  Clients <- MCOneClient
  Names <- MCMouseNames
  Values = {1}
  StampSteps <- MCSteps
INVARIANTS
  EachTestItsOwnFile
