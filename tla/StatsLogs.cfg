\* Every order of run tags, samples and ends of tests, by a clock that also steps
\* back; tags of two clients and two tests in every order.
SPECIFICATION Spec
CHECK_DEADLOCK FALSE
CONSTRAINT RunsThenNames
CONSTANTS
  Big = 3
  MaxTestRuns = 2
  OptionSets = {{}, {"x"}, {"a", "S"}}
  MaxFiles = 2
  MaxLines = 6
  Tags = {"TEST_CLIENT", "TEST_BEGIN", "TEST_END", "TEST_RUN_BEGIN", "TEST_RUN_END", "OTHER", "SAMPLE"}
  Clients <- MCClients
  Names <- MCNames
  Values = {1}
  StampSteps <- MCUnsteady
INVARIANTS
  TypeOK
  SlotsOwned
  ReportsMatchLog
  ExtremaExact
  DefinedOnBracketedLogs
PROPERTIES
  
  ImplementsRunLog
