SPECIFICATION FairSpec
CONSTANTS
  Datagrams <- MCDatagrams
  RecvLen = 2
  FdLimit = 6
  QueueLimit = 2
  MaxArrivals = 4
INVARIANTS
  TypeOK
  ForwardsUntilExhausted
PROPERTIES
  QueueDrains
CHECK_DEADLOCK FALSE
