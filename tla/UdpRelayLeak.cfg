SPECIFICATION Spec
CONSTANTS
  Datagrams <- MCDatagrams
  RecvLen = 2
  FdLimit = 6
  QueueLimit = 2
  MaxArrivals = 4
INVARIANTS
  RelaysEveryMessage
CHECK_DEADLOCK FALSE
