SPECIFICATION ConnectionSpec
CONSTANTS
  ServerSendsFirst = TRUE
  MaxQueue = 2
  MaxLate = 3
PROPERTY ClosedGivesUpSocket
CHECK_DEADLOCK FALSE
