SPECIFICATION Spec
CONSTANTS
  q1 = q1
  q2 = q2
  cb1 = cb1
  cb2 = cb2
  Packet = {p1}
  Event = {e1}
  Query = {q1}
  QueryCaller = {"dispatcher"}
  WithCallback = {q1}
  NoQuery = None
  MaxDelay = 0
  MaxTime = 1
  CallbackOf <- MCCallbackOf
  SigtermTask = sigterm
  GameShutdownTask = gameShutdown
  StopTask = stop
  None = None
INVARIANTS
  QueuesDrained
  ServicesStopLast
 
CHECK_DEADLOCK FALSE
