SPECIFICATION Spec
CONSTANTS
  Caller = {c1, c2}
  Event = {e1, e2}
  MaxDelay = 2
  MaxTime = 3
  MaxId = 2
  NoEvent = NoEvent
  NoDeadline = NoDeadline
PROPERTY ShutdownEndsThread
CHECK_DEADLOCK FALSE
