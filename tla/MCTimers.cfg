SPECIFICATION MCSpec
CONSTANTS
  Caller = {c1, c2}
  Event = {e1, e2}
  MaxDelay = 2
  MaxTime = 3
  MaxId = 2
  NoEvent = NoEvent
  NoDeadline = NoDeadline
  Block = {1, 2}
  Blockable = {1}
  Spawned = {m1, m2, m3}
  RateSpawn = 1
  WalkEvent = {w1, w2, w3}
INVARIANTS
  TypeOK
  SleepsNoLongerThanTop
  NeverEarly
  TimeoutHasEvent
  StoppedNeverDispatched
  
  PathIsBest

  
CHECK_DEADLOCK FALSE
