SPECIFICATION Spec
CONSTANTS
  Protocol = {a, b}
  Watcher = {}
  PlayerObject = {o1, o2}
  ReplaceKick = TRUE
  MaxTasks = 3
  None = None
INVARIANT ReleasedHoldsNothing
CHECK_DEADLOCK FALSE
