SPECIFICATION MCSpec
CONSTANTS
  a = a
  b = b
  c = c
  w = w
  o1 = o1
  o2 = o2
  MaxClients = 3
  Protocol = {a, b, c, w}
  Watcher = {w}
  PlayerObject = {o1, o2}
  ReplaceKick = TRUE
  MaxTasks = 3
  None = None
SYMMETRY ClientSymmetry
INVARIANTS
  RefsCountHolders
  ClientIsMutual
  OneInWorld
  CastsAgree
CHECK_DEADLOCK FALSE
