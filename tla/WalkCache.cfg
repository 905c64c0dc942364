SPECIFICATION WalkableSpec
CONSTANTS
  Width = 3
  Height = 3
  CacheRange = 1
  MaxSolid = 1
  Nowhere = Nowhere
INVARIANT CacheAgrees
CHECK_DEADLOCK FALSE
