SPECIFICATION MCSpec
CONSTANTS
  Pair = {x1, x2}
  Other = {y1, y2}
  Player = {x1, x2}
  Bed = {y1, y2}
  Trader = {x1, x2}
  Monster = {x1, x2}
  Person = {y1, y2}
  Place = {1, 2}
  Home = 1
  SendsHome = TRUE
  Null = Null
  Price = {1, 2}
  Fee = 1
  Items = 3
  Money = 3
  OfferId = {1}
  Width = 3
  Height = 3
  CacheRange = 1
  MaxSolid = 1
  Nowhere = Nowhere
  ExpForLevel <- MCExpForLevel
  ReqTries <- MCReqTries
  Gain = {1, 2, 5}
  HealthGain = 2
  Me = Me
  None = None
  Nobody = Nobody
  Item = {i1}
  Interval = 2
  Kind <- MCKind
  stopTime <- MCStopTime
  decayTo <- MCDecayTo
  decayTime <- MCDecayTime
  useTo <- MCUseTo
  Gone = Gone
  Never = Never
  axe = axe
  i1 = i1
SYMMETRY Symmetry
INVARIANTS
  
  
  
  WalkableIsKnown
  ProgressAddsUp
  HouseIsKept
PROPERTIES
  ItemsDecay
  NothingIsMadeOrLost
CHECK_DEADLOCK FALSE
