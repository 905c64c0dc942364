SPECIFICATION MCSpec
CONSTANTS
  Player = {p1, p2, p3}
  Item = {bag, box, coins1, coins2}
  Container = {bag, box}
  Stack = {coins1, coins2}
  PackSize = 1
  ContainerSize = 1
  None = None
  Person = {p1, p2, p3}
  PartyId = {1, 2}
  MayRefuse = {}
  PrivateId = {100, 101}
  Nobody = Nobody
  Creature = {p1, p2, p3}
  Limit = 2
  MaxBuffer = 2
  Haste = {haste, both}
  Paralysis = {slow}
  Attributes = {skilled}
  FromItem = {both}
  Delta <- MCDelta
  MaxTicks = 1
  MaxDelayed = 1
  NoCondition = None
  Account = {pr1, or1, or2, gm}
  Premium = {pr1}
  AlwaysLogin = {gm}
  MaxPlayers = 2
  JoinSlot = {1}
  MaxTime = 5
  pr1 = pr1
  or1 = or1
  or2 = or2
  gm = gm
SYMMETRY Symmetry
INVARIANTS
  OffersAreSound
  ChannelsAreSound
  
  ModifiersAddUp
PROPERTIES
  WaitsInTurn
  TradeIsFair
CHECK_DEADLOCK FALSE
