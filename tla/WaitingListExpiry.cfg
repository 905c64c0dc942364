SPECIFICATION WaitSpec
CONSTANTS
  Account = {or1, or2}
  Premium = {}
  AlwaysLogin = {}
  MaxPlayers = 1
  JoinSlot = {1, 50}
  MaxTime = 5
PROPERTY ExpiredAreRemoved
CHECK_DEADLOCK FALSE
