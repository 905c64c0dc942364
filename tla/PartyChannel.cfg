SPECIFICATION ChatSpec
CONSTANTS
  Person = {p1, p2}
  PartyId = {1}
  MayRefuse = {}
  Nobody = Nobody
  PrivateId = {100}
INVARIANT PartyChannelIsTheParty
CHECK_DEADLOCK FALSE
