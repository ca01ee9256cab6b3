SPECIFICATION FairSpec
CONSTANTS
  Drones = {d1, d2}
  p1 = p1
  p2 = p2
  PortOrder <- MCPortOrder
  DemoDrone = d1
  None = None
  Broker = "kafka"
  Impatience = {{}, {"landing"}, {"components"}}
  Reports = {0, None}
  EarlyDeparture = TRUE
  MaxRequests = 4
  MaxImpatient = 3
INVARIANTS NoSharedPort StandingIsReserved QuietPortsAgree
PROPERTIES TakeoffChargedUnlessHaunted EveryRequestAnswered
CHECK_DEADLOCK FALSE
