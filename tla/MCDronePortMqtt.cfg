SPECIFICATION Spec
CONSTANTS
  Drones = {d1, d2, d3}
  p1 = p1
  p2 = p2
  PortOrder <- MCPortOrder
  DemoDrone = d1
  None = None
  Broker = "mqtt"
  Impatience = {{}}
  Reports = {0, 2}
  EarlyDeparture = FALSE
  MaxRequests = 2
  MaxImpatient = 0
INVARIANT NoSharedPort
CHECK_DEADLOCK FALSE
