SPECIFICATION FairSpec
CONSTANTS
  kite = kite
  heron = heron
  d1 = d1
  d2 = d2
  Orders = {o1}
  Operators = {kite, heron}
  Drones = {d1, d2}
  Owner <- MCOwner
  Listens <- MCListens
  Transports = {"kafka", "mqtt"}
  Reliable = FALSE
  Attempts = 2
  MaxPolicies = 1
  MaxRepeats = 1
  None = None
PROPERTIES ImplementsDeal OfferedIsMatched
CHECK_DEADLOCK FALSE
