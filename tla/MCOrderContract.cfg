SPECIFICATION Spec
CONSTANTS
  Orders = {o1}
  Drones = {d1}
  Operators = {op1}
  Missions = {m1}
  Firmwares = {f1}
  TypeCertificates = {c1}
  Objectives = {}
  MaxIncidents = 0
  MaxTime = 2
  None = None
INVARIANTS FlightUnderApproval PermissionLinked
PROPERTY ImplementsClearance
