SPECIFICATION FabricSpec
CONSTANTS
  Orders = {o1}
  Drones = {d1, d2}
  Operators = {op1}
  Missions = {m1}
  Firmwares = {f1}
  TypeCertificates = {c1}
  Objectives = {}
  MaxIncidents = 0
  MaxTime = 2
  Families = {"orders", "policies", "passes"}
  MaxVersion = 4
  MaxInFlight = 2
  None = None
PROPERTIES Serializable StartUnderOpenApproval
CHECK_DEADLOCK FALSE
