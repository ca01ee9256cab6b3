SPECIFICATION FairSpec
CONSTANTS
  Components <- MCComponents
  Hasty = {"control", "poller"}
  Missions = {m1, m2}
  Kept = {{}, {m1, m2}}
  Bogus = {b}
  MissionIds = {m1, m2}
  MaxTasks = 3
  MaxPolls = 1
  Aircraft = {d1}
  Zones = {z}
  Filed = {m1}
  Routes <- MCRoutes
  None = None
INVARIANT FlightOnRecord
PROPERTIES StartsLastUploaded AssignmentEnds
CHECK_DEADLOCK FALSE
