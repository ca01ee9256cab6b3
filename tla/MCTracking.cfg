SPECIFICATION TrackingFairSpec
CONSTANTS
  Homes = {0, 2}
  LastCell = 2
  Velocities = {"still", "cruise"}
  Fast = {"cruise"}
  MaxInputs = 1
  MaxFailures = 1
  None = None
  Followers = {"navigation", "limiter"}
  Source <- MCSource
  Targets = {0}
  Tardy = {"limiter"}
INVARIANTS OneFlight AlarmHasCause
PROPERTIES ImplementsTrail AlarmRaised
