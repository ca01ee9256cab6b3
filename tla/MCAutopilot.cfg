SPECIFICATION FairSpec
CONSTANTS
  Missions = {m1, m2}
  Steps = 2
  SprayAt = {2}
  Commands = {"START", "PAUSE", "RESUME", "ABORT", "RESET", "EMERGENCY_STOP", "KOVER"}
  MaxMessages = 4
  Backlog = 1
  None = None
INVARIANTS FlightCleared SprayOffWhileLanding
PROPERTY PreflightDecides
