SPECIFICATION FairSpec
CONSTANTS
  Broker = "kafka"
  Normal <- MCNormal
  Grants <- MCGrants
  MaxCommands = 2
  MaxEvents = 1
  MaxAdmin = 1
INVARIANT EmergencyWins
PROPERTIES LandingIsFinal EmergencyLands
CHECK_DEADLOCK FALSE
