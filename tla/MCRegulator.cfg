\* Two drones with similar names, and calls of the API among other requests.
SPECIFICATION RegulatorSpec
CONSTANTS
  commit = commit
  serialA = serialA
  serialB = serialB
  operator = operator
  Commits = {commit}
  Serials = {serialA, serialB}
  Operators = {operator}
  SuffixOf <- MCSuffixOf
  Callers = {c1, c2}
  MaxSeconds = 1
  MaxRequests = 3
  MaxFaults = 2
  None = None
INVARIANTS RevokedStaysRevoked DronesOnGoodFirmware IssuedAreStored AloneGetsOwn
CHECK_DEADLOCK FALSE
