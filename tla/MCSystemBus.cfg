SPECIFICATION FairBusSpec
CONSTANTS
  Requests = {r1, r2}
  Luck = {TRUE, FALSE}
  MaxStops = 2
  WarmUpPolls = 3
  None = None
  Brokers = {"kafka", "mqtt"}
  Workers = 2
INVARIANTS TypeOK PendingAreOpen RerunOnlyAfterStop
PROPERTIES ImplementsRequestReply WarmRequestsAnswered
CHECK_DEADLOCK FALSE
