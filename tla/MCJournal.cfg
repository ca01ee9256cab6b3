\* One client, two events, a batch of two and a page of one.
SPECIFICATION FairSpec
CONSTANTS
  Limit = 1
  Ranges <- MCRanges
  Payloads <- MCPayloads
  Events = {1, 2}
  Stamp <- MCStamp
  Handlers = {handler}
  BatchSize = 2
  handler = handler
INVARIANTS TypeOK ReportIsExact ReadersSkipOnlyTies AtMostOnce
PROPERTY EventsForwarded
CHECK_DEADLOCK FALSE
