CONSTANTS
  Requests = {r1}
  Downloads = {d1}
  Uploads = {}
  Entries <- AllEntries
  Services = 1
  MaxAttempts = 1
SPECIFICATION FairSpec
CHECK_DEADLOCK FALSE
PROPERTY ControlStops
