CONSTANTS
  Requests = {r1}
  Downloads = {}
  Uploads = {}
  Entries <- AllEntries
  Services = 2
  MaxAttempts = 2
SPECIFICATION FairSpec
CHECK_DEADLOCK FALSE
PROPERTY ShutdownCompletes
