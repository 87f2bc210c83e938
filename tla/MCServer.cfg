CONSTANTS
  Requests = {r1}
  Downloads = {}
  Uploads = {u1}
  Entries <- AllEntries
  Services = 2
  MaxAttempts = 2
SPECIFICATION FairSpec
CHECK_DEADLOCK FALSE
INVARIANTS
  TypeOK
  GoroutinesCounted
  NothingCutOff
PROPERTIES
  KeepsPromise
  Settles
  ShutdownUnlessStuck
