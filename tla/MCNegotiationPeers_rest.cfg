CONSTANTS
  Slots = {k1, k2}
  Starts = {"download", "upload"}
  Service <- NoService
  Found = {TRUE}
  CallAuto = {FALSE}
  Terminators = {}
  Refusals = FALSE
  MaxAttempts = 2
  MaxCalls = 0
  MaxFaults = 2
  MaxTimeouts = 0
  MaxCrashes = 1
SPECIFICATION FairSpec
CHECK_DEADLOCK FALSE
INVARIANTS
  TypeOK
  PeerFirst
  HalvesAgree
  OneNegotiation
  Routed
PROPERTIES
  Finalizes
  ComesToRest
