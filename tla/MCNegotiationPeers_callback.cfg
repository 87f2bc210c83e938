CONSTANTS
  Slots = {k1, k2}
  Starts = {"request"}
  Service <- NoService
  Found = {TRUE}
  CallAuto = {FALSE}
  Terminators = {}
  Refusals = FALSE
  MaxAttempts = 2
  MaxCalls = 0
  MaxFaults = 0
  MaxTimeouts = 0
  MaxCrashes = 0
SPECIFICATION Spec
CHECK_DEADLOCK FALSE
INVARIANT Routed
