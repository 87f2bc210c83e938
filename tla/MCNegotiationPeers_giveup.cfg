CONSTANTS
  Slots = {k1, k2}
  Starts = {"download"}
  Service <- NoService
  Found = {TRUE}
  CallAuto = {FALSE}
  Terminators = {}
  Refusals = FALSE
  MaxAttempts = 2
  MaxCalls = 0
  MaxFaults = 1
  MaxTimeouts = 1
  MaxCrashes = 0
SPECIFICATION Spec
CHECK_DEADLOCK FALSE
PROPERTY GivenUpIsTerminated
