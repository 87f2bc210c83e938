CONSTANTS
  Slots = {k1, k2}
  Starts = {"download"}
  Service <- BothServices
  Found = {TRUE, FALSE}
  CallAuto = {FALSE}
  Terminators = {"consumer", "provider"}
  Refusals = TRUE
  MaxAttempts = 1
  MaxCalls = 3
  MaxFaults = 1
  MaxTimeouts = 1
  MaxCrashes = 0
SPECIFICATION FairSpec
CHECK_DEADLOCK FALSE
INVARIANTS
  AgreementKnown
  CallGetsAgreement
PROPERTIES
  RowsMoveForward
  TerminationEndsCall
  ComesToRest
