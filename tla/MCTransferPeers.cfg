CONSTANTS
  Infos <- InfosAll
  Slots = {k1, k2}
  Directions = {"PULL", "PUSH"}
  Outside = {"completion", "termination"}
  Signallers = {"provider"}
  MaxAttempts = 2
  MaxOutside = 1
  MaxFaults = 2
  MaxTimeouts = 1
  MaxCrashes = 1
SPECIFICATION FairSpec
CHECK_DEADLOCK FALSE
INVARIANTS
  TypeOK
  PeerFirst
  DataAvailable
  CompletedIsUnpublished
  OneEndpoint
PROPERTIES
  RowsMoveForward
  Starts
  CallReturns
  ComesToRest
