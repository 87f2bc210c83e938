CONSTANTS
  Handlers = {h1, h2}
  Callers = {}
  Workers = {w1}
  Agreements = {a1, a2}
SPECIFICATION FaultFreeSpec
INVARIANT NoLeakedLock
CHECK_DEADLOCK FALSE
