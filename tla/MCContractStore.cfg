CONSTANTS
  Handlers = {h1, h2}
  Callers = {k1}
  Workers = {w1}
  Agreements = {a1, a2}
SPECIFICATION Spec
SYMMETRY Symmetry
INVARIANTS
  TypeOK
  MutualExclusion
  NoLostUpdate
  AgreementStored
PROPERTY RefinesLifecycle
CHECK_DEADLOCK FALSE
