SPECIFICATION GatedSpec
CONSTANTS
  Callers = {c1, c2}
  Offerings = {s1}
  Classes = {k1}
  Stakeholders = {ann, bob}
  Statuses = {"closed"}
  Values = {2}
  MaxLedger = 1
  RestrictionIds = {i1}
  MaxTime = 1
SYMMETRY Symmetry
INVARIANTS
  GatedTypeOK
PROPERTIES
  GateRespected
CHECK_DEADLOCK FALSE
