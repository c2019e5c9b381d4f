SPECIFICATION GatedSpec
CONSTANTS
  Callers = {c1}
  Offerings = {s1}
  Classes = {k1}
  Stakeholders = {ann, bob}
  Statuses = {"offering", "closed"}
  Values = {2}
  MaxLedger = 1
  RestrictionIds = {i1}
  MaxTime = 1
PROPERTIES
  RestrictionCheckEnforced
CHECK_DEADLOCK FALSE
