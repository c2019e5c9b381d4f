SPECIFICATION Spec
CONSTANTS
  Callers = {c1, c2}
  Offerings = {s1}
  Classes = {k1}
  Stakeholders = {ann, bob}
  Statuses = {"offering", "closed"}
  Values = {2}
  MaxLedger = 2
SYMMETRY Symmetry
INVARIANTS
  TypeOK
  CountersBacked
  CountersExact
  IssuedIsLedger
PROPERTIES
  SealedOffering
  OnlyLateIssuances
CHECK_DEADLOCK FALSE
