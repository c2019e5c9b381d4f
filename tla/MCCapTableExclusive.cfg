SPECIFICATION Spec
CONSTANTS
  Callers = {c1, c2}
  Companies = {acme, other}
  Classes = {k1, k2}
  Stakeholders = {ann}
  EntryIds = {e1, e2, e3}
  Sizes = {2, 3}
  ShareAmounts = {1, 2}
  Openings = {0, 1}
  MaxInt = 15
  Exclusive = TRUE
  Faults = FALSE
SYMMETRY Symmetry
INVARIANTS
  CountersExact
  EntriesWithinAuthorized
  EnteredOnce
PROPERTIES
  ImplementsRegister
CHECK_DEADLOCK FALSE
