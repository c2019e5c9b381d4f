SPECIFICATION Spec
CONSTANTS
  Callers = {c1, c2}
  Companies = {acme, other}
  Classes = {k1}
  Stakeholders = {ann}
  EntryIds = {e1, e2, e3}
  Sizes = {3}
  ShareAmounts = {1, 2}
  Openings = {0, 1}
  MaxInt = 4
  Exclusive = FALSE
  Faults = TRUE
SYMMETRY Symmetry
INVARIANTS
  TypeOK
  IssuedBacked
  SummaryBacked
  EntriesConsistent
PROPERTIES
  IssuedGrowsWithinAuthorized
CHECK_DEADLOCK FALSE
