SPECIFICATION Spec
CONSTANTS
  Callers = {c1, c2}
  Companies = {acme}
  Classes = {k1}
  Stakeholders = {ann}
  EntryIds = {e1, e2, e3}
  Sizes = {3}
  ShareAmounts = {1, 2}
  Openings = {0}
  MaxInt = 15
  Exclusive = FALSE
  Faults = FALSE
INVARIANTS
  EntriesWithinAuthorized
CHECK_DEADLOCK FALSE
