SPECIFICATION Spec
CONSTANTS
  Callers = {c1}
  Companies = {acme}
  Classes = {k1}
  Stakeholders = {ann}
  EntryIds = {e1, e2, e3}
  Sizes = {3}
  ShareAmounts = {1, 7}
  Openings = {0}
  MaxInt = 7
  Exclusive = FALSE
  Faults = FALSE
INVARIANTS
  EntriesWithinAuthorized
CHECK_DEADLOCK FALSE
