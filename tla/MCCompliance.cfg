SPECIFICATION MCSpec
CONSTANTS
  MaxRetries = 1
  Calls = {c1, c2, c3}
  Third = c3
  NoticesIn = {"CO", "FL", "NY", "PR"}
INVARIANTS
  TypeOK
  CopiesAccounted
  RecordBacked
  DuplicatesExplained
  UnauthorizedExplained
PROPERTIES
  NothingForgotten
  CallsReturn
CHECK_DEADLOCK FALSE
