SPECIFICATION FairSpec
CONSTANTS
  MaxRetries = 1
  Submissions = {s1, s2}
INVARIANTS
  TypeOK
  CopiesAccounted
  CopiesBounded
  GivesUpLate
PROPERTIES
  SubmitReturns
CHECK_DEADLOCK FALSE
