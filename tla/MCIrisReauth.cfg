SPECIFICATION Spec
CONSTANTS
  MaxRetries = 1
  Submissions = {s1}
PROPERTY
  OneReauthentication
CHECK_DEADLOCK FALSE
