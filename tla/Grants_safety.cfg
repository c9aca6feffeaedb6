SPECIFICATION Spec
CONSTANTS
  c1 = c1
  c2 = c2
  i1 = i1
  i2 = i2
  None = None
  Creds <- MCCreds
  Indices <- MCIndices
  MaxRetries = 1
  MaxAge = 1
  MaxConcurrent = 2
  MaxFaults = 1
  MaxRefreshes = 2
  MaxLag = 1
SYMMETRY MCSymmetry
CHECK_DEADLOCK FALSE
INVARIANTS IndexUniqueUnlessRaced AllocationKeptUnlessRaced RevokedIsCutUnlessRaced CleanIssueIsListed StaleWithinMaxAge
PROPERTIES BitsStayUnlessRaced
