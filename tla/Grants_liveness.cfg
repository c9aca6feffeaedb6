SPECIFICATION FairSpec
CONSTANTS
  c1 = c1
  c2 = c2
  i1 = i1
  i2 = i2
  None = None
  Creds <- MCCreds
  Indices <- MCIndex
  MaxRetries = 1
  MaxAge = 1
  MaxConcurrent = 2
  MaxFaults = 0
  MaxRefreshes = 1
  MaxLag = 0
CHECK_DEADLOCK FALSE
PROPERTIES RequestsEnd
