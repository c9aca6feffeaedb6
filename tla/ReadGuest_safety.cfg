SPECIFICATION FairSpec
CONSTANTS
  t1 = t1
  t2 = t2
  m1 = m1
  m2 = m2
  p1 = p1
  None = None
  Asks <- MCAsks
  ControlTokens <- MCControlTokens
  KbTokens <- MCKbTokens
  Members <- MCMembers
  Partitions <- MCPartitions
  Owner <- MCOwner
  MaxFaults = 1
CHECK_DEADLOCK FALSE
INVARIANTS KeysWereApproved OpenedWasApproved KeysOutliveKnownWays RemovalTakesKeys
PROPERTIES SettlesDown
