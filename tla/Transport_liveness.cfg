SPECIFICATION FairSpec
CONSTANTS
  warden = warden
  emissary = emissary
  Nodes <- MCNodes
  MaxRequests = 1
  MaxStrays = 0
  MaxFaults = 1
CHECK_DEADLOCK FALSE
PROPERTIES RequestsSettle RelayDrains
