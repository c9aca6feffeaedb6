SPECIFICATION Spec
CONSTANTS
  warden = warden
  emissary = emissary
  Nodes <- MCNodes
  MaxRequests = 1
  MaxStrays = 1
  MaxFaults = 1
SYMMETRY NodeSymmetry
CHECK_DEADLOCK FALSE
INVARIANTS NothingLost OneHandlerAtATime ResolvedWasHandled
PROPERTIES AtLeastOnce
