SPECIFICATION Spec
CONSTANTS
  a = a
  b = b
  c = c
  d = d
  None = None
  Nodes <- MCNodes
  Origin = a
  MaxForwards = 2
  Tiers <- MCTiers
  Losses <- MCLosses
  ReportedLosses <- MCReported
  Rungs <- MCRungs
SYMMETRY NodeSymmetry
INVARIANTS DepthAuthorised NoNodeTwice ReleasedWasPermitted PathIsTheWay
