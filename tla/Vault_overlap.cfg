SPECIFICATION Spec
CONSTANTS
  s1 = s1
  s2 = s2
  o1 = o1
  o2 = o2
  o3 = o3
  None = None
  Ids <- MCIds
  Ops <- MCOps
  MaxConcurrent = 2
  MaxFaults = 1
  Levels <- MCLevels
  Floor = 2
SYMMETRY MCSymmetry
CHECK_DEADLOCK FALSE
INVARIANTS AdmittedOrSwept SubmissionKeptUnlessDropped StoredStaysUnlessRaced IndexFollowsVault
PROPERTIES LoweringCosignedUnlessOvertaken
