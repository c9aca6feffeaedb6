SPECIFICATION HouseholdSpec
CONSTANTS
  o1 = o1
  o2 = o2
  o3 = o3
  o4 = o4
  m1 = m1
  m2 = m2
  r1 = r1
  r2 = r2
  Nobody = Nobody
  Requests = {o1, o2, o3, o4}
  Members <- MCOneMember
  Reaches <- MCReaches
  MaxRequests = 2
  MaxRestarts = 1
SYMMETRY MCSymmetry
CHECK_DEADLOCK FALSE
INVARIANTS ReadsWereConsented RevocationFailsKnownWay
