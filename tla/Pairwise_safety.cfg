SPECIFICATION Spec
CONSTANTS
  r1 = r1
  r2 = r2
  r3 = r3
  a = a
  b = b
  Requests <- MCRequests
  Auds <- MCAuds
  AudOf <- MCAudOf
  Sensitive <- MCSensitive
  SubjectKeyed = {}
  MaxFaults = 1
  MaxAsked = 2
  Warden = Warden
  None = None
SYMMETRY RequestSymmetry
CHECK_DEADLOCK FALSE
INVARIANTS Unlinkable ApprovedOnce
