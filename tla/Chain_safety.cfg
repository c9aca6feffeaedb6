SPECIFICATION Spec
CONSTANTS
  root = root
  x = x
  y = y
  r1 = r1
  None = None
  Dids <- MCDids
  Holders <- MCHolders
  Root = root
  MaxAssets = 3
  Rights <- MCRights
  MaxVersions = 2
  MaxHops = 3
  MaxRevoked = 1
  MaxFaults = 1
SYMMETRY AgentSymmetry
INVARIANTS AuthorityWasGranted RevokedKillsSubtree CounterIsDepth
