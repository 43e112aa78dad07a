SPECIFICATION Spec
CONSTANTS
  Services = {s1, s2}
  NoKey = NoKey
  NoAddr = NoAddr
  Outside = Outside
  UserVips <- NoUserVips
  OctetBase = 2
  MaxRev = 7
  MaxFaults = 0
  MaxRestarts = 0
SYMMETRY Symmetry
INVARIANTS FreshIInv VipsUnique
CHECK_DEADLOCK FALSE
