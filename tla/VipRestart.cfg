SPECIFICATION Spec
CONSTANTS
  Services = {s1, s2}
  NoKey = NoKey
  NoAddr = NoAddr
  Outside = Outside
  UserVips <- NoUserVips
  OctetBase = 2
  MaxRev = 4
  MaxFaults = 0
  MaxRestarts = 1
INVARIANTS VipsUnique
CHECK_DEADLOCK FALSE
