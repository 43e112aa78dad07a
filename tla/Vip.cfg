SPECIFICATION FairSpec
CONSTANTS
  Services = {s1, s2}
  NoKey = NoKey
  NoAddr = NoAddr
  Outside = Outside
  UserVips <- OneUserVip
  OctetBase = 3
  MaxRev = 3
  MaxFaults = 1
  MaxRestarts = 1
INVARIANTS IInv SettledVipsUnique
PROPERTIES EventuallyAllocated
CHECK_DEADLOCK FALSE
