SPECIFICATION NsFairSpec
CONSTANTS
  r1 = r1
  r2 = r2
  NoOne = NoOne
  Former = Former
  Replicas <- TwoReplicas
  Masters <- TwoReplicas
  MaxLosses = 2
  MaxCrashes = 1
  Namespaces = {ns1}
  MaxEdits = 1
  MaxFaults = 1
INVARIANTS NsIInv NothingForgotten
PROPERTIES ExclusiveLeases SomePusher SomeAllocator Bootstrapped
CHECK_DEADLOCK FALSE
