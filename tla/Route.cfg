SPECIFICATION FairSpec
CONSTANTS
  s1 = s1
  s2 = s2
  p1 = p1
  None = None
  Streams <- TwoStreams
  Nodes <- OneNode
  NodeOf <- AllOfOne
  Capacity = 1
  MaxRetries = 1
  MaxEdits = 1
  MaxOpens = 2
  MaxCloses = 1
INVARIANTS IInv CurrentWhenQuiet
PROPERTIES NeverBackwards Publishes EventuallyCurrent EventuallyQuiet
CHECK_DEADLOCK FALSE
