SPECIFICATION FairSpec
CONSTANTS
  n1 = n1
  n2 = n2
  v1 = v1
  v2 = v2
  f1 = f1
  config = config
  Absent = Absent
  Names <- TwoNames
  Gateways <- GatewayName
  VsSpecs <- TwoVs
  EfSpecs <- OneEf
  Sources <- OneSource
  Capacity = 1
  MaxRetries = 2
  MaxEdits = 3
  MaxFaults = 1
  FaultCost = 0
  MaxRestarts = 1
INVARIANTS IInv InSyncWhenQuiet
PROPERTIES Settles
CHECK_DEADLOCK FALSE
