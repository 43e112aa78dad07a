SPECIFICATION FairSpec
CONSTANTS
  n1 = n1
  n2 = n2
  v1 = v1
  v2 = v2
  f1 = f1
  config = config
  Absent = Absent
  Names <- TwoNames
  Gateways <- GatewayName
  VsSpecs <- TwoVs
  EfSpecs <- OneEf
  Sources <- OneSource
  Capacity = 1
  MaxRetries = 1
  MaxEdits = 3
  MaxFaults = 0
  FaultCost = 1
  MaxRestarts = 0
PROPERTIES Converges
CHECK_DEADLOCK FALSE
