SPECIFICATION UserSpec
CONSTANTS
  Nil = Nil
  MetaRouters <- UntypedMetaRouters
  Language <- MCLanguage
  Requests <- MCRequests
  ServicePort = 7
  RootNamespace = "root"
  WeightModulus = 256
  None = None
  TrustDomain <- ClusterLocal
  PolicyNames = {1, 2}
  Policies <- NoPolicy
  PolicyRequests <- MCPolicyRequests
  Characters <- MCCharacters
  DubboServices <- NoDubboServices
  DubboCalls <- MCDubboCalls
  Replicas = {r1}
  MaxReplaced = 0
  MaxStarts = 1
INVARIANTS RequestsRouted
CHECK_DEADLOCK FALSE
