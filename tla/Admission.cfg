SPECIFICATION UserSpec
CONSTANTS
  Nil = Nil
  MetaRouters <- MCMetaRouters
  Language <- MCLanguage
  Requests <- MCRequests
  ServicePort = 7
  RootNamespace = "root"
  WeightModulus = 256
  None = None
  TrustDomain <- ClusterLocal
  PolicyNames = {1, 2}
  Policies <- MCPolicies
  PolicyRequests <- MCPolicyRequests
  Characters <- MCCharacters
  DubboServices <- MCDubboServices
  DubboCalls <- MCDubboCalls
  Replicas = {r1, r2, r3}
  MaxReplaced = 2
  MaxStarts = 5
INVARIANTS HookIInv CallsTrusted AdmittedTranslates SharesExact RequestsRouted WarnedUnreachable ExportedOnce OnlyMeantMatch PoliciesDecide DubboRouted
CHECK_DEADLOCK FALSE
