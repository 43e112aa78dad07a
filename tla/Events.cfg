SPECIFICATION Spec
CONSTANTS
  Nil = Nil
  None = None
  TrustDomain <- ClusterLocal
  RootNamespace = "istio-system"
  NamespaceScoped = TRUE
  Objects <- MCObjects
  MetaRouters <- MCMetaRouters
  Codecs <- MCCodecs
  Resources <- MCResources
  Secrets <- MCSecrets
  MaxChanges = 4
INVARIANTS TypeOK FiltersAnnounced RoutesAnnounced ChangesPending RouteNamesAgree
CHECK_DEADLOCK FALSE
