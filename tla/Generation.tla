----------------------------- MODULE Generation -----------------------------
(***************************************************************************)
(* What Aeraki generates from a configuration: the EnvoyFilters            *)
(* (internal/envoyfilter/controller.go, network_filter.go and the plugins) *)
(* and the MetaProtocol routes (internal/xds/cache_mgr.go).                *)
(*                                                                         *)
(* A configuration c has one function per kind of object, from keys to     *)
(* objects or Nil: c.se, c.vs, c.dr and c.gw for Istio's, c.mr, c.rs, c.rd *)
(* and c.ap for MetaRouters, RedisServices, RedisDestinations and          *)
(* DubboAuthorizationPolicies, and the functions c.codecs from application *)
(* protocols to codecs and c.secrets from names to passwords.  An Istio    *)
(* object has a namespace, annotations and a spec.  A host is a pair of a  *)
(* label and a domain, "" for a short name; a port name                    *)
(* "tcp-metaprotocol-dubbo" is the sequence of its three parts.            *)
(*                                                                         *)
(* A list some of whose members are dropped is the list restricted to the  *)
(* places of the others.  The lists of objects the code searches have no   *)
(* order, and it takes the first match in them: where several objects      *)
(* match, the operators below return what is generated for each of them.   *)
(***************************************************************************)
EXTENDS Integers, Sequences, FiniteSetsExt, DubboAuthorization

CONSTANTS
  Nil,            \* no object, no codec
  RootNamespace,  \* args.RootNamespace
  NamespaceScoped \* args.EnableEnvoyFilterNSScope

-----------------------------------------------------------------------------
(* Names: ports, hosts, clusters and routes.                                *)

(* The protocols of protocolMap, and those with a generator.                *)
Generators == {"dubbo", "thrift", "kafka", "zookeeper", "redis", "metaprotocol"}
Supported == Generators \cup {"mongo", "mysql"}
Unsupported == "unsupported"

GetLayer7ProtocolFromPortName(name) ==
  IF Len(name) > 1 /\ name[2] \in Supported THEN name[2] ELSE Unsupported

IsAerakiSupportedProtocols(name) == GetLayer7ProtocolFromPortName(name) # Unsupported
IsMetaProtocol(port) == GetLayer7ProtocolFromPortName(port.name) = "metaprotocol"

FQDN(name, ns) == IF name[2] = "" THEN <<name[1], ns>> ELSE name
IsFQDNEquals(name1, ns1, name2, ns2) == FQDN(name1, ns1) = FQDN(name2, ns2)

BuildClusterName(direction, subset, host, port) ==
  <<direction, port, subset, IF direction = "inbound" THEN Nil ELSE host>>
BuildMetaProtocolRouteName(host, port) == <<host, port>>

Live(objects) == {k \in DOMAIN objects : objects[k] # Nil}

(* The places in a list of what satisfies a test; the list of them.         *)
Places(list, Test(_)) == {i \in DOMAIN list : Test(list[i])}
MetaPorts(ports) == Restrict(ports, Places(ports, IsMetaProtocol))

-----------------------------------------------------------------------------
(* The objects related to a ServiceEntry.  A virtual service and a          *)
(* MetaRouter are compared by name, a destination rule by qualified name.   *)
OrNil(S) == IF S = {} THEN {Nil} ELSE S
Host(se) == se.spec.hosts[1]

FindRelatedVirtualService(c, se) ==
  OrNil({c.vs[k] : k \in {k \in Live(c.vs) : Host(se) \in Range(c.vs[k].spec.hosts)}})

FindRelatedMetaRouter(c, se) ==
  OrNil({c.mr[k] : k \in {k \in Live(c.mr) : Host(se) \in Range(c.mr[k].spec.hosts)}})

FindRelatedDestinationRule(c, se) ==
  OrNil({c.dr[k] : k \in {k \in Live(c.dr) :
           IsFQDNEquals(c.dr[k].spec.host, c.dr[k].ns, Host(se), se.ns)}})

-----------------------------------------------------------------------------
(* The two EnvoyFilters of a service's port (network_filter.go): one for    *)
(* each address, and one for the workloads the service selects.             *)

(* The labels of the workloads: those of the spec, or what the annotation   *)
(* says.  An annotation is the sequence of its parts between colons; a      *)
(* missing one is read as "".                                               *)
InboundEnvoyFilterWorkloadSelector(se) ==
  LET parts == IF se.annotations.workloadSelector = Nil THEN <<"">>
               ELSE se.annotations.workloadSelector
  IN  IF se.spec.selector # {} THEN se.spec.selector
      ELSE CASE Len(parts) = 1 -> {<<"app", parts[1]>>}
             [] Len(parts) = 2 -> {parts}
             [] OTHER          -> {}

GenerateNetworkFilter(se, port, outbound, inbound) ==
  {[name     |-> <<"aeraki-outbound", Host(se), a, port.number>>,
    listener |-> <<a, port.number>>,
    selector |-> {},
    proxy    |-> outbound] : a \in se.spec.addresses}
  \cup
  {[name     |-> <<"aeraki-inbound", Host(se), port.number>>,
    listener |-> <<"virtualInbound", port.number>>,
    selector |-> labels,
    proxy    |-> inbound] :
      labels \in {InboundEnvoyFilterWorkloadSelector(se)} \ {{}}}

-----------------------------------------------------------------------------
(* The MetaProtocol plugin.                                                 *)
ApplicationProtocol(port) == port.name[3]
CodecKnown(c, port) == c.codecs[ApplicationProtocol(port)] # Nil

BuildOutboundProxy(c, host, port) ==
  [rds         |-> BuildMetaProtocolRouteName(host, port.number),
   application |-> ApplicationProtocol(port),
   codec       |-> c.codecs[ApplicationProtocol(port)]]

BuildInboundProxy(c, port, mr) ==
  [cluster     |-> BuildClusterName("inbound", Nil, Nil, port.number),
   application |-> ApplicationProtocol(port),
   codec       |-> c.codecs[ApplicationProtocol(port)],
   rateLimit   |-> IF mr = Nil THEN Nil ELSE mr.spec.rateLimit]

(* A port whose codec is not known leaves the service without filters.      *)
GenerateSidecarEnvoyFilters(c, se, mr) ==
  LET ports == Range(MetaPorts(se.spec.ports))
  IN  IF \E p \in ports : ~ CodecKnown(c, p) THEN {}
      ELSE UNION {GenerateNetworkFilter(se, p, BuildOutboundProxy(c, Host(se), p),
                                        BuildInboundProxy(c, p, mr)) : p \in ports}

(* Every filter made so far gets the name of each further port: of the      *)
(* filters of a gateway with several MetaProtocol servers, which then all   *)
(* have the name of the last, the last is kept.                             *)
GenerateGatewayFilters(c, key, gw, mr) ==
  LET ports == MetaPorts(gw.spec.servers)
      last  == ports[Max(DOMAIN ports)]
  IN  IF \E i \in DOMAIN ports : ~ CodecKnown(c, ports[i]) THEN {}
      ELSE {[ns     |-> gw.ns,
             filter |-> [name     |-> <<"aeraki-gateway-outbound", key, last.number>>,
                         listener |-> <<"0.0.0.0", last.number>>,
                         selector |-> gw.spec.selector,
                         proxy    |-> BuildOutboundProxy(c, mr.spec.hosts[1], last)]]}

-----------------------------------------------------------------------------
(* The Dubbo and Thrift plugins route by the virtual service; both, and the *)
(* Kafka and ZooKeeper plugins, handle the first port only.                 *)
BuildWeightedCluster(se, dests) ==
  {<<BuildClusterName("outbound", d.subset, Host(se), se.spec.ports[1].number),
     IF Cardinality(dests) = 1 THEN Nil ELSE d.weight>> : d \in dests}

BuildRoute(se, vs) ==
  IF vs = Nil
  THEN <<{<<BuildClusterName("outbound", Nil, Host(se), se.spec.ports[1].number), Nil>>}>>
  ELSE [i \in DOMAIN vs.spec.http |-> BuildWeightedCluster(se, vs.spec.http[i])]

BuildThriftOutboundProxy(se, vs) == [routes |-> BuildRoute(se, vs)]

(* A Dubbo service without an interface annotation gets an empty proxy: its *)
(* nil pointer is not a nil interface to generateNetworkFilter.             *)
BuildDubboOutboundProxy(se, vs) ==
  IF se.annotations.interface = Nil THEN [routes |-> <<>>]
  ELSE [interface |-> se.annotations.interface, routes |-> BuildRoute(se, vs)]

(* The policies of the service's namespace, as the API server lists them.   *)
ListPolicies(c, ns) ==
  LET listed == {k \in Live(c.ap) : c.ap[k].ns = ns}
      keys   == CHOOSE f \in [1..Cardinality(listed) -> listed] : IsInjective(f)
  IN  [i \in DOMAIN keys |-> c.ap[keys[i]].spec]

BuildDubboInboundProxy(c, se) ==
  [cluster |-> BuildClusterName("inbound", Nil, Nil, se.spec.ports[1].number),
   filters |-> BuildDubboFilter(ListPolicies(c, se.ns))]

-----------------------------------------------------------------------------
(* The Redis plugin.                                                        *)

(* The RedisService of the first of the service's hosts that has one.       *)
FindTargetHostAndRedisService(c, se) ==
  LET services(h) == {c.rs[k] : k \in {k \in Live(c.rs) :
                        c.rs[k].ns = se.ns /\ h \in Range(c.rs[k].spec.hosts)}}
      named       == {i \in DOMAIN se.spec.hosts : services(se.spec.hosts[i]) # {}}
      host        == se.spec.hosts[Min(named)]
  IN  IF named = {} THEN {<<Nil, Nil>>} ELSE {host} \X services(host)

(* The hosts of a namespace's services; of two services with a host, either *)
(* may be the one kept.                                                     *)
HostServices(c, ns) ==
  LET listed == {k \in Live(c.se) : c.se[k].ns = ns}
      hosts  == UNION {Range(c.se[k].spec.hosts) : k \in listed}
  IN  {f \in [hosts -> listed] : \A h \in hosts : h \in Range(c.se[f[h]].spec.hosts)}

FindServicePort(ports, listen) ==
  LET found == {i \in DOMAIN ports : ports[i].number = listen.number \/ ports[i].name = listen.name}
  IN  CASE Len(ports) = 1 -> ports[1].number
        [] Len(ports) # 1 /\ found # {} -> ports[Min(found)].number
        [] OTHER -> listen.number

(* The port of a mirror is that of the route it mirrors.                    *)
BuildPrefixRoute(c, r, services, listen) ==
  LET port == CASE r.port # Nil -> r.port
                [] r.port = Nil /\ r.host \in DOMAIN services ->
                     FindServicePort(c.se[services[r.host]].spec.ports, listen)
                [] OTHER -> listen.number
  IN  [prefix  |-> r.prefix,
       cluster |-> BuildClusterName("outbound", Nil, r.host, port),
       mirrors |-> {BuildClusterName("outbound", Nil, m, port) : m \in r.mirrors}]

CatchAll(cluster) == [prefix |-> Nil, cluster |-> cluster, mirrors |-> {}]

(* The password of an auth setting <<kind, value>>; a secret that cannot be *)
(* read is an error.                                                        *)
SecretMissing(c, auth) == auth # Nil /\ auth[1] = "secret" /\ c.secrets[auth[2]] = Nil
Password(c, auth) ==
  CASE auth = Nil -> Nil
    [] auth # Nil /\ auth[1] = "plain" -> auth[2]
    [] OTHER -> c.secrets[auth[2]]

ConvertPolicy(policy) == IF policy = "PREFER_REPLICA" THEN "PREFER_MASTER" ELSE policy

(* The last route without a prefix catches the keys no other route takes.   *)
BuildRedisOutboundProxy(c, host, rs, services, listen) ==
  LET routes == [i \in DOMAIN rs.spec.routes |-> BuildPrefixRoute(c, rs.spec.routes[i], services, listen)]
      all    == {i \in DOMAIN routes : routes[i].prefix = Nil}
  IN  [auth     |-> Password(c, rs.spec.auth),
       policy   |-> ConvertPolicy(rs.spec.policy),
       routes   |-> Restrict(routes, DOMAIN routes \ all),
       catchAll |-> CASE rs.spec.routes = <<>> ->
                           CatchAll(BuildClusterName("outbound", Nil, host, listen.number))
                      [] rs.spec.routes # <<>> /\ all = {} -> Nil
                      [] OTHER -> routes[Max(all)]]

BuildOutboundProxyWithFallback(c, se, listen) ==
  {IF x[2] = Nil \/ (x[2] # Nil /\ SecretMissing(c, x[2].spec.auth))
   THEN [auth |-> Nil, policy |-> "MASTER", routes |-> <<>>,
         catchAll |-> CatchAll(BuildClusterName("outbound", Nil, Host(se), listen.number))]
   ELSE BuildRedisOutboundProxy(c, x[1], x[2], f, listen) :
     x \in FindTargetHostAndRedisService(c, se), f \in HostServices(c, se.ns)}

(* The cluster that replaces Istio's: no cluster when an endpoint does not  *)
(* parse or a secret cannot be read.                                        *)
Endpoints(rd, listen) ==
  IF rd.spec.pool.endpoints = {} THEN {<<rd.spec.host, listen.number>>}
  ELSE {IF e[2] = Nil THEN <<e[1], listen.number>> ELSE e : e \in rd.spec.pool.endpoints}

BuildRedisCluster(c, name, rd, listen) ==
  LET eds  == [name |-> name, lb |-> "MAGLEV", endpoints |-> {}, auth |-> Nil, tcp |-> Nil]
      pool == rd.spec.pool
  IN  CASE rd = Nil -> eds
        [] rd # Nil /\ pool = Nil -> eds
        [] OTHER ->
             IF (pool.mode = "CLUSTER" /\ \E e \in pool.endpoints : e[2] = "invalid")
                \/ SecretMissing(c, pool.auth) THEN Nil
             ELSE [name      |-> name,
                   lb        |-> IF pool.mode = "CLUSTER" THEN "CLUSTER_PROVIDED" ELSE "MAGLEV",
                   endpoints |-> IF pool.mode = "CLUSTER" THEN Endpoints(rd, listen) ELSE {},
                   auth      |-> Password(c, pool.auth),
                   tcp       |-> pool.tcp,
                   service   |-> rd.spec.host]

BuildOutboundCluster(c, se, listen) ==
  {BuildRedisCluster(c, BuildClusterName("outbound", Nil, Host(se), listen.number), rd, listen) :
     rd \in OrNil({c.rd[k] : k \in {k \in Live(c.rd) :
                    c.rd[k].ns = se.ns /\ c.rd[k].spec.host \in Range(se.spec.hosts)}})}

IsRedisPrefix(name) == Len(name) > 1 /\ name[1] = "tcp" /\ name[2] = "redis"

(* A proxy and a cluster for each Redis port, but all for the listener of   *)
(* the first port and under one name: those of the last port are kept.      *)
GenerateRedis(c, se, inbound) ==
  LET ports == {i \in DOMAIN se.spec.ports : IsRedisPrefix(se.spec.ports[i].name)}
      last  == se.spec.ports[Max(ports)]
  IN  IF ports = {} THEN {}
      ELSE UNION {GenerateNetworkFilter(se, se.spec.ports[1], [redis |-> p, cluster |-> cl], inbound) :
                    p \in BuildOutboundProxyWithFallback(c, se, last),
                    cl \in BuildOutboundCluster(c, se, last)}

GenerateFirstPort(c, protocol, se, vs) ==
  LET port    == se.spec.ports[1]
      inbound == [cluster |-> BuildClusterName("inbound", Nil, Nil, port.number)]
  IN  CASE protocol = "dubbo"  ->
             GenerateNetworkFilter(se, port, BuildDubboOutboundProxy(se, vs), BuildDubboInboundProxy(c, se))
        [] protocol = "thrift" ->
             GenerateNetworkFilter(se, port, BuildThriftOutboundProxy(se, vs), inbound)
        [] protocol = "redis"  -> GenerateRedis(c, se, inbound)
        [] OTHER -> GenerateNetworkFilter(se, port, [plugin |-> protocol], inbound)

-----------------------------------------------------------------------------
(* The EnvoyFilter controller's generation.                                 *)

(* The protocol of the first port with a generator decides.                 *)
GeneratorOf(se) ==
  LET Has(port) == GetLayer7ProtocolFromPortName(port.name) \in Generators
      found     == Places(se.spec.ports, Has)
  IN  IF found = {} THEN Unsupported
      ELSE GetLayer7ProtocolFromPortName(se.spec.ports[Min(found)].name)

Generate(c, se, vs, mr) ==
  CASE GeneratorOf(se) = Unsupported    -> {}
    [] GeneratorOf(se) = "metaprotocol" -> GenerateSidecarEnvoyFilters(c, se, mr)
    [] OTHER                            -> GenerateFirstPort(c, GeneratorOf(se), se, vs)

DefaultEnvoyFilterNS(ns) == IF NamespaceScoped THEN ns ELSE RootNamespace

ExportNamespaces(se, mr) ==
  IF mr = Nil \/ mr.spec.exportTo = {} THEN {DefaultEnvoyFilterNS(se.ns)}
  ELSE {CASE e = "." -> mr.ns [] e = "*" -> RootNamespace [] OTHER -> e :
          e \in mr.spec.exportTo}

CreateEnvoyFiltersOnExportNSs(se, mr, filters) ==
  {[ns |-> n, filter |-> f] : n \in ExportNamespaces(se, mr), f \in filters}

(* The MetaRouters of a gateway's port: they name the gateway, and send     *)
(* requests to a destination with the number of that port.                  *)
IsMatchPort(number, routes) ==
  \E i \in DOMAIN routes : \E d \in routes[i] : d.port = number

QualifiedGateways(mr) ==
  {IF g[1] = "" THEN <<mr.ns, g[2]>> ELSE g : g \in mr.spec.gateways}

GatewayEnvoyFilterContexts(c, key, number) ==
  {c.mr[k] : k \in {k \in Live(c.mr) :
     /\ <<c.gw[key].ns, key>> \in QualifiedGateways(c.mr[k])
     /\ IsMatchPort(number, c.mr[k].spec.routes)}}

(* The ports of a gateway a context is made for, with its MetaRouter.       *)
GatewayContexts(c) ==
  UNION {UNION {{[key |-> k, port |-> p.number, mr |-> m] :
                   m \in GatewayEnvoyFilterContexts(c, k, p.number)} :
                p \in Range(MetaPorts(c.gw[k].spec.servers))} : k \in Live(c.gw)}

GenerateGatewayEnvoyFilters(c) ==
  UNION {GenerateGatewayFilters(c, x.key, c.gw[x.key], x.mr) : x \in GatewayContexts(c)}

(* The listeners of the gateways: buildVirtualServiceWrapper.               *)
GatewayListeners(c) ==
  {[ns |-> c.gw[x.key].ns, gateway |-> x.key, port |-> x.port, host |-> x.mr.spec.hosts[1]] :
     x \in GatewayContexts(c)}

ServiceEnvoyFilters(c, se) ==
  UNION {CreateEnvoyFiltersOnExportNSs(se, m, Generate(c, se, v, m)) :
           v \in FindRelatedVirtualService(c, se), m \in FindRelatedMetaRouter(c, se)}

GenerateEnvoyFilters(c) ==
  (UNION {ServiceEnvoyFilters(c, c.se[k]) : k \in Live(c.se)}) \cup GenerateGatewayEnvoyFilters(c)

-----------------------------------------------------------------------------
(* The route cache's generation.                                            *)
GetHashPolicy(dr, subset) ==
  CASE dr = Nil                           -> Nil
    [] dr # Nil /\ subset = Nil           -> dr.spec.hash
    [] OTHER -> IF subset \in DOMAIN dr.spec.subsets THEN dr.spec.subsets[subset] ELSE Nil

DestinationPort(port, d) == IF d.port = Nil THEN port.number ELSE d.port

ConstructAction(port, dests, dr) ==
  {[cluster |-> BuildClusterName("outbound", d.subset, d.host, DestinationPort(port, d)),
    weight  |-> IF Cardinality(dests) = 1 THEN Nil ELSE d.weight,
    hash    |-> GetHashPolicy(dr, d.subset)] : d \in dests}

ConstructRoute(se, port, mr, dr) ==
  [name   |-> BuildMetaProtocolRouteName(Host(se), port.number),
   routes |-> [i \in DOMAIN mr.spec.routes |-> ConstructAction(port, mr.spec.routes[i], dr)]]

DefaultRoute(se, port, dr) ==
  [name   |-> BuildMetaProtocolRouteName(Host(se), port.number),
   routes |-> <<{[cluster |-> BuildClusterName("outbound", Nil, Host(se), port.number),
                  weight  |-> Nil,
                  hash    |-> GetHashPolicy(dr, Nil)]}>>]

MetaRoute(se, port, mr, dr) ==
  IF mr = Nil \/ mr.spec.routes = <<>> THEN DefaultRoute(se, port, dr)
  ELSE ConstructRoute(se, port, mr, dr)

\* Mutant of ServiceRoutes: it stops after the first MetaProtocol port.
FirstPortRoutes(c, se) ==
  LET ports == MetaPorts(se.spec.ports)
  IN  {MetaRoute(se, ports[i], m, d) :
         i \in {i \in DOMAIN ports : \A j \in DOMAIN ports : i <= j},
         m \in FindRelatedMetaRouter(c, se), d \in FindRelatedDestinationRule(c, se)}

ServiceRoutes(c, se) ==
  {MetaRoute(se, p, m, d) :
     p \in Range(MetaPorts(se.spec.ports)),
     m \in FindRelatedMetaRouter(c, se), d \in FindRelatedDestinationRule(c, se)}

GenerateMetaRoutes(c) == UNION {ServiceRoutes(c, c.se[k]) : k \in Live(c.se)}
=============================================================================
