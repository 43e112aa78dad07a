------------------------ MODULE ConfigEventsProofs -------------------------
(***************************************************************************)
(* No change of what Aeraki generates goes unannounced, and the two        *)
(* generators agree on the names of the routes.                            *)
(***************************************************************************)
EXTENDS ConfigEvents, TLAPS

Fields == Kinds \cup ResourceKinds \cup {"mr", "codecs", "secrets"}

(* A configuration has its fields, and those of Kinds and of ResourceKinds  *)
(* have the keys of the objects a user may write.                           *)
Store(c) ==
  /\ c = [f \in Fields |-> c[f]]
  /\ \A f \in Kinds : c[f] = [k \in DOMAIN Objects[f] |-> c[f][k]]
  /\ \A f \in ResourceKinds : c[f] = [k \in DOMAIN Resources[f] |-> c[f][k]]
  /\ c.mr = [k \in DOMAIN MetaRouters |-> c.mr[k]]
  /\ c.codecs = [p \in DOMAIN Codecs |-> c.codecs[p]]

(* What the write of an object changes and what it leaves.                  *)
Written(c, d, f, k, obj) ==
  /\ Store(d)
  /\ \A g \in Fields \ {f} : d[g] = c[g]
  /\ DOMAIN d[f] = DOMAIN c[f]
  /\ d[f][k] = obj
  /\ \A j \in DOMAIN c[f] \ {k} : d[f][j] = c[f][j]

LEMMA WriteStore ==
  ASSUME NEW c, Store(c), NEW f \in Fields \ {"secrets"}, NEW k \in DOMAIN c[f], NEW obj,
         NEW d, d = [c EXCEPT ![f][k] = obj]
  PROVE  Written(c, d, f, k, obj)
<1>1. d = [g \in Fields |-> d[g]] /\ \A g \in Fields \ {f} : d[g] = c[g]
  BY Zenon DEF Store
<1>2. d[f] = [c[f] EXCEPT ![k] = obj]
  BY DEF Store
<1>3. c[f] = [j \in DOMAIN c[f] |-> c[f][j]]
  BY DEF Store, Fields, Kinds, ResourceKinds
<1>4. /\ DOMAIN d[f] = DOMAIN c[f]
      /\ d[f] = [j \in DOMAIN c[f] |-> d[f][j]]
      /\ d[f][k] = obj
      /\ \A j \in DOMAIN c[f] \ {k} : d[f][j] = c[f][j]
  BY <1>2, <1>3
<1>5. Store(d)
  <2>1. \A g \in Kinds : d[g] = [j \in DOMAIN Objects[g] |-> d[g][j]]
    <3> TAKE g \in Kinds
    <3>1. CASE g = f
      BY <3>1, <1>4, Zenon DEF Store
    <3>2. CASE g # f
      <4>1. g \in Fields \ {f}
        BY <3>2, Zenon DEF Fields
      <4>2. d[g] = c[g]
        BY <4>1, <1>1, Zenon
      <4> QED
        BY <4>2, Zenon DEF Store
    <3> QED
      BY <3>1, <3>2
  <2>2. \A g \in ResourceKinds : d[g] = [j \in DOMAIN Resources[g] |-> d[g][j]]
    <3> TAKE g \in ResourceKinds
    <3>1. CASE g = f
      BY <3>1, <1>4, Zenon DEF Store
    <3>2. CASE g # f
      <4>1. g \in Fields \ {f}
        BY <3>2, Zenon DEF Fields
      <4>2. d[g] = c[g]
        BY <4>1, <1>1, Zenon
      <4> QED
        BY <4>2, Zenon DEF Store
    <3> QED
      BY <3>1, <3>2
  <2>3. d["mr"] = [j \in DOMAIN MetaRouters |-> d["mr"][j]]
    BY <1>1, <1>4, Zenon DEF Store, Fields
  <2>4. d["codecs"] = [j \in DOMAIN Codecs |-> d["codecs"][j]]
    BY <1>1, <1>4, Zenon DEF Store, Fields
  <2> QED
    BY <1>1, <2>1, <2>2, <2>3, <2>4, Zenon DEF Store
<1> QED
  BY <1>1, <1>4, <1>5 DEF Written
-----------------------------------------------------------------------------
(* The type invariant with the fields of the configuration.                 *)
Typed ==
  /\ TypeOK
  /\ Store(config)
  /\ \A k \in DOMAIN Resources.rs : config.rs[k] \in Resources.rs[k] \cup {Nil}

(* The event of a write is an event.                                        *)
LEMMA EventOfWrite ==
  ASSUME NEW kind \in Kinds, NEW k \in DOMAIN Objects[kind],
         NEW prev \in Versions(kind, k), NEW curr \in Objects[kind][k]
  PROVE  [kind |-> kind, prev |-> prev, curr |-> curr] \in Events
<1> DEFINE E(j) == [kind : {kind}, prev : Versions(kind, j), curr : Objects[kind][j]]
<1>1. [kind |-> kind, prev |-> prev, curr |-> curr] \in E(k)
  OBVIOUS
<1>2. E(k) \in {E(j) : j \in DOMAIN Objects[kind]}
  BY Zenon
<1>3. UNION {E(j) : j \in DOMAIN Objects[kind]} \subseteq Events
  BY DEF Events
<1> QED
  BY <1>1, <1>2, <1>3

(* What an event holds.                                                     *)
LEMMA EventObjects ==
  ASSUME NEW e \in Events
  PROVE  /\ e.kind \in Kinds
         /\ \E k \in DOMAIN Objects[e.kind] :
              e.curr \in Objects[e.kind][k] /\ e.prev \in Versions(e.kind, k)
         /\ e.curr # Nil
<1>1. PICK kind \in Kinds :
        e \in UNION {[kind : {kind}, prev : Versions(kind, k), curr : Objects[kind][k]] :
                      k \in DOMAIN Objects[kind]}
  BY DEF Events
<1>2. PICK k \in DOMAIN Objects[kind] :
        e \in [kind : {kind}, prev : Versions(kind, k), curr : Objects[kind][k]]
  BY <1>1
<1> QED
  BY <1>2, ObjectsAssumption

LEMMA InitTyped == Init => Typed
<1> SUFFICES ASSUME Init PROVE Typed
  OBVIOUS
<1>1. Store(config)
  BY DEF Init, Store, Fields, Kinds, ResourceKinds
<1>2. /\ \A kind \in Kinds : DOMAIN config[kind] = DOMAIN Objects[kind]
      /\ \A kind \in Kinds : \A k \in DOMAIN Objects[kind] : config[kind][k] \in Versions(kind, k)
      /\ \A k \in DOMAIN Resources.rs : config.rs[k] \in Resources.rs[k] \cup {Nil}
  BY DEF Init, Kinds, Versions
<1>3. /\ events \in Seq(Events)
      /\ resources \subseteq ResourceKinds
      /\ pending \subseteq DOMAIN Codecs
  BY DEF Init
<1>4. {metaRouters, filtersStale, routesStale, annotated} \subseteq BOOLEAN
  BY Zenon DEF Init
<1>5. changes \in 0..MaxChanges
  BY MaxChangesAssumption DEF Init
<1> QED
  BY <1>1, <1>2, <1>3, <1>4, <1>5 DEF Typed, TypeOK

LEMMA NextTyped == Typed /\ [Next]_vars => Typed'
<1> SUFFICES ASSUME Typed, [Next]_vars PROVE Typed'
  OBVIOUS
<1> USE DEF Typed
<1>1. ASSUME NEW kind \in Kinds, NEW k \in DOMAIN Objects[kind],
             NEW obj \in Objects[kind][k] \cup {Nil}, Write(kind, k, obj)
      PROVE  Typed'
  <2>1. config' = [config EXCEPT ![kind][k] = obj] /\ config[kind][k] # obj
    BY <1>1 DEF Write, Becomes
  <2>2. Store(config) /\ kind \in Fields \ {"secrets"} /\ k \in DOMAIN config[kind]
    BY DEF TypeOK, Fields, Kinds
  <2>3. Written(config, config', kind, k, obj)
    BY <2>1, <2>2, WriteStore, Zenon
  <2>4. \A f \in Kinds : /\ DOMAIN config'[f] = DOMAIN Objects[f]
                         /\ \A j \in DOMAIN Objects[f] : config'[f][j] \in Versions(f, j)
    <3> TAKE f \in Kinds
    <3>1. CASE f = kind
      BY <3>1, <2>3 DEF TypeOK, Versions, Written
    <3>2. CASE f # kind
      BY <3>2, <2>3 DEF TypeOK, Fields, Written
    <3> QED
      BY <3>1, <3>2
  <2>5. config'.rs = config.rs
    BY <2>3 DEF Fields, Kinds, ResourceKinds, Written
  <2>6. config[kind][k] \in Versions(kind, k)
    BY DEF TypeOK
  <2>7. PICK e \in Events : events' = Append(events, e)
    <3>1. CASE obj = Nil
      BY <3>1, <2>1, <2>6, EventOfWrite, <1>1, Zenon DEF Write, Versions
    <3>2. CASE obj # Nil
      BY <3>2, <2>6, EventOfWrite, <1>1 DEF Write, Versions
    <3> QED
      BY <3>1, <3>2
  <2>8. events' \in Seq(Events)
    BY <2>7 DEF TypeOK
  <2>9. /\ resources' \subseteq ResourceKinds
        /\ pending' \subseteq DOMAIN Codecs
        /\ {metaRouters', filtersStale', routesStale', annotated'} \subseteq BOOLEAN
        /\ changes' \in 0..MaxChanges
    BY <1>1, MaxChangesAssumption DEF Write, Becomes, Counted, TypeOK
  <2> QED
    BY <2>3, <2>4, <2>5, <2>8, <2>9 DEF TypeOK, Written
<1>2. ASSUME HandleEvent PROVE Typed'
  <2>1. events' \in Seq(Events)
    BY <1>2 DEF HandleEvent, TypeOK
  <2>2. {metaRouters', filtersStale', routesStale', annotated'} \subseteq BOOLEAN
    BY <1>2, Zenon DEF HandleEvent, TypeOK
  <2> QED
    BY <1>2, <2>1, <2>2 DEF HandleEvent, TypeOK
<1>3. ASSUME NEW k \in DOMAIN MetaRouters, NEW obj \in MetaRouters[k] \cup {Nil},
             WriteMetaRouter(k, obj)
      PROVE  Typed'
  <2>1. config' = [config EXCEPT !["mr"][k] = obj]
    BY <1>3 DEF WriteMetaRouter, Becomes
  <2>2. Store(config) /\ "mr" \in Fields \ {"secrets"} /\ k \in DOMAIN config["mr"]
    BY DEF Store, Fields
  <2>3. Written(config, config', "mr", k, obj)
    BY <2>1, <2>2, WriteStore, Zenon
  <2>4. Store(config') /\ config'.rs = config.rs /\ \A f \in Kinds : config'[f] = config[f]
    BY <2>3 DEF Fields, Kinds, ResourceKinds, Written
  <2>5. {metaRouters', filtersStale', routesStale', annotated'} \subseteq BOOLEAN
    BY <1>3, Zenon DEF WriteMetaRouter, Becomes, TypeOK
  <2>6. changes' \in 0..MaxChanges /\ UNCHANGED <<events, resources, protocols, pending, annotated>>
    BY <1>3, MaxChangesAssumption DEF WriteMetaRouter, Counted, TypeOK
  <2> QED
    BY <2>4, <2>5, <2>6 DEF TypeOK
<1>4. ASSUME ReconcileMetaRouter PROVE Typed'
  <2>1. {metaRouters', filtersStale', routesStale', annotated'} \subseteq BOOLEAN
    BY <1>4, Zenon DEF ReconcileMetaRouter, TypeOK
  <2> QED
    BY <1>4, <2>1 DEF ReconcileMetaRouter, TypeOK
<1>5. ASSUME NEW kind \in ResourceKinds, NEW k \in DOMAIN Resources[kind],
             NEW obj \in Resources[kind][k] \cup {Nil}, WriteResource(kind, k, obj)
      PROVE  Typed'
  <2>1. config' = [config EXCEPT ![kind][k] = obj]
    BY <1>5 DEF WriteResource, Becomes
  <2>2. Store(config) /\ kind \in Fields \ {"secrets"} /\ k \in DOMAIN config[kind]
    BY DEF Store, Fields, ResourceKinds
  <2>3. Written(config, config', kind, k, obj)
    BY <2>1, <2>2, WriteStore, Zenon
  <2>4. Store(config') /\ \A f \in Kinds : config'[f] = config[f]
    BY <2>3 DEF Fields, Kinds, ResourceKinds, Written
  <2>5. \A j \in DOMAIN Resources.rs : config'.rs[j] \in Resources.rs[j] \cup {Nil}
    <3>1. CASE kind = "rs"
      BY <3>1, <2>2, <2>3 DEF Written, Store, ResourceKinds
    <3>2. CASE kind # "rs"
      BY <3>2, <2>3 DEF Written, Fields, ResourceKinds
    <3> QED
      BY <3>1, <3>2
  <2>6. {metaRouters', filtersStale', routesStale', annotated'} \subseteq BOOLEAN
    BY <1>5, Zenon DEF WriteResource, Becomes, TypeOK
  <2>7. changes' \in 0..MaxChanges /\ UNCHANGED <<events, metaRouters, protocols, pending, annotated>>
    BY <1>5, MaxChangesAssumption DEF WriteResource, Counted, TypeOK
  <2>8. resources' \subseteq ResourceKinds
    BY <1>5 DEF WriteResource, TypeOK
  <2> QED
    BY <2>4, <2>5, <2>6, <2>7, <2>8 DEF TypeOK
<1>6. ASSUME NEW kind \in ResourceKinds, ReconcileResource(kind) PROVE Typed'
  <2>1. {metaRouters', filtersStale', routesStale', annotated'} \subseteq BOOLEAN
    BY <1>6, Zenon DEF ReconcileResource, TypeOK
  <2> QED
    BY <1>6, <2>1 DEF ReconcileResource, TypeOK
<1>7. ASSUME NEW p \in DOMAIN Codecs, NEW codec \in Codecs[p] \cup {Nil},
             WriteApplicationProtocol(p, codec)
      PROVE  Typed'
  <2>1. changes' \in 0..MaxChanges
    BY <1>7, MaxChangesAssumption DEF WriteApplicationProtocol, Counted, TypeOK
  <2> QED
    BY <1>7, <2>1 DEF WriteApplicationProtocol, TypeOK
<1>8. ASSUME NEW p \in DOMAIN Codecs, ReconcileApplicationProtocol(p) PROVE Typed'
  <2>1. config' = [config EXCEPT !["codecs"][p] = protocols[p]]
    BY <1>8 DEF ReconcileApplicationProtocol
  <2>2. Store(config) /\ "codecs" \in Fields \ {"secrets"} /\ p \in DOMAIN config["codecs"]
    BY DEF Store, Fields
  <2>3. Written(config, config', "codecs", p, protocols[p])
    BY <2>1, <2>2, WriteStore, Zenon
  <2>4. Store(config') /\ config'.rs = config.rs /\ \A f \in Kinds : config'[f] = config[f]
    BY <2>3 DEF Fields, Kinds, ResourceKinds, Written
  <2>5. {metaRouters', filtersStale', routesStale', annotated'} \subseteq BOOLEAN
    BY <1>8, Zenon DEF ReconcileApplicationProtocol, TypeOK
  <2>6. pending' \subseteq DOMAIN Codecs
        /\ UNCHANGED <<events, metaRouters, resources, protocols, annotated, changes>>
    BY <1>8 DEF ReconcileApplicationProtocol, TypeOK
  <2> QED
    BY <2>4, <2>5, <2>6 DEF TypeOK
<1>9. CASE UNCHANGED vars
  BY <1>9 DEF vars, TypeOK
<1> QED
  BY <1>1, <1>2, <1>3, <1>4, <1>5, <1>6, <1>7, <1>8, <1>9 DEF Next

(* Typing: in every reachable state the store holds objects users wrote and *)
(* the queue of the monitor holds events of such objects.                   *)
THEOREM Typing == Spec => []TypeOK
<1>1. Spec => []Typed
  BY InitTyped, NextTyped, PTL DEF Spec
<1>2. Typed => TypeOK
  BY DEF Typed
<1> QED
  BY <1>1, <1>2, PTL

-----------------------------------------------------------------------------
(* The names of the routes.                                                 *)
LEMMA OrNilNonEmpty ==
  ASSUME NEW S
  PROVE  \E x : x \in OrNil(S)
BY DEF OrNil

(* The filters and the routes are those of the services, and of the         *)
(* gateways.                                                                *)
LEMMA FiltersOf ==
  ASSUME NEW c, NEW x
  PROVE  x \in GenerateEnvoyFilters(c) <=>
           \/ \E k \in Live(c.se) : x \in ServiceEnvoyFilters(c, c.se[k])
           \/ x \in GenerateGatewayEnvoyFilters(c)
BY DEF GenerateEnvoyFilters

LEMMA RoutesOf ==
  ASSUME NEW c, NEW r
  PROVE  r \in GenerateMetaRoutes(c) <=> \E k \in Live(c.se) : r \in ServiceRoutes(c, c.se[k])
BY DEF GenerateMetaRoutes

(* The filters of a service that is not a MetaProtocol one ask for no route. *)
LEMMA FirstPortWithoutRoutes ==
  ASSUME NEW c, NEW protocol, NEW se, NEW vs, NEW x \in GenerateFirstPort(c, protocol, se, vs),
         x.name[1] = "aeraki-outbound"
  PROVE  "rds" \notin DOMAIN x.proxy
<1>1. ASSUME NEW port, NEW out, NEW in, x \in GenerateNetworkFilter(se, port, out, in)
      PROVE  x.proxy = out
  BY <1>1 DEF GenerateNetworkFilter
<1> DEFINE port == se.spec.ports[1]
           inbound == [cluster |-> BuildClusterName("inbound", Nil, Nil, port.number)]
<1>2. CASE protocol = "dubbo"
  <2>1. x.proxy = BuildDubboOutboundProxy(se, vs)
    BY <1>1, <1>2, Zenon DEF GenerateFirstPort
  <2> QED
    BY <2>1 DEF BuildDubboOutboundProxy
<1>3. CASE protocol = "thrift"
  <2>1. x.proxy = BuildThriftOutboundProxy(se, vs)
    BY <1>1, <1>3, Zenon DEF GenerateFirstPort
  <2> QED
    BY <2>1 DEF BuildThriftOutboundProxy
<1>4. CASE protocol = "redis"
  <2>1. x \in GenerateRedis(c, se, inbound)
    BY <1>4, Zenon DEF GenerateFirstPort
  <2>2. PICK p, cl : x \in GenerateNetworkFilter(se, port, [redis |-> p, cluster |-> cl], inbound)
    <3> DEFINE ports == {i \in DOMAIN se.spec.ports : IsRedisPrefix(se.spec.ports[i].name)}
               last  == se.spec.ports[Max(ports)]
               P     == BuildOutboundProxyWithFallback(c, se, last)
               C     == BuildOutboundCluster(c, se, last)
               F(p, cl) == GenerateNetworkFilter(se, port, [redis |-> p, cluster |-> cl], inbound)
    <3>a. GenerateRedis(c, se, inbound) = IF ports = {} THEN {} ELSE UNION {F(p, cl) : p \in P, cl \in C}
      BY DEF GenerateRedis
    <3> HIDE DEF P, C, F, ports, inbound
    <3>1. x \in UNION {F(p, cl) : p \in P, cl \in C}
      BY <2>1, <3>a
    <3>2. \E p, cl : x \in F(p, cl)
      BY <3>1
    <3> QED
      BY <3>2, Zenon DEF F
  <2>3. x.proxy = [redis |-> p, cluster |-> cl]
    BY <1>1, <2>2
  <2> QED
    BY <2>3
<1>5. CASE protocol \notin {"dubbo", "thrift", "redis"}
  <2>1. x.proxy = [plugin |-> protocol]
    BY <1>1, <1>5, Zenon DEF GenerateFirstPort
  <2> QED
    BY <2>1
<1> QED
  BY <1>2, <1>3, <1>4, <1>5

(* Every route a sidecar asks for is that of a MetaProtocol port.           *)
LEMMA Subscribed ==
  ASSUME NEW c, NEW x \in GenerateEnvoyFilters(c),
         x.filter.name[1] = "aeraki-outbound", "rds" \in DOMAIN x.filter.proxy
  PROVE  \E k \in Live(c.se) : \E p \in Range(MetaPorts(c.se[k].spec.ports)) :
           x.filter.proxy.rds = BuildMetaProtocolRouteName(Host(c.se[k]), p.number)
<1>1. x \notin GenerateGatewayEnvoyFilters(c)
  <2> SUFFICES ASSUME x \in GenerateGatewayEnvoyFilters(c) PROVE FALSE
    OBVIOUS
  <2>1. PICK y : x \in GenerateGatewayFilters(c, y.key, c.gw[y.key], y.mr)
    BY Zenon DEF GenerateGatewayEnvoyFilters
  <2>2. PICK l, gw, p :
          x = [ns     |-> gw.ns,
               filter |-> [name     |-> <<"aeraki-gateway-outbound", y.key, l>>,
                           listener |-> <<"0.0.0.0", l>>,
                           selector |-> gw.spec.selector,
                           proxy    |-> p]]
    BY <2>1, Zenon DEF GenerateGatewayFilters
  <2> QED
    BY <2>2
<1>2. PICK k \in Live(c.se) : x \in ServiceEnvoyFilters(c, c.se[k])
  BY <1>1, FiltersOf
<1>a. PICK v, m : x \in CreateEnvoyFiltersOnExportNSs(c.se[k], m, Generate(c, c.se[k], v, m))
  BY <1>2, SMT DEF ServiceEnvoyFilters
<1>3. x.filter \in Generate(c, c.se[k], v, m)
  BY <1>a DEF CreateEnvoyFiltersOnExportNSs
<1>b. Unsupported # "metaprotocol"
  BY DEF Unsupported
<1>4. GeneratorOf(c.se[k]) # Unsupported
  BY <1>3, <1>b, Zenon DEF Generate
<1>5. GeneratorOf(c.se[k]) = "metaprotocol"
  <2> SUFFICES ASSUME GeneratorOf(c.se[k]) # "metaprotocol" PROVE FALSE
    OBVIOUS
  <2>1. x.filter \in GenerateFirstPort(c, GeneratorOf(c.se[k]), c.se[k], v)
    BY <1>3, <1>4, Zenon DEF Generate
  <2> QED
    BY <2>1, FirstPortWithoutRoutes
<1>6. x.filter \in GenerateSidecarEnvoyFilters(c, c.se[k], m)
  BY <1>3, <1>5, <1>b, Zenon DEF Generate
<1>7. PICK p \in Range(MetaPorts(c.se[k].spec.ports)) :
        x.filter \in GenerateNetworkFilter(c.se[k], p, BuildOutboundProxy(c, Host(c.se[k]), p),
                                           BuildInboundProxy(c, p, m))
  BY <1>6 DEF GenerateSidecarEnvoyFilters
<1>8. x.filter.proxy = BuildOutboundProxy(c, Host(c.se[k]), p)
  BY <1>7 DEF GenerateNetworkFilter
<1> QED
  BY <1>8 DEF BuildOutboundProxy

(* The cache has a route for every MetaProtocol port.                       *)
LEMMA RouteServed ==
  ASSUME NEW c, NEW k \in Live(c.se), NEW p \in Range(MetaPorts(c.se[k].spec.ports))
  PROVE  \E r \in GenerateMetaRoutes(c) :
           r.name = BuildMetaProtocolRouteName(Host(c.se[k]), p.number)
<1>1. PICK m : m \in FindRelatedMetaRouter(c, c.se[k])
  BY OrNilNonEmpty, Zenon DEF FindRelatedMetaRouter
<1>2. PICK d : d \in FindRelatedDestinationRule(c, c.se[k])
  BY OrNilNonEmpty, Zenon DEF FindRelatedDestinationRule
<1>3. MetaRoute(c.se[k], p, m, d).name = BuildMetaProtocolRouteName(Host(c.se[k]), p.number)
  BY DEF MetaRoute, DefaultRoute, ConstructRoute
<1>4. MetaRoute(c.se[k], p, m, d) \in ServiceRoutes(c, c.se[k])
  BY <1>1, <1>2 DEF ServiceRoutes
<1> QED
  BY <1>3, <1>4 DEF GenerateMetaRoutes

(* A MetaProtocol service with an address and known codecs asks for the     *)
(* route of each of its MetaProtocol ports.                                 *)
LEMMA Subscribes ==
  ASSUME NEW c, NEW k \in Live(c.se), GeneratorOf(c.se[k]) = "metaprotocol",
         c.se[k].spec.addresses # {},
         \A p \in Range(MetaPorts(c.se[k].spec.ports)) : CodecKnown(c, p),
         NEW p \in Range(MetaPorts(c.se[k].spec.ports))
  PROVE  \E x \in GenerateEnvoyFilters(c) :
           /\ x.filter.name[1] = "aeraki-outbound"
           /\ "rds" \in DOMAIN x.filter.proxy
           /\ x.filter.proxy.rds = BuildMetaProtocolRouteName(Host(c.se[k]), p.number)
<1> DEFINE se == c.se[k]
<1>1. PICK m : m \in FindRelatedMetaRouter(c, se)
  BY OrNilNonEmpty, Zenon DEF FindRelatedMetaRouter
<1>2. PICK v : v \in FindRelatedVirtualService(c, se)
  BY OrNilNonEmpty, Zenon DEF FindRelatedVirtualService
<1>3. PICK n : n \in ExportNamespaces(se, m)
  <2>1. CASE m = Nil \/ m.spec.exportTo = {}
    BY <2>1 DEF ExportNamespaces
  <2>2. CASE ~ (m = Nil \/ m.spec.exportTo = {})
    BY <2>2, Zenon DEF ExportNamespaces
  <2> QED
    BY <2>1, <2>2
<1>4. PICK a : a \in se.spec.addresses
  OBVIOUS
<1> DEFINE out == BuildOutboundProxy(c, Host(se), p)
           in  == BuildInboundProxy(c, p, m)
           y   == [name     |-> <<"aeraki-outbound", Host(se), a, p.number>>,
                   listener |-> <<a, p.number>>,
                   selector |-> {},
                   proxy    |-> out]
           x   == [ns |-> n, filter |-> y]
<1>5. y \in GenerateNetworkFilter(se, p, out, in)
  BY <1>4, Zenon DEF GenerateNetworkFilter
<1>6. y \in GenerateSidecarEnvoyFilters(c, se, m)
  <2> HIDE DEF y
  <2> QED
    BY <1>5 DEF GenerateSidecarEnvoyFilters
<1>7. y \in Generate(c, se, v, m)
  <2>1. Unsupported # "metaprotocol"
    BY DEF Unsupported
  <2> HIDE DEF y
  <2> QED
    BY <1>6, <2>1, Zenon DEF Generate
<1>8. x \in ServiceEnvoyFilters(c, se)
  <2>1. x \in CreateEnvoyFiltersOnExportNSs(se, m, Generate(c, se, v, m))
    <3> HIDE DEF y
    <3> QED
      BY <1>3, <1>7 DEF CreateEnvoyFiltersOnExportNSs
  <2> HIDE DEF x, se
  <2> QED
    BY <1>1, <1>2, <2>1 DEF ServiceEnvoyFilters
<1>9. x \in GenerateEnvoyFilters(c)
  BY <1>8, FiltersOf
<1>10. x.filter.proxy = out /\ x.filter.name[1] = "aeraki-outbound"
  OBVIOUS
<1>11. "rds" \in DOMAIN out /\ out.rds = BuildMetaProtocolRouteName(Host(se), p.number)
  BY DEF BuildOutboundProxy
<1> HIDE DEF x, out
<1> QED
  BY <1>9, <1>10, <1>11

(* NamesAgree: in whatever configuration, the names under which the         *)
(* EnvoyFilters ask for routes are names the route cache serves, and no     *)
(* MetaProtocol port that gets a listener is left out.                      *)
THEOREM NamesAgree == Spec => []RouteNamesAgree
<1>1. Subscriptions \subseteq RouteNames
  <2> SUFFICES ASSUME NEW x \in GenerateEnvoyFilters(config),
                      x.filter.name[1] = "aeraki-outbound", "rds" \in DOMAIN x.filter.proxy
               PROVE  \E r \in GenerateMetaRoutes(config) : x.filter.proxy.rds = r.name
    BY DEF Subscriptions, RouteNames
  <2> QED
    BY Subscribed, RouteServed
<1>2. ASSUME NEW k \in Live(config.se),
             GeneratorOf(config.se[k]) = "metaprotocol", config.se[k].spec.addresses # {},
             \A p \in Range(MetaPorts(config.se[k].spec.ports)) : CodecKnown(config, p),
             NEW p \in Range(MetaPorts(config.se[k].spec.ports))
      PROVE  BuildMetaProtocolRouteName(Host(config.se[k]), p.number) \in Subscriptions
  BY <1>2, Subscribes DEF Subscriptions
<1>3. RouteNamesAgree
  BY <1>1, <1>2 DEF RouteNamesAgree
<1> QED
  BY <1>3, PTL

-----------------------------------------------------------------------------
(* The routes.  What the handlers decide is put in terms of a configuration *)
(* c: an object counts for the routes if it is a service with a             *)
(* MetaProtocol port, or the destination rule of one.                       *)
Holds(c) ==
  \A kind \in Kinds : /\ DOMAIN c[kind] = DOMAIN Objects[kind]
                      /\ \A k \in DOMAIN Objects[kind] : c[kind][k] \in Versions(kind, k)

RuleRouted(c, dr) ==
  \E k \in Live(c.se) : /\ IsFQDNEquals(dr.spec.host, dr.ns, Host(c.se[k]), c.se[k].ns)
                        /\ HasMetaProtocolPort(c.se[k])

Routed(c, kind, obj) ==
  /\ obj # Nil
  /\ \/ kind = "se" /\ HasMetaProtocolPort(obj)
     \/ kind = "dr" /\ RuleRouted(c, obj)

Announces(c, e) ==
  /\ e.prev = Nil \/ e.prev.spec # e.curr.spec
  /\ Routed(c, e.kind, e.curr) \/ Routed(c, e.kind, e.prev)

LEMMA TypedHolds == Typed => Store(config) /\ Holds(config)
BY DEF Typed, TypeOK, Holds

LEMMA ServiceHeld ==
  ASSUME NEW c, Holds(c), NEW k \in Live(c.se)
  PROVE  k \in DOMAIN Objects.se /\ c.se[k] \in Objects.se[k]
BY DEF Holds, Live, Versions, Kinds

(* A service with a MetaProtocol port has a supported port.                 *)
LEMMA MetaSupported ==
  ASSUME NEW se, HasMetaProtocolPort(se)
  PROVE  HasSupportedPort(se)
BY DEF HasMetaProtocolPort, HasSupportedPort, IsMetaProtocolPrefix, IsAerakiSupportedProtocols,
       GetLayer7ProtocolFromPortName, Supported, Generators, Unsupported

(* Of the services a rule is about there is at most one.                    *)
LEMMA RuleOutcomes ==
  ASSUME HostsDistinct, Holds(config), NEW dr, dr # Nil
  PROVE  FALSE \notin ShouldUpdateCache("dr", dr) <=> RuleRouted(config, dr)
<1> DEFINE about(k) == IsFQDNEquals(dr.spec.host, dr.ns, Host(config.se[k]), config.se[k].ns)
           S == {config.se[k] : k \in {k \in Live(config.se) : about(k)}}
<1>1. ShouldUpdateCache("dr", dr) = {HasMetaProtocolPort(se) : se \in OrNil(S)}
  BY Zenon DEF ShouldUpdateCache, FindRelatedServiceEntry
<1>2. ~ HasMetaProtocolPort(Nil)
  BY DEF HasMetaProtocolPort
<1>3. ASSUME NEW j \in Live(config.se), NEW k \in Live(config.se), about(j), about(k)
      PROVE  j = k
  <2>1. j \in DOMAIN Objects.se /\ config.se[j] \in Objects.se[j]
    BY ServiceHeld
  <2>2. k \in DOMAIN Objects.se /\ config.se[k] \in Objects.se[k]
    BY ServiceHeld
  <2>3. IsFQDNEquals(Host(config.se[j]), config.se[j].ns, Host(config.se[k]), config.se[k].ns)
    BY <1>3 DEF IsFQDNEquals
  <2> QED
    BY <2>1, <2>2, <2>3 DEF HostsDistinct
<1>4. HasMetaProtocolPort(Nil) \in BOOLEAN /\ \A k : HasMetaProtocolPort(config.se[k]) \in BOOLEAN
  BY DEF HasMetaProtocolPort
<1>5. ASSUME FALSE \notin ShouldUpdateCache("dr", dr) PROVE RuleRouted(config, dr)
  <2>1. S # {}
    <3> HIDE DEF S
    <3>1. HasMetaProtocolPort(Nil) = FALSE
      BY <1>2, <1>4
    <3> QED
      BY <1>1, <1>5, <3>1, Zenon DEF OrNil
  <2>2. PICK k \in Live(config.se) : about(k)
    BY <2>1
  <2>3. config.se[k] \in OrNil(S)
    BY <2>2 DEF OrNil
  <2>4. HasMetaProtocolPort(config.se[k])
    BY <1>1, <1>4, <1>5, <2>3, Zenon
  <2> QED
    BY <2>2, <2>4 DEF RuleRouted
<1>6. ASSUME RuleRouted(config, dr) PROVE FALSE \notin ShouldUpdateCache("dr", dr)
  <2>1. PICK k \in Live(config.se) : about(k) /\ HasMetaProtocolPort(config.se[k])
    BY <1>6 DEF RuleRouted
  <2>2. S = {config.se[k]}
    BY <1>3, <2>1
  <2> QED
    BY <1>1, <2>1, <2>2, Zenon DEF OrNil
<1> QED
  BY <1>5, <1>6, Zenon

LEMMA OutcomesMean ==
  ASSUME HostsDistinct, Holds(config), NEW kind \in Kinds, NEW obj
  PROVE  FALSE \notin ShouldUpdateCache(kind, obj) <=> Routed(config, kind, obj)
<1>1. HasMetaProtocolPort(Nil) = FALSE /\ HasMetaProtocolPort(obj) \in BOOLEAN
  BY DEF HasMetaProtocolPort
<1>2. CASE obj = Nil
  <2>1. ShouldUpdateCache(kind, obj) = {HasMetaProtocolPort(se) : se \in {Nil}}
    BY <1>2, Zenon DEF ShouldUpdateCache
  <2> QED
    BY <1>1, <1>2, <2>1, Zenon DEF Routed
<1>3. CASE obj # Nil /\ kind = "se"
  <2>1. ShouldUpdateCache(kind, obj) = {HasMetaProtocolPort(se) : se \in {obj}}
    <3>1. kind # "dr"
      BY <1>3
    <3> QED
      BY <1>3, <3>1, Zenon DEF ShouldUpdateCache
  <2> QED
    BY <1>1, <1>3, <2>1, Zenon DEF Routed
<1>4. CASE obj # Nil /\ kind = "dr"
  BY <1>4, RuleOutcomes, Zenon DEF Routed
<1>5. CASE obj # Nil /\ kind # "se" /\ kind # "dr"
  <2>1. ShouldUpdateCache(kind, obj) = {HasMetaProtocolPort(se) : se \in {Nil}}
    BY <1>5, Zenon DEF ShouldUpdateCache
  <2> QED
    BY <1>1, <1>5, <2>1, Zenon DEF Routed
<1> QED
  BY <1>2, <1>3, <1>4, <1>5, Zenon

(* What counts for the routes counts for the EnvoyFilter controller.        *)
LEMMA RoutedHandled ==
  ASSUME Holds(config), NEW kind \in Kinds, NEW obj, Routed(config, kind, obj)
  PROVE  ShouldHandle(kind, obj)
<1>1. CASE kind = "se"
  <2>1. HasSupportedPort(obj)
    BY <1>1, MetaSupported DEF Routed
  <2>2. ShouldHandleServiceEntry(obj)
    BY <2>1 DEF ShouldHandleServiceEntry
  <2>3. "se" # "vs" /\ "se" # "dr" /\ "se" # "gw"
    OBVIOUS
  <2> QED
    BY <1>1, <2>2, <2>3, Zenon DEF ShouldHandle
<1>2. CASE kind = "dr"
  <2>1. PICK k \in Live(config.se) :
          /\ IsFQDNEquals(obj.spec.host, obj.ns, Host(config.se[k]), config.se[k].ns)
          /\ HasMetaProtocolPort(config.se[k])
    BY <1>2 DEF Routed, RuleRouted
  <2>2. 1 \in DOMAIN config.se[k].spec.hosts
    BY ServiceHeld, ObjectsAssumption
  <2>3. HasSupportedPort(config.se[k])
    BY <2>1, MetaSupported
  <2>4. IsFQDNEquals(config.se[k].spec.hosts[1], config.se[k].ns, obj.spec.host, obj.ns)
    BY <2>1 DEF IsFQDNEquals, Host
  <2>5. ShouldHandleDestinationRule(obj)
    BY <2>2, <2>3, <2>4 DEF ShouldHandleDestinationRule
  <2>6. "dr" # "vs" /\ "dr" # "se" /\ "dr" # "gw"
    OBVIOUS
  <2> QED
    BY <1>2, <2>5, <2>6, Zenon DEF ShouldHandle
<1> QED
  BY <1>1, <1>2 DEF Routed

(* The outcomes of a pair of tests.                                         *)
Or(a, b) == a \/ b

LEMMA UpdatesMembers ==
  ASSUME NEW e, NEW x
  PROVE  x \in UpdatesRoutes(e) <=>
           \E a \in ShouldUpdateCache(e.kind, e.curr), b \in ShouldUpdateCache(e.kind, e.prev) :
             x = Or(a, b)
<1> DEFINE A == ShouldUpdateCache(e.kind, e.curr)
           B == ShouldUpdateCache(e.kind, e.prev)
<1>1. UpdatesRoutes(e) = {Or(a, b) : a \in A, b \in B}
  BY DEF UpdatesRoutes, Or
<1> HIDE DEF A, B
<1>2. x \in UpdatesRoutes(e) <=> \E a \in A, b \in B : x = Or(a, b)
  BY <1>1
<1> QED
  BY <1>2 DEF A, B

LEMMA UpdatesBoolean ==
  ASSUME NEW e
  PROVE  UpdatesRoutes(e) \subseteq BOOLEAN
<1> SUFFICES ASSUME NEW x \in UpdatesRoutes(e) PROVE x \in BOOLEAN
  OBVIOUS
<1>1. PICK a, b : x = Or(a, b)
  BY UpdatesMembers
<1> QED
  BY <1>1, Zenon DEF Or

LEMMA AnnouncesMeans ==
  ASSUME HostsDistinct, Holds(config), NEW e \in Events
  PROVE  AnnouncesRoutes(e) <=> Announces(config, e)
<1> DEFINE A == ShouldUpdateCache(e.kind, e.curr)
           B == ShouldUpdateCache(e.kind, e.prev)
<1>1. e.kind \in Kinds
  BY EventObjects
<1>2. A \subseteq BOOLEAN /\ B \subseteq BOOLEAN
  BY Zenon DEF ShouldUpdateCache, HasMetaProtocolPort
<1>3. FALSE \notin UpdatesRoutes(e) <=> FALSE \notin A \/ FALSE \notin B
  <2>1. \A x : x \in UpdatesRoutes(e) <=> \E a \in A, b \in B : x = Or(a, b)
    BY UpdatesMembers
  <2> HIDE DEF A, B
  <2>2. ASSUME FALSE \in A, FALSE \in B PROVE FALSE \in UpdatesRoutes(e)
    <3>1. Or(FALSE, FALSE) \in UpdatesRoutes(e)
      BY <2>1, <2>2, Zenon
    <3>2. Or(FALSE, FALSE) = FALSE
      BY DEF Or
    <3> QED
      BY <3>1, <3>2, Zenon
  <2>3. ASSUME FALSE \in UpdatesRoutes(e) PROVE FALSE \in A /\ FALSE \in B
    <3>1. PICK a \in A, b \in B : FALSE = Or(a, b)
      BY <2>1, <2>3, Zenon
    <3>2. a \in BOOLEAN /\ b \in BOOLEAN
      BY <1>2, Zenon
    <3>3. a = FALSE /\ b = FALSE
      BY <3>1, <3>2, Zenon DEF Or
    <3> QED
      BY <3>3, Zenon
  <2> QED
    BY <2>2, <2>3, Zenon
<1>4. FALSE \notin UpdatesRoutes(e) <=>
        Routed(config, e.kind, e.curr) \/ Routed(config, e.kind, e.prev)
  BY <1>1, <1>3, OutcomesMean, Zenon
<1>5. ASSUME Routed(config, e.kind, e.curr) \/ Routed(config, e.kind, e.prev)
      PROVE  ShouldHandle(e.kind, e.curr) \/ (e.prev # Nil /\ ShouldHandle(e.kind, e.prev))
  BY <1>1, <1>5, RoutedHandled DEF Routed
<1> QED
  BY <1>4, <1>5, Zenon DEF AnnouncesRoutes, Announces, ShouldHandleChange

WriteEvent(c, kind, k, obj) ==
  IF obj = Nil THEN [kind |-> kind, prev |-> Nil, curr |-> c[kind][k]]
  ELSE [kind |-> kind, prev |-> c[kind][k], curr |-> obj]

(* The routes of a service depend on its spec and its namespace, the        *)
(* MetaRouters and the specs of the destination rules.                      *)
LEMMA ServiceRoutesSame ==
  ASSUME NEW c, NEW d, c.mr = d.mr, NEW x, NEW y, x.spec = y.spec, x.ns = y.ns,
         FindRelatedDestinationRule(c, x) = FindRelatedDestinationRule(d, x)
  PROVE  ServiceRoutes(c, x) = ServiceRoutes(d, y)
<1>1. Host(x) = Host(y)
  BY DEF Host
<1>2. FindRelatedMetaRouter(c, x) = FindRelatedMetaRouter(d, y)
  BY <1>1 DEF FindRelatedMetaRouter
<1>3. FindRelatedDestinationRule(c, x) = FindRelatedDestinationRule(d, y)
  BY <1>1 DEF FindRelatedDestinationRule
<1>4. \A p, m, r : MetaRoute(x, p, m, r) = MetaRoute(y, p, m, r)
  BY <1>1 DEF MetaRoute, DefaultRoute, ConstructRoute
<1> QED
  BY <1>2, <1>3, <1>4 DEF ServiceRoutes

LEMMA MetaRouteSpec ==
  ASSUME NEW se, NEW p, NEW m, NEW x, NEW y, x # Nil, y # Nil, x.spec = y.spec
  PROVE  MetaRoute(se, p, m, x) = MetaRoute(se, p, m, y)
<1>1. ASSUME NEW s PROVE GetHashPolicy(x, s) = GetHashPolicy(y, s)
  <2>1. CASE s = Nil
    BY <2>1, Zenon DEF GetHashPolicy
  <2>2. CASE s # Nil
    BY <2>2, Zenon DEF GetHashPolicy
  <2> QED
    BY <2>1, <2>2
<1>2. DefaultRoute(se, p, x) = DefaultRoute(se, p, y)
  BY <1>1 DEF DefaultRoute
<1>3. ASSUME NEW dests PROVE ConstructAction(p, dests, x) = ConstructAction(p, dests, y)
  BY <1>1 DEF ConstructAction
<1>4. ConstructRoute(se, p, m, x) = ConstructRoute(se, p, m, y)
  BY <1>3 DEF ConstructRoute
<1> QED
  BY <1>2, <1>4 DEF MetaRoute

LEMMA NoMetaNoRoutes ==
  ASSUME PortsNamed, NEW k \in DOMAIN Objects.se, NEW se \in Objects.se[k],
         ~ HasMetaProtocolPort(se), NEW c
  PROVE  ServiceRoutes(c, se) = {}
<1>1. se # Nil
  BY ObjectsAssumption DEF Kinds
<1>2. Places(se.spec.ports, IsMetaProtocol) = {}
  BY <1>1 DEF PortsNamed, HasMetaProtocolPort, Places
<1>3. Range(MetaPorts(se.spec.ports)) = {}
  BY <1>2 DEF MetaPorts, Restrict, Range
<1> QED
  BY <1>3 DEF ServiceRoutes

(* A change of a service that changes the routes is announced.              *)
LEMMA ServiceAnnounced ==
  ASSUME PortsNamed, NEW c, Holds(c), NEW k \in DOMAIN Objects.se, NEW obj \in Versions("se", k),
         NEW d, Written(c, d, "se", k, obj), c.se[k] # obj,
         ~ Announces(d, WriteEvent(c, "se", k, obj))
  PROVE  GenerateMetaRoutes(c) = GenerateMetaRoutes(d)
<1> DEFINE old == c.se[k]
<1>1. /\ DOMAIN c.se = DOMAIN Objects.se /\ DOMAIN d.se = DOMAIN Objects.se
      /\ d.se[k] = obj /\ \A j \in DOMAIN Objects.se \ {k} : d.se[j] = c.se[j]
      /\ c.mr = d.mr /\ c.dr = d.dr
      /\ old \in Versions("se", k)
  BY DEF Holds, Written, Kinds, Fields
<1>2. ASSUME NEW se PROVE FindRelatedDestinationRule(c, se) = FindRelatedDestinationRule(d, se)
  BY <1>1 DEF FindRelatedDestinationRule
<1>3. ASSUME NEW j \in DOMAIN Objects.se, j # k
      PROVE  (j \in Live(c.se) <=> j \in Live(d.se)) /\ ServiceRoutes(c, c.se[j]) = ServiceRoutes(d, d.se[j])
  BY <1>1, <1>2, <1>3, ServiceRoutesSame DEF Live
<1>4. CASE old # Nil /\ obj # Nil /\ old.spec = obj.spec
  <2>1. old.ns = obj.ns
    BY <1>1, <1>4, ObjectsAssumption DEF Versions, Kinds
  <2>2. k \in Live(c.se) /\ k \in Live(d.se) /\ ServiceRoutes(c, old) = ServiceRoutes(d, obj)
    BY <1>1, <1>2, <1>4, <2>1, ServiceRoutesSame DEF Live
  <2>3. \A r : r \in GenerateMetaRoutes(c) <=> r \in GenerateMetaRoutes(d)
    BY <1>1, <1>3, <2>2, RoutesOf DEF Live
  <2> QED
    BY <2>3
<1>5. CASE ~ (old # Nil /\ obj # Nil /\ old.spec = obj.spec)
  <2>1. (old # Nil => ~ HasMetaProtocolPort(old)) /\ (obj # Nil => ~ HasMetaProtocolPort(obj))
    BY <1>5 DEF Announces, WriteEvent, Routed
  <2>2. /\ k \in Live(c.se) => ServiceRoutes(c, c.se[k]) = {}
        /\ k \in Live(d.se) => ServiceRoutes(d, d.se[k]) = {}
    BY <1>1, <2>1, NoMetaNoRoutes DEF Live, Versions
  <2>3. \A r : r \in GenerateMetaRoutes(c) <=> r \in GenerateMetaRoutes(d)
    BY <1>1, <1>3, <2>2, RoutesOf DEF Live
  <2> QED
    BY <2>3
<1> QED
  BY <1>4, <1>5

(* Destination rules that differ in one key k, where their spec and their   *)
(* namespace agree, make the same routes.                                   *)
RulesAlike(c, d, k) ==
  /\ c.mr = d.mr /\ DOMAIN c.dr = DOMAIN d.dr /\ k \in DOMAIN c.dr
  /\ c.dr[k] # Nil /\ d.dr[k] # Nil /\ c.dr[k].spec = d.dr[k].spec /\ c.dr[k].ns = d.dr[k].ns
  /\ \A j \in DOMAIN c.dr \ {k} : c.dr[j] = d.dr[j]

LEMMA RuleSpecRoutes ==
  ASSUME NEW c, NEW d, NEW k, NEW se, RulesAlike(c, d, k)
  PROVE  ServiceRoutes(c, se) \subseteq ServiceRoutes(d, se)
<1> DEFINE about(r) == IsFQDNEquals(r.spec.host, r.ns, Host(se), se.ns)
           S(b) == {b.dr[j] : j \in {j \in Live(b.dr) : about(b.dr[j])}}
<1>1. FindRelatedMetaRouter(c, se) = FindRelatedMetaRouter(d, se)
  BY DEF FindRelatedMetaRouter, RulesAlike
<1>2. FindRelatedDestinationRule(c, se) = OrNil(S(c)) /\ FindRelatedDestinationRule(d, se) = OrNil(S(d))
  BY DEF FindRelatedDestinationRule
<1>3. \A j : j \in Live(c.dr) /\ about(c.dr[j]) <=> j \in Live(d.dr) /\ about(d.dr[j])
  BY DEF Live, IsFQDNEquals, RulesAlike
<1>4. ASSUME NEW x \in OrNil(S(c))
      PROVE  \E y \in OrNil(S(d)) : y = x \/ (x # Nil /\ y # Nil /\ x.spec = y.spec)
  <2>1. CASE S(c) = {}
    <3>1. S(d) = {}
      BY <2>1, <1>3, Zenon
    <3> QED
      BY <2>1, <3>1 DEF OrNil
  <2>2. CASE S(c) # {}
    <3>1. PICK j \in Live(c.dr) : x = c.dr[j] /\ about(c.dr[j])
      BY <2>2 DEF OrNil
    <3>2. d.dr[j] \in S(d)
      BY <1>3, <3>1
    <3>3. d.dr[j] \in OrNil(S(d))
      BY <3>2, Zenon DEF OrNil
    <3> QED
      BY <3>1, <3>3, Zenon DEF Live, RulesAlike
  <2> QED
    BY <2>1, <2>2, Zenon
<1>5. ASSUME NEW r \in ServiceRoutes(c, se) PROVE r \in ServiceRoutes(d, se)
  <2>1. PICK p \in Range(MetaPorts(se.spec.ports)), m \in FindRelatedMetaRouter(c, se),
             x \in FindRelatedDestinationRule(c, se) : r = MetaRoute(se, p, m, x)
    BY DEF ServiceRoutes
  <2> HIDE DEF S
  <2>2. PICK y \in OrNil(S(d)) : y = x \/ (x # Nil /\ y # Nil /\ x.spec = y.spec)
    BY <1>2, <1>4
  <2>3. r = MetaRoute(se, p, m, y)
    BY <2>1, <2>2, MetaRouteSpec
  <2> QED
    BY <1>1, <1>2, <2>3 DEF ServiceRoutes
<1> QED
  BY <1>5

(* A change of a destination rule that changes the routes is announced.     *)
LEMMA RuleAnnounced ==
  ASSUME HostsDistinct, PortsNamed, NEW c, Holds(c),
         NEW k \in DOMAIN Objects.dr, NEW obj \in Versions("dr", k),
         NEW d, Written(c, d, "dr", k, obj), c.dr[k] # obj,
         ~ Announces(d, WriteEvent(c, "dr", k, obj))
  PROVE  GenerateMetaRoutes(c) = GenerateMetaRoutes(d)
<1> DEFINE old == c.dr[k]
<1>1. /\ DOMAIN c.dr = DOMAIN Objects.dr /\ DOMAIN d.dr = DOMAIN Objects.dr
      /\ d.dr[k] = obj /\ \A j \in DOMAIN Objects.dr \ {k} : d.dr[j] = c.dr[j]
      /\ c.mr = d.mr /\ c.se = d.se
      /\ old \in Versions("dr", k)
  BY DEF Holds, Written, Kinds, Fields
<1>2. ASSUME NEW j \in Live(c.se) PROVE ServiceRoutes(c, c.se[j]) = ServiceRoutes(d, c.se[j])
  <2>1. CASE old # Nil /\ obj # Nil /\ old.spec = obj.spec
    <3>1. old.ns = obj.ns
      BY <1>1, <2>1, ObjectsAssumption DEF Versions, Kinds
    <3>2. RulesAlike(c, d, k) /\ RulesAlike(d, c, k)
      BY <1>1, <2>1, <3>1 DEF RulesAlike
    <3> QED
      BY <3>2, RuleSpecRoutes
  <2>2. CASE ~ (old # Nil /\ obj # Nil /\ old.spec = obj.spec) /\ HasMetaProtocolPort(c.se[j])
    <3> DEFINE about(r) == IsFQDNEquals(r.spec.host, r.ns, Host(c.se[j]), c.se[j].ns)
    <3>1. (old # Nil => ~ about(old)) /\ (obj # Nil => ~ about(obj))
      BY <1>1, <2>2, Zenon DEF Announces, WriteEvent, Routed, RuleRouted
    <3>2. \A i : i \in Live(c.dr) /\ about(c.dr[i]) <=> i \in Live(d.dr) /\ about(d.dr[i])
      BY <1>1, <3>1, Zenon DEF Live
    <3>3. \A i \in Live(c.dr) : about(c.dr[i]) => c.dr[i] = d.dr[i]
      BY <1>1, <3>1 DEF Live
    <3> HIDE DEF about
    <3>4. {c.dr[i] : i \in {i \in Live(c.dr) : about(c.dr[i])}}
            = {d.dr[i] : i \in {i \in Live(d.dr) : about(d.dr[i])}}
      BY <3>2, <3>3
    <3>5. FindRelatedDestinationRule(c, c.se[j]) = FindRelatedDestinationRule(d, c.se[j])
      BY <3>4 DEF FindRelatedDestinationRule, about
    <3> QED
      BY <1>1, <3>5, ServiceRoutesSame
  <2>3. CASE ~ HasMetaProtocolPort(c.se[j])
    BY <2>3, ServiceHeld, NoMetaNoRoutes, Zenon
  <2> QED
    BY <2>1, <2>2, <2>3
<1>3. \A r : r \in GenerateMetaRoutes(c) <=> r \in GenerateMetaRoutes(d)
  BY <1>1, <1>2, RoutesOf
<1> QED
  BY <1>3, Zenon

(* An event that will announce the routes still will after a later change   *)
(* of a service, unless the event of that change will.                      *)
LEMMA AnnouncerStays ==
  ASSUME NEW c, Holds(c), NEW k \in DOMAIN Objects.se, NEW obj \in Versions("se", k),
         NEW d, Written(c, d, "se", k, obj),
         NEW e, Announces(c, e), ~ Announces(d, WriteEvent(c, "se", k, obj))
  PROVE  Announces(d, e)
<1> DEFINE old == c.se[k]
<1>1. /\ DOMAIN c.se = DOMAIN Objects.se /\ DOMAIN d.se = DOMAIN Objects.se
      /\ d.se[k] = obj /\ \A j \in DOMAIN Objects.se \ {k} : d.se[j] = c.se[j]
      /\ old \in Versions("se", k)
  BY DEF Holds, Written, Kinds, Fields
<1>2. ASSUME NEW dr, RuleRouted(c, dr) PROVE RuleRouted(d, dr)
  <2>1. PICK j \in Live(c.se) : /\ IsFQDNEquals(dr.spec.host, dr.ns, Host(c.se[j]), c.se[j].ns)
                                /\ HasMetaProtocolPort(c.se[j])
    BY <1>2 DEF RuleRouted
  <2>2. CASE j # k
    <3>1. j \in Live(d.se) /\ d.se[j] = c.se[j]
      BY <1>1, <2>2 DEF Live
    <3> QED
      BY <2>1, <3>1 DEF RuleRouted
  <2>3. CASE j = k
    <3>1. old # Nil /\ HasMetaProtocolPort(old)
      BY <2>1, <2>3 DEF Live
    <3>2. obj # Nil /\ old.spec = obj.spec
      BY <3>1, Zenon DEF Announces, WriteEvent, Routed
    <3>3. old.ns = obj.ns
      BY <1>1, <3>1, <3>2, ObjectsAssumption DEF Versions, Kinds
    <3>4. k \in Live(d.se) /\ Host(d.se[k]) = Host(old) /\ d.se[k].ns = old.ns
          /\ HasMetaProtocolPort(d.se[k])
      BY <1>1, <3>1, <3>2, <3>3 DEF Live, Host, HasMetaProtocolPort
    <3> QED
      BY <2>1, <2>3, <3>4 DEF RuleRouted
  <2> QED
    BY <2>2, <2>3
<1>3. ASSUME NEW x, Routed(c, e.kind, x) PROVE Routed(d, e.kind, x)
  BY <1>2, <1>3 DEF Routed
<1> QED
  BY <1>3 DEF Announces

(* A change of another kind leaves the decisions about the queue.           *)
LEMMA AnnouncesSame ==
  ASSUME NEW c, NEW d, c.se = d.se, NEW e
  PROVE  Announces(c, e) <=> Announces(d, e)
BY DEF Announces, Routed, RuleRouted

LEMMA RoutesSame ==
  ASSUME NEW c, NEW d, c.se = d.se, c.mr = d.mr, c.dr = d.dr
  PROVE  GenerateMetaRoutes(c) = GenerateMetaRoutes(d)
<1>1. ASSUME NEW se PROVE ServiceRoutes(c, se) = ServiceRoutes(d, se)
  <2>1. FindRelatedDestinationRule(c, se) = FindRelatedDestinationRule(d, se)
    BY DEF FindRelatedDestinationRule
  <2> QED
    BY <2>1, ServiceRoutesSame
<1> QED
  BY <1>1 DEF GenerateMetaRoutes

RoutesPending ==
  routesStale => metaRouters \/ \E i \in DOMAIN events : Announces(config, events[i])

LEMMA EventTyped == Typed => \A i \in DOMAIN events : events[i] \in Events
BY DEF Typed, TypeOK

LEMMA WriteFacts ==
  ASSUME Typed, NEW kind \in Kinds, NEW k \in DOMAIN Objects[kind],
         NEW obj \in Objects[kind][k] \cup {Nil}, Write(kind, k, obj)
  PROVE  /\ Written(config, config', kind, k, obj) /\ obj \in Versions(kind, k)
         /\ events' = Append(events, WriteEvent(config, kind, k, obj))
         /\ \A i \in DOMAIN events : i \in DOMAIN events' /\ events'[i] = events[i]
         /\ \E i \in DOMAIN events' : events'[i] = WriteEvent(config, kind, k, obj)
<1>1. config' = [config EXCEPT ![kind][k] = obj]
  BY DEF Write, Becomes
<1>2. Store(config) /\ kind \in Fields \ {"secrets"} /\ k \in DOMAIN config[kind]
  BY DEF Typed, TypeOK, Fields, Kinds
<1>3. Written(config, config', kind, k, obj)
  BY <1>1, <1>2, WriteStore, Zenon
<1>4. events' = Append(events, WriteEvent(config, kind, k, obj))
  BY DEF Write, WriteEvent
<1>5. events \in Seq(Events)
  BY DEF Typed, TypeOK
<1>6. /\ \A i \in DOMAIN events : i \in DOMAIN events' /\ events'[i] = events[i]
      /\ Len(events) + 1 \in DOMAIN events'
      /\ events'[Len(events) + 1] = WriteEvent(config, kind, k, obj)
  BY <1>4, <1>5
<1> QED
  BY <1>3, <1>4, <1>6 DEF Versions

(* A write leaves an announcer of the routes in the queue.                  *)
LEMMA WriteRoutes ==
  ASSUME HostsDistinct, PortsNamed, Typed, RoutesPending,
         NEW kind \in Kinds, NEW k \in DOMAIN Objects[kind],
         NEW obj \in Objects[kind][k] \cup {Nil}, Write(kind, k, obj)
  PROVE  RoutesPending'
<1> DEFINE n == WriteEvent(config, kind, k, obj)
<1>1. /\ Written(config, config', kind, k, obj) /\ obj \in Versions(kind, k)
      /\ \A i \in DOMAIN events : i \in DOMAIN events' /\ events'[i] = events[i]
      /\ \E i \in DOMAIN events' : events'[i] = n
  BY WriteFacts
<1>2. /\ config[kind][k] # obj /\ metaRouters' = metaRouters
      /\ routesStale' = (routesStale \/ GenerateMetaRoutes(config') # GenerateMetaRoutes(config))
  BY DEF Write, Becomes
<1>3. Holds(config)
  BY TypedHolds
<1> SUFFICES ASSUME routesStale', ~ metaRouters', ~ Announces(config', n)
             PROVE  \E i \in DOMAIN events : Announces(config', events[i])
  BY <1>1 DEF RoutesPending
<1>4. CASE kind = "se"
  <2>1. GenerateMetaRoutes(config') = GenerateMetaRoutes(config)
    BY <1>1, <1>2, <1>3, <1>4, ServiceAnnounced
  <2>2. PICK i \in DOMAIN events : Announces(config, events[i])
    BY <1>2, <2>1, Zenon DEF RoutesPending
  <2> QED
    BY <1>1, <1>3, <1>4, <2>2, AnnouncerStays
<1>5. CASE kind = "dr"
  <2>1. GenerateMetaRoutes(config') = GenerateMetaRoutes(config)
    BY <1>1, <1>2, <1>3, <1>5, RuleAnnounced
  <2>2. config.se = config'.se
    BY <1>1, <1>5 DEF Written, Fields, Kinds
  <2> QED
    BY <1>2, <2>1, <2>2, AnnouncesSame, Zenon DEF RoutesPending
<1>6. CASE kind \in {"vs", "gw"}
  <2>1. config.se = config'.se /\ config.mr = config'.mr /\ config.dr = config'.dr
    BY <1>1, <1>6 DEF Written, Fields, Kinds
  <2>2. GenerateMetaRoutes(config') = GenerateMetaRoutes(config)
    BY <2>1, RoutesSame
  <2> QED
    BY <1>2, <2>1, <2>2, AnnouncesSame, Zenon DEF RoutesPending
<1> QED
  BY <1>4, <1>5, <1>6 DEF Kinds

(* Handling the oldest event: it announces the routes, or is not the one    *)
(* that will.                                                               *)
LEMMA HandleRoutes ==
  ASSUME HostsDistinct, Typed, RoutesPending, HandleEvent
  PROVE  RoutesPending'
<1> SUFFICES ASSUME routesStale', ~ metaRouters'
             PROVE  \E i \in DOMAIN events' : Announces(config', events'[i])
  BY DEF RoutesPending
<1>1. events \in Seq(Events) /\ events # <<>> /\ events' = Tail(events)
      /\ config' = config /\ metaRouters' = metaRouters
  BY DEF Typed, TypeOK, HandleEvent
<1>2. PICK updates \in UpdatesRoutes(Head(events)) :
        routesStale' = (routesStale /\ ~ (ShouldHandleChange(Head(events)) /\ updates))
  BY DEF HandleEvent
<1>3. routesStale /\ ~ (ShouldHandleChange(Head(events)) /\ updates)
  BY <1>2, Zenon
<1>4. PICK i \in DOMAIN events : Announces(config, events[i])
  BY <1>1, <1>3 DEF RoutesPending
<1>5. i # 1
  <2> SUFFICES ASSUME i = 1 PROVE FALSE
    OBVIOUS
  <2>1. Head(events) \in Events /\ Announces(config, Head(events))
    BY <1>1, <1>4
  <2>2. ShouldHandleChange(Head(events)) /\ FALSE \notin UpdatesRoutes(Head(events))
    BY <2>1, AnnouncesMeans, TypedHolds, Zenon DEF AnnouncesRoutes
  <2>3. UpdatesRoutes(Head(events)) \subseteq BOOLEAN
    BY UpdatesBoolean
  <2>4. updates = TRUE
    BY <2>2, <2>3, Zenon
  <2> QED
    BY <1>3, <2>2, <2>4, Zenon
<1>6. i - 1 \in DOMAIN events' /\ events'[i - 1] = events[i]
  BY <1>1, <1>5
<1> QED
  BY <1>1, <1>4, <1>6

LEMMA NextRoutes ==
  ASSUME HostsDistinct, PortsNamed, Typed, RoutesPending, [Next]_vars
  PROVE  RoutesPending'
<1>1. ASSUME NEW kind \in Kinds, NEW k \in DOMAIN Objects[kind],
             NEW obj \in Objects[kind][k] \cup {Nil}, Write(kind, k, obj)
      PROVE  RoutesPending'
  BY <1>1, WriteRoutes
<1>2. ASSUME HandleEvent PROVE RoutesPending'
  BY <1>2, HandleRoutes
<1>3. ASSUME NEW k \in DOMAIN MetaRouters, NEW obj, WriteMetaRouter(k, obj) PROVE RoutesPending'
  BY <1>3 DEF WriteMetaRouter, RoutesPending
<1>4. ASSUME ReconcileMetaRouter PROVE RoutesPending'
  BY <1>4 DEF ReconcileMetaRouter, RoutesPending
<1>5. ASSUME NEW kind \in ResourceKinds, NEW k \in DOMAIN Resources[kind],
             NEW obj, WriteResource(kind, k, obj)
      PROVE  RoutesPending'
  <2>1. config' = [config EXCEPT ![kind][k] = obj] /\ UNCHANGED <<events, metaRouters>>
        /\ routesStale' = (routesStale \/ GenerateMetaRoutes(config') # GenerateMetaRoutes(config))
    BY <1>5 DEF WriteResource, Becomes
  <2>2. Store(config) /\ kind \in Fields \ {"secrets"} /\ k \in DOMAIN config[kind]
    BY TypedHolds DEF Store, Fields, ResourceKinds
  <2>3. Written(config, config', kind, k, obj)
    BY <2>1, <2>2, WriteStore, Zenon
  <2>4. config.se = config'.se /\ config.mr = config'.mr /\ config.dr = config'.dr
    BY <2>3 DEF Written, Fields, Kinds, ResourceKinds
  <2>5. GenerateMetaRoutes(config') = GenerateMetaRoutes(config)
    BY <2>4, RoutesSame
  <2> QED
    BY <2>1, <2>4, <2>5, AnnouncesSame, Zenon DEF RoutesPending
<1>6. ASSUME NEW kind \in ResourceKinds, ReconcileResource(kind) PROVE RoutesPending'
  BY <1>6 DEF ReconcileResource, RoutesPending
<1>7. ASSUME NEW p \in DOMAIN Codecs, NEW codec, WriteApplicationProtocol(p, codec)
      PROVE  RoutesPending'
  BY <1>7 DEF WriteApplicationProtocol, RoutesPending
<1>8. ASSUME NEW p \in DOMAIN Codecs, ReconcileApplicationProtocol(p) PROVE RoutesPending'
  <2>1. config' = [config EXCEPT !["codecs"][p] = protocols[p]]
        /\ UNCHANGED <<events, metaRouters, routesStale>>
    BY <1>8 DEF ReconcileApplicationProtocol
  <2>2. Store(config) /\ "codecs" \in Fields \ {"secrets"} /\ p \in DOMAIN config["codecs"]
    BY TypedHolds DEF Store, Fields
  <2>3. Written(config, config', "codecs", p, protocols[p])
    BY <2>1, <2>2, WriteStore, Zenon
  <2>4. config.se = config'.se
    BY <2>3 DEF Written, Fields, Kinds
  <2> QED
    BY <2>1, <2>4, AnnouncesSame, Zenon DEF RoutesPending
<1>9. CASE UNCHANGED vars
  BY <1>9 DEF vars, RoutesPending
<1> QED
  BY <1>1, <1>2, <1>3, <1>4, <1>5, <1>6, <1>7, <1>8, <1>9 DEF Next

(* RoutesComplete: where no two services share their first host and         *)
(* MetaProtocol ports are named as the route cache manager expects, no      *)
(* change of the routes is left unannounced once every event is handled.    *)
THEOREM RoutesComplete == HostsDistinct /\ PortsNamed => (Spec => []RoutesAnnounced)
<1> SUFFICES ASSUME HostsDistinct, PortsNamed PROVE Spec => []RoutesAnnounced
  OBVIOUS
<1>1. Init => RoutesPending
  BY DEF Init, RoutesPending
<1>2. Typed /\ RoutesPending /\ [Next]_vars => RoutesPending'
  BY NextRoutes
<1>3. RoutesPending => RoutesAnnounced
  BY DEF RoutesPending, RoutesAnnounced, Quiet
<1> QED
  BY <1>1, <1>2, <1>3, InitTyped, NextTyped, PTL DEF Spec

-----------------------------------------------------------------------------
(* The EnvoyFilters.  The handler's decision in terms of a configuration.   *)
HostHandled(c, host, ns) ==
  \E k \in Live(c.se) :
    /\ \E i \in DOMAIN c.se[k].spec.hosts : IsFQDNEquals(c.se[k].spec.hosts[i], c.se[k].ns, host, ns)
    /\ HasSupportedPort(c.se[k])

Handled(c, kind, obj) ==
  \/ kind = "se" /\ HasSupportedPort(obj)
  \/ kind = "vs" /\ HostHandled(c, obj.spec.hosts[1], obj.ns)
  \/ kind = "dr" /\ HostHandled(c, obj.spec.host, obj.ns)
  \/ kind = "gw" /\ ShouldHandleGateway(obj)

HandledChange(c, e) ==
  /\ e.prev = Nil \/ e.prev.spec # e.curr.spec
  /\ Handled(c, e.kind, e.curr) \/ (e.prev # Nil /\ Handled(c, e.kind, e.prev))

LEMMA HandledMeans ==
  ASSUME NEW e, e.kind \in Kinds
  PROVE  ShouldHandleChange(e) <=> HandledChange(config, e)
<1>1. ASSUME NEW kind \in Kinds, NEW obj PROVE ShouldHandle(kind, obj) <=> Handled(config, kind, obj)
  <2>1. "se" # "vs" /\ "se" # "dr" /\ "se" # "gw" /\ "vs" # "dr" /\ "vs" # "gw" /\ "dr" # "gw"
    OBVIOUS
  <2>2. CASE kind = "se"
    <3>1. ShouldHandle(kind, obj) = ShouldHandleServiceEntry(obj)
      BY <2>1, <2>2, Zenon DEF ShouldHandle
    <3> QED
      BY <2>2, <3>1 DEF Handled, ShouldHandleServiceEntry
  <2>3. CASE kind = "vs"
    <3>1. ShouldHandle(kind, obj) = ShouldHandleVirtualService(obj)
      BY <2>1, <2>3, Zenon DEF ShouldHandle
    <3> QED
      BY <2>3, <3>1, Zenon DEF Handled, HostHandled, ShouldHandleVirtualService
  <2>4. CASE kind = "dr"
    <3>1. ShouldHandle(kind, obj) = ShouldHandleDestinationRule(obj)
      BY <2>1, <2>4, Zenon DEF ShouldHandle
    <3> QED
      BY <2>4, <3>1, Zenon DEF Handled, HostHandled, ShouldHandleDestinationRule
  <2>5. CASE kind = "gw"
    <3>1. ShouldHandle(kind, obj) = ShouldHandleGateway(obj)
      BY <2>1, <2>5, Zenon DEF ShouldHandle
    <3> QED
      BY <2>5, <3>1 DEF Handled
  <2> QED
    BY <2>2, <2>3, <2>4, <2>5 DEF Kinds
<1> QED
  BY <1>1 DEF ShouldHandleChange, HandledChange

(* An event that will announce the filters still will after a later change  *)
(* of a service's spec, unless the event of that change will.               *)
LEMMA HandlerStays ==
  ASSUME NEW c, Holds(c), NEW k \in DOMAIN Objects.se, NEW obj \in Versions("se", k),
         NEW d, Written(c, d, "se", k, obj), ~ SameSpec(c.se[k], obj),
         NEW e, HandledChange(c, e), ~ HandledChange(d, WriteEvent(c, "se", k, obj))
  PROVE  HandledChange(d, e)
<1>1. /\ DOMAIN c.se = DOMAIN Objects.se /\ DOMAIN d.se = DOMAIN Objects.se
      /\ \A j \in DOMAIN Objects.se \ {k} : d.se[j] = c.se[j]
  BY DEF Holds, Written, Kinds, Fields
<1>2. ASSUME NEW host, NEW ns, HostHandled(c, host, ns) PROVE HostHandled(d, host, ns)
  <2>1. PICK j \in Live(c.se) :
          /\ \E i \in DOMAIN c.se[j].spec.hosts :
               IsFQDNEquals(c.se[j].spec.hosts[i], c.se[j].ns, host, ns)
          /\ HasSupportedPort(c.se[j])
    BY <1>2, Zenon DEF HostHandled
  <2>2. j # k
    BY <2>1, Zenon DEF HandledChange, Handled, WriteEvent, SameSpec, Live
  <2>3. j \in Live(d.se) /\ d.se[j] = c.se[j]
    BY <1>1, <2>2, Zenon DEF Live
  <2> QED
    BY <2>1, <2>3, Zenon DEF HostHandled
<1>3. ASSUME NEW x, Handled(c, e.kind, x) PROVE Handled(d, e.kind, x)
  BY <1>2, <1>3, Zenon DEF Handled
<1> QED
  BY <1>3 DEF HandledChange

LEMMA HandledSame ==
  ASSUME NEW c, NEW d, c.se = d.se, NEW e
  PROVE  HandledChange(c, e) <=> HandledChange(d, e)
BY Zenon DEF HandledChange, Handled, HostHandled

(* What is generated for a service depends on the codecs, the Redis and     *)
(* Dubbo resources and the secrets, and, for the ports of Redis routes, on  *)
(* the services: Serves says that whatever service the hosts of c stand for *)
(* has a counterpart in d that gives the routes the same ports.             *)
Alike(c, d) ==
  c.codecs = d.codecs /\ c.rs = d.rs /\ c.rd = d.rd /\ c.ap = d.ap /\ c.secrets = d.secrets

Serves(c, d) ==
  \A ns : \A f \in HostServices(c, ns) : \E g \in HostServices(d, ns) :
    \A j \in Live(c.rs) : \A i \in DOMAIN c.rs[j].spec.routes : \A listen :
      BuildPrefixRoute(c, c.rs[j].spec.routes[i], f, listen)
        = BuildPrefixRoute(d, c.rs[j].spec.routes[i], g, listen)

LEMMA SidecarSame ==
  ASSUME NEW c, NEW d, Alike(c, d), NEW se, NEW m
  PROVE  GenerateSidecarEnvoyFilters(c, se, m) = GenerateSidecarEnvoyFilters(d, se, m)
<1>1. \A p : CodecKnown(c, p) <=> CodecKnown(d, p)
  BY DEF CodecKnown, Alike
<1>2. \A p, h : BuildOutboundProxy(c, h, p) = BuildOutboundProxy(d, h, p)
  BY DEF BuildOutboundProxy, Alike
<1>3. \A p : BuildInboundProxy(c, p, m) = BuildInboundProxy(d, p, m)
  BY DEF BuildInboundProxy, Alike
<1> QED
  BY <1>1, <1>2, <1>3, Zenon DEF GenerateSidecarEnvoyFilters

LEMMA DubboSame ==
  ASSUME NEW c, NEW d, Alike(c, d), NEW se
  PROVE  BuildDubboInboundProxy(c, se) = BuildDubboInboundProxy(d, se)
<1>1. ListPolicies(c, se.ns) = ListPolicies(d, se.ns)
  BY DEF ListPolicies, Alike
<1> QED
  BY <1>1 DEF BuildDubboInboundProxy

LEMMA ClusterSame ==
  ASSUME NEW c, NEW d, Alike(c, d), NEW se, NEW listen
  PROVE  BuildOutboundCluster(c, se, listen) = BuildOutboundCluster(d, se, listen)
<1>1. \A auth : /\ SecretMissing(c, auth) <=> SecretMissing(d, auth)
                /\ Password(c, auth) = Password(d, auth)
  BY Zenon DEF SecretMissing, Password, Alike
<1>2. \A name, rd : BuildRedisCluster(c, name, rd, listen) = BuildRedisCluster(d, name, rd, listen)
  BY <1>1, Zenon DEF BuildRedisCluster
<1> QED
  BY <1>2, Zenon DEF BuildOutboundCluster, Alike

(* The Redis proxies of a service.                                          *)
LEMMA TargetMember ==
  ASSUME NEW c, NEW se, NEW x \in FindTargetHostAndRedisService(c, se), x[2] # Nil
  PROVE  \E j \in Live(c.rs) : x[2] = c.rs[j]
<1> DEFINE services(h) == {c.rs[k] : k \in {k \in Live(c.rs) :
                             c.rs[k].ns = se.ns /\ h \in Range(c.rs[k].spec.hosts)}}
           named == {i \in DOMAIN se.spec.hosts : services(se.spec.hosts[i]) # {}}
           host  == se.spec.hosts[Min(named)]
<1>1. FindTargetHostAndRedisService(c, se) =
        IF named = {} THEN {<<Nil, Nil>>} ELSE {host} \X services(host)
  BY Zenon DEF FindTargetHostAndRedisService
<1>2. named # {}
  <2> SUFFICES ASSUME named = {} PROVE FALSE
    OBVIOUS
  <2>1. x = <<Nil, Nil>>
    BY <1>1, Zenon
  <2> QED
    BY <2>1
<1>3. x \in {host} \X services(host)
  <2> HIDE DEF named, host, services
  <2> QED
    BY <1>1, <1>2
<1>4. x[2] \in services(host)
  <2> HIDE DEF host, services
  <2> QED
    BY <1>3
<1> HIDE DEF host
<1> QED
  BY <1>4

RoutesAlike(c, d, rs, f, g, listen) ==
  \A i \in DOMAIN rs.spec.routes :
    BuildPrefixRoute(c, rs.spec.routes[i], f, listen) = BuildPrefixRoute(d, rs.spec.routes[i], g, listen)
ProxiesAlike(c, d, host, rs, f, g, listen) ==
  BuildRedisOutboundProxy(c, host, rs, f, listen) = BuildRedisOutboundProxy(d, host, rs, g, listen)

LEMMA ProxySame ==
  ASSUME NEW c, NEW d, Alike(c, d), NEW host, NEW rs, NEW f, NEW g, NEW listen,
         RoutesAlike(c, d, rs, f, g, listen)
  PROVE  ProxiesAlike(c, d, host, rs, f, g, listen)
<1>1. [i \in DOMAIN rs.spec.routes |-> BuildPrefixRoute(c, rs.spec.routes[i], f, listen)]
        = [i \in DOMAIN rs.spec.routes |-> BuildPrefixRoute(d, rs.spec.routes[i], g, listen)]
  BY DEF RoutesAlike
<1>2. Password(c, rs.spec.auth) = Password(d, rs.spec.auth)
  BY Zenon DEF Password, Alike
<1> QED
  BY <1>1, <1>2, Zenon DEF ProxiesAlike, BuildRedisOutboundProxy

LEMMA ProxiesWithin ==
  ASSUME NEW c, NEW d, Alike(c, d), Serves(c, d), NEW se, NEW listen
  PROVE  BuildOutboundProxyWithFallback(c, se, listen) \subseteq BuildOutboundProxyWithFallback(d, se, listen)
<1> DEFINE none == [auth |-> Nil, policy |-> "MASTER", routes |-> <<>>,
                    catchAll |-> CatchAll(BuildClusterName("outbound", Nil, Host(se), listen.number))]
           missing(b, x) == x[2] = Nil \/ (x[2] # Nil /\ SecretMissing(b, x[2].spec.auth))
           proxy(b, x, f) == IF missing(b, x) THEN none
                             ELSE BuildRedisOutboundProxy(b, x[1], x[2], f, listen)
<1>1. ASSUME NEW b
      PROVE  BuildOutboundProxyWithFallback(b, se, listen) =
               {proxy(b, x, f) : x \in FindTargetHostAndRedisService(b, se), f \in HostServices(b, se.ns)}
  BY DEF BuildOutboundProxyWithFallback
<1>2. FindTargetHostAndRedisService(c, se) = FindTargetHostAndRedisService(d, se)
  <2> DEFINE services(r, h) == {r[k] : k \in {k \in Live(r) : r[k].ns = se.ns /\ h \in Range(r[k].spec.hosts)}}
             named(r) == {i \in DOMAIN se.spec.hosts : services(r, se.spec.hosts[i]) # {}}
             target(r) == LET host == se.spec.hosts[Min(named(r))]
                          IN  IF named(r) = {} THEN {<<Nil, Nil>>} ELSE {host} \X services(r, host)
  <2>1. FindTargetHostAndRedisService(c, se) = target(c.rs) /\ FindTargetHostAndRedisService(d, se) = target(d.rs)
    BY Zenon DEF FindTargetHostAndRedisService
  <2>2. c.rs = d.rs
    BY Zenon DEF Alike
  <2> HIDE DEF target
  <2> QED
    BY <2>1, <2>2, Zenon
<1>3. ASSUME NEW x \in FindTargetHostAndRedisService(c, se), NEW f \in HostServices(c, se.ns)
      PROVE  \E g \in HostServices(d, se.ns) : proxy(c, x, f) = proxy(d, x, g)
  <2>1. PICK g \in HostServices(d, se.ns) :
          \A j \in Live(c.rs) : \A i \in DOMAIN c.rs[j].spec.routes : \A l :
            BuildPrefixRoute(c, c.rs[j].spec.routes[i], f, l)
              = BuildPrefixRoute(d, c.rs[j].spec.routes[i], g, l)
    BY DEF Serves
  <2>2. missing(c, x) <=> missing(d, x)
    BY DEF SecretMissing, Alike
  <2>3. CASE missing(c, x)
    BY <2>2, <2>3
  <2>4. CASE ~ missing(c, x)
    <3>1. PICK j \in Live(c.rs) : x[2] = c.rs[j]
      BY <2>4, TargetMember
    <3>2. RoutesAlike(c, d, x[2], f, g, listen)
      BY <2>1, <3>1, Zenon DEF RoutesAlike
    <3>3. ProxiesAlike(c, d, x[1], x[2], f, g, listen)
      BY <3>2, ProxySame, Zenon
    <3> QED
      BY <2>2, <2>4, <3>3 DEF ProxiesAlike
  <2> QED
    BY <2>3, <2>4
<1> HIDE DEF proxy
<1> QED
  BY <1>1, <1>2, <1>3

LEMMA RedisSame ==
  ASSUME NEW c, NEW d, Alike(c, d), Serves(c, d), Serves(d, c), NEW se, NEW inbound
  PROVE  GenerateRedis(c, se, inbound) = GenerateRedis(d, se, inbound)
<1>1. ASSUME NEW listen
      PROVE  BuildOutboundProxyWithFallback(c, se, listen) = BuildOutboundProxyWithFallback(d, se, listen)
  <2>1. Alike(d, c)
    BY DEF Alike
  <2> QED
    BY <2>1, ProxiesWithin
<1>2. \A listen : BuildOutboundCluster(c, se, listen) = BuildOutboundCluster(d, se, listen)
  BY ClusterSame
<1> DEFINE ports == {i \in DOMAIN se.spec.ports : IsRedisPrefix(se.spec.ports[i].name)}
           last  == se.spec.ports[Max(ports)]
           P(b)  == BuildOutboundProxyWithFallback(b, se, last)
           C(b)  == BuildOutboundCluster(b, se, last)
           R(b)  == UNION {GenerateNetworkFilter(se, se.spec.ports[1], [redis |-> p, cluster |-> cl], inbound) :
                             p \in P(b), cl \in C(b)}
<1>3. P(c) = P(d) /\ C(c) = C(d)
  BY <1>1, <1>2
<1>4. \A b : GenerateRedis(b, se, inbound) = IF ports = {} THEN {} ELSE R(b)
  BY DEF GenerateRedis
<1>5. R(c) = R(d)
  <2> HIDE DEF P, C
  <2> QED
    BY <1>3
<1> HIDE DEF R, ports
<1> QED
  BY <1>4, <1>5

LEMMA GenerateSame ==
  ASSUME NEW c, NEW d, Alike(c, d), Serves(c, d), Serves(d, c), NEW se, NEW v, NEW m
  PROVE  Generate(c, se, v, m) = Generate(d, se, v, m)
<1>1. \A inbound : GenerateRedis(c, se, inbound) = GenerateRedis(d, se, inbound)
  BY RedisSame
<1>2. \A protocol : GenerateFirstPort(c, protocol, se, v) = GenerateFirstPort(d, protocol, se, v)
  BY <1>1, DubboSame, Zenon DEF GenerateFirstPort
<1>3. GenerateSidecarEnvoyFilters(c, se, m) = GenerateSidecarEnvoyFilters(d, se, m)
  BY SidecarSame
<1> QED
  BY <1>2, <1>3, Zenon DEF Generate

LEMMA ServiceFiltersSame ==
  ASSUME NEW c, NEW d, Alike(c, d), Serves(c, d), Serves(d, c), c.mr = d.mr, NEW se,
         FindRelatedVirtualService(c, se) = FindRelatedVirtualService(d, se)
  PROVE  ServiceEnvoyFilters(c, se) = ServiceEnvoyFilters(d, se)
<1>1. FindRelatedMetaRouter(c, se) = FindRelatedMetaRouter(d, se)
  BY DEF FindRelatedMetaRouter
<1>2. \A v, m : Generate(c, se, v, m) = Generate(d, se, v, m)
  BY GenerateSame
<1> QED
  BY <1>1, <1>2 DEF ServiceEnvoyFilters

LEMMA ServesSame ==
  ASSUME NEW c, NEW d, c.se = d.se
  PROVE  Serves(c, d)
<1>1. ASSUME NEW ns PROVE HostServices(c, ns) = HostServices(d, ns)
  BY DEF HostServices
<1>2. ASSUME NEW r, NEW f, NEW l PROVE BuildPrefixRoute(c, r, f, l) = BuildPrefixRoute(d, r, f, l)
  BY Zenon DEF BuildPrefixRoute
<1> QED
  BY <1>1, <1>2 DEF Serves

(* Two configurations whose services differ in one key k, with services     *)
(* that have no supported port there.                                       *)
OthersAgree(c, d, k) ==
  /\ Holds(c) /\ Holds(d) /\ c.rs = d.rs
  /\ \A j \in DOMAIN Resources.rs : c.rs[j] \in Resources.rs[j] \cup {Nil}
  /\ DOMAIN c.rs = DOMAIN Resources.rs
  /\ \A j \in DOMAIN Objects.se \ {k} : c.se[j] = d.se[j]
  /\ c.se[k] # Nil => ~ HasSupportedPort(c.se[k])
  /\ d.se[k] # Nil => ~ HasSupportedPort(d.se[k])

LEMMA ServesOthers ==
  ASSUME RedisHostsSupported, NEW c, NEW d, NEW k, OthersAgree(c, d, k)
  PROVE  Serves(c, d)
<1> SUFFICES ASSUME NEW ns, NEW f \in HostServices(c, ns)
             PROVE  \E g \in HostServices(d, ns) :
                      \A j \in Live(c.rs) : \A i \in DOMAIN c.rs[j].spec.routes : \A listen :
                        BuildPrefixRoute(c, c.rs[j].spec.routes[i], f, listen)
                          = BuildPrefixRoute(d, c.rs[j].spec.routes[i], g, listen)
  BY DEF Serves
<1> DEFINE listed(b) == {j \in Live(b.se) : b.se[j].ns = ns}
           hosts(b)  == UNION {Range(b.se[j].spec.hosts) : j \in listed(b)}
           other(h)  == CHOOSE j \in listed(d) : h \in Range(d.se[j].spec.hosts)
           g == [h \in hosts(d) |-> IF h \in hosts(c) /\ f[h] # k THEN f[h] ELSE other(h)]
<1>1. \A b : HostServices(b, ns) =
              {u \in [hosts(b) -> listed(b)] : \A h \in hosts(b) : h \in Range(b.se[u[h]].spec.hosts)}
  BY DEF HostServices
<1>2. \A b, h : h \in hosts(b) <=> \E j \in listed(b) : h \in Range(b.se[j].spec.hosts)
  <2> HIDE DEF listed
  <2> QED
    OBVIOUS
<1>3. \A j : j # k => (j \in listed(c) <=> j \in listed(d)) /\ (j \in listed(c) => c.se[j] = d.se[j])
  BY Zenon DEF OthersAgree, Holds, Live, Kinds
<1> HIDE DEF listed, hosts
<1>4. f \in [hosts(c) -> listed(c)] /\ \A h \in hosts(c) : h \in Range(c.se[f[h]].spec.hosts)
  BY <1>1
<1>5. \A h \in hosts(d) : other(h) \in listed(d) /\ h \in Range(d.se[other(h)].spec.hosts)
  BY <1>2
<1> HIDE DEF other
<1>6. \A h \in hosts(d) : g[h] \in listed(d) /\ h \in Range(d.se[g[h]].spec.hosts)
  BY <1>3, <1>4, <1>5
<1>7. g \in HostServices(d, ns)
  <2>1. g \in [hosts(d) -> listed(d)]
    BY <1>6
  <2> HIDE DEF g
  <2> QED
    BY <1>1, <1>6, <2>1
<1>8. ASSUME NEW j \in Live(c.rs), NEW i \in DOMAIN c.rs[j].spec.routes, NEW listen
      PROVE  BuildPrefixRoute(c, c.rs[j].spec.routes[i], f, listen)
               = BuildPrefixRoute(d, c.rs[j].spec.routes[i], g, listen)
  <2> DEFINE r == c.rs[j].spec.routes[i]
  <2>1. CASE r.port # Nil
    BY <2>1, Zenon DEF BuildPrefixRoute
  <2>2. CASE r.port = Nil
    <3>1. j \in DOMAIN Resources.rs /\ c.rs[j] \in Resources.rs[j]
      BY DEF OthersAgree, Live
    <3>2. ASSUME NEW b, Holds(b), NEW s \in listed(b), r.host \in Range(b.se[s].spec.hosts)
          PROVE  b.se[s] # Nil /\ HasSupportedPort(b.se[s])
      <4>1. s \in Live(b.se)
        BY <3>2 DEF listed
      <4> QED
        BY <2>2, <3>1, <3>2, <4>1, ServiceHeld DEF RedisHostsSupported, Live
    <3>3. ASSUME r.host \in hosts(c)
          PROVE  r.host \in hosts(d) /\ g[r.host] = f[r.host] /\ c.se[f[r.host]] = d.se[f[r.host]]
      <4>1. f[r.host] \in listed(c) /\ r.host \in Range(c.se[f[r.host]].spec.hosts)
        BY <1>4, <3>3, Zenon
      <4>2. f[r.host] # k
        BY <3>2, <4>1, Zenon DEF OthersAgree
      <4>3. f[r.host] \in listed(d) /\ c.se[f[r.host]] = d.se[f[r.host]]
        BY <1>3, <4>1, <4>2, Zenon
      <4>4. r.host \in hosts(d)
        BY <1>2, <4>1, <4>3, Zenon
      <4> QED
        BY <3>3, <4>2, <4>3, <4>4, Zenon
    <3>4. ASSUME r.host \in hosts(d) PROVE r.host \in hosts(c)
      <4>1. PICK s \in listed(d) : r.host \in Range(d.se[s].spec.hosts)
        BY <1>2, <3>4
      <4>2. s # k
        BY <3>2, <4>1 DEF OthersAgree
      <4> QED
        BY <1>2, <1>3, <4>1, <4>2
    <3>5. DOMAIN f = hosts(c) /\ DOMAIN g = hosts(d)
      BY <1>4
    <3> HIDE DEF g, r
    <3>6. CASE r.host \in hosts(c)
      <4>1. r.host \in DOMAIN f /\ r.host \in DOMAIN g /\ c.se[f[r.host]] = d.se[g[r.host]]
        BY <3>3, <3>5, <3>6
      <4>2. BuildPrefixRoute(c, r, f, listen) = BuildPrefixRoute(d, r, g, listen)
        BY <4>1, <2>2, Zenon DEF BuildPrefixRoute
      <4> QED
        BY <4>2 DEF r
    <3>7. CASE r.host \notin hosts(c)
      <4>1. r.host \notin DOMAIN f /\ r.host \notin DOMAIN g
        BY <3>4, <3>5, <3>7
      <4>2. BuildPrefixRoute(c, r, f, listen) = BuildPrefixRoute(d, r, g, listen)
        BY <4>1, <2>2, Zenon DEF BuildPrefixRoute
      <4> QED
        BY <4>2 DEF r
    <3> QED
      BY <3>6, <3>7
  <2> QED
    BY <2>1, <2>2
<1> HIDE DEF g
<1> QED
  BY <1>7, <1>8

(* A service without a supported port has no filters.                       *)
LEMMA UnsupportedService ==
  ASSUME NEW se, ~ HasSupportedPort(se), NEW c
  PROVE  ServiceEnvoyFilters(c, se) = {}
<1>1. \A i \in DOMAIN se.spec.ports :
        GetLayer7ProtocolFromPortName(se.spec.ports[i].name) \notin Generators
  BY DEF HasSupportedPort, IsAerakiSupportedProtocols, Unsupported, Generators
<1>2. GeneratorOf(se) = Unsupported
  BY <1>1 DEF GeneratorOf, Places
<1>3. Unsupported # "metaprotocol"
  BY DEF Unsupported
<1>4. \A v, m : Generate(c, se, v, m) = {}
  BY <1>2, <1>3, Zenon DEF Generate
<1>5. \A v, m : CreateEnvoyFiltersOnExportNSs(se, m, Generate(c, se, v, m)) = {}
  BY <1>4 DEF CreateEnvoyFiltersOnExportNSs
<1> QED
  BY <1>5 DEF ServiceEnvoyFilters

(* The filters of the gateways.                                             *)
GatewayContext(c, x) ==
  \E j \in Live(c.gw) : \E p \in Range(MetaPorts(c.gw[j].spec.servers)) :
    \E m \in GatewayEnvoyFilterContexts(c, j, p.number) : x = [key |-> j, port |-> p.number, mr |-> m]

LEMMA GatewayFiltersOf ==
  ASSUME NEW c, NEW y
  PROVE  y \in GenerateGatewayEnvoyFilters(c) <=>
           \E x : GatewayContext(c, x) /\ y \in GenerateGatewayFilters(c, x.key, c.gw[x.key], x.mr)
<1>1. \A x : x \in GatewayContexts(c) <=> GatewayContext(c, x)
  <2> DEFINE M(k, p) == {[key |-> k, port |-> p.number, mr |-> m] :
                           m \in GatewayEnvoyFilterContexts(c, k, p.number)}
             P(k) == UNION {M(k, p) : p \in Range(MetaPorts(c.gw[k].spec.servers))}
  <2>1. GatewayContexts(c) = UNION {P(k) : k \in Live(c.gw)}
    BY DEF GatewayContexts
  <2>2. \A x, k, p : x \in M(k, p) <=> \E m \in GatewayEnvoyFilterContexts(c, k, p.number) :
                                         x = [key |-> k, port |-> p.number, mr |-> m]
    OBVIOUS
  <2> HIDE DEF M
  <2>3. \A x, k : x \in P(k) <=> \E p \in Range(MetaPorts(c.gw[k].spec.servers)) : x \in M(k, p)
    OBVIOUS
  <2> HIDE DEF P
  <2>4. \A x : x \in GatewayContexts(c) <=> \E k \in Live(c.gw) : x \in P(k)
    BY <2>1
  <2> DEFINE Of(x, k) == \E p \in Range(MetaPorts(c.gw[k].spec.servers)) :
                           \E m \in GatewayEnvoyFilterContexts(c, k, p.number) :
                             x = [key |-> k, port |-> p.number, mr |-> m]
  <2>5. ASSUME NEW x, NEW k PROVE x \in P(k) <=> Of(x, k)
    <3> DEFINE In(p) == \E m \in GatewayEnvoyFilterContexts(c, k, p.number) :
                         x = [key |-> k, port |-> p.number, mr |-> m]
    <3>1. \A p : x \in M(k, p) <=> In(p)
      BY <2>2
    <3> HIDE DEF In
    <3>2. x \in P(k) <=> \E p \in Range(MetaPorts(c.gw[k].spec.servers)) : In(p)
      BY <2>3, <3>1
    <3> QED
      BY <3>2 DEF In
  <2>6. \A x : GatewayContext(c, x) <=> \E k \in Live(c.gw) : Of(x, k)
    BY DEF GatewayContext
  <2> HIDE DEF Of
  <2> QED
    BY <2>4, <2>5, <2>6
<1> DEFINE F(x) == GenerateGatewayFilters(c, x.key, c.gw[x.key], x.mr)
<1>2. GenerateGatewayEnvoyFilters(c) = UNION {F(x) : x \in GatewayContexts(c)}
  BY DEF GenerateGatewayEnvoyFilters
<1> HIDE DEF F
<1>3. y \in GenerateGatewayEnvoyFilters(c) <=> \E x \in GatewayContexts(c) : y \in F(x)
  BY <1>2
<1> QED
  BY <1>1, <1>3 DEF F

LEMMA GatewayProxySame ==
  ASSUME NEW c, NEW d, c.codecs = d.codecs, NEW key, NEW gw, NEW mr
  PROVE  GenerateGatewayFilters(c, key, gw, mr) = GenerateGatewayFilters(d, key, gw, mr)
<1>1. \A p : CodecKnown(c, p) <=> CodecKnown(d, p)
  BY DEF CodecKnown
<1>2. \A p, h : BuildOutboundProxy(c, h, p) = BuildOutboundProxy(d, h, p)
  BY DEF BuildOutboundProxy
<1> QED
  BY <1>1, <1>2, Zenon DEF GenerateGatewayFilters

(* Gateways that differ in one key k, with gateways that have no            *)
(* MetaProtocol server there, have the same filters.                        *)
GatewaysAgree(c, d, k) ==
  /\ c.mr = d.mr /\ c.codecs = d.codecs /\ DOMAIN c.gw = DOMAIN d.gw
  /\ \A j \in DOMAIN c.gw \ {k} : c.gw[j] = d.gw[j]
  /\ c.gw[k] # Nil => ~ ShouldHandleGateway(c.gw[k])
  /\ d.gw[k] # Nil => ~ ShouldHandleGateway(d.gw[k])

LEMMA GatewayFiltersWithin ==
  ASSUME NEW c, NEW d, NEW k, GatewaysAgree(c, d, k)
  PROVE  GenerateGatewayEnvoyFilters(c) \subseteq GenerateGatewayEnvoyFilters(d)
<1> SUFFICES ASSUME NEW y \in GenerateGatewayEnvoyFilters(c) PROVE y \in GenerateGatewayEnvoyFilters(d)
  OBVIOUS
<1>1. PICK x : GatewayContext(c, x) /\ y \in GenerateGatewayFilters(c, x.key, c.gw[x.key], x.mr)
  BY GatewayFiltersOf
<1>2. PICK j \in Live(c.gw) : \E p \in Range(MetaPorts(c.gw[j].spec.servers)) :
        \E m \in GatewayEnvoyFilterContexts(c, j, p.number) : x = [key |-> j, port |-> p.number, mr |-> m]
  BY <1>1 DEF GatewayContext
<1>3. j # k
  <2> SUFFICES ASSUME j = k PROVE FALSE
    OBVIOUS
  <2>1. DOMAIN MetaPorts(c.gw[j].spec.servers) = {}
    BY Zenon DEF GatewaysAgree, ShouldHandleGateway, Live
  <2> QED
    BY <1>2, <2>1 DEF Range
<1>4. j \in Live(d.gw) /\ d.gw[j] = c.gw[j]
  BY <1>2, <1>3 DEF GatewaysAgree, Live
<1>5. \A n : GatewayEnvoyFilterContexts(c, j, n) = GatewayEnvoyFilterContexts(d, j, n)
  BY <1>4 DEF GatewayEnvoyFilterContexts, GatewaysAgree
<1>6. GatewayContext(d, x)
  BY <1>2, <1>4, <1>5 DEF GatewayContext
<1>7. x.key = j
  BY <1>2
<1>8. GenerateGatewayFilters(c, j, c.gw[j], x.mr) = GenerateGatewayFilters(d, j, c.gw[j], x.mr)
  BY GatewayProxySame DEF GatewaysAgree
<1> QED
  BY <1>1, <1>4, <1>6, <1>7, <1>8, GatewayFiltersOf

LEMMA GatewayFiltersSame ==
  ASSUME NEW c, NEW d, c.gw = d.gw, c.mr = d.mr, c.codecs = d.codecs
  PROVE  GenerateGatewayEnvoyFilters(c) = GenerateGatewayEnvoyFilters(d)
<1>1. \A k, n : GatewayEnvoyFilterContexts(c, k, n) = GatewayEnvoyFilterContexts(d, k, n)
  BY DEF GatewayEnvoyFilterContexts
<1>2. \A x : GatewayContext(c, x) <=> GatewayContext(d, x)
  BY <1>1 DEF GatewayContext
<1>3. \A y : y \in GenerateGatewayEnvoyFilters(c) <=> y \in GenerateGatewayEnvoyFilters(d)
  BY <1>2, GatewayFiltersOf, GatewayProxySame
<1> QED
  BY <1>3, Zenon

(* A change of an object's spec that the handler drops leaves the filters   *)
(* as they are, whatever the kind of the object.                            *)
LEMMA FiltersAgree ==
  ASSUME NEW c, NEW d,
         GenerateGatewayEnvoyFilters(c) = GenerateGatewayEnvoyFilters(d),
         DOMAIN c.se = DOMAIN d.se,
         \A j \in DOMAIN c.se :
           IF c.se[j] = Nil THEN d.se[j] # Nil => ServiceEnvoyFilters(d, d.se[j]) = {}
           ELSE IF d.se[j] = Nil THEN ServiceEnvoyFilters(c, c.se[j]) = {}
           ELSE ServiceEnvoyFilters(c, c.se[j]) = ServiceEnvoyFilters(d, d.se[j])
  PROVE  GenerateEnvoyFilters(c) = GenerateEnvoyFilters(d)
<1>1. \A x : x \in GenerateEnvoyFilters(c) <=> x \in GenerateEnvoyFilters(d)
  BY FiltersOf DEF Live
<1> QED
  BY <1>1

LEMMA ServiceDropped ==
  ASSUME RedisHostsSupported, NEW c, Store(c), Holds(c),
         \A j \in DOMAIN Resources.rs : c.rs[j] \in Resources.rs[j] \cup {Nil},
         NEW k \in DOMAIN Objects.se, NEW obj \in Versions("se", k),
         NEW d, Holds(d), Written(c, d, "se", k, obj), c.se[k] # obj, ~ SameSpec(c.se[k], obj),
         ~ HandledChange(d, WriteEvent(c, "se", k, obj))
  PROVE  GenerateEnvoyFilters(c) = GenerateEnvoyFilters(d)
<1>1. /\ DOMAIN c.se = DOMAIN Objects.se /\ DOMAIN d.se = DOMAIN Objects.se
      /\ d.se[k] = obj /\ \A j \in DOMAIN Objects.se \ {k} : c.se[j] = d.se[j]
      /\ Alike(c, d) /\ c.mr = d.mr /\ c.gw = d.gw /\ c.vs = d.vs
  BY Zenon DEF Holds, Written, Kinds, Fields, ResourceKinds, Alike
<1>2. (c.se[k] # Nil => ~ HasSupportedPort(c.se[k])) /\ (obj # Nil => ~ HasSupportedPort(obj))
  BY Zenon DEF HandledChange, Handled, WriteEvent, SameSpec
<1>3. DOMAIN c.rs = DOMAIN Resources.rs
  BY DEF Store, ResourceKinds
<1>4. OthersAgree(c, d, k) /\ OthersAgree(d, c, k)
  BY <1>1, <1>2, <1>3, Zenon DEF OthersAgree, Alike
<1>5. Serves(c, d) /\ Serves(d, c)
  BY <1>4, ServesOthers, Zenon
<1>6. ASSUME NEW se PROVE ServiceEnvoyFilters(c, se) = ServiceEnvoyFilters(d, se)
  <2>1. FindRelatedVirtualService(c, se) = FindRelatedVirtualService(d, se)
    BY <1>1, Zenon DEF FindRelatedVirtualService
  <2>2. Alike(c, d) /\ Serves(c, d) /\ Serves(d, c) /\ c.mr = d.mr
    BY <1>1, <1>5, Zenon
  <2> QED
    BY <2>1, <2>2, ServiceFiltersSame, Zenon
<1>7. GenerateGatewayEnvoyFilters(c) = GenerateGatewayEnvoyFilters(d)
  BY <1>1, GatewayFiltersSame, Zenon DEF Alike
<1>8. (c.se[k] # Nil => ServiceEnvoyFilters(c, c.se[k]) = {})
      /\ (d.se[k] # Nil => ServiceEnvoyFilters(d, d.se[k]) = {})
  BY <1>1, <1>2, UnsupportedService, Zenon
<1> QED
  BY <1>1, <1>6, <1>7, <1>8, FiltersAgree, Zenon

LEMMA VirtualServiceDropped ==
  ASSUME VirtualHostsQualified, NEW c, Holds(c),
         NEW k \in DOMAIN Objects.vs, NEW obj \in Versions("vs", k),
         NEW d, Written(c, d, "vs", k, obj), c.vs[k] # obj, ~ SameSpec(c.vs[k], obj),
         ~ HandledChange(d, WriteEvent(c, "vs", k, obj))
  PROVE  GenerateEnvoyFilters(c) = GenerateEnvoyFilters(d)
<1>1. /\ DOMAIN c.vs = DOMAIN Objects.vs /\ DOMAIN d.vs = DOMAIN Objects.vs
      /\ d.vs[k] = obj /\ \A j \in DOMAIN Objects.vs \ {k} : d.vs[j] = c.vs[j]
      /\ Alike(c, d) /\ c.mr = d.mr /\ c.gw = d.gw /\ c.se = d.se
      /\ c.vs[k] \in Versions("vs", k)
  BY Zenon DEF Holds, Written, Kinds, Fields, ResourceKinds, Alike
<1>2. Serves(c, d) /\ Serves(d, c)
  BY <1>1, ServesSame, Zenon
<1>3. ASSUME NEW j \in Live(c.se) PROVE ServiceEnvoyFilters(c, c.se[j]) = ServiceEnvoyFilters(d, c.se[j])
  <2>1. CASE ~ HasSupportedPort(c.se[j])
    BY <2>1, UnsupportedService
  <2>2. CASE HasSupportedPort(c.se[j])
    <3> DEFINE about(v) == Host(c.se[j]) \in Range(v.spec.hosts)
    <3>1. 1 \in DOMAIN c.se[j].spec.hosts
      BY ServiceHeld, ObjectsAssumption, Zenon
    <3>2. ASSUME NEW v \in Objects.vs[k], about(v) PROVE HostHandled(d, v.spec.hosts[1], v.ns)
      <4>1. Host(c.se[j]) = v.spec.hosts[1] /\ v.spec.hosts[1][2] # ""
        BY <3>2, Zenon DEF VirtualHostsQualified, Range
      <4>2. IsFQDNEquals(c.se[j].spec.hosts[1], c.se[j].ns, v.spec.hosts[1], v.ns)
        BY <4>1, Zenon DEF IsFQDNEquals, FQDN, Host
      <4> QED
        BY <1>1, <2>2, <3>1, <4>2, Zenon DEF HostHandled
    <3>3. (c.vs[k] # Nil => ~ about(c.vs[k])) /\ (obj # Nil => ~ about(obj))
      BY <1>1, <3>2, Zenon DEF HandledChange, Handled, WriteEvent, SameSpec, Versions
    <3>4. \A i : i \in Live(c.vs) /\ about(c.vs[i]) <=> i \in Live(d.vs) /\ about(d.vs[i])
      BY <1>1, <3>3, Zenon DEF Live
    <3>5. \A i \in Live(c.vs) : about(c.vs[i]) => c.vs[i] = d.vs[i]
      BY <1>1, <3>3, Zenon DEF Live
    <3> HIDE DEF about
    <3>6. {c.vs[i] : i \in {i \in Live(c.vs) : about(c.vs[i])}}
            = {d.vs[i] : i \in {i \in Live(d.vs) : about(d.vs[i])}}
      BY <3>4, <3>5, Zenon
    <3>7. FindRelatedVirtualService(c, c.se[j]) = FindRelatedVirtualService(d, c.se[j])
      BY <3>6, Zenon DEF FindRelatedVirtualService, about
    <3>8. Alike(c, d) /\ Serves(c, d) /\ Serves(d, c) /\ c.mr = d.mr
      BY <1>1, <1>2, Zenon
    <3> QED
      BY <3>7, <3>8, ServiceFiltersSame, Zenon
  <2> QED
    BY <2>1, <2>2
<1>4. GenerateGatewayEnvoyFilters(c) = GenerateGatewayEnvoyFilters(d)
  BY <1>1, GatewayFiltersSame, Zenon DEF Alike
<1> QED
  BY <1>1, <1>3, <1>4, FiltersAgree, Zenon DEF Live

LEMMA GatewayDropped ==
  ASSUME NEW c, Holds(c), NEW k \in DOMAIN Objects.gw, NEW obj \in Versions("gw", k),
         NEW d, Written(c, d, "gw", k, obj), c.gw[k] # obj, ~ SameSpec(c.gw[k], obj),
         ~ HandledChange(d, WriteEvent(c, "gw", k, obj))
  PROVE  GenerateEnvoyFilters(c) = GenerateEnvoyFilters(d)
<1>1. /\ DOMAIN c.gw = DOMAIN Objects.gw /\ DOMAIN d.gw = DOMAIN Objects.gw
      /\ d.gw[k] = obj /\ \A j \in DOMAIN Objects.gw \ {k} : d.gw[j] = c.gw[j]
      /\ Alike(c, d) /\ c.mr = d.mr /\ c.vs = d.vs /\ c.se = d.se
  BY DEF Holds, Written, Kinds, Fields, ResourceKinds, Alike
<1>2. Serves(c, d) /\ Serves(d, c)
  BY <1>1, ServesSame
<1>3. ASSUME NEW se PROVE ServiceEnvoyFilters(c, se) = ServiceEnvoyFilters(d, se)
  <2>1. FindRelatedVirtualService(c, se) = FindRelatedVirtualService(d, se)
    BY <1>1, Zenon DEF FindRelatedVirtualService
  <2> QED
    BY <1>1, <1>2, <2>1, ServiceFiltersSame, Zenon
<1>4. (c.gw[k] # Nil => ~ ShouldHandleGateway(c.gw[k])) /\ (obj # Nil => ~ ShouldHandleGateway(obj))
  BY Zenon DEF HandledChange, Handled, WriteEvent, SameSpec
<1>5. GatewaysAgree(c, d, k) /\ GatewaysAgree(d, c, k)
  BY <1>1, <1>4, Zenon DEF GatewaysAgree, Alike
<1>6. GenerateGatewayEnvoyFilters(c) = GenerateGatewayEnvoyFilters(d)
  BY <1>5, GatewayFiltersWithin
<1> QED
  BY <1>1, <1>3, <1>6, FiltersAgree, Zenon

LEMMA RuleDropped ==
  ASSUME NEW c, NEW k, NEW obj, NEW d, Written(c, d, "dr", k, obj)
  PROVE  GenerateEnvoyFilters(c) = GenerateEnvoyFilters(d)
<1>1. Alike(c, d) /\ c.mr = d.mr /\ c.vs = d.vs /\ c.se = d.se /\ c.gw = d.gw
  BY DEF Written, Kinds, Fields, ResourceKinds, Alike
<1>2. Serves(c, d) /\ Serves(d, c)
  BY <1>1, ServesSame
<1>3. ASSUME NEW se PROVE ServiceEnvoyFilters(c, se) = ServiceEnvoyFilters(d, se)
  <2>1. FindRelatedVirtualService(c, se) = FindRelatedVirtualService(d, se)
    BY <1>1 DEF FindRelatedVirtualService
  <2> QED
    BY <1>1, <1>2, <2>1, ServiceFiltersSame
<1>4. GenerateGatewayEnvoyFilters(c) = GenerateGatewayEnvoyFilters(d)
  BY <1>1, GatewayFiltersSame DEF Alike
<1> QED
  BY <1>1, <1>3, <1>4, FiltersAgree

FiltersPending ==
  filtersStale => \/ annotated \/ metaRouters \/ resources # {}
                  \/ \E i \in DOMAIN events : HandledChange(config, events[i])

(* A write leaves an announcer of the filters in the queue.                 *)
LEMMA WriteFilters ==
  ASSUME VirtualHostsQualified, RedisHostsSupported, Typed, Typed', FiltersPending,
         NEW kind \in Kinds, NEW k \in DOMAIN Objects[kind],
         NEW obj \in Objects[kind][k] \cup {Nil}, Write(kind, k, obj)
  PROVE  FiltersPending'
<1> DEFINE n == WriteEvent(config, kind, k, obj)
<1>1. /\ Written(config, config', kind, k, obj) /\ obj \in Versions(kind, k)
      /\ \A i \in DOMAIN events : i \in DOMAIN events' /\ events'[i] = events[i]
      /\ \E i \in DOMAIN events' : events'[i] = n
  BY WriteFacts
<1>2. /\ config[kind][k] # obj /\ metaRouters' = metaRouters /\ resources' = resources
      /\ filtersStale' = (filtersStale \/ GenerateEnvoyFilters(config') # GenerateEnvoyFilters(config))
      /\ annotated' = (annotated \/ SameSpec(config[kind][k], obj))
  BY DEF Write, Becomes
<1>3. /\ Store(config) /\ Holds(config) /\ Holds(config')
      /\ \A j \in DOMAIN Resources.rs : config.rs[j] \in Resources.rs[j] \cup {Nil}
  BY Zenon DEF Typed, TypeOK, Holds
<1> SUFFICES ASSUME filtersStale', ~ annotated', ~ metaRouters', ~ (resources # {})',
                    ~ HandledChange(config', n)
             PROVE  \E i \in DOMAIN events : HandledChange(config', events[i])
  BY <1>1, Zenon DEF FiltersPending
<1>4. ~ SameSpec(config[kind][k], obj) /\ ~ annotated /\ ~ metaRouters /\ resources = {}
  BY <1>2, Zenon
<1>5. CASE kind = "se"
  <2>1. GenerateEnvoyFilters(config') = GenerateEnvoyFilters(config)
    BY <1>1, <1>2, <1>3, <1>4, <1>5, ServiceDropped, Zenon
  <2>2. PICK i \in DOMAIN events : HandledChange(config, events[i])
    BY <1>2, <1>4, <2>1, Zenon DEF FiltersPending
  <2>3. HandledChange(config', events[i])
    BY <1>1, <1>3, <1>4, <1>5, <2>2, HandlerStays, Zenon
  <2> QED
    BY <2>3
<1>6. CASE kind \in {"vs", "dr", "gw"}
  <2>1. GenerateEnvoyFilters(config') = GenerateEnvoyFilters(config)
    <3>1. CASE kind = "vs"
      BY <1>1, <1>2, <1>3, <1>4, <3>1, VirtualServiceDropped, Zenon
    <3>2. CASE kind = "dr"
      BY <1>1, <3>2, RuleDropped, Zenon
    <3>3. CASE kind = "gw"
      BY <1>1, <1>2, <1>3, <1>4, <3>3, GatewayDropped, Zenon
    <3> QED
      BY <1>6, <3>1, <3>2, <3>3
  <2>2. PICK i \in DOMAIN events : HandledChange(config, events[i])
    BY <1>2, <1>4, <2>1, Zenon DEF FiltersPending
  <2>3. config.se = config'.se
    BY <1>1, <1>6 DEF Written, Fields, Kinds
  <2> QED
    BY <2>2, <2>3, HandledSame, Zenon
<1> QED
  BY <1>5, <1>6 DEF Kinds

LEMMA HandleFilters ==
  ASSUME Typed, FiltersPending, HandleEvent
  PROVE  FiltersPending'
<1>1. events \in Seq(Events) /\ events # <<>> /\ events' = Tail(events)
      /\ UNCHANGED <<config, metaRouters, resources, annotated>>
  BY Zenon DEF Typed, TypeOK, HandleEvent
<1> SUFFICES ASSUME filtersStale', ~ annotated, ~ metaRouters, resources = {}
             PROVE  \E i \in DOMAIN events' : HandledChange(config, events'[i])
  BY <1>1 DEF FiltersPending
<1>2. filtersStale /\ ~ ShouldHandleChange(Head(events))
  BY Zenon DEF HandleEvent
<1>3. PICK i \in DOMAIN events : HandledChange(config, events[i])
  BY <1>2 DEF FiltersPending
<1>4. Head(events) = events[1] /\ Head(events) \in Events
  BY <1>1
<1>5. i # 1
  BY <1>2, <1>3, <1>4, HandledMeans, EventObjects
<1>6. i - 1 \in DOMAIN events' /\ events'[i - 1] = events[i]
  BY <1>1, <1>5
<1> QED
  BY <1>3, <1>6

LEMMA NextFilters ==
  ASSUME VirtualHostsQualified, RedisHostsSupported, Typed, Typed', FiltersPending, [Next]_vars
  PROVE  FiltersPending'
<1>1. ASSUME NEW kind \in Kinds, NEW k \in DOMAIN Objects[kind],
             NEW obj \in Objects[kind][k] \cup {Nil}, Write(kind, k, obj)
      PROVE  FiltersPending'
  BY <1>1, WriteFilters
<1>2. ASSUME HandleEvent PROVE FiltersPending'
  BY <1>2, HandleFilters
<1>3. ASSUME NEW k \in DOMAIN MetaRouters, NEW obj, WriteMetaRouter(k, obj) PROVE FiltersPending'
  BY <1>3 DEF WriteMetaRouter, FiltersPending
<1>4. ASSUME ReconcileMetaRouter PROVE FiltersPending'
  BY <1>4 DEF ReconcileMetaRouter, FiltersPending
<1>5. ASSUME NEW kind \in ResourceKinds, NEW k, NEW obj, WriteResource(kind, k, obj)
      PROVE  FiltersPending'
  <2>1. resources' # {}
    BY <1>5 DEF WriteResource
  <2> QED
    BY <2>1 DEF FiltersPending
<1>6. ASSUME NEW kind \in ResourceKinds, ReconcileResource(kind) PROVE FiltersPending'
  BY <1>6 DEF ReconcileResource, FiltersPending
<1>7. ASSUME NEW p \in DOMAIN Codecs, NEW codec, WriteApplicationProtocol(p, codec)
      PROVE  FiltersPending'
  BY <1>7 DEF WriteApplicationProtocol, FiltersPending
<1>8. ASSUME NEW p \in DOMAIN Codecs, ReconcileApplicationProtocol(p) PROVE FiltersPending'
  BY <1>8 DEF ReconcileApplicationProtocol, FiltersPending
<1>9. CASE UNCHANGED vars
  BY <1>9 DEF vars, FiltersPending
<1> QED
  BY <1>1, <1>2, <1>3, <1>4, <1>5, <1>6, <1>7, <1>8, <1>9, Zenon DEF Next

(* FiltersComplete: where virtual services have one qualified host and      *)
(* Redis routes without a port lead to services Aeraki supports, no change  *)
(* of the EnvoyFilters is left unannounced once every event is handled and  *)
(* no object was updated in its annotations alone.                          *)
THEOREM FiltersComplete ==
  VirtualHostsQualified /\ RedisHostsSupported => (Spec => []FiltersAnnounced)
<1> SUFFICES ASSUME VirtualHostsQualified, RedisHostsSupported PROVE Spec => []FiltersAnnounced
  OBVIOUS
<1>1. Init => FiltersPending
  BY DEF Init, FiltersPending
<1>2. Typed /\ Typed' /\ FiltersPending /\ [Next]_vars => FiltersPending'
  BY NextFilters
<1>3. FiltersPending => FiltersAnnounced
  BY DEF FiltersPending, FiltersAnnounced, Quiet
<1> QED
  BY <1>1, <1>2, <1>3, InitTyped, NextTyped, PTL DEF Spec

(* Pending: under the conditions of both theorems, whatever has changed     *)
(* since it was last announced, an event still queued or a reconcile still  *)
(* to come will announce it: no later change makes the handlers drop it.    *)
THEOREM Pending ==
  HostsDistinct /\ PortsNamed /\ VirtualHostsQualified /\ RedisHostsSupported
    => (Spec => []ChangesPending)
<1> SUFFICES ASSUME HostsDistinct, PortsNamed, VirtualHostsQualified, RedisHostsSupported
             PROVE  Spec => []ChangesPending
  OBVIOUS
<1>1. Init => RoutesPending /\ FiltersPending
  BY DEF Init, RoutesPending, FiltersPending
<1>2. Typed /\ RoutesPending /\ [Next]_vars => RoutesPending'
  BY NextRoutes
<1>3. Typed /\ Typed' /\ FiltersPending /\ [Next]_vars => FiltersPending'
  BY NextFilters
<1>4. ASSUME Typed, RoutesPending, FiltersPending PROVE ChangesPending
  <2>1. \A i \in DOMAIN events : events[i] \in Events
    BY <1>4, EventTyped
  <2>2. \A i \in DOMAIN events : ShouldHandleChange(events[i]) <=> HandledChange(config, events[i])
    BY <2>1, EventObjects, HandledMeans
  <2>3. \A i \in DOMAIN events : AnnouncesRoutes(events[i]) <=> Announces(config, events[i])
    BY <1>4, <2>1, TypedHolds, AnnouncesMeans
  <2> QED
    BY <1>4, <2>2, <2>3 DEF ChangesPending, RoutesPending, FiltersPending
<1>5. Typed /\ RoutesPending /\ FiltersPending => ChangesPending
  BY <1>4
<1> QED
  BY <1>1, <1>2, <1>3, <1>5, InitTyped, NextTyped, PTL DEF Spec
=============================================================================
