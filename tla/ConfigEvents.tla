---------------------------- MODULE ConfigEvents ----------------------------
(***************************************************************************)
(* Which changes of the configuration make Aeraki generate again           *)
(* (internal/controller/istio/controller.go, xds/cache_mgr.go and the      *)
(* controllers of Aeraki's own resources).  The handlers see one           *)
(* changed object and decide, from what the store holds when they run,     *)
(* whether the generated EnvoyFilters or routes depend on it; Generation   *)
(* computes these from all objects.  A wrong decision leaves the mesh with *)
(* a stale configuration until some other change.                          *)
(***************************************************************************)
EXTENDS Generation

CONSTANTS
  Objects,     \* [se, vs, dr, gw |-> [key -> the objects a user may write]]
  MetaRouters, \* [key -> the MetaRouters a user may write]
  Resources,   \* [rs, rd, ap |-> [key -> the objects a user may write]]
  Secrets,     \* [name -> the password of the secret, or Nil]
  Codecs,      \* [application protocol -> the codecs of its ApplicationProtocols]
  MaxChanges   \* bound: changes

Kinds == {"se", "vs", "dr", "gw"}
ResourceKinds == {"rs", "rd", "ap"}

(* The key of an object holds its namespace.  A service has a host: Istio   *)
(* rejects others, and the generators read the first unasked.               *)
ASSUME ObjectsAssumption ==
  /\ \A kind \in Kinds : \A k \in DOMAIN Objects[kind] :
       Nil \notin Objects[kind][k] /\ \A x, y \in Objects[kind][k] : x.ns = y.ns
  /\ \A k \in DOMAIN Objects.se : \A se \in Objects.se[k] : 1 \in DOMAIN se.spec.hosts

ASSUME MaxChangesAssumption == MaxChanges \in Nat

VARIABLES
  config,       \* the store of Istio's objects, the cached MetaRouters, the codec map
  events,       \* the handler calls the store's monitor has yet to make
  metaRouters,  \* a MetaRouter waits for its reconcile
  resources,    \* the kinds of which a Redis or Dubbo resource waits for its reconcile
  protocols,    \* [application protocol -> the codec its object has, or Nil]
  pending,      \* application protocols whose object waits for its reconcile
  filtersStale, \* the EnvoyFilters have changed since they were last announced
  routesStale,  \* the routes have changed since they were last announced
  annotated,    \* an object was updated with an equal spec
  changes

vars == <<config, events, metaRouters, resources, protocols, pending, filtersStale,
          routesStale, annotated, changes>>

Init ==
  /\ config = [se |-> [k \in DOMAIN Objects.se |-> Nil],
               vs |-> [k \in DOMAIN Objects.vs |-> Nil],
               dr |-> [k \in DOMAIN Objects.dr |-> Nil],
               gw |-> [k \in DOMAIN Objects.gw |-> Nil],
               mr |-> [k \in DOMAIN MetaRouters |-> Nil],
               rs |-> [k \in DOMAIN Resources.rs |-> Nil],
               rd |-> [k \in DOMAIN Resources.rd |-> Nil],
               ap |-> [k \in DOMAIN Resources.ap |-> Nil],
               codecs  |-> [p \in DOMAIN Codecs |-> Nil],
               secrets |-> Secrets]
  /\ events = <<>>
  /\ metaRouters = FALSE
  /\ resources = {}
  /\ protocols = [p \in DOMAIN Codecs |-> Nil]
  /\ pending = {}
  /\ filtersStale = FALSE /\ routesStale = FALSE
  /\ annotated = FALSE
  /\ changes = 0

(* The configuration becomes c.                                             *)
Becomes(c) ==
  /\ config' = c
  /\ filtersStale' = (filtersStale \/ GenerateEnvoyFilters(c) # GenerateEnvoyFilters(config))
  /\ routesStale' = (routesStale \/ GenerateMetaRoutes(c) # GenerateMetaRoutes(config))

Counted == changes < MaxChanges /\ changes' = changes + 1

-----------------------------------------------------------------------------
(* Changes of Istio's objects, which the ADS client writes to the store.    *)
(* The event of a deletion carries the deleted object as the current one.   *)
SameSpec(a, b) == a # Nil /\ b # Nil /\ a.spec = b.spec

\* Mutant of Write: the event of a deletion carries no object.
WriteWithoutDeleted(kind, k, obj) ==
  /\ Counted
  /\ config[kind][k] # obj
  /\ Becomes([config EXCEPT ![kind][k] = obj])
  /\ events' = Append(events, [kind |-> kind, prev |-> config[kind][k], curr |-> obj])
  /\ annotated' = (annotated \/ SameSpec(config[kind][k], obj))
  /\ UNCHANGED <<metaRouters, resources, protocols, pending>>

Write(kind, k, obj) ==
  /\ Counted
  /\ config[kind][k] # obj
  /\ Becomes([config EXCEPT ![kind][k] = obj])
  /\ events' = Append(events,
       IF obj = Nil THEN [kind |-> kind, prev |-> Nil, curr |-> config[kind][k]]
       ELSE [kind |-> kind, prev |-> config[kind][k], curr |-> obj])
  /\ annotated' = (annotated \/ SameSpec(config[kind][k], obj))
  /\ UNCHANGED <<metaRouters, resources, protocols, pending>>

-----------------------------------------------------------------------------
(* The handlers.                                                            *)
HasSupportedPort(se) ==
  \E i \in DOMAIN se.spec.ports : IsAerakiSupportedProtocols(se.spec.ports[i].name)

\* Mutant of ShouldHandleServiceEntry: only the first port is looked at.
FirstPortSupported(se) == IsAerakiSupportedProtocols(se.spec.ports[1].name)

ShouldHandleServiceEntry(se) == HasSupportedPort(se)

ShouldHandleVirtualService(vs) ==
  \E k \in Live(config.se) :
    LET se == config.se[k]
    IN  /\ \E i \in DOMAIN se.spec.hosts :
             IsFQDNEquals(se.spec.hosts[i], se.ns, vs.spec.hosts[1], vs.ns)
        /\ HasSupportedPort(se)

ShouldHandleDestinationRule(dr) ==
  \E k \in Live(config.se) :
    LET se == config.se[k]
    IN  /\ \E i \in DOMAIN se.spec.hosts :
             IsFQDNEquals(se.spec.hosts[i], se.ns, dr.spec.host, dr.ns)
        /\ HasSupportedPort(se)

ShouldHandleGateway(gw) == DOMAIN MetaPorts(gw.spec.servers) # {}

ShouldHandle(kind, obj) ==
  CASE kind = "se" -> ShouldHandleServiceEntry(obj)
    [] kind = "vs" -> ShouldHandleVirtualService(obj)
    [] kind = "dr" -> ShouldHandleDestinationRule(obj)
    [] kind = "gw" -> ShouldHandleGateway(obj)

\* Mutant of ShouldHandleChange: only the new version counts.
ShouldHandleCurrent(e) ==
  /\ e.prev = Nil \/ e.prev.spec # e.curr.spec
  /\ ShouldHandle(e.kind, e.curr)

(* The handler of RegisterEventHandler: an update of an equal spec is       *)
(* dropped, and a change counts when either version does.                   *)
ShouldHandleChange(e) ==
  /\ e.prev = Nil \/ e.prev.spec # e.curr.spec
  /\ \/ ShouldHandle(e.kind, e.curr)
     \/ e.prev # Nil /\ ShouldHandle(e.kind, e.prev)

(* The services findRelatedServiceEntry may return for a destination rule.  *)
FindRelatedServiceEntry(dr) ==
  OrNil({config.se[k] : k \in {k \in Live(config.se) :
           IsFQDNEquals(dr.spec.host, dr.ns, Host(config.se[k]), config.se[k].ns)}})

IsMetaProtocolPrefix(name) == Len(name) > 1 /\ name[1] = "tcp" /\ name[2] = "metaprotocol"

HasMetaProtocolPort(se) ==
  se # Nil /\ \E i \in DOMAIN se.spec.ports : IsMetaProtocolPrefix(se.spec.ports[i].name)

(* The outcomes of the route cache manager's own test.                      *)
ShouldUpdateCache(kind, obj) ==
  {HasMetaProtocolPort(se) :
     se \in CASE obj # Nil /\ kind = "se" -> {obj}
              [] obj # Nil /\ kind = "dr" -> FindRelatedServiceEntry(obj)
              [] OTHER -> {Nil}}

\* Mutant of UpdatesRoutes: only the new version counts.
CurrentUpdatesRoutes(e) == ShouldUpdateCache(e.kind, e.curr)

UpdatesRoutes(e) ==
  {curr \/ prev : curr \in ShouldUpdateCache(e.kind, e.curr),
                  prev \in ShouldUpdateCache(e.kind, e.prev)}

(* The monitor calls the handlers for the oldest change: the EnvoyFilter    *)
(* controller's, then the route cache manager's.                            *)
HandleEvent ==
  /\ events # <<>>
  /\ LET e == Head(events)
     IN  /\ filtersStale' = (filtersStale /\ ~ ShouldHandleChange(e))
         /\ \E updates \in UpdatesRoutes(e) :
              routesStale' = (routesStale /\ ~ (ShouldHandleChange(e) /\ updates))
  /\ events' = Tail(events)
  /\ UNCHANGED <<config, metaRouters, resources, protocols, pending, annotated, changes>>

-----------------------------------------------------------------------------
(* Aeraki's own resources.                                                  *)
WriteMetaRouter(k, obj) ==
  /\ Counted
  /\ config.mr[k] # obj
  /\ Becomes([config EXCEPT !.mr[k] = obj])
  /\ metaRouters' = TRUE
  /\ UNCHANGED <<events, resources, protocols, pending, annotated>>

ReconcileMetaRouter ==
  /\ metaRouters
  /\ metaRouters' = FALSE
  /\ filtersStale' = FALSE /\ routesStale' = FALSE
  /\ UNCHANGED <<config, events, resources, protocols, pending, annotated, changes>>

(* RedisServices, RedisDestinations and DubboAuthorizationPolicies: every   *)
(* change of a spec makes their controllers announce the EnvoyFilters.      *)
WriteResource(kind, k, obj) ==
  /\ Counted
  /\ config[kind][k] # obj
  /\ Becomes([config EXCEPT ![kind][k] = obj])
  /\ resources' = resources \cup {kind}
  /\ UNCHANGED <<events, metaRouters, protocols, pending, annotated>>

ReconcileResource(kind) ==
  /\ kind \in resources
  /\ resources' = resources \ {kind}
  /\ filtersStale' = FALSE
  /\ UNCHANGED <<config, events, metaRouters, protocols, pending, routesStale, annotated, changes>>

WriteApplicationProtocol(p, codec) ==
  /\ Counted
  /\ protocols[p] # codec
  /\ protocols' = [protocols EXCEPT ![p] = codec]
  /\ pending' = pending \cup {p}
  /\ UNCHANGED <<config, events, metaRouters, resources, filtersStale, routesStale, annotated>>

(* The reconcile of a deleted object fails and is tried again and again:    *)
(* the codec stays registered.                                              *)
ReconcileApplicationProtocol(p) ==
  /\ p \in pending /\ protocols[p] # Nil
  /\ pending' = pending \ {p}
  /\ config' = [config EXCEPT !.codecs[p] = protocols[p]]
  /\ filtersStale' = FALSE
  /\ UNCHANGED <<events, metaRouters, resources, protocols, routesStale, annotated, changes>>

Next ==
  \/ \E kind \in Kinds : \E k \in DOMAIN Objects[kind] :
       \E obj \in Objects[kind][k] \cup {Nil} : Write(kind, k, obj)
  \/ HandleEvent
  \/ \E k \in DOMAIN MetaRouters : \E obj \in MetaRouters[k] \cup {Nil} : WriteMetaRouter(k, obj)
  \/ ReconcileMetaRouter
  \/ \E kind \in ResourceKinds : \E k \in DOMAIN Resources[kind] :
       \E obj \in Resources[kind][k] \cup {Nil} : WriteResource(kind, k, obj)
  \/ \E kind \in ResourceKinds : ReconcileResource(kind)
  \/ \E p \in DOMAIN Codecs : \E codec \in Codecs[p] \cup {Nil} : WriteApplicationProtocol(p, codec)
  \/ \E p \in DOMAIN Codecs : ReconcileApplicationProtocol(p)

Spec == Init /\ [][Next]_vars

-----------------------------------------------------------------------------
(* What a user may write, and the events of it: a change of an object that  *)
(* was or was not there before, or the deletion of one.                     *)
Versions(kind, k) == Objects[kind][k] \cup {Nil}
Events ==
  UNION {UNION {[kind : {kind}, prev : Versions(kind, k), curr : Objects[kind][k]] :
                  k \in DOMAIN Objects[kind]} : kind \in Kinds}

(* The store holds what users wrote, and every event is of such an object.  *)
TypeOK ==
  /\ \A kind \in Kinds : DOMAIN config[kind] = DOMAIN Objects[kind]
  /\ \A kind \in Kinds : \A k \in DOMAIN Objects[kind] : config[kind][k] \in Versions(kind, k)
  /\ events \in Seq(Events)
  /\ resources \subseteq ResourceKinds
  /\ pending \subseteq DOMAIN Codecs
  /\ {metaRouters, filtersStale, routesStale, annotated} \subseteq BOOLEAN
  /\ changes \in 0..MaxChanges

Quiet == events = <<>> /\ ~ metaRouters /\ resources = {}

(* Once every change has been handled, no change of the EnvoyFilters is     *)
(* left unannounced, in whatever order services, virtual services, rules,   *)
(* gateways, MetaRouters and the Redis and Dubbo resources come, change and *)
(* go while earlier changes are still being handled.  The exception is an   *)
(* update of annotations alone, which the handler drops although the        *)
(* filters depend on two of them.                                           *)
FiltersAnnounced == Quiet /\ ~ annotated => ~ filtersStale

(* The same for the routes, which depend on no annotation.                  *)
RoutesAnnounced == Quiet => ~ routesStale

(* While a change is unannounced, something that waits will announce it,    *)
(* whatever the store holds by then: the handlers' decisions about the      *)
(* events still queued are not overtaken by the changes behind them.        *)
AnnouncesRoutes(e) == ShouldHandleChange(e) /\ FALSE \notin UpdatesRoutes(e)

ChangesPending ==
  /\ filtersStale => \/ annotated \/ metaRouters \/ resources # {}
                     \/ \E i \in DOMAIN events : ShouldHandleChange(events[i])
  /\ routesStale  => \/ metaRouters
                     \/ \E i \in DOMAIN events : AnnouncesRoutes(events[i])

(* The two generators agree on the names of the routes, whatever the        *)
(* configuration: a sidecar subscribes only to routes the route cache       *)
(* serves, and to those of every MetaProtocol port of a service that has an *)
(* address, known codecs and no other protocol before the MetaProtocol one. *)
RouteNames == {r.name : r \in GenerateMetaRoutes(config)}

Subscriptions ==
  {x.filter.proxy.rds : x \in {x \in GenerateEnvoyFilters(config) :
     x.filter.name[1] = "aeraki-outbound" /\ "rds" \in DOMAIN x.filter.proxy}}

RouteNamesAgree ==
  /\ Subscriptions \subseteq RouteNames
  /\ \A k \in Live(config.se) :
       LET se    == config.se[k]
           ports == Range(MetaPorts(se.spec.ports))
       IN  /\ GeneratorOf(se) = "metaprotocol" /\ se.spec.addresses # {}
           /\ \A p \in ports : CodecKnown(config, p)
           => {BuildMetaProtocolRouteName(Host(se), p.number) : p \in ports} \subseteq Subscriptions

-----------------------------------------------------------------------------
(* Conditions on what users write, without which the handlers drop a change *)
(* that matters.                                                            *)

(* No two services have the same first host.  findRelatedServiceEntry takes *)
(* any of the services a destination rule is about.                         *)
HostsDistinct ==
  \A j, k \in DOMAIN Objects.se : \A x \in Objects.se[j], y \in Objects.se[k] :
    IsFQDNEquals(Host(x), x.ns, Host(y), y.ns) => j = k

(* The MetaProtocol ports are named "tcp-metaprotocol-...": the route cache *)
(* manager tests this prefix, the generators the second part only.          *)
PortsNamed ==
  \A k \in DOMAIN Objects.se : \A se \in Objects.se[k] : \A i \in DOMAIN se.spec.ports :
    IsMetaProtocol(se.spec.ports[i]) => IsMetaProtocolPrefix(se.spec.ports[i].name)

(* A virtual service has one host, a qualified one: the handler looks at    *)
(* the first and qualifies it, the generators compare all as they are.      *)
VirtualHostsQualified ==
  \A k \in DOMAIN Objects.vs : \A vs \in Objects.vs[k] :
    DOMAIN vs.spec.hosts = {1} /\ vs.spec.hosts[1][2] # ""

(* The host of a Redis route without a port is that of services with a      *)
(* supported port, or of none: the route takes the port of that service.    *)
RedisHostsSupported ==
  \A j \in DOMAIN Resources.rs : \A rs \in Resources.rs[j] : \A i \in DOMAIN rs.spec.routes :
    \A k \in DOMAIN Objects.se : \A se \in Objects.se[k] :
      rs.spec.routes[i].port = Nil /\ rs.spec.routes[i].host \in Range(se.spec.hosts)
        => HasSupportedPort(se)
=============================================================================
