# A TLA+ verification of Aeraki

Aeraki is a control plane beside Istio. It reads Istio's configuration and its
own resources, writes EnvoyFilters that put its protocol proxies into Envoy, and
serves the routes of these proxies over RDS. This directory models the parts of
it in which something can go wrong between two steps, checks them with TLC on
small instances, and proves the central invariants with TLAPS for every value
of the constants. Paths below are relative to `src/`.

## The system

| Part | Code | Module | State of the model |
|---|---|---|---|
| VIP allocation for ServiceEntries | `internal/controller/kube/serviceentry.go` | `VipAllocator` | modelled, proved |
| EnvoyFilter controller (events, debounce, push, retry) | `internal/envoyfilter/controller.go` | `EnvoyFilterPush` | modelled, proved |
| Route cache and stream callbacks | `internal/xds/cache_mgr.go`, `callbacks.go` | `RouteCache`, `RoutePublication` | modelled, proved |
| Wiring of events to the two consumers | `internal/bootstrap/server.go` | `EventFanout` | modelled, proved |
| Leader election, shutdown | `internal/leaderelection`, `internal/bootstrap/server.go`, `cmd/aeraki/main.go` | `LeaderElection`, `ExclusiveOffices` | modelled, proved |
| Namespace controller | `internal/controller/kube/namesapce.go` | `NamespaceController` | modelled, proved |
| Event filters, resource controllers | `internal/controller/istio/controller.go`, `kube/metarouter.go`, `kube/metaprotocol.go`, `kube/redis.go`, `kube/dubbo.go` | `ConfigEvents` | modelled but for requeueing, proved |
| Generation of EnvoyFilters and routes | `internal/envoyfilter`, `internal/xds`, `internal/plugin` | `Generation` | MetaProtocol, Dubbo, Thrift, Redis; Kafka, ZooKeeper by port; proved in `ConfigEvents` |
| Validating webhook and translation of MetaRouters | `internal/webhook/validation`, `internal/xds/utils.go`, `plugin/metaprotocol/filters.go` | `MetaRouterAdmission` | modelled, proved |
| Webhook registration and certificates | `internal/bootstrap`, `internal/ca`, `webhook/validation/configuration.go` | `WebhookRegistration` | modelled, proved |
| Dubbo authorization | `internal/plugin/dubbo/authz` | `DubboAuthorization`, `UserResources` | modelled, proved |
| Matches of Dubbo routes | `internal/plugin/dubbo/route.go` | `DubboRouting`, `UserResources` | modelled, proved |
| Connection to Istio, gRPC server, metrics | `controller/istio`, `internal/xds/server.go` | none | library calls and I/O only |

The parts interact as follows. The Istio client writes objects to an in-memory
store, whose monitor calls one chain of handlers: the handlers drop what does
not concern Aeraki (`ConfigEvents`) and send an event on the channel of the
EnvoyFilter controller, then on that of the route cache (`EventFanout`). The
controllers of Aeraki's own resources send on the same channels. Behind each
channel a main loop debounces the events and runs a callback that generates
everything anew (`Generation`) and writes it to the API server
(`EnvoyFilterPush`) or to the snapshot cache (`RouteCache`). EnvoyFilters match
on a service's address, hence the VIPs (`VipAllocator`). Which replica pushes
and which allocates is decided by two elections (`LeaderElection`); the second
one's winner also runs the namespace controller (`NamespaceController`). What
users may write into a MetaRouter is decided by the webhook
(`MetaRouterAdmission`), which every replica registers when it starts
(`WebhookRegistration`). Dubbo policies and VirtualServices are not checked by
it; what they become is compared with what they say (`DubboAuthorization`,
`DubboRouting`, put together in `UserResources`).

## The modules

**VipAllocator.** Users write and delete ServiceEntries in `api`; the informer
copies them to `cache` and queues their keys (`Sync`, with the predicates of the
controller). One worker takes a key; its handler is cut where it reads the cache
or calls the API server: `Reconcile` (the guards of `autoAllocateIP`),
`ResolveConflict`, `ProbeIP` (one turn of the loop of `nextAvailableIP`),
`UpdateServiceEntry`, each with the action in which that call fails. An update
of a version that is no longer stored is refused, as the API server does.
`Restart` is a crash or a failover: map and counter are lost and every
ServiceEntry is queued. The counter's arithmetic is the code's, with the 255 of
the octets as the constant `OctetBase`, so that a small base reaches the
wrap-around. The informer delivers the latest version of an object; versions in
between may be skipped, as they may be in a real informer.

**EnvoyFilterPush.** `want` is what the configuration asks for, as two functions
from names to contents: the VirtualServices that make the gateways' listeners
and the EnvoyFilters. `Change` alters it; `ConfigUpdated` sends the event and
blocks while the channel is full; `Receive` drains the channel into the
debouncer. The callback is cut at its API calls: `Generate`, `List`, one
`Apply` per object (deletions, then updates, then creations), `EndListeners`,
`EndPush`, `Retry`. Each call has a failing twin. The code's error handling is
kept as it is: the error of a list is dropped, `err` holds the last call's
result, an error while the gateways are generated is answered as a success.
`lapsed` is a history variable: a call of the last push failed. Several changes
of one source that is blocked on the channel are one notification. A process
that starts while nothing is configured gets no event.

**RouteCache.** A snapshot is a version and the number of the configuration it
was generated from. `Fires` is the debouncer's callback, `Generate`,
`StatusKeys`, `SetSnapshot` (one node at a time), `Retry` its steps;
`GenerateFails` and `SetSnapshotFails` are its failures, as often as they like.
`Open`, `OnStreamRequest`, `CreateWatch`, `Acknowledge`, `OnStreamClosed` are
the life of a stream; between the callback of a request and the creation of its
watch anything may happen. go-control-plane's cache is external: it answers a
watch when the versions differ. The version is the time in seconds
(`xds/utils.go:145`): `Now` is the second of the last generation or the next
one, so two snapshots of one version may differ. Seconds in which nothing is
generated are left out, and the system clock is taken not to go back.
`lapsed` is a history variable: the streams that the last update passed over,
because it came between a stream's request and its watch or the node had been
cleared (`PassedOver`), because the proxy has other routes of the same second
(`Tied`), because the MetaRouters could not be read, or because the retries
were used up. The next update that serves a stream takes it off.
`RoutePublication` is what all this promises: now and then the routes asked for
are published under a version no older than any other, and subscribers move
from one publication to one of a newer version. `Publishes` is that
specification with the snapshots, responses and proxies' states as its
publications.

**EventFanout.** The goroutines that report changes and the calls each makes, in
order: a send blocks while its channel is full and keeps the next call of the
same goroutine from being made. `stale` holds, for each consumer, whether it has
to be told of a change. The EnvoyFilter loop runs only on a leader.

**LeaderElection.** The lease of each election, the elector of each replica, and
the loops that run on it. Acquiring, losing and releasing are client-go's;
what the code does about it is its own: a lost EnvoyFilter lease starts a new
cycle while the old loop goes on, a lost manager lease is logged. That a leader
stops before its lease can run out rests on RenewDeadline < LeaseDuration, which
the code sets, and on clocks that run alike. On SIGTERM, `main` sends one token
on a stop channel from which many goroutines receive, and returns: `Terminate`
sends it, `CancelElection`, `QuitElection`, `StopControllers` and
`TakeElsewhere` are the goroutines that may take it and what each then does,
and `Exit` may come before any of them. `Crash` is a process that ends without;
`Begin` is its successor, whose name in the leases is another one (it ends in a
fresh UUID): the old leases belong to `Former` and have to run out.
`ExclusiveOffices` is the abstraction: an office has at most one incumbent, who
leaves before the next one takes it. `ExclusiveLeases` says that the leaders of
the two elections implement it.

**NamespaceController** extends `LeaderElection` with the controller that runs
in the elected manager: it lists the namespaces when it starts, queues the later
events, and its worker reads a namespace in one step and creates the config map
in the next, during which the manager may have lost its lease. `NsNext` joins
each step of the elections with what it does to the managers
(`ManagerFollows`).

**Generation** is pure: from a configuration to EnvoyFilters and routes. Where
the code takes the first match of an unordered list, the operators return what
is generated for each match. Access log, tracing and the timeouts and faults of
Redis are left out; the matches of routes are in `MetaRouterAdmission` and
`DubboRouting`, the RBAC filters of Dubbo services in `DubboAuthorization`. A
list from which the code leaves elements out is the list restricted to the
places of the others, so that every element keeps its place in the order. The
lists of Aeraki's own resources succeed here; their failures are in
`EnvoyFilterPush`, `RouteCache` and `UserResources`.

**DubboAuthorization** are the operators of `authz`: policies by action, rules,
sources and operations to permissions and principals, values to string
matchers, with the prefix, suffix and presence forms. A string is a sequence of
tokens, of which the star and the dot are two. The code quotes nothing that it
puts into a regular expression, so there a dot is one of RE2 and matches any
character. Envoy's evaluation of the filters is external and in
`UserResources`, next to what the policies say, where `NewBuilder` lists the
policies or, when the call fails, goes on with none, as `builder.New` does.
**DubboRouting** are those of `route.go`: the first match of an HTTP route to
the method and header matches of a Dubbo route.

**WebhookRegistration.** A start of a replica is cut at its calls: `InitRootCA`
reads Istio's CA and signs the replica's certificate, `GetConfig` reads the
shared webhook configuration, `CreateConfig` or `UpdateConfig` writes it, with
the API server's check of the resource version; `FindEqual` writes nothing. A
refused write ends the process (`log.Fatalf`), which starts again. Between any
two of these, `ReplaceCA` gives Istio another CA and other replicas take their
steps. The API server fills in defaults the code leaves out, so the comparison
with the present configuration may differ also when the CA is the same: both
`FindEqual` and `UpdateConfig` are possible then.

**UserResources** puts `WebhookRegistration`, `MetaRouterAdmission`,
`DubboAuthorization` and `DubboRouting` into one specification. Replicas start
and the CA is replaced while there are no resources; from the moment every
replica serves for the first time, users write resources of one kind. The kinds
do not depend on each other, so all interleavings of them would only multiply
the same states. A MetaRouter written before the first registration is not
checked by anybody, hence the order.

**ConfigEvents** composes the handlers with `Generation`: a change compares what
is generated before and after it and marks the result stale if it differs; a
handled event that reaches a channel announces it. Handlers run in any later
state and read the store as it then is. `WriteResource` and `ReconcileResource`
stand for the three controllers of RedisServices, RedisDestinations and
DubboAuthorizationPolicies. Secrets are read but not watched by the code; in the
model they do not change.

**MetaRouterAdmission** is the life of one MetaRouter: submitted, admitted or
refused by the validation, and translated. Values are abstracted to what the
tests tell apart; regular expressions are those of a table `Language`. The
routing of requests by Envoy (first route whose header matches all hold) is
external. The weights are added up by a recursive function, in the integers
modulo `WeightModulus` as the code adds them.

The modules `MC*` give constants their values for TLC; the modules `*Proofs`
hold the theorems.

## What TLC checks

| Run | Question | Result |
|---|---|---|
| `Vip` | With user-written VIPs, a failing call and a restart: are the VIPs of reconciled services unique, and does every service get one while no call fails? | holds |
| `VipFresh` | Without restarts and user VIPs, through the wrap-around: are VIPs unique at every moment? | holds |
| `VipRestart` | The same with a restart | violated |
| `Push` | Is a change during a push ever lost? Do retries end when the API server fails for ever? | holds |
| `PushListenerUpdate` | Without failures: do the objects converge to what is asked for? | violated |
| `Route` | With updates within one second and calls that may fail for ever: does a watch miss a snapshot of another version, a proxy go backwards, the update loop hang? Who does not get the current routes? Is it a publication of routes by version? | holds |
| `Fanout` | On a leader with channels of capacity 1: does every change reach both consumers? | holds |
| `FanoutSlave` | The same on a replica that does not lead | violated |
| `Election` | Through lost leases, crashes and shutdowns: a leader leaves before the next one takes over; in the end a pusher and, while a manager is left, an allocator; no namespace is forgotten | holds |
| `Events` | Is every change of what is generated announced, whatever order events are handled in, and is there meanwhile an event that will? Do listeners and cache agree on route names? | holds |
| `Admission` | Is the webhook registered with the CA its replicas' certificates come from? Is what is admitted translatable, with exact shares, right routing, sound warnings and single exports? Do Dubbo policies, when they are listed, decide, and Dubbo routes match, as written? | holds |
| `AdmissionPresence` | Does an attribute without a value check presence? | violated |

### The violations

- **VipRestart.** `serviceIPs` and `maxIP` start empty in every process. A
  service reconciled early after a restart gets 240.240.0.1, which a service
  not reconciled yet still has. `bootstrap/server.go:302` says the VIP "must be
  unique and consistent in the mesh". The conflict is repaired when the other
  one is reconciled, by giving *it* another VIP.
- **PushListenerUpdate.** `generateListenerForGateway` updates an existing
  VirtualService with an object that has no resource version
  (`envoyfilter/controller.go:565`), which the API server refuses. The push
  returns before the EnvoyFilters, on every retry.
- **FanoutSlave.** Every replica sends to the EnvoyFilter channel but only a
  leader drains it. After 100 events the shared handler blocks, and the routes
  of a slave, and of a master that waits for the lease, are no longer updated.
- **AdmissionPresence.** `xds/utils.go:178` skips a match without a type, so
  the rule takes every request, where `k8s/crd.yaml:414` promises a presence
  check.

### Bounds

`Vip`: two services, octet base 3, user writes up to revision 3, one failure, one
restart:
enough for a service to be moved off an address, deleted and created again
during a reconcile. `VipFresh` uses base 2 (two addresses before the
wrap-around) and seven revisions, so that the counter goes round. `Push`: two
names, one of which also has a listener, two contents, channel of one, failures
that never end (`FaultCost = 0`). `Route`: two streams of one node, two
openings, one close, one edit, which meets every way in which a stream is passed
over, and failures without a bound. `Fanout`: capacity 1 makes every send block; `FanoutSlave` has 2,
less than the number of changes, as 100 is in the long run. `Election`: two
replicas, both masters, two losses, so that both managers may have lost their
lease, one process that ends, by a signal or a crash, one namespace, one
change of its labels, one failed creation. A slave takes part in the second
election only, as any master does; the safety properties are proved for any
replicas, masters, namespaces and bounds. `Events`: four changes over
two services, one virtual service, rule, gateway, MetaRouter, RedisService,
RedisDestination and Dubbo policy each, with the
shapes that matter (a service whose second host is the first of another; short
and full host names; two MetaProtocol ports; unsupported ports; a secret that
is missing, an endpoint that does not parse). `Admission`
varies one part of a MetaRouter at a time. It has three replicas with five
starts and a CA that is replaced twice, so that a replica that read the first CA
writes after one that read the third; two policies, ALLOW with one rule whose
values take each form of matcher, also with a dot, or DENY with up to two rules,
which displace each other; a list that fails; and
VirtualServices of a Dubbo service with two routes, the first with one or two
matches. `WeightModulus = 256` with at most
three weights plays the part of 2^32: with weights of at most 100 the sum wraps
only with more than 2^32/100 destinations, and three weights of at most 100 add
up to 300 and do wrap past 256, without meeting 100.

Deadlock checking is off where users may stop writing, which ends every
behaviour of a bounded instance; that nothing is stuck is what the liveness
properties say instead.

### Fairness

Goroutines run: weak fairness of the loops' and callbacks' steps. A goroutine
that waits to send on a channel gets its turn among the waiting ones (Go's
channels queue their senders): strong fairness of the sends. Workers drain their
queues. A signalled `main` returns, and Kubernetes starts a process that ended:
weak fairness of `Exit` and `Begin`. Electors retry at intervals, and a free
lease comes again and again: strong fairness of acquiring. The worker queue is
first in, first out: strong fairness of the reconcile of each service, which the
busy worker delays. No fairness is assumed for users, failures, crashes or
lost leases. The bounds limit their number, but for the failures of `Push` and
`Route`, which may go on for ever.

## What TLAPS proves

All theorems hold for any sets of services, names, streams, nodes or replicas,
any capacity, retry limit and bounds, under the named assumptions of the
modules (bounds are natural numbers, special values are distinct).

- **VipAllocatorProofs.** `Inductive`: `IInv`. A settled service, one whose
  current version has been reconciled since the start without an unreported
  failure, owns its VIP in the map. This is not inductive alone: the worker may
  hold an old copy, or be about to assign an address. Hence the worker's copy is
  the latest the cache knows or the key is queued again (`WorkerHoldsLatest`),
  the address to be assigned has no owner (`AssignedVipUnowned`), and a contested
  one has another owner (`ContestedVipOwned`). `Ownership` and `Uniqueness`
  follow. `FreshUniqueness`: a controller that is not restarted, whose calls
  succeed and whose VIPs no user writes (`Fresh`) never lets two services share
  one, reconciled or not. Its invariant `FreshIInv` adds that versions only grow
  from the worker over the cache to the store, and that a stored VIP has its
  service as the owner, whom the cache shows alive. `VipRestart`
  shows why restarts are excluded; an update that is applied but answered with
  an error would leave a VIP without an owner in the map as well.
- **EnvoyFilterPushProofs.** `Inductive`: unless a call failed, a push works on
  the current configuration or an event is on its way (`GeneratedCurrent`), and
  each object is as generated or, while still to do, as listed
  (`AppliedAsGenerated`). `InSync` follows: no change is lost.
- **RouteCacheProofs.** `Inductive`: an open watch waits for a version its proxy
  does not have (`WatchesWait`), and versions are ordered from proxy over
  response and snapshot to the clock (`VersionsOrdered`). `NoMissedSnapshot` and
  the action property `Monotone` follow: a proxy only moves to a newer version.
  `AtRest`: when nothing is pending, a proxy that waits for news has the current
  routes, or is in `lapsed`. For this the invariant says of the streams outside
  `lapsed` that, unless an event is pending, the running update works on the
  current configuration (`GenerationCurrent`), the snapshot of a node it is
  through with is current (`CacheCurrent`), and a proxy, a response and a
  snapshot of one version have the same routes (`VersionsTell`). `Refines`: the
  route cache implements `RoutePublication`, step by step.
- **EventFanoutProofs.** `NoLostChange`: a consumer that has to be told of a
  change has an event in its channel, or a reporter that still has to send it
  one, for any capacity and any number of changes.
- **LeaderElectionProofs.** `Inductive`: a leader is the recorded holder.
  `Implements`: the leases implement `ExclusiveOffices`. `NsInductive`
  and `HandedOver`: whoever leads has every injected namespace done, queued, in
  hand or recorded as failed. The elections' invariant is part of it, since only
  a leading manager has a queue.
- **ConfigEventsProofs.** `Typing`; `NamesAgree`: the routes that listeners ask
  for are those the cache generates, in every configuration. `Pending`: while
  what is generated differs from what was announced, something that waits will
  announce it, in whatever state it is handled (`ChangesPending`). This is the
  inductive step of `FiltersComplete` and `RoutesComplete`: once everything has
  been handled, no change is unannounced. The argument goes event by event. An
  event that the handlers would drop leaves the generated EnvoyFilters (or
  routes) as they were, for which every operator of `Generation` has a lemma
  about the objects it reads; and an event they would handle is handled also
  when other changes came first, because the decision depends only on parts of
  the event and of the services that those changes cannot spoil.
- **MetaRouterAdmissionProofs.** For any MetaRouters: `Translation` (what is
  admitted is translated without a panic or an error), `Shares` (the clusters'
  weights add up to the total the proxy is told, although the validation adds
  modulo 2^32), `Routing`, `Warnings`, `Exports`. The invariant is that
  the stored MetaRouter passed the validation and the warnings are its own.
  And about the webhook's registration, `HookInductive` and `Trust`: when every
  replica serves with a certificate of Istio's present CA, that CA is
  registered. A registered CA may be a replaced one meanwhile; the invariant says
  that then some replica has yet to start or to write (`StaleIsRewritten`), and
  that a configuration read is not newer than the stored one (`ReadsPast`).
- **UserResourcesProofs.** `OnlyMeant`: the RBAC filters match nothing that no
  rule means, for any number of policies and any requests, whether the policies
  were listed or not; dots of principals that begin with a star are read as the
  regular expression does. `Decisions`: filters of listed policies without such
  dots decide as the rules say that no other rule has displaced. Both rest on
  the invariant that a builder has all stored policies or none. The heart is
  `RuleExact`, from the meaning of one value upwards: a value is a word, a star
  before or behind a word, or a star; the matcher made of it (exact, prefix,
  suffix or regular expression, with or without the SPIFFE prefix) matches the
  texts the value means (`PlainMatched`, `IdentityMatched`), and the regular
  expression for a namespace finds it between the slashes of an identity
  (`NamespaceMatched`); then fields, sources and operations, rules, and the
  filter that keeps the last rule of each index. Without dots to expand, the two
  readings of a rule agree (`ReadAlike`). `DubboRoutes`: a call takes the
  route its VirtualService says. `Composed`: `UserResources` constrains none of
  its parts, so the theorems about `MetaRouterAdmission` and
  `WebhookRegistration` hold of it.

Facts about recursive functions (the sum of the weights, the ends of a match of
a regular expression) and about finite sets (there is a greatest element) are
proved by least counterexample: a set of natural numbers that is not empty has
a least member (`Least`, from the well-foundedness of <), and of the numbers
that refute a fact the least one leads to a contradiction.

### Conditions of the theorems

Some theorems are about resources that users do not write in ways the code
treats otherwise than they say. The instances TLC checks meet these conditions
(`ASSUME` in the `MC` modules).

| Condition | Theorems | What the code does without it |
|---|---|---|
| `HostsDistinct` | `RoutesComplete`, `Pending` | `findRelatedServiceEntry` takes any service with the rule's host and may look at the ports of the wrong one |
| `PortsNamed` | `RoutesComplete`, `Pending` | the route cache drops the event of a MetaProtocol port whose name does not begin with `tcp-metaprotocol` |
| `VirtualHostsQualified` | `FiltersComplete`, `Pending` | the handler looks at the first host of a VirtualService only, and qualifies it where the generators do not |
| `RedisHostsSupported` | `FiltersComplete`, `Pending` | the event of a service without a supported port is dropped, although a Redis route takes its port |
| `Typed` | `Routing` | a match without a type is skipped (the run `AdmissionPresence`) |
| `PoliciesPlain` | `OnlyMeant`, `Decisions` | a star inside a value is matched as a character; `cluster.local` in a principal becomes another trust domain; a dot in a namespace value matches any character (no namespace has one); the `.*` of a namespace value that begins with a star goes past the end of the namespace, to `/sa` |
| `RequestsPlain` | `OnlyMeant`, `Decisions` | `/ns/ns/` is found twice in the identity of a namespace called `ns`; requests without an interface or method have no text to match |
| `CallsTyped` | `DubboRoutes` | a match without a type is left out |
| `Fresh` | `FreshInductive`, `FreshUniqueness` | VIPs are given twice after a restart (the run `VipRestart`) |

Only model-checked: the liveness properties `EventuallyAllocated`, `Settles`,
`EventuallyQuiet`, `EventuallyCurrent`, `FiltersFollow`, `RoutesFollow`,
`SomePusher`, `SomeAllocator` and `Bootstrapped`, since the prover has neither
fairness nor ENABLED. Every invariant and every action property of the passing
runs is a theorem.

## Known gaps of the code

Properties above carry a proviso where the code does not keep the promise. What
the models or the reading of the code show beyond the four violations:

- *VIPs.* A failed update is only logged, and the service stays without an
  address. An entry of `serviceIPs` is kept when its service moves away. Slaves
  allocate VIPs too; a manager that lost its lease is not started again, and
  when all have, nobody allocates until a process restarts.
- *Push.* A failed call followed by a successful one counts as a success. An
  unreadable MetaRouter of a gateway ends the generation without an error, and
  the listeners are skipped.
- *Routes.* Closing one of two streams of a node clears the snapshot and the
  watches of both. A node that was cleared in the middle of an update comes back
  with an old snapshot, which `hasNode` takes for current. An unreadable
  MetaRouter is replaced by default routes. Snapshots of the same second have
  the same version, and a proxy that has the first does not get the second. A
  request that is overtaken by an update, between `OnStreamRequest` and its
  watch, waits for the next one. All of these last until the next update.
  `cache_mgr.go:127` says "We don't retry in this scenario" of an error that
  `mainLoop` does retry.
- *Events.* An update of annotations alone is dropped
  (`istio/controller.go:169`), although the filters depend on `interface` and
  `workloadSelector`. Only the first host of a VirtualService is looked at. The
  route cache asks for the prefix `tcp-metaprotocol`, the generation for the
  second part of the name.
- *Generation.* The first port with a generator decides for the service. A
  gateway with two MetaProtocol servers keeps the filter of the last one. A port
  named `tcp-metaprotocol` makes `GetApplicationProtocolFromPortName` index past
  the end. A Dubbo service without an interface annotation gets an empty proxy.
- *Redis.* A change of a secret is not watched. A route without a port takes it
  from another ServiceEntry, whose events are dropped when it has no supported
  port. A mirror gets the port of the route it mirrors. `PREFER_REPLICA` becomes
  `PREFER_MASTER` (`outbound.go:222`). TCP keepalive settings are stored through
  a nil pointer (`util.go:160`). Of several Redis ports only the last one's proxy
  is kept, for the listener of the first port.
- *Admission.* A global rate limit without a request timeout is admitted and
  dereferenced by the translation. `exportTo: ["~"]` is admitted and becomes the
  namespace `~`. Only a second rule without a match is warned of. A mirror
  percentage below 0.0001 becomes 0.
- *Dubbo policies.* The index of a rule shadows that of its policy
  (`authz/builder/builder.go:104`): a rule is named after the policy at the
  rule's index, so that rules of several policies with the same index displace
  each other and the last one remains (`Stands` in `PoliciesDecide`). A
  policy with more rules than there are policies of its action indexes past the
  end (`Overruns`), and the process ends on every push. When the policies cannot
  be listed, the error is logged (`builder.go:55`) and the service gets no
  filters until the next push, hence `listed = Stored` in `PoliciesDecide`. The
  values put into regular expressions are not quoted (`matcher/string.go:59`,
  `model/generator.go:64`): `*/sa/a.b` also means the account `axb`.
- *Dubbo routes.* Of several matches of a route only the first is translated,
  and a method or header match without a type matches everything. Thrift
  ignores matches.
- *Webhook.* A replica does not read the CA again while it runs; one that read an
  old CA may overwrite a newer one until it restarts. MetaRouters are not checked
  before the first registration.
- *Controllers.* A deleted ApplicationProtocol is requeued for ever and its
  codec stays. The namespace controller logs a failed creation and never updates
  a config map.
- *Election.* The EnvoyFilter loop ignores the stop channel that "functions
  should respect" (`leaderelection/leaderelection.go:111`) and goes on after the
  lease is lost, beside that of the new leader.
- *Shutdown.* The stop channel gets one token for several receivers, and `main`
  does not wait: "When Pilot exits, the lease will be dropped"
  (`leaderelection/leaderelection.go:103`) holds only if the elector's goroutine
  takes it first. The successor's name is a new one, so it waits for the old
  lease to run out. `AERAKI_SERVER_ID` of the manifests is never read.

## Not modelled

- The connection to Istio: `connectIstio` tries again until it succeeds, and the
  client reconnects by itself; `reconnectIstio` is never called. What arrives
  over it is the action `Write` of `ConfigEvents`.
- The gRPC server of the RDS, the HTTP decoding of the webhook, its metrics, the
  flags and the creation of clients: calls into libraries, without a state of
  their own.
- Access log, tracing and timeouts in the proxies, the text of the bootstrap
  config map, the settings of the Kafka and ZooKeeper proxies: constants of the
  generation.
- Generated code: the clients and the protobuf and deep-copy code of the APIs.
- The requeueing of an ApplicationProtocol after an error, which repeats a
  reconcile that has no effect.
- One replica as a single composition of `EventFanout`, `LeaderElection` and the
  two consumers: its states are the product of all of theirs, beyond TLC. They
  meet at the channels, which `EventFanout` models from one side and
  `EnvoyFilterPush` and `RouteCache` from the other.
