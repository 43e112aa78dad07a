----------------------------- MODULE RouteCache -----------------------------
(***************************************************************************)
(* The route cache and the RDS server of Aeraki (internal/xds): a change   *)
(* of the configuration, or a proxy that has no snapshot yet, puts an      *)
(* event on a channel; behind a debouncer, updateRouteCache generates the  *)
(* routes and stores them as the snapshot of every node it knows; the      *)
(* snapshot cache of go-control-plane, an external component, sends them   *)
(* to the node's streams.                                                  *)
(*                                                                         *)
(* The routes are abstracted to the number of the configuration they were  *)
(* generated from.  The version of a snapshot is the time at which it was  *)
(* generated, in seconds: a later one has the same version or a newer one, *)
(* as the system clock is assumed not to go back.                          *)
(***************************************************************************)
EXTENDS Integers

CONSTANTS
  Streams,   \* RDS streams
  Nodes,     \* proxies
  NodeOf,    \* the proxy a stream comes from; a proxy opens one for each
             \* of its RDS subscriptions
  None,      \* no snapshot, watch or response
  Capacity,  \* of pushChannel (100)
  MaxRetries,\* maxRetries (3)
  MaxEdits,  \* bound: changes of the configuration
  MaxOpens,  \* bound: streams opened
  MaxCloses  \* bound: streams closed

ASSUME ConstantAssumption ==
  /\ NodeOf \in [Streams -> Nodes]
  /\ Capacity \in Nat \ {0} /\ MaxRetries \in Nat
  /\ MaxEdits \in Nat /\ MaxOpens \in Nat /\ MaxCloses \in Nat

DefaultRoutes == 0  \* the routes of a service without a MetaRouter
Routes == 0..(MaxEdits + 1)
Snapshot == [version : Nat, routes : Routes]
StreamsOf(n) == {s \in Streams : NodeOf[s] = n}

ASSUME NoneAssumption == None \notin Nat \cup Snapshot

VARIABLES
  config,    \* the routes the configuration asks for
  notify,    \* a change is yet to be reported
  queue,     \* number of events in pushChannel
  bounced,   \* the debouncer has an event to fire for
  pc,        \* where the debouncer's callback is
  gen,       \* the snapshot it generated
  targets,   \* the nodes it has yet to give it to
  retries,   \* retries so far
  clock,     \* the version of the last snapshot
  snapshot,  \* cache: the snapshot of a node
  status,    \* cache: the nodes with a status entry
  watch,     \* cache: the version a stream's open watch was requested with
  stream,    \* the state of a stream
  response,  \* the response on its way to the proxy
  client,    \* the routes the proxy uses for the stream's subscription
  opens, closes,
  lapsed     \* history: the streams the update that was due passed over

vars == <<config, notify, queue, bounced, pc, gen, targets, retries, clock,
          snapshot, status, watch, stream, response, client, opens, closes, lapsed>>
callback == <<pc, gen, targets, retries, clock>>
cache == <<snapshot, status, watch>>
bounds == <<opens, closes>>
proxies == <<stream, response, client>>

Start == [version |-> 0, routes |-> DefaultRoutes]  \* a proxy without routes

Init ==
  /\ config = 1 /\ notify = FALSE
  /\ queue = 0 /\ bounced = FALSE
  /\ pc = "idle" /\ gen = None /\ targets = {} /\ retries = 0 /\ clock = 0
  /\ snapshot = [n \in Nodes |-> None]
  /\ status = {}
  /\ watch = [s \in Streams |-> None]
  /\ stream = [s \in Streams |-> "closed"]
  /\ response = [s \in Streams |-> None]
  /\ client = [s \in Streams |-> Start]
  /\ opens = 0 /\ closes = 0 /\ lapsed = {}

-----------------------------------------------------------------------------
(* Changes of the configuration, and the channel.                           *)
Change ==
  /\ config <= MaxEdits
  /\ config' = config + 1
  /\ notify' = TRUE
  /\ UNCHANGED <<queue, bounced, callback, cache, proxies, bounds, lapsed>>

(* ConfigUpdated and UpdateRoute: the send blocks while the channel is full. *)
ConfigUpdated ==
  /\ notify
  /\ queue < Capacity
  /\ queue' = queue + 1
  /\ notify' = FALSE
  /\ UNCHANGED <<config, bounced, callback, cache, proxies, bounds, lapsed>>

\* Mutant of Receive: an event during an update is dropped.
ReceiveWhenIdle ==
  /\ queue > 0
  /\ queue' = queue - 1
  /\ bounced' = (bounced \/ pc = "idle")
  /\ UNCHANGED <<config, notify, callback, cache, proxies, bounds, lapsed>>

Receive ==
  /\ queue > 0
  /\ queue' = queue - 1
  /\ bounced' = TRUE
  /\ UNCHANGED <<config, notify, callback, cache, proxies, bounds, lapsed>>

-----------------------------------------------------------------------------
HasNode(n) == snapshot[n] # None

(* updateRouteCache.                                                        *)
Fires == bounced /\ pc = "idle" /\ bounced' = FALSE

(* An update is stored for the nodes with a status entry.  It passes over a *)
(* stream whose request is between OnStreamRequest and the watch, and the   *)
(* streams of a node that has a snapshot but was cleared.                   *)
PassedOver ==
  {s \in Streams : /\ NodeOf[s] \notin status
                   /\ HasNode(NodeOf[s]) \/ stream[s] = "handled"}
StreamsTo(ns) == {s \in Streams : NodeOf[s] \in ns}

(* "no rds subscriber, ignore this update"                                  *)
IgnoreUpdate ==
  /\ Fires
  /\ status = {}
  /\ retries' = 0
  /\ lapsed' = lapsed \cup PassedOver
  /\ UNCHANGED <<config, notify, queue, pc, gen, targets, clock, cache, proxies, bounds>>

(* time.Now().Unix(): some time after the last one, or within its second.   *)
Now == {clock, clock + 1} \ {Start.version}

\* Mutant of GenerateWith: the version wraps around.
GenerateWrapping(routes) ==
  /\ Fires
  /\ status # {}
  /\ clock' = clock + 1
  /\ gen' = [version |-> (clock + 1) % 2, routes |-> routes]
  /\ pc' = "keys"
  /\ UNCHANGED <<config, notify, queue, targets, retries, cache, proxies, bounds, lapsed>>

GenerateWith(routes) ==
  /\ Fires
  /\ status # {}
  /\ clock' \in Now
  /\ gen' = [version |-> clock', routes |-> routes]
  /\ pc' = "keys"
  /\ UNCHANGED <<config, notify, queue, targets, retries, cache, proxies, bounds, lapsed>>

\* Mutant of Generate: a copy of the configuration from before the last change.
GenerateCached == GenerateWith(config - 1)

Generate == GenerateWith(config)

(* A read of the MetaRouters fails: the error is logged, and the service    *)
(* gets its default routes.                                                 *)
GenerateDefault == GenerateWith(DefaultRoutes)

\* Mutant of Failed: the retries are not counted.
FailedUncounted(unserved) ==
  pc' = "retry" /\ UNCHANGED <<retries, lapsed>>

(* The callback of mainLoop retries a failed update up to maxRetries times; *)
(* the streams the last attempt should have served are left without it.     *)
Failed(unserved) ==
  \/ /\ retries >= MaxRetries /\ retries' = 0 /\ pc' = "idle"
     /\ lapsed' = lapsed \cup unserved
  \/ /\ retries < MaxRetries /\ retries' = retries + 1 /\ pc' = "retry"
     /\ UNCHANGED lapsed

(* generateSnapshot returns an error.                                       *)
GenerateFails ==
  /\ Fires
  /\ status # {}
  /\ Failed(StreamsTo(status) \cup PassedOver)
  /\ UNCHANGED <<config, notify, queue, gen, targets, clock, cache, proxies, bounds>>

(* The nodes are read again for the loop that stores the snapshot.          *)
StatusKeys ==
  /\ pc = "keys"
  /\ targets' = status
  /\ pc' = "set"
  /\ lapsed' = lapsed \cup PassedOver
  /\ UNCHANGED <<config, notify, queue, bounced, gen, retries, clock, cache, proxies, bounds>>

(* SetSnapshot stores the snapshot, for a node without a status entry too,  *)
(* and answers the watches that were requested with another version.        *)
Answered(n) == {s \in StreamsOf(n) : watch[s] \notin {None, gen.version}}

(* The streams it leaves alone although they have, or are being sent, other *)
(* routes: those were generated within the same second.                     *)
Tied(n) ==
  {s \in StreamsOf(n) : \E x \in {client[s], response[s]} \ {None} :
                           x.version = gen.version /\ x # gen}

SetSnapshot(n) ==
  /\ pc = "set" /\ n \in targets
  /\ targets' = targets \ {n}
  /\ snapshot' = [snapshot EXCEPT ![n] = gen]
  /\ response' = [s \in Streams |-> IF s \in Answered(n) THEN gen ELSE response[s]]
  /\ watch' = [s \in Streams |-> IF s \in Answered(n) THEN None ELSE watch[s]]
  /\ lapsed' = (lapsed \ StreamsOf(n))
                 \cup (IF gen.routes = DefaultRoutes THEN StreamsOf(n) ELSE Tied(n))
  /\ UNCHANGED <<config, notify, queue, bounced, pc, gen, retries, clock, status,
                 stream, client, bounds>>

EndUpdate ==
  /\ pc = "set" /\ targets = {}
  /\ pc' = "idle"
  /\ gen' = None
  /\ retries' = 0
  /\ UNCHANGED <<config, notify, queue, bounced, targets, clock, cache, proxies, bounds, lapsed>>

(* A failed SetSnapshot ends the update.                                    *)
SetSnapshotFails ==
  /\ pc = "set" /\ targets # {}
  /\ targets' = {} /\ gen' = None
  /\ Failed(StreamsTo(targets))
  /\ UNCHANGED <<config, notify, queue, bounced, clock, cache, proxies, bounds>>

Retry ==
  /\ pc = "retry"
  /\ queue < Capacity
  /\ queue' = queue + 1
  /\ pc' = "idle"
  /\ UNCHANGED <<config, notify, bounced, gen, targets, retries, clock, cache, proxies, bounds, lapsed>>

-----------------------------------------------------------------------------
(* The streams.  A proxy opens a stream with a request that carries the     *)
(* version it has.                                                          *)
Open(s) ==
  /\ stream[s] = "closed"
  /\ opens < MaxOpens
  /\ opens' = opens + 1
  /\ stream' = [stream EXCEPT ![s] = "opened"]
  /\ UNCHANGED <<config, notify, queue, bounced, callback, cache, response, client, closes, lapsed>>

(* OnStreamRequest asks for an update when its node has no snapshot.        *)
OnStreamRequest(s) ==
  /\ stream[s] \in {"opened", "requested"}
  /\ \/ HasNode(NodeOf[s]) /\ UNCHANGED queue
     \/ ~ HasNode(NodeOf[s]) /\ queue < Capacity /\ queue' = queue + 1
  /\ stream' = [stream EXCEPT ![s] = "handled"]
  /\ UNCHANGED <<config, notify, bounced, callback, cache, response, client, bounds, lapsed>>

\* Mutant of CreateWatch: a watch waits for the next snapshot in any case.
CreateWatchUnanswered(s) ==
  /\ stream[s] = "handled"
  /\ stream' = [stream EXCEPT ![s] = "waiting"]
  /\ status' = status \cup {NodeOf[s]}
  /\ watch' = [watch EXCEPT ![s] = client[s].version]
  /\ UNCHANGED <<config, notify, queue, bounced, callback, snapshot, response, client, bounds,
                 lapsed>>

(* The server then asks the cache for a watch: it is answered at once when  *)
(* there is a snapshot with another version.                                *)
CreateWatch(s) ==
  LET n == NodeOf[s] IN
  /\ stream[s] = "handled"
  /\ stream' = [stream EXCEPT ![s] = "waiting"]
  /\ status' = status \cup {n}
  /\ IF HasNode(n) /\ snapshot[n].version # client[s].version
       THEN response' = [response EXCEPT ![s] = snapshot[n]] /\ UNCHANGED watch
       ELSE watch' = [watch EXCEPT ![s] = client[s].version] /\ UNCHANGED response
  /\ UNCHANGED <<config, notify, queue, bounced, callback, snapshot, client, bounds, lapsed>>

(* The proxy applies a response and acknowledges it with its next request.  *)
Acknowledge(s) ==
  /\ stream[s] = "waiting" /\ response[s] # None
  /\ client' = [client EXCEPT ![s] = response[s]]
  /\ response' = [response EXCEPT ![s] = None]
  /\ stream' = [stream EXCEPT ![s] = "requested"]
  /\ UNCHANGED <<config, notify, queue, bounced, callback, cache, bounds, lapsed>>

(* OnStreamClosed clears the node: its snapshot and its status entry with   *)
(* the watches of all its streams.  (A stream closed before its first       *)
(* request is handled has no node yet, and clears nothing.)                 *)
OnStreamClosed(s) ==
  LET n == NodeOf[s] IN
  /\ stream[s] \in {"requested", "waiting"}
  /\ closes < MaxCloses
  /\ closes' = closes + 1
  /\ stream' = [stream EXCEPT ![s] = "closed"]
  /\ response' = [response EXCEPT ![s] = None]
  /\ snapshot' = [snapshot EXCEPT ![n] = None]
  /\ status' = status \ {n}
  /\ watch' = [t \in Streams |-> IF NodeOf[t] = n THEN None ELSE watch[t]]
  /\ lapsed' = lapsed \cup {t \in StreamsOf(n) : stream[t] = "handled"}
  /\ UNCHANGED <<config, notify, queue, bounced, callback, client, opens>>

Channel == ConfigUpdated \/ Receive \/ Retry
Update ==
  \/ IgnoreUpdate \/ Generate \/ GenerateDefault \/ GenerateFails \/ StatusKeys
  \/ (\E n \in Nodes : SetSnapshot(n)) \/ SetSnapshotFails \/ EndUpdate
Server(s) == OnStreamRequest(s) \/ CreateWatch(s)
Proxy(s) == Open(s) \/ Acknowledge(s) \/ OnStreamClosed(s)

Next == Change \/ Channel \/ Update \/ \E s \in Streams : Server(s) \/ Proxy(s)

(* The goroutines run, and a proxy acknowledges what it is sent.  Nobody    *)
(* has to open a stream.  The events are finite in number, so that a sender *)
(* blocked on the channel is not passed over for ever.                      *)
Fairness ==
  /\ WF_vars(ConfigUpdated) /\ WF_vars(Receive) /\ WF_vars(Update \/ Retry)
  /\ \A s \in Streams : WF_vars(Server(s)) /\ WF_vars(Acknowledge(s))

Spec == Init /\ [][Next]_vars
FairSpec == Spec /\ Fairness

-----------------------------------------------------------------------------
(* The variables have their types; mainLoop keeps its channel within the    *)
(* capacity and its retries within maxRetries.                              *)
TypeOK ==
  /\ config \in 1..(MaxEdits + 1)
  /\ notify \in BOOLEAN /\ bounced \in BOOLEAN
  /\ queue \in 0..Capacity
  /\ pc \in {"idle", "keys", "set", "retry"}
  /\ gen \in Snapshot \cup {None}
  /\ targets \subseteq Nodes
  /\ retries \in 0..MaxRetries
  /\ clock \in Nat
  /\ snapshot \in [Nodes -> Snapshot \cup {None}]
  /\ status \subseteq Nodes
  /\ watch \in [Streams -> Nat \cup {None}]
  /\ stream \in [Streams -> {"closed", "opened", "requested", "handled", "waiting"}]
  /\ response \in [Streams -> Snapshot \cup {None}]
  /\ client \in [Streams -> Snapshot]
  /\ opens \in Nat /\ closes \in Nat
  /\ lapsed \subseteq Streams

(* Only a waiting stream has a watch or a response on its way, and never    *)
(* both.  An open watch belongs to a node with a status entry, and waits    *)
(* for a version its proxy does not have: SetSnapshot leaves no stream      *)
(* waiting for what is already there.                                       *)
WatchesWait ==
  \A s \in Streams :
    /\ response[s] # None => stream[s] = "waiting"
    /\ watch[s] # None =>
         /\ stream[s] = "waiting" /\ response[s] = None
         /\ NodeOf[s] \in status
         /\ watch[s] = client[s].version
         /\ snapshot[NodeOf[s]] # None => snapshot[NodeOf[s]].version = client[s].version

(* The versions a node's proxy has or is being sent are not newer than the  *)
(* node's snapshot, nor any snapshot newer than the last one generated.     *)
VersionsOrdered ==
  /\ gen # None <=> pc \in {"keys", "set"}
  /\ gen # None => gen.version = clock
  /\ \A n \in Nodes : snapshot[n] # None => snapshot[n].version <= clock
  /\ \A s \in Streams :
       LET held == snapshot[NodeOf[s]] IN
       /\ client[s].version <= clock
       /\ held # None => client[s].version <= held.version
       /\ response[s] # None =>
            /\ client[s].version < response[s].version
            /\ response[s].version <= clock
            /\ held # None => response[s].version <= held.version

(* An event is on its way to the callback.                                  *)
Pending == notify \/ queue > 0 \/ bounced \/ pc = "retry"

(* Unless an event is on its way, what the callback stores is what the      *)
(* configuration asks for, or the default routes.                           *)
GenerationCurrent ==
  ~ Pending /\ pc \in {"keys", "set"} => gen.routes \in {config, DefaultRoutes}

(* The update has been through with a node, or has not begun.               *)
Served(n) == ~ Pending /\ (pc = "idle" \/ (pc = "set" /\ n \notin targets))

(* The snapshot of a served node is current, and there is one for a stream  *)
(* that waits for it, or will, without having asked for an update.          *)
CacheCurrent ==
  \A s \in Streams \ lapsed :
    LET n == NodeOf[s] IN
    Served(n) =>
      /\ HasNode(n) => snapshot[n].routes = config
      /\ stream[s] = "handled" \/ watch[s] # None => HasNode(n)

(* What a stream has, or is being sent, is what the cache takes it for.     *)
VersionsTell ==
  \A s \in Streams \ lapsed :
    LET held == snapshot[NodeOf[s]] IN
    held # None =>
      \A x \in {client[s], response[s]} \ {None} : x.version = held.version => x = held

IInv ==
  /\ TypeOK /\ WatchesWait /\ VersionsOrdered
  /\ GenerationCurrent /\ CacheCurrent /\ VersionsTell

(* The routes of a proxy are only ever replaced by those of a newer         *)
(* version, whatever streams are closed and reopened and whenever           *)
(* updateRouteCache runs.                                                   *)
NeverBackwards ==
  [][\A s \in Streams :
       client'[s] = client[s] \/ client[s].version < client'[s].version]_vars

(* The snapshots that are still somewhere.                                  *)
Published ==
  ({gen} \cup {snapshot[n] : n \in Nodes} \cup {client[s] : s \in Streams}
    \cup {response[s] : s \in Streams}) \ {None}

Publication == INSTANCE RoutePublication
  WITH Subscribers <- Streams, asked <- config, live <- Published, view <- client

(* The cache, the channel and the streams together implement the abstract   *)
(* publication: every proxy moves from one set of routes that the           *)
(* configuration asked for to one generated in a later second.              *)
Publishes == Publication!Spec

(* No event is pending and updateRouteCache is not running.                 *)
Quiet == ~ Pending /\ pc = "idle"

(* When everything has come to rest, a proxy that waits for news has the    *)
(* routes the configuration asks for, unless the last update passed over    *)
(* its stream: its request was overtaken, the node had been cleared, the    *)
(* routes it has are of the same second, the MetaRouters could not be read, *)
(* or the retries were used up.                                             *)
CurrentWhenQuiet ==
  Quiet => \A s \in Streams \ lapsed :
             watch[s] # None => client[s].routes = config

(* The watch of an open stream was cleared with another stream of its node. *)
Stranded(s) == stream[s] = "waiting" /\ watch[s] = None /\ response[s] = None

(* Once the configuration stops changing, every proxy with an open stream   *)
(* gets and keeps the current routes, unless the last update passed over    *)
(* the stream or its watch was cleared: "Dynamic route update through       *)
(* Aeraki MetaRDS".                                                         *)
EventuallyCurrent ==
  <>[](\A s \in Streams \ lapsed :
         stream[s] = "closed" \/ client[s].routes = config \/ Stranded(s))

(* However often the generation or SetSnapshot fails, the update comes to   *)
(* rest, and no event stays in the channel.                                 *)
EventuallyQuiet == <>[]Quiet
=============================================================================
