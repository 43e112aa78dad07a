-------------------------- MODULE RouteCacheProofs --------------------------
(***************************************************************************)
(* Proofs about the route cache: for every set of proxies and streams,     *)
(* however they share nodes, and any number of changes and failures.       *)
(***************************************************************************)
EXTENDS RouteCache, TLAPS

(* What the two invariants beside the type invariant are about.             *)
core == <<pc, gen, clock, snapshot, status, watch, stream, response, client>>

Base == TypeOK /\ WatchesWait /\ VersionsOrdered

(* Steps that only move events through the channel keep both invariants.    *)
LEMMA CoreUnchanged ==
  ASSUME WatchesWait, VersionsOrdered, UNCHANGED core
  PROVE  WatchesWait' /\ VersionsOrdered'
BY DEF core, WatchesWait, VersionsOrdered

(* No proxy, snapshot or watch exists at first.                             *)
LEMMA InitBase == Init => Base
<1> SUFFICES ASSUME Init PROVE Base
  OBVIOUS
<1>1. Start \in Snapshot
  BY ConstantAssumption DEF Start, Snapshot, Routes, DefaultRoutes
<1>2. TypeOK
  <2>1. /\ config \in 1..(MaxEdits + 1) /\ queue \in 0..Capacity /\ retries \in 0..MaxRetries
        /\ clock \in Nat /\ opens \in Nat /\ closes \in Nat
    BY ConstantAssumption DEF Init
  <2>2. /\ snapshot \in [Nodes -> Snapshot \cup {None}] /\ watch \in [Streams -> Nat \cup {None}]
        /\ stream \in [Streams -> {"closed", "opened", "requested", "handled", "waiting"}]
        /\ response \in [Streams -> Snapshot \cup {None}] /\ client \in [Streams -> Snapshot]
    BY <1>1 DEF Init
  <2> QED
    BY <1>1, <2>1, <2>2 DEF Init, TypeOK
<1>3. WatchesWait
  BY DEF Init, WatchesWait
<1>4. VersionsOrdered
  BY ConstantAssumption DEF Init, VersionsOrdered, Start
<1> QED
  BY <1>2, <1>3, <1>4 DEF Base

(* Changes and events.                                                      *)
LEMMA ChangeBase == ASSUME Base, Change PROVE Base'
<1>1. TypeOK'
  BY ConstantAssumption DEF Base, TypeOK, Change, callback, cache, proxies, bounds
<1>2. UNCHANGED core
  BY DEF Change, callback, cache, proxies, core
<1> QED
  BY <1>1, <1>2, CoreUnchanged DEF Base

(* See ChangeBase.                                                           *)
LEMMA ConfigUpdatedBase == ASSUME Base, ConfigUpdated PROVE Base'
<1>a. queue' \in 0..Capacity
  BY ConstantAssumption DEF Base, TypeOK, ConfigUpdated
<1>1. TypeOK'
  BY <1>a DEF Base, TypeOK, ConfigUpdated, callback, cache, proxies, bounds
<1>2. UNCHANGED core
  BY DEF ConfigUpdated, callback, cache, proxies, core
<1> QED
  BY <1>1, <1>2, CoreUnchanged DEF Base

(* See ChangeBase.                                                           *)
LEMMA ReceiveBase == ASSUME Base, Receive PROVE Base'
<1>1. TypeOK'
  BY ConstantAssumption DEF Base, TypeOK, Receive, callback, cache, proxies, bounds
<1>2. UNCHANGED core
  BY DEF Receive, callback, cache, proxies, core
<1> QED
  BY <1>1, <1>2, CoreUnchanged DEF Base

(* See ChangeBase: only the callback's position moves.                       *)
LEMMA RetryBase == ASSUME Base, Retry PROVE Base'
<1>1. TypeOK'
  BY ConstantAssumption DEF Base, TypeOK, Retry, cache, proxies, bounds
<1> QED
  BY <1>1 DEF Base, WatchesWait, VersionsOrdered, Retry, cache, proxies

(* The debouncer's event is used up when it fires.                          *)
LEMMA FiresOnce == Fires => bounced' = FALSE
BY Zenon DEF Fires

(* See ChangeBase.                                                           *)
LEMMA IgnoreUpdateBase == ASSUME Base, IgnoreUpdate PROVE Base'
<1>d. lapsed' \subseteq Streams
  BY DEF Base, TypeOK, IgnoreUpdate, PassedOver
<1>a. retries' \in 0..MaxRetries
  BY ConstantAssumption DEF IgnoreUpdate
<1>c. bounced' \in BOOLEAN
  BY FiresOnce DEF IgnoreUpdate
<1>b. UNCHANGED <<config, notify, queue, pc, gen, targets, clock, cache, proxies, bounds>>
  BY DEF IgnoreUpdate
<1>1. TypeOK'
  BY <1>a, <1>b, <1>c, <1>d DEF Base, TypeOK, cache, proxies, bounds
<1>2. UNCHANGED core
  BY DEF IgnoreUpdate, cache, proxies, core
<1> QED
  BY <1>1, <1>2, CoreUnchanged DEF Base

(* A generation takes the newest version.                                   *)
LEMMA GenerateWithBase ==
  ASSUME Base, NEW r \in Routes, GenerateWith(r)
  PROVE  Base'
<1>1. gen' \in Snapshot /\ gen'.version = clock' /\ clock' \in Nat /\ clock <= clock'
  BY DEF Base, TypeOK, GenerateWith, Snapshot, Now, Start
<1>0. gen' # None
  BY <1>1, NoneAssumption
<1>2. TypeOK'
  <2>a. bounced' \in BOOLEAN
    BY FiresOnce DEF GenerateWith
  <2>2. /\ pc' = "keys"
        /\ UNCHANGED <<config, notify, queue, targets, retries, cache, proxies, bounds, lapsed>>
    BY DEF GenerateWith
  <2> QED
    BY <1>1, <2>a, <2>2 DEF Base, TypeOK, cache, proxies, bounds
<1>3. WatchesWait'
  BY DEF Base, WatchesWait, GenerateWith, cache, proxies
<1>4. \A m \in Nat : m <= clock => m <= clock'
  BY <1>1 DEF Base, TypeOK
<1>5. VersionsOrdered'
  <2>1. /\ snapshot' = snapshot /\ client' = client /\ response' = response
    BY DEF GenerateWith, cache, proxies
  <2>2. \A n \in Nodes : snapshot[n] # None => snapshot[n].version \in Nat
    BY DEF Base, TypeOK, Snapshot
  <2>3. \A s \in Streams : response[s] # None => response[s].version \in Nat
    BY DEF Base, TypeOK, Snapshot
  <2>4. \A s \in Streams : client[s].version \in Nat
    BY DEF Base, TypeOK, Snapshot
  <2>5. gen' # None <=> pc' \in {"keys", "set"}
    BY <1>0 DEF GenerateWith
  <2> QED
    BY <1>1, <1>4, <2>1, <2>2, <2>3, <2>4, <2>5 DEF Base, VersionsOrdered
<1> QED
  BY <1>2, <1>3, <1>5 DEF Base

(* Generation, with the MetaRouters or without them.                        *)
LEMMA GenerateBase == ASSUME Base, Generate \/ GenerateDefault PROVE Base'
<1>1. config \in Routes /\ DefaultRoutes \in Routes
  BY ConstantAssumption DEF Base, TypeOK, Routes, DefaultRoutes
<1> QED
  BY <1>1, GenerateWithBase DEF Generate, GenerateDefault

(* A failed attempt is counted, and only moves the callback.                *)
LEMMA FailedType ==
  ASSUME TypeOK, NEW unserved \in SUBSET Streams, Failed(unserved)
  PROVE  retries' \in 0..MaxRetries /\ pc' \in {"idle", "retry"} /\ lapsed' \subseteq Streams
<1>1. retries' \in 0..MaxRetries
  BY ConstantAssumption DEF TypeOK, Failed
<1>2. pc' \in {"idle", "retry"} /\ lapsed' \subseteq Streams
  BY DEF TypeOK, Failed
<1> QED
  BY <1>1, <1>2

(* A failed generation changes nothing but the position of the callback.    *)
LEMMA GenerateFailsBase == ASSUME Base, GenerateFails PROVE Base'
<1> DEFINE unserved == StreamsTo(status) \cup PassedOver
<1>1. unserved \in SUBSET Streams /\ Failed(unserved)
  BY DEF GenerateFails, StreamsTo, PassedOver
<1>2. retries' \in 0..MaxRetries /\ pc' \in {"idle", "retry"} /\ lapsed' \subseteq Streams
  BY <1>1, FailedType DEF Base
<1>3. bounced' \in BOOLEAN
  BY FiresOnce DEF GenerateFails
<1>4. UNCHANGED <<config, notify, queue, gen, targets, clock, cache, proxies, bounds>>
  BY DEF GenerateFails
<1>5. TypeOK'
  BY <1>2, <1>3, <1>4 DEF Base, TypeOK, cache, proxies, bounds
<1>6. WatchesWait'
  BY <1>4 DEF Base, WatchesWait, cache, proxies
<1>7. gen = None
  BY DEF Base, VersionsOrdered, GenerateFails, Fires
<1>8. VersionsOrdered'
  BY <1>2, <1>4, <1>7 DEF Base, VersionsOrdered, cache, proxies
<1> QED
  BY <1>5, <1>6, <1>8 DEF Base

(* Reading the nodes changes neither versions nor watches.                  *)
LEMMA StatusKeysBase == ASSUME Base, StatusKeys PROVE Base'
<1>1. TypeOK'
  BY DEF Base, TypeOK, StatusKeys, PassedOver, cache, proxies, bounds
<1> QED
  BY <1>1 DEF Base, WatchesWait, VersionsOrdered, StatusKeys, cache, proxies

(* The snapshot that is stored is the newest one, and it leaves no watch    *)
(* with another version open.                                               *)
LEMMA SetSnapshotBase == ASSUME Base, NEW n \in Nodes, SetSnapshot(n) PROVE Base'
<1>1. gen \in Snapshot /\ gen.version \in Nat /\ gen.version = clock /\ gen # None
  BY NoneAssumption DEF Base, TypeOK, VersionsOrdered, SetSnapshot, Snapshot
<1>2. TypeOK'
  <2>1. snapshot' \in [Nodes -> Snapshot \cup {None}]
    BY <1>1 DEF Base, TypeOK, SetSnapshot
  <2>2. response' \in [Streams -> Snapshot \cup {None}] /\ watch' \in [Streams -> Nat \cup {None}]
    BY <1>1 DEF Base, TypeOK, SetSnapshot
  <2>3. lapsed' \subseteq Streams
    BY DEF Base, TypeOK, SetSnapshot, StreamsOf, Tied
  <2> QED
    BY <2>1, <2>2, <2>3 DEF Base, TypeOK, SetSnapshot, bounds
<1>a. \A s \in Streams : response'[s] # None => stream'[s] = "waiting"
  BY DEF Base, WatchesWait, SetSnapshot, Answered
<1>3. WatchesWait'
  <2> SUFFICES ASSUME NEW s \in Streams, watch'[s] # None
               PROVE  /\ stream'[s] = "waiting" /\ response'[s] = None
                      /\ NodeOf[s] \in status'
                      /\ watch'[s] = client'[s].version
                      /\ snapshot'[NodeOf[s]] # None =>
                           snapshot'[NodeOf[s]].version = client'[s].version
    BY <1>a DEF WatchesWait
  <2>1. s \notin Answered(n) /\ watch'[s] = watch[s] /\ response'[s] = response[s]
    BY DEF SetSnapshot
  <2>2. NodeOf[s] = n => watch[s] = gen.version
    BY <2>1 DEF Answered, StreamsOf
  <2>3. snapshot'[NodeOf[s]] = IF NodeOf[s] = n THEN gen ELSE snapshot[NodeOf[s]]
    BY ConstantAssumption DEF Base, TypeOK, SetSnapshot
  <2> QED
    BY <2>1, <2>2, <2>3 DEF Base, WatchesWait, SetSnapshot
<1>4. VersionsOrdered'
  <2>1. \A m \in Nodes : snapshot'[m] = IF m = n THEN gen ELSE snapshot[m]
    BY DEF Base, TypeOK, SetSnapshot
  <2>2. \A s \in Streams : response'[s] = gen \/ response'[s] = response[s]
    BY DEF SetSnapshot
  <2>3. \A s \in Streams : s \in Answered(n) => NodeOf[s] = n
    BY DEF Answered, StreamsOf
  <2>4. \A s \in Streams : NodeOf[s] # n => response'[s] = response[s]
    BY <2>3 DEF SetSnapshot
  <2>5. \A s \in Streams : NodeOf[s] \in Nodes
    BY ConstantAssumption
  <2>6. /\ clock' = clock /\ gen' = gen /\ pc' = pc /\ client' = client
    BY DEF SetSnapshot
  <2>7. clock <= clock
    BY DEF Base, TypeOK
  <2>8. \A s \in Answered(n) : client[s].version < gen.version
    <3>1. \A s \in Streams : client[s].version \in Nat /\ client[s].version <= clock
      BY DEF Base, TypeOK, VersionsOrdered, Snapshot
    <3>2. \A s \in Answered(n) : s \in Streams /\ client[s].version # gen.version
      BY DEF Base, WatchesWait, Answered, StreamsOf
    <3>3. \A a, b \in Nat : a <= b /\ a # b => a < b
      OBVIOUS
    <3> QED
      BY <1>1, <3>1, <3>2, <3>3
  <2> QED
    <3>1. ASSUME NEW s \in Streams, response'[s] # None
          PROVE  /\ client[s].version < response'[s].version /\ response'[s].version <= clock
                 /\ snapshot'[NodeOf[s]] # None => response'[s].version <= snapshot'[NodeOf[s]].version
      <4>1. CASE s \in Answered(n)
        BY <1>1, <2>1, <2>3, <2>7, <2>8, <3>1, <4>1 DEF SetSnapshot
      <4>2. CASE s \notin Answered(n)
        <5>1. response'[s] = response[s]
          BY <4>2 DEF SetSnapshot
        <5> QED
          BY <1>1, <2>1, <2>5, <3>1, <5>1 DEF Base, VersionsOrdered
      <4> QED
        BY <4>1, <4>2
    <3>2. \A s \in Streams : client[s].version <= clock /\
            (snapshot'[NodeOf[s]] # None => client[s].version <= snapshot'[NodeOf[s]].version)
      BY <1>1, <2>1, <2>5 DEF Base, VersionsOrdered
    <3>3. \A m \in Nodes : snapshot'[m] # None => snapshot'[m].version <= clock
      BY <1>1, <2>1, <2>7 DEF Base, VersionsOrdered
    <3>4. gen' # None <=> pc' \in {"keys", "set"}
      BY <2>6 DEF Base, VersionsOrdered
    <3> QED
      BY <1>1, <2>6, <3>1, <3>2, <3>3, <3>4 DEF VersionsOrdered
<1> QED
  BY <1>2, <1>3, <1>4 DEF Base

(* The end of an update, successful or not.                                 *)
LEMMA EndUpdateBase == ASSUME Base, EndUpdate PROVE Base'
<1>1. TypeOK'
  BY ConstantAssumption DEF Base, TypeOK, EndUpdate, cache, proxies, bounds
<1> QED
  BY <1>1 DEF Base, WatchesWait, VersionsOrdered, EndUpdate, cache, proxies

(* See EndUpdateBase.                                                        *)
LEMMA SetSnapshotFailsBase == ASSUME Base, SetSnapshotFails PROVE Base'
<1>1. StreamsTo(targets) \in SUBSET Streams /\ Failed(StreamsTo(targets))
  BY DEF SetSnapshotFails, StreamsTo
<1>2. retries' \in 0..MaxRetries /\ pc' \in {"idle", "retry"} /\ lapsed' \subseteq Streams
  BY <1>1, FailedType DEF Base
<1>3. /\ UNCHANGED <<config, notify, queue, bounced, clock, cache, proxies, bounds>>
      /\ gen' = None /\ targets' = {}
  BY DEF SetSnapshotFails
<1>4. TypeOK'
  BY <1>2, <1>3 DEF Base, TypeOK, cache, proxies, bounds
<1> QED
  BY <1>2, <1>3, <1>4 DEF Base, WatchesWait, VersionsOrdered, cache, proxies

(* A stream that is not waiting has no watch, so it can move.               *)
LEMMA OpenBase == ASSUME Base, NEW s \in Streams, Open(s) PROVE Base'
<1>1. TypeOK'
  BY DEF Base, TypeOK, Open, callback, cache
<1>2. VersionsOrdered'
  BY DEF Base, VersionsOrdered, Open, callback, cache
<1>3. WatchesWait'
  BY DEF Base, TypeOK, WatchesWait, Open, callback, cache
<1> QED
  BY <1>1, <1>2, <1>3 DEF Base

(* See OpenBase.                                                             *)
LEMMA OnStreamRequestBase == ASSUME Base, NEW s \in Streams, OnStreamRequest(s) PROVE Base'
<1>1. TypeOK'
  BY ConstantAssumption DEF Base, TypeOK, OnStreamRequest, callback, cache, bounds
<1>2. VersionsOrdered'
  BY DEF Base, VersionsOrdered, OnStreamRequest, callback, cache
<1>3. WatchesWait'
  BY DEF Base, TypeOK, WatchesWait, OnStreamRequest, callback, cache
<1> QED
  BY <1>1, <1>2, <1>3 DEF Base

(* A watch is opened only with the snapshot's version, and a response is    *)
(* the node's snapshot, which is not older than what the proxy has.         *)
LEMMA CreateWatchBase == ASSUME Base, NEW s \in Streams, CreateWatch(s) PROVE Base'
<1> DEFINE n == NodeOf[s]
<1>0. n \in Nodes
  BY ConstantAssumption
<1>1. CASE HasNode(n) /\ snapshot[n].version # client[s].version
  <2>1. /\ response' = [response EXCEPT ![s] = snapshot[n]] /\ watch' = watch
        /\ stream' = [stream EXCEPT ![s] = "waiting"] /\ status' = status \cup {n}
        /\ UNCHANGED <<config, notify, queue, bounced, callback, snapshot, client, bounds, lapsed>>
    BY <1>1 DEF CreateWatch
  <2>2. snapshot[n] \in Snapshot /\ snapshot[n] # None
    BY <1>0, <1>1 DEF Base, TypeOK, HasNode
  <2>3. watch[s] = None
    BY DEF Base, WatchesWait, CreateWatch
  <2>4. TypeOK'
    BY <1>0, <2>1, <2>2 DEF Base, TypeOK, callback, bounds
  <2>5. WatchesWait'
    BY <2>1, <2>3 DEF Base, TypeOK, WatchesWait
  <2>6. VersionsOrdered'
    <3>1. \A t \in Streams : response'[t] = IF t = s THEN snapshot[n] ELSE response[t]
      BY <2>1 DEF Base, TypeOK
    <3>2. snapshot[n].version <= snapshot[n].version
      BY <2>2 DEF Snapshot
    <3>3. client[s].version < snapshot[n].version
      <4>1. client[s].version \in Nat /\ snapshot[n].version \in Nat
        BY <2>2 DEF Base, TypeOK, Snapshot
      <4>2. client[s].version <= snapshot[n].version /\ client[s].version # snapshot[n].version
        BY <1>1, <2>2 DEF Base, VersionsOrdered
      <4> QED
        BY <4>1, <4>2
    <3> QED
      BY <1>0, <2>1, <2>2, <3>1, <3>2, <3>3 DEF Base, VersionsOrdered, callback
  <2> QED
    BY <2>4, <2>5, <2>6 DEF Base
<1>2. CASE ~ (HasNode(n) /\ snapshot[n].version # client[s].version)
  <2>1. /\ watch' = [watch EXCEPT ![s] = client[s].version] /\ response' = response
        /\ stream' = [stream EXCEPT ![s] = "waiting"] /\ status' = status \cup {n}
        /\ UNCHANGED <<config, notify, queue, bounced, callback, snapshot, client, bounds, lapsed>>
    BY <1>2 DEF CreateWatch
  <2>2. client[s].version \in Nat
    BY DEF Base, TypeOK, Snapshot
  <2>3. TypeOK'
    BY <1>0, <2>1, <2>2 DEF Base, TypeOK, callback, bounds
  <2>4. VersionsOrdered'
    BY <2>1 DEF Base, VersionsOrdered, callback
  <2>5. response[s] = None
    BY DEF Base, WatchesWait, CreateWatch
  <2>6. WatchesWait'
    BY <1>2, <2>1, <2>5 DEF Base, TypeOK, WatchesWait, HasNode
  <2> QED
    BY <2>3, <2>4, <2>6 DEF Base
<1> QED
  BY <1>1, <1>2

(* A proxy takes a response that is not older than what it has, nor newer   *)
(* than its node's snapshot.                                                *)
LEMMA AcknowledgeBase == ASSUME Base, NEW s \in Streams, Acknowledge(s) PROVE Base'
<1>1. response[s] \in Snapshot
  BY DEF Base, TypeOK, Acknowledge
<1>2. TypeOK'
  BY <1>1 DEF Base, TypeOK, Acknowledge, callback, cache, bounds
<1>3. watch[s] = None
  BY DEF Base, WatchesWait, Acknowledge
<1>4. WatchesWait'
  BY <1>3 DEF Base, TypeOK, WatchesWait, Acknowledge, cache
<1>5. VersionsOrdered'
  BY DEF Base, TypeOK, VersionsOrdered, Acknowledge, callback, cache
<1> QED
  BY <1>2, <1>4, <1>5 DEF Base

(* A closed stream takes the watches and the snapshot of its node with it.  *)
LEMMA OnStreamClosedBase == ASSUME Base, NEW s \in Streams, OnStreamClosed(s) PROVE Base'
<1>a. /\ snapshot' \in [Nodes -> Snapshot \cup {None}] /\ status' \subseteq Nodes
      /\ watch' \in [Streams -> Nat \cup {None}] /\ response' \in [Streams -> Snapshot \cup {None}]
  BY DEF Base, TypeOK, OnStreamClosed
<1>b. /\ stream' \in [Streams -> {"closed", "opened", "requested", "handled", "waiting"}]
      /\ closes' \in Nat /\ lapsed' \subseteq Streams
  BY DEF Base, TypeOK, OnStreamClosed, StreamsOf
<1>1. TypeOK'
  BY <1>a, <1>b DEF Base, TypeOK, OnStreamClosed, callback
<1>2. WatchesWait'
  BY ConstantAssumption DEF Base, TypeOK, WatchesWait, OnStreamClosed
<1>3. VersionsOrdered'
  BY ConstantAssumption DEF Base, TypeOK, VersionsOrdered, OnStreamClosed, callback
<1> QED
  BY <1>1, <1>2, <1>3 DEF Base

-----------------------------------------------------------------------------
(* What a stream that no update passed over has is current.                 *)
Current == GenerationCurrent /\ CacheCurrent /\ VersionsTell

(* An event on its way makes no promise about the cache.                    *)
LEMMA PendingCurrent ==
  ASSUME Current, Pending', lapsed \subseteq lapsed', UNCHANGED <<snapshot, client, response>>
  PROVE  Current'
<1>1. GenerationCurrent' /\ CacheCurrent'
  BY DEF GenerationCurrent, CacheCurrent, Served
<1>2. VersionsTell'
  BY DEF Current, VersionsTell
<1> QED
  BY <1>1, <1>2 DEF Current

(* Before an event reaches the callback.                                    *)
LEMMA ChannelCurrent == ASSUME Base, Current, Change \/ Channel PROVE Current'
<1>1. Pending'
  <2>1. CASE Change \/ Receive
    BY <2>1 DEF Change, Receive, Pending
  <2>2. CASE ConfigUpdated \/ Retry
    BY <2>2 DEF ConfigUpdated, Retry, Pending, Base, TypeOK
  <2> QED
    BY <2>1, <2>2 DEF Channel
<1>2. lapsed' = lapsed /\ UNCHANGED <<snapshot, client, response>>
  BY DEF Change, Channel, ConfigUpdated, Receive, Retry, cache, proxies
<1> QED
  BY <1>1, <1>2, PendingCurrent

(* A stream that an update neither stores anything for nor passes over has  *)
(* no snapshot, and does not wait for one.                                  *)
LEMMA NotPassedOver ==
  ASSUME Base, NEW s \in Streams \ PassedOver, NodeOf[s] \notin status
  PROVE  ~ HasNode(NodeOf[s]) /\ stream[s] # "handled" /\ watch[s] = None
BY DEF Base, WatchesWait, PassedOver

(* An update that nobody is there for.                                      *)
LEMMA IgnoreUpdateCurrent == ASSUME Base, Current, IgnoreUpdate PROVE Current'
<1>1. /\ pc' = "idle" /\ status = {} /\ lapsed' = lapsed \cup PassedOver
      /\ UNCHANGED <<snapshot, status, watch, stream, response, client>>
  BY DEF IgnoreUpdate, Fires, cache, proxies
<1>2. GenerationCurrent'
  BY <1>1 DEF GenerationCurrent
<1>3. CacheCurrent'
  BY <1>1, NotPassedOver DEF CacheCurrent, HasNode
<1>4. VersionsTell'
  BY <1>1 DEF Current, VersionsTell
<1> QED
  BY <1>2, <1>3, <1>4 DEF Current

(* What is generated is what the configuration asks for, or the default.    *)
LEMMA GenerateCurrent == ASSUME Base, Current, Generate \/ GenerateDefault PROVE Current'
<1>1. /\ pc' = "keys" /\ gen'.routes \in {config', DefaultRoutes}
      /\ UNCHANGED <<snapshot, response, client, lapsed>>
  BY DEF Generate, GenerateDefault, GenerateWith, cache, proxies
<1>2. GenerationCurrent' /\ CacheCurrent'
  BY <1>1 DEF GenerationCurrent, CacheCurrent, Served
<1>3. VersionsTell'
  BY <1>1 DEF Current, VersionsTell
<1> QED
  BY <1>2, <1>3 DEF Current

(* A failure is retried, or the streams it leaves unserved lapse.           *)
LEMMA GenerateFailsCurrent == ASSUME Base, Current, GenerateFails PROVE Current'
<1>1. UNCHANGED <<snapshot, status, watch, stream, response, client>>
  BY DEF GenerateFails, cache, proxies
<1>2. CASE pc' = "retry" /\ lapsed' = lapsed
  <2>1. Pending'
    BY <1>2 DEF Pending
  <2> QED
    BY <1>1, <1>2, <2>1, PendingCurrent
<1>3. CASE pc' = "idle" /\ lapsed' = lapsed \cup (StreamsTo(status) \cup PassedOver)
  <2>1. GenerationCurrent'
    BY <1>3 DEF GenerationCurrent
  <2>2. \A s \in Streams \ lapsed' : s \notin PassedOver /\ NodeOf[s] \notin status
    BY <1>3 DEF StreamsTo
  <2>3. CacheCurrent'
    BY <1>1, <2>2, NotPassedOver DEF CacheCurrent, HasNode
  <2>4. VersionsTell'
    BY <1>1, <1>3 DEF Current, VersionsTell
  <2> QED
    BY <2>1, <2>3, <2>4 DEF Current
<1> QED
  BY <1>2, <1>3 DEF GenerateFails, Failed

(* The nodes that the loop will not serve have been passed over.            *)
LEMMA StatusKeysCurrent == ASSUME Base, Current, StatusKeys PROVE Current'
<1>1. /\ pc = "keys" /\ pc' = "set" /\ targets' = status /\ lapsed' = lapsed \cup PassedOver
      /\ UNCHANGED <<config, notify, queue, bounced, gen>>
      /\ UNCHANGED <<snapshot, status, watch, stream, response, client>>
  BY DEF StatusKeys, cache, proxies
<1>2. Pending' => Pending
  BY <1>1 DEF Pending
<1>3. Pending => Pending'
  BY <1>1 DEF Pending
<1>4. GenerationCurrent'
  BY <1>1, <1>3 DEF Current, GenerationCurrent
<1>5. CacheCurrent'
  BY <1>1, NotPassedOver DEF CacheCurrent, HasNode, Served
<1>6. VersionsTell'
  BY <1>1 DEF Current, VersionsTell
<1> QED
  BY <1>4, <1>5, <1>6 DEF Current

(* The end of an update.                                                    *)
LEMMA EndUpdateCurrent == ASSUME Base, Current, EndUpdate PROVE Current'
<1>1. /\ pc = "set" /\ pc' = "idle" /\ targets = {} /\ lapsed' = lapsed
      /\ UNCHANGED <<config, notify, queue, bounced>>
      /\ UNCHANGED <<snapshot, status, watch, stream, response, client>>
  BY DEF EndUpdate, cache, proxies
<1>2. Pending' = Pending
  BY <1>1 DEF Pending
<1>3. GenerationCurrent'
  BY <1>1 DEF GenerationCurrent
<1>4. \A n : Served(n)' => Served(n)
  BY <1>1, <1>2 DEF Served
<1>5. CacheCurrent'
  BY <1>1, <1>4 DEF Current, CacheCurrent, HasNode
<1>6. VersionsTell'
  BY <1>1 DEF Current, VersionsTell
<1> QED
  BY <1>3, <1>5, <1>6 DEF Current

(* See GenerateFailsCurrent.                                                *)
LEMMA SetSnapshotFailsCurrent == ASSUME Base, Current, SetSnapshotFails PROVE Current'
<1>1. /\ pc = "set" /\ UNCHANGED <<config, notify, queue, bounced>>
      /\ UNCHANGED <<snapshot, status, watch, stream, response, client>>
  BY DEF SetSnapshotFails, cache, proxies
<1>2. CASE pc' = "retry" /\ lapsed' = lapsed
  <2>1. Pending'
    BY <1>2 DEF Pending
  <2> QED
    BY <1>1, <1>2, <2>1, PendingCurrent
<1>3. CASE pc' = "idle" /\ lapsed' = lapsed \cup StreamsTo(targets)
  <2>1. GenerationCurrent'
    BY <1>3 DEF GenerationCurrent
  <2>2. \A s \in Streams \ lapsed' : s \in Streams \ lapsed /\ NodeOf[s] \notin targets
    BY <1>3 DEF StreamsTo
  <2>3. Pending' = Pending
    BY <1>1, <1>3 DEF Pending
  <2>4. \A s \in Streams \ lapsed' : Served(NodeOf[s])' => Served(NodeOf[s])
    BY <1>1, <2>2, <2>3 DEF Served
  <2>5. CacheCurrent'
    BY <1>1, <2>2, <2>4 DEF Current, CacheCurrent, HasNode
  <2>6. VersionsTell'
    BY <1>1, <1>3 DEF Current, VersionsTell
  <2> QED
    BY <2>1, <2>5, <2>6 DEF Current
<1> QED
  BY <1>2, <1>3 DEF SetSnapshotFails, Failed

(* The streams of the node get the generation, or are found to have it; the *)
(* others are left alone.                                                   *)
LEMMA SetSnapshotCurrent ==
  ASSUME Base, Current, NEW n \in Nodes, SetSnapshot(n) PROVE Current'
<1>0. /\ pc = "set" /\ targets' = targets \ {n}
      /\ UNCHANGED <<config, notify, queue, bounced, pc, gen, status, stream, client>>
  BY DEF SetSnapshot
<1>1. Pending' = Pending
  BY <1>0 DEF Pending
<1>2. gen # None
  BY DEF Base, VersionsOrdered, SetSnapshot
<1>3. \A m \in Nodes : snapshot'[m] = IF m = n THEN gen ELSE snapshot[m]
  BY DEF Base, TypeOK, SetSnapshot
<1>4. \A s \in Streams : NodeOf[s] \in Nodes
  BY ConstantAssumption
<1>5. \A s \in Streams : NodeOf[s] # n => response'[s] = response[s] /\ watch'[s] = watch[s]
  BY DEF SetSnapshot, Answered, StreamsOf
<1>6. \A s \in Streams \ lapsed' : NodeOf[s] # n => s \in Streams \ lapsed
  BY DEF SetSnapshot, StreamsOf
<1>7. \A s \in Streams \ lapsed' : NodeOf[s] = n => gen.routes # DefaultRoutes /\ s \notin Tied(n)
  BY DEF SetSnapshot, StreamsOf
<1>8. GenerationCurrent'
  BY <1>0, <1>1 DEF Current, GenerationCurrent
<1>9. CacheCurrent'
  <2> SUFFICES ASSUME NEW s \in Streams \ lapsed', Served(NodeOf[s])'
               PROVE  /\ HasNode(NodeOf[s])' => snapshot'[NodeOf[s]].routes = config'
                      /\ stream'[s] = "handled" \/ watch'[s] # None => HasNode(NodeOf[s])'
    BY DEF CacheCurrent
  <2>1. CASE NodeOf[s] = n
    <3>1. gen.routes = config
      BY <1>0, <1>1, <1>7, <2>1 DEF Current, GenerationCurrent, Served
    <3> QED
      BY <1>0, <1>2, <1>3, <2>1, <3>1 DEF HasNode
  <2>2. CASE NodeOf[s] # n
    <3>1. Served(NodeOf[s])
      BY <1>0, <1>1, <2>2 DEF Served
    <3> QED
      BY <1>0, <1>3, <1>4, <1>5, <1>6, <2>2, <3>1 DEF Current, CacheCurrent, HasNode
  <2> QED
    BY <2>1, <2>2
<1>10. VersionsTell'
  <2> SUFFICES ASSUME NEW s \in Streams \ lapsed', snapshot'[NodeOf[s]] # None,
                      NEW x \in {client'[s], response'[s]} \ {None},
                      x.version = snapshot'[NodeOf[s]].version
               PROVE  x = snapshot'[NodeOf[s]]
    BY DEF VersionsTell
  <2>1. CASE NodeOf[s] = n
    <3>1. snapshot'[NodeOf[s]] = gen
      BY <1>3, <2>1
    <3>2. x = gen \/ x \in {client[s], response[s]} \ {None}
      BY <1>0 DEF SetSnapshot
    <3>3. s \notin Tied(n)
      BY <1>7, <2>1
    <3> QED
      BY <2>1, <3>1, <3>2, <3>3 DEF Tied, StreamsOf
  <2>2. CASE NodeOf[s] # n
    BY <1>0, <1>3, <1>4, <1>5, <1>6, <2>2 DEF Current, VersionsTell
  <2> QED
    BY <2>1, <2>2
<1> QED
  BY <1>8, <1>9, <1>10 DEF Current

(* A step of a stream that leaves the callback and the cache alone.         *)
LEMMA OpenCurrent == ASSUME Base, Current, NEW s \in Streams, Open(s) PROVE Current'
<1>1. /\ UNCHANGED <<config, notify, queue, bounced, pc, gen, targets, snapshot, watch>>
      /\ UNCHANGED <<response, client, lapsed>>
      /\ \A t \in Streams : stream'[t] = "handled" => stream[t] = "handled"
  BY DEF Base, TypeOK, Open, callback, cache
<1>2. Pending' = Pending /\ \A n : Served(n)' = Served(n)
  BY <1>1 DEF Pending, Served
<1>3. GenerationCurrent' /\ VersionsTell'
  BY <1>1, <1>2 DEF Current, GenerationCurrent, VersionsTell
<1>4. CacheCurrent'
  BY <1>1, <1>2 DEF Current, CacheCurrent, HasNode
<1> QED
  BY <1>3, <1>4 DEF Current

(* A request finds a snapshot, or asks for an update.                       *)
LEMMA OnStreamRequestCurrent ==
  ASSUME Base, Current, NEW s \in Streams, OnStreamRequest(s) PROVE Current'
<1>0. /\ UNCHANGED <<config, notify, bounced, pc, gen, targets, snapshot, watch>>
      /\ UNCHANGED <<response, client, lapsed>>
      /\ \A t \in Streams : stream'[t] = "handled" => stream[t] = "handled" \/ t = s
  BY DEF Base, TypeOK, OnStreamRequest, callback, cache
<1>1. CASE queue' = queue + 1
  <2>1. Pending'
    BY <1>1 DEF Base, TypeOK, Pending
  <2> QED
    BY <1>0, <2>1, PendingCurrent
<1>2. CASE HasNode(NodeOf[s]) /\ queue' = queue
  <2>1. Pending' = Pending /\ \A n : Served(n)' = Served(n)
    BY <1>0, <1>2 DEF Pending, Served
  <2>2. GenerationCurrent' /\ VersionsTell'
    BY <1>0, <2>1 DEF Current, GenerationCurrent, VersionsTell
  <2>3. CacheCurrent'
    BY <1>0, <1>2, <2>1 DEF Current, CacheCurrent, HasNode
  <2> QED
    BY <2>2, <2>3 DEF Current
<1> QED
  BY <1>1, <1>2 DEF OnStreamRequest

(* A watch is opened where there is a snapshot, or was none to be passed    *)
(* over; a response is the snapshot.                                        *)
LEMMA CreateWatchCurrent ==
  ASSUME Base, Current, NEW s \in Streams, CreateWatch(s) PROVE Current'
<1>0. /\ UNCHANGED <<config, notify, queue, bounced, pc, gen, targets, snapshot, client, lapsed>>
      /\ stream[s] = "handled" /\ \A t \in Streams : stream'[t] = "handled" => stream[t] = "handled"
  BY DEF Base, TypeOK, CreateWatch, callback
<1>1. \A t \in Streams : watch'[t] = watch[t] \/ t = s
  BY DEF Base, TypeOK, CreateWatch
<1>2. \A t \in Streams : response'[t] = response[t] \/ (t = s /\ response'[t] = snapshot[NodeOf[t]])
  BY DEF Base, TypeOK, CreateWatch
<1>3. Pending' = Pending /\ \A n : Served(n)' = Served(n)
  BY <1>0 DEF Pending, Served
<1>4. GenerationCurrent'
  BY <1>0, <1>3 DEF Current, GenerationCurrent
<1>5. CacheCurrent'
  BY <1>0, <1>1, <1>3 DEF Current, CacheCurrent, HasNode
<1>6. VersionsTell'
  BY <1>0, <1>2 DEF Current, VersionsTell
<1> QED
  BY <1>4, <1>5, <1>6 DEF Current

(* A proxy takes what it is being sent.                                     *)
LEMMA AcknowledgeCurrent ==
  ASSUME Base, Current, NEW s \in Streams, Acknowledge(s) PROVE Current'
<1>0. /\ UNCHANGED <<config, notify, queue, bounced, pc, gen, targets, snapshot, watch, lapsed>>
      /\ \A t \in Streams : stream'[t] = "handled" => stream[t] = "handled"
  BY DEF Base, TypeOK, Acknowledge, callback, cache
<1>1. \A t \in Streams : {client'[t], response'[t]} \subseteq {client[t], response[t], None}
  BY DEF Base, TypeOK, Acknowledge
<1>2. Pending' = Pending /\ \A n : Served(n)' = Served(n)
  BY <1>0 DEF Pending, Served
<1>3. GenerationCurrent'
  BY <1>0, <1>2 DEF Current, GenerationCurrent
<1>4. CacheCurrent'
  BY <1>0, <1>2 DEF Current, CacheCurrent, HasNode
<1>5. VersionsTell'
  BY <1>0, <1>1 DEF Current, VersionsTell
<1> QED
  BY <1>3, <1>4, <1>5 DEF Current

(* A close clears the node, and a request under way on another of its       *)
(* streams lapses.                                                          *)
LEMMA OnStreamClosedCurrent ==
  ASSUME Base, Current, NEW s \in Streams, OnStreamClosed(s) PROVE Current'
<1>0. /\ UNCHANGED <<config, notify, queue, bounced, pc, gen, targets, client>>
      /\ \A t \in Streams : stream'[t] = "handled" => stream[t] = "handled"
  BY DEF Base, TypeOK, OnStreamClosed, callback
<1>1. \A t \in Streams : NodeOf[t] \in Nodes
  BY ConstantAssumption
<1>2. \A n \in Nodes : snapshot'[n] = IF n = NodeOf[s] THEN None ELSE snapshot[n]
  BY DEF Base, TypeOK, OnStreamClosed
<1>3. \A t \in Streams : watch'[t] = IF NodeOf[t] = NodeOf[s] THEN None ELSE watch[t]
  BY DEF OnStreamClosed
<1>4. \A t \in Streams \ lapsed' :
        t \in Streams \ lapsed /\ (NodeOf[t] = NodeOf[s] => stream[t] # "handled")
  BY DEF OnStreamClosed, StreamsOf
<1>5. \A t \in Streams : response'[t] \in {response[t], None}
  BY DEF Base, TypeOK, OnStreamClosed
<1>6. Pending' = Pending /\ \A n : Served(n)' = Served(n)
  BY <1>0 DEF Pending, Served
<1>7. GenerationCurrent'
  BY <1>0, <1>6 DEF Current, GenerationCurrent
<1>8. CacheCurrent'
  BY <1>0, <1>1, <1>2, <1>3, <1>4, <1>6 DEF Current, CacheCurrent, HasNode
<1>9. VersionsTell'
  BY <1>0, <1>1, <1>2, <1>4, <1>5 DEF Current, VersionsTell
<1> QED
  BY <1>7, <1>8, <1>9 DEF Current
-----------------------------------------------------------------------------
(* No proxy, snapshot or watch exists at first.                             *)
LEMMA InitInv == Init => IInv
<1>1. Init => Current
  BY ConstantAssumption DEF Init, Current, GenerationCurrent, CacheCurrent, VersionsTell, HasNode
<1> QED
  BY <1>1, InitBase DEF IInv, Base, Current

(* Every step preserves the invariant.                                      *)
LEMMA NextInv == IInv /\ [Next]_vars => IInv'
<1> SUFFICES ASSUME Base, Current, [Next]_vars PROVE Base' /\ Current'
  BY DEF IInv, Base, Current
<1>1. CASE Change
  BY <1>1, ChangeBase, ChannelCurrent
<1>2. CASE Channel
  BY <1>2, ConfigUpdatedBase, ReceiveBase, RetryBase, ChannelCurrent DEF Channel
<1>3. CASE Update
  <2>1. Base'
    BY <1>3, IgnoreUpdateBase, GenerateBase, GenerateFailsBase, StatusKeysBase, SetSnapshotBase,
       SetSnapshotFailsBase, EndUpdateBase DEF Update
  <2>2. Current'
    BY <1>3, IgnoreUpdateCurrent, GenerateCurrent, GenerateFailsCurrent, StatusKeysCurrent,
       SetSnapshotCurrent, SetSnapshotFailsCurrent, EndUpdateCurrent DEF Update
  <2> QED
    BY <2>1, <2>2
<1>4. ASSUME NEW s \in Streams, Server(s) PROVE Base' /\ Current'
  BY <1>4, OnStreamRequestBase, CreateWatchBase, OnStreamRequestCurrent, CreateWatchCurrent
     DEF Server
<1>5. ASSUME NEW s \in Streams, Proxy(s) PROVE Base' /\ Current'
  BY <1>5, OpenBase, AcknowledgeBase, OnStreamClosedBase, OpenCurrent, AcknowledgeCurrent,
     OnStreamClosedCurrent DEF Proxy
<1>6. CASE UNCHANGED vars
  <2>1. UNCHANGED core
    BY <1>6 DEF vars, core
  <2>2. TypeOK'
    BY <1>6 DEF Base, TypeOK, vars
  <2>3. Current'
    BY <1>6 DEF Current, GenerationCurrent, CacheCurrent, VersionsTell, HasNode, Served, Pending, vars
  <2> QED
    BY <2>1, <2>2, <2>3, CoreUnchanged DEF Base
<1> QED
  BY <1>1, <1>2, <1>3, <1>4, <1>5, <1>6 DEF Next

(* A step other than Acknowledge leaves what the proxies have alone.        *)
LEMMA ClientUnchanged ==
  ASSUME [Next]_vars, \A s \in Streams : ~ Acknowledge(s)
  PROVE  client' = client
BY DEF Next, Change, Channel, ConfigUpdated, Receive, Retry, Update, IgnoreUpdate, Generate,
   GenerateDefault, GenerateFails, GenerateWith, StatusKeys, SetSnapshot, SetSnapshotFails, EndUpdate, Server,
   OnStreamRequest, CreateWatch, Proxy, Open, OnStreamClosed, proxies, vars

(* IInv holds throughout: watches wait for something new, and versions are  *)
(* ordered along the way from the generation to the proxies.                *)
THEOREM Inductive == Spec => []IInv
BY InitInv, NextInv, PTL DEF Spec

(* No stream waits for routes that are already in the cache.                *)
THEOREM NoMissedSnapshot == Spec => []WatchesWait
<1>1. IInv => WatchesWait
  BY DEF IInv
<1> QED
  BY <1>1, Inductive, PTL

(* When all has come to rest, a proxy that waits has the current routes     *)
(* unless its stream was passed over: its node's snapshot is current, and   *)
(* of the version the proxy has, which tells the same routes.               *)
THEOREM AtRest == Spec => []CurrentWhenQuiet
<1>1. IInv => CurrentWhenQuiet
  <2> SUFFICES ASSUME IInv, Quiet, NEW s \in Streams \ lapsed, watch[s] # None
               PROVE  client[s].routes = config
    BY DEF CurrentWhenQuiet
  <2>1. Served(NodeOf[s])
    BY DEF Quiet, Served
  <2>2. HasNode(NodeOf[s]) /\ snapshot[NodeOf[s]].routes = config
    BY <2>1 DEF IInv, CacheCurrent
  <2>3. client[s].version = snapshot[NodeOf[s]].version
    BY <2>2 DEF IInv, WatchesWait, HasNode
  <2>4. client[s] # None
    BY NoneAssumption DEF IInv, TypeOK
  <2>5. client[s] = snapshot[NodeOf[s]]
    BY <2>2, <2>3, <2>4 DEF IInv, VersionsTell, HasNode
  <2> QED
    BY <2>2, <2>5
<1> QED
  BY <1>1, Inductive, PTL

(* The routes of a proxy are only replaced by those of a newer version.     *)
THEOREM Monotone == Spec => NeverBackwards
<1> DEFINE Forward == \A s \in Streams :
             client'[s] = client[s] \/ client[s].version < client'[s].version
<1>1. IInv /\ [Next]_vars => [Forward]_vars
  <2> SUFFICES ASSUME IInv, [Next]_vars, NEW s \in Streams
               PROVE  client'[s] = client[s] \/ client[s].version < client'[s].version
    OBVIOUS
  <2>1. ASSUME NEW t \in Streams, Acknowledge(t), client'[s] # client[s]
        PROVE  client[s].version < client'[s].version
    <3>1. client' = [client EXCEPT ![t] = response[t]] /\ DOMAIN client = Streams /\ response[t] # None
      BY <2>1 DEF IInv, TypeOK, Acknowledge
    <3>2. client[t].version < response[t].version
      BY <3>1 DEF IInv, VersionsOrdered
    <3> QED
      BY <2>1, <3>1, <3>2
  <2>2. CASE \A t \in Streams : ~ Acknowledge(t)
    BY <2>2, ClientUnchanged
  <2> QED
    BY <2>1, <2>2
<1> QED
  BY <1>1, Inductive, PTL DEF Spec, NeverBackwards
-----------------------------------------------------------------------------
(* The refinement.  No published snapshot is newer than the clock.          *)
LEMMA PublishedOrdered ==
  ASSUME IInv, NEW x \in Published
  PROVE  x \in Snapshot /\ x.version \in Nat /\ x.version <= clock
<1>0. x # None
  BY DEF Published
<1>1. CASE x = gen
  BY <1>0, <1>1 DEF IInv, TypeOK, VersionsOrdered
<1>2. ASSUME NEW s \in Streams, x = client[s] PROVE x \in Snapshot /\ x.version <= clock
  BY <1>2 DEF IInv, TypeOK, VersionsOrdered
<1>3. ASSUME NEW n \in Nodes, x = snapshot[n], x # None PROVE x \in Snapshot /\ x.version <= clock
  BY <1>3 DEF IInv, TypeOK, VersionsOrdered
<1>4. ASSUME NEW s \in Streams, x = response[s], x # None PROVE x \in Snapshot /\ x.version <= clock
  BY <1>4 DEF IInv, TypeOK, VersionsOrdered
<1>5. x \in Snapshot /\ x.version <= clock
  BY <1>1, <1>2, <1>3, <1>4 DEF Published
<1> QED
  BY <1>5 DEF Snapshot

(* A step that stores no snapshot but those already there publishes nothing *)
(* new.                                                                     *)
LEMMA PublishedShrinks ==
  ASSUME gen' = gen, client' = client,
         \A n \in Nodes : snapshot'[n] \in {snapshot[n], gen, None},
         \A s \in Streams : response'[s] \in {response[s], gen, snapshot[NodeOf[s]], None},
         IInv
  PROVE  Published' \subseteq Published
<1> SUFFICES ASSUME NEW x \in Published' PROVE x \in Published
  OBVIOUS
<1>1. \A s \in Streams : NodeOf[s] \in Nodes
  BY ConstantAssumption
<1>2. CASE x = gen'
  BY <1>2 DEF Published
<1>3. ASSUME NEW s \in Streams, x = client'[s] PROVE x \in Published
  BY <1>3 DEF Published
<1>4. ASSUME NEW n \in Nodes, x = snapshot'[n], x # None PROVE x \in Published
  BY <1>4 DEF Published
<1>5. ASSUME NEW s \in Streams, x = response'[s], x # None PROVE x \in Published
  BY <1>1, <1>5 DEF Published
<1> QED
  BY <1>2, <1>3, <1>4, <1>5 DEF Published

(* The steps that leave the cache and the proxies alone.                    *)
LEMMA QuietStep ==
  ASSUME IInv, UNCHANGED <<config, gen, snapshot, response, client>>
  PROVE  UNCHANGED Publication!vars
BY DEF Published, Publication!vars

(* See QuietStep; a change of the configuration asks for other routes.      *)
LEMMA AskStep == ASSUME IInv, Change PROVE Publication!Next
<1>1. UNCHANGED <<gen, snapshot, response, client>> /\ config' = config + 1
  BY DEF Change, callback, cache, proxies
<1>2. UNCHANGED <<Published, client>>
  BY <1>1 DEF Published
<1> QED
  BY <1>1, <1>2 DEF Publication!Next, Publication!Ask

(* A generation publishes under a version that is not older than any other. *)
LEMMA PublishStep == ASSUME IInv, Generate \/ GenerateDefault PROVE Publication!Next
<1>1. /\ gen' = [version |-> gen'.version, routes |-> gen'.routes]
      /\ gen'.routes \in {config, DefaultRoutes}
      /\ UNCHANGED <<config, snapshot, response, client>>
  BY DEF Generate, GenerateDefault, GenerateWith, cache, proxies
<1>2. clock \in Nat /\ gen'.version \in Nat /\ clock <= gen'.version
  BY DEF IInv, TypeOK, Generate, GenerateDefault, GenerateWith, Now, Start
<1>3. \A old \in Published : old.version <= gen'.version
  <2>1. \A a, b, c \in Nat : a <= b /\ b <= c => a <= c
    OBVIOUS
  <2> QED
    BY <1>2, <2>1, PublishedOrdered
<1>4. gen' # None
  <2>1. config \in Routes /\ DefaultRoutes \in Routes
    BY ConstantAssumption DEF IInv, TypeOK, Routes, DefaultRoutes
  <2>2. gen' \in Snapshot
    BY <1>1, <1>2, <2>1 DEF Snapshot
  <2> QED
    BY <2>2, NoneAssumption
<1>5. gen' \in Published' /\ Published' \subseteq Published \cup {gen'}
  BY <1>1, <1>4 DEF Published
<1>6. Publication!Publish
  BY <1>1, <1>2, <1>3, <1>5 DEF Publication!Publish
<1> QED
  BY <1>6 DEF Publication!Next

(* A proxy that applies a response moves to a newer publication.            *)
LEMMA DeliverStep == ASSUME IInv, NEW s \in Streams, Acknowledge(s) PROVE Publication!Next
<1>1. /\ client' = [client EXCEPT ![s] = response[s]] /\ response' = [response EXCEPT ![s] = None]
      /\ response[s] # None /\ UNCHANGED <<config, gen, snapshot>>
  BY DEF Acknowledge, callback, cache
<1>2. response[s] \in Published /\ client[s].version < response[s].version
  BY <1>1 DEF Published, IInv, VersionsOrdered
<1>3. response[s] \in Published'
  BY <1>1 DEF Published, IInv, TypeOK
<1>4. Published' \subseteq Published
  <2> SUFFICES ASSUME NEW x \in Published' PROVE x \in Published
    OBVIOUS
  <2>1. \A t \in Streams : client'[t] = IF t = s THEN response[s] ELSE client[t]
    BY <1>1 DEF IInv, TypeOK
  <2>2. \A t \in Streams : response'[t] = IF t = s THEN None ELSE response[t]
    BY <1>1 DEF IInv, TypeOK
  <2>3. CASE x = gen' \/ \E n \in Nodes : x = snapshot'[n] /\ x # None
    BY <1>1, <2>3 DEF Published
  <2>4. ASSUME NEW t \in Streams, x = client'[t] PROVE x \in Published
    BY <1>2, <2>1, <2>4 DEF Published
  <2>5. ASSUME NEW t \in Streams, x = response'[t], x # None PROVE x \in Published
    BY <2>2, <2>5 DEF Published
  <2> QED
    BY <2>3, <2>4, <2>5 DEF Published
<1>5. Publication!Deliver(s)
  BY <1>1, <1>2, <1>3, <1>4 DEF Publication!Deliver
<1> QED
  BY <1>5 DEF Publication!Next

(* Every other step moves snapshots or forgets them.                        *)
LEMMA ForgetStep ==
  ASSUME IInv, config' = config, client' = client, Published' \subseteq Published
  PROVE  Publication!Next
BY DEF Publication!Next, Publication!Forget

(* See ForgetStep.                                                          *)
LEMMA ShrinkingSteps ==
  ASSUME IInv,
         \/ \E n \in Nodes : SetSnapshot(n)
         \/ \E s \in Streams : CreateWatch(s) \/ OnStreamClosed(s)
  PROVE  Publication!Next
<1>0. gen' = gen /\ client' = client /\ config' = config
  BY DEF SetSnapshot, CreateWatch, OnStreamClosed, callback
<1>1. ASSUME NEW n \in Nodes, SetSnapshot(n) PROVE Published' \subseteq Published
  <2>1. \A m \in Nodes : snapshot'[m] \in {snapshot[m], gen, None}
    BY <1>1 DEF IInv, TypeOK, SetSnapshot
  <2>2. \A s \in Streams : response'[s] \in {response[s], gen, snapshot[NodeOf[s]], None}
    BY <1>1 DEF SetSnapshot
  <2> QED
    BY <1>0, <2>1, <2>2, PublishedShrinks
<1>2. ASSUME NEW s \in Streams, CreateWatch(s) PROVE Published' \subseteq Published
  <2>1. \A m \in Nodes : snapshot'[m] = snapshot[m]
    BY <1>2 DEF CreateWatch
  <2>2. \A t \in Streams : response'[t] \in {response[t], gen, snapshot[NodeOf[t]], None}
    <3>1. response \in [Streams -> Snapshot \cup {None}]
      BY DEF IInv, TypeOK
    <3>2. CASE response' = [response EXCEPT ![s] = snapshot[NodeOf[s]]]
      BY <3>1, <3>2
    <3>3. CASE response' = response
      BY <3>3
    <3> QED
      BY <1>2, <3>2, <3>3 DEF CreateWatch
  <2> QED
    BY <1>0, <2>1, <2>2, PublishedShrinks
<1>3. ASSUME NEW s \in Streams, OnStreamClosed(s) PROVE Published' \subseteq Published
  <2>1. \A m \in Nodes : snapshot'[m] \in {snapshot[m], gen, None}
    BY <1>3 DEF IInv, TypeOK, OnStreamClosed
  <2>2. \A t \in Streams : response'[t] \in {response[t], gen, snapshot[NodeOf[t]], None}
    BY <1>3 DEF IInv, TypeOK, OnStreamClosed
  <2> QED
    BY <1>0, <2>1, <2>2, PublishedShrinks
<1> QED
  BY <1>0, <1>1, <1>2, <1>3, ForgetStep

(* Every step of the route cache is one of the publication, or none.        *)
LEMMA PublicationStep == IInv /\ [Next]_vars => [Publication!Next]_(Publication!vars)
<1> SUFFICES ASSUME IInv, [Next]_vars PROVE [Publication!Next]_(Publication!vars)
  OBVIOUS
<1>1. CASE Change
  BY <1>1, AskStep
<1>2. CASE Channel \/ UNCHANGED vars
  <2>1. UNCHANGED <<config, gen, snapshot, response, client>>
    BY <1>2 DEF Channel, ConfigUpdated, Receive, Retry, callback, cache, proxies, vars
  <2> QED
    BY <2>1, QuietStep
<1>3. CASE Generate \/ GenerateDefault
  BY <1>3, PublishStep
<1>4. CASE IgnoreUpdate \/ GenerateFails \/ StatusKeys
  <2>1. UNCHANGED <<config, gen, snapshot, response, client>>
    BY <1>4 DEF IgnoreUpdate, GenerateFails, StatusKeys, cache, proxies
  <2> QED
    BY <2>1, QuietStep
<1>7. CASE SetSnapshotFails \/ EndUpdate
  <2>1. gen' = None /\ UNCHANGED <<config, snapshot, response, client>>
    BY <1>7 DEF SetSnapshotFails, EndUpdate, cache, proxies
  <2>2. Published' \subseteq Published
    BY <2>1 DEF Published
  <2> QED
    BY <2>1, <2>2, ForgetStep
<1>5. ASSUME NEW s \in Streams, Open(s) \/ OnStreamRequest(s) PROVE UNCHANGED Publication!vars
  <2>1. UNCHANGED <<config, gen, snapshot, response, client>>
    BY <1>5 DEF Open, OnStreamRequest, callback, cache
  <2> QED
    BY <2>1, QuietStep
<1>6. ASSUME NEW s \in Streams, Acknowledge(s) PROVE Publication!Next
  BY <1>6, DeliverStep
<1> QED
  BY <1>1, <1>2, <1>3, <1>4, <1>5, <1>6, <1>7, ShrinkingSteps DEF Next, Update, Server, Proxy

(* The route cache implements the abstract publication.                     *)
THEOREM Refines == Spec => Publishes
<1>1. Init => Publication!Init
  <2> SUFFICES ASSUME Init PROVE Publication!Init
    OBVIOUS
  <2>1. Start # None
    BY NoneAssumption, ConstantAssumption DEF Start, Snapshot, Routes, DefaultRoutes
  <2>2. Published = {client[s] : s \in Streams}
    BY <2>1 DEF Init, Published
  <2> QED
    BY <2>2 DEF Init, Publication!Init, Publication!Nothing, Start, DefaultRoutes
<1> QED
  BY <1>1, Inductive, PublicationStep, PTL DEF Spec, Publishes, Publication!Spec
=============================================================================
