---------------------------- MODULE VipAllocator ----------------------------
(***************************************************************************)
(* The service entry controller (internal/controller/kube/serviceentry.go) *)
(* gives every ServiceEntry without an address a virtual IP out of         *)
(* 240.240.0.0/16 and moves a ServiceEntry off a virtual IP that another   *)
(* one already owns.                                                       *)
(*                                                                         *)
(* The module has four actors: the users who write ServiceEntries to the   *)
(* API server, the informer that copies them into the controller's cache   *)
(* and enqueues their keys, the single reconcile worker, whose handler is  *)
(* split where it reads the cache or calls the API server, and the crash   *)
(* (or failover to another replica) that loses the in-memory map.          *)
(***************************************************************************)
EXTENDS Integers

CONSTANTS
  Services,     \* keys (namespace/name) of the ServiceEntries
  NoKey,        \* not a key
  NoAddr,       \* the Addresses of a ServiceEntry are empty
  Outside,      \* an address that does not start with 240.240
  UserVips,     \* the 240.240 addresses users may write themselves
  OctetBase,    \* 255: what the third and the fourth octet are counted in
  MaxRev,       \* bound: users write while the store's revision is below it
  MaxFaults,    \* bound: API and cache calls that fail
  MaxRestarts   \* bound: crashes of the controller

ASSUME BaseAssumption == OctetBase \in Nat \ {0, 1}
ASSUME BoundAssumption == MaxRev \in Nat /\ MaxFaults \in Nat /\ MaxRestarts \in Nat

Octets == 0..OctetBase
Vips == Octets \X Octets

ASSUME UserVipAssumption == UserVips \subseteq Vips
ASSUME ValueAssumption ==
  /\ NoKey \notin Services
  /\ NoAddr \notin Vips /\ Outside \notin Vips /\ NoAddr # Outside

Addresses == Vips \cup {NoAddr, Outside}
UserAddresses == UserVips \cup {NoAddr, Outside}

(* A ServiceEntry as stored: live is FALSE before it is created and after  *)
(* it is deleted, none is "resolution is NONE", rev its resource version.  *)
ServiceEntry == [live : BOOLEAN, addr : Addresses, none : BOOLEAN, rev : Nat]
Deleted(r) == [live |-> FALSE, addr |-> NoAddr, none |-> FALSE, rev |-> r]
NoEntry == Deleted(0)

VARIABLES
  api,        \* the API server's ServiceEntries
  rev,        \* the last resource version the API server gave out
  cache,      \* the informer's copy, which the controller reads
  queue,      \* keys waiting to be reconciled
  pc,         \* where the reconcile worker is
  cur,        \* the key it reconciles
  se,         \* the copy of the ServiceEntry it fetched
  vip,        \* the address nextAvailableIP returned
  serviceIPs, \* address -> owner
  maxIP,      \* the address counter
  failed,     \* keys whose last reconcile ended in an unreported API error
  faults,     \* calls that have failed
  restarts    \* crashes so far

vars == <<api, rev, cache, queue, pc, cur, se, vip, serviceIPs, maxIP, failed,
          faults, restarts>>
store == <<api, rev, cache>>
memory == <<serviceIPs, maxIP>>

-----------------------------------------------------------------------------
(* getNextIP: the counter skips the multiples of 255 before the test that  *)
(* wraps it to 0, so that fourth octet 0 comes out only right after a wrap.*)
Skipped(n) == IF n % OctetBase = 0 THEN n + 1 ELSE n
Wrapped(n) == IF Skipped(n) >= OctetBase * OctetBase THEN 0 ELSE Skipped(n)
NextIP(n) == <<Wrapped(n) \div OctetBase, Wrapped(n) % OctetBase>>
NextMaxIP(n) == Wrapped(n) + 1

Init ==
  /\ api = [k \in Services |-> NoEntry]
  /\ rev = 0
  /\ cache = api
  /\ queue = {}
  /\ pc = "idle" /\ cur = NoKey /\ se = NoEntry /\ vip = NoAddr
  /\ serviceIPs = [v \in Vips |-> NoKey]
  /\ maxIP = 0
  /\ failed = {}
  /\ faults = 0 /\ restarts = 0

-----------------------------------------------------------------------------
(* Users.  A write that changes nothing does not make a new version.       *)
UserWrite(k, a, n) ==
  /\ rev < MaxRev
  /\ ~ (api[k].live /\ api[k].addr = a /\ api[k].none = n)
  /\ rev' = rev + 1
  /\ api' = [api EXCEPT ![k] = [live |-> TRUE, addr |-> a, none |-> n, rev |-> rev + 1]]
  /\ UNCHANGED <<cache, queue, pc, cur, se, vip, memory, failed, faults, restarts>>

UserDelete(k) ==
  /\ rev < MaxRev
  /\ api[k].live
  /\ rev' = rev + 1
  /\ api' = [api EXCEPT ![k] = Deleted(rev + 1)]
  /\ UNCHANGED <<cache, queue, pc, cur, se, vip, memory, failed, faults, restarts>>

\* Mutant of Sync: the predicate drops the updates.
SyncWithoutUpdates(k) ==
  /\ cache[k] # api[k]
  /\ cache' = [cache EXCEPT ![k] = api[k]]
  /\ queue' = IF cache[k].live /\ api[k].live THEN queue ELSE queue \cup {k}
  /\ failed' = failed \ {k}
  /\ UNCHANGED <<api, rev, pc, cur, se, vip, memory, faults, restarts>>

(* The informer delivers the latest version of k.  Creations, deletions and *)
(* changes of the generation pass serviceEntryPredicates and enqueue k.     *)
Sync(k) ==
  /\ cache[k] # api[k]
  /\ cache' = [cache EXCEPT ![k] = api[k]]
  /\ queue' = queue \cup {k}
  /\ failed' = failed \ {k}
  /\ UNCHANGED <<api, rev, pc, cur, se, vip, memory, faults, restarts>>

(* A crash, or a failover: the new process lists all ServiceEntries and     *)
(* receives a creation event for each.                                      *)
Restart ==
  /\ restarts < MaxRestarts
  /\ restarts' = restarts + 1
  /\ cache' = api
  /\ queue' = {k \in Services : api[k].live}
  /\ pc' = "idle" /\ cur' = NoKey /\ se' = NoEntry /\ vip' = NoAddr
  /\ serviceIPs' = [v \in Vips |-> NoKey]
  /\ maxIP' = 0
  /\ failed' = {}
  /\ UNCHANGED <<api, rev, faults>>

-----------------------------------------------------------------------------
(* The worker.                                                             *)
Done == pc' = "idle" /\ cur' = NoKey /\ se' = NoEntry /\ vip' = NoAddr

Fault == faults < MaxFaults /\ faults' = faults + 1

(* The decision of autoAllocateIP on the ServiceEntry s of key k.           *)
NeedsNoVip(s) == ~ s.live \/ s.none \/ s.addr = Outside
Unclaimed(s) == s.addr \in Vips /\ serviceIPs[s.addr] = NoKey
Conflicts(s, k) == s.addr \in Vips /\ serviceIPs[s.addr] \notin {k, NoKey}

(* Reconcile: fetch the ServiceEntry from the cache and decide; only an     *)
(* entry without an address, or on somebody else's, goes further.           *)
Reconcile(k) ==
  LET s == cache[k] IN
  /\ pc = "idle" /\ k \in queue
  /\ queue' = queue \ {k}
  /\ \/ /\ NeedsNoVip(s) \/ (s.addr \in Vips /\ serviceIPs[s.addr] = k)
        /\ Done
        /\ UNCHANGED serviceIPs
     \/ /\ ~ NeedsNoVip(s) /\ Unclaimed(s)
        /\ serviceIPs' = [serviceIPs EXCEPT ![s.addr] = k]
        /\ Done
     \/ /\ ~ NeedsNoVip(s) /\ (s.addr = NoAddr \/ Conflicts(s, k))
        /\ pc' = IF s.addr = NoAddr THEN "probe" ELSE "conflict"
        /\ cur' = k /\ se' = s
        /\ UNCHANGED <<vip, serviceIPs>>
  /\ UNCHANGED <<store, maxIP, failed, faults, restarts>>

(* Reconcile returns the error of its Get: the key is queued again.         *)
ReconcileFails(k) ==
  /\ pc = "idle" /\ k \in queue
  /\ Fault
  /\ UNCHANGED <<store, queue, pc, cur, se, vip, memory, failed, restarts>>

\* Mutant of ResolveConflict: a conflicting VIP changes its owner.
ResolveByTakingOver ==
  /\ pc = "conflict"
  /\ serviceIPs' = [serviceIPs EXCEPT ![se.addr] = cur]
  /\ Done
  /\ UNCHANGED <<store, queue, maxIP, failed, faults, restarts>>

(* The owner of the address is looked up: a live owner keeps it, the        *)
(* address of a deleted one is taken over.                                  *)
ResolveConflict ==
  LET owner == serviceIPs[se.addr] IN
  /\ pc = "conflict"
  /\ \/ /\ cache[owner].live
        /\ pc' = "probe"
        /\ UNCHANGED <<cur, se, vip, serviceIPs>>
     \/ /\ ~ cache[owner].live
        /\ serviceIPs' = [serviceIPs EXCEPT ![se.addr] = cur]
        /\ Done
  /\ UNCHANGED <<store, queue, maxIP, failed, faults, restarts>>

(* The lookup fails otherwise: logged, and the reconcile returns nil.       *)
ResolveConflictFails ==
  /\ pc = "conflict"
  /\ Fault
  /\ failed' = failed \cup {cur}
  /\ Done
  /\ UNCHANGED <<store, queue, memory, restarts>>

\* Mutant of Taken: the map is not looked at.
NeverTaken(ip) == FALSE

(* One turn of the loop of nextAvailableIP: an address is passed over while *)
(* its owner is live.                                                       *)
Taken(ip) == serviceIPs[ip] # NoKey /\ cache[serviceIPs[ip]].live

ProbeIP ==
  LET ip == NextIP(maxIP) IN
  /\ pc = "probe"
  /\ maxIP' = NextMaxIP(maxIP)
  /\ \/ /\ Taken(ip)
        /\ UNCHANGED <<pc, vip, serviceIPs>>
     \/ /\ ~ Taken(ip)
        /\ serviceIPs' = [serviceIPs EXCEPT ![ip] = NoKey]
        /\ vip' = ip
        /\ pc' = "update"
  /\ UNCHANGED <<store, queue, cur, se, failed, faults, restarts>>

(* The lookup of the address's owner fails: the loop goes on.               *)
ProbeFails ==
  /\ pc = "probe"
  /\ serviceIPs[NextIP(maxIP)] # NoKey
  /\ Fault
  /\ maxIP' = NextMaxIP(maxIP)
  /\ UNCHANGED <<store, queue, pc, cur, se, vip, serviceIPs, failed, restarts>>

\* Mutant of Current: the update is sent without the resource version.
CurrentIfLive == api[cur].live

(* The API server accepts an update of the version it still stores.         *)
Current == api[cur].live /\ api[cur].rev = se.rev
StoreVip ==
  /\ rev' = rev + 1
  /\ api' = [api EXCEPT ![cur] = [live |-> TRUE, addr |-> vip, none |-> se.none, rev |-> rev + 1]]

UpdateServiceEntry ==
  /\ pc = "update"
  /\ \/ /\ Current /\ StoreVip
        /\ serviceIPs' = [serviceIPs EXCEPT ![vip] = cur]
     \/ /\ ~ Current
        /\ UNCHANGED <<api, rev, serviceIPs>>
  /\ Done
  /\ UNCHANGED <<cache, queue, maxIP, failed, faults, restarts>>

(* The call fails, before or after the server has applied it; the error is  *)
(* logged and the reconcile still returns nil.                              *)
UpdateFails ==
  /\ pc = "update"
  /\ Fault
  /\ \/ Current /\ StoreVip
     \/ UNCHANGED <<api, rev>>
  /\ failed' = failed \cup {cur}
  /\ Done
  /\ UNCHANGED <<cache, queue, memory, restarts>>

Worker ==
  \/ \E k \in Services : Reconcile(k)
  \/ ResolveConflict
  \/ ProbeIP
  \/ UpdateServiceEntry

Failure ==
  \/ \E k \in Services : ReconcileFails(k)
  \/ ResolveConflictFails
  \/ ProbeFails
  \/ UpdateFails

User ==
  \E k \in Services :
    \/ \E a \in UserAddresses \cup {api[k].addr}, n \in BOOLEAN : UserWrite(k, a, n)
    \/ UserDelete(k)

Next == User \/ (\E k \in Services : Sync(k)) \/ Worker \/ Failure \/ Restart

(* The informer delivers, and the work queue's worker runs, as long as the  *)
(* process does.                                                            *)
Fairness ==
  /\ \A k \in Services : WF_vars(Sync(k))
  /\ \A k \in Services : SF_vars(Reconcile(k))
  /\ WF_vars(ResolveConflict \/ ProbeIP \/ UpdateServiceEntry)

Spec == Init /\ [][Next]_vars
FairSpec == Spec /\ Fairness

-----------------------------------------------------------------------------
(* What the variables range over.  The worker's locals are set only while   *)
(* it reconciles.                                                           *)
TypeOK ==
  /\ api \in [Services -> ServiceEntry] /\ cache \in [Services -> ServiceEntry]
  /\ rev \in Nat
  /\ queue \subseteq Services /\ failed \subseteq Services
  /\ pc \in {"idle", "conflict", "probe", "update"}
  /\ cur \in Services \cup {NoKey} /\ (pc = "idle" <=> cur = NoKey)
  /\ se \in ServiceEntry
  /\ vip \in Vips \cup {NoAddr} /\ (pc = "update" => vip \in Vips)
  /\ serviceIPs \in [Vips -> Services \cup {NoKey}]
  /\ maxIP \in 0..OctetBase * OctetBase
  /\ faults \in Nat /\ restarts \in Nat

HoldsVip(k) == api[k].live /\ ~ api[k].none /\ api[k].addr \in Vips

(* k has been reconciled since it last changed, and no API error got lost.  *)
Settled(k) ==
  /\ cache[k] = api[k]
  /\ k \notin queue \cup failed
  /\ cur # k

(* A reconciled ServiceEntry owns its virtual IP in serviceIPs.  This is    *)
(* what autoAllocateIP relies on when it lets the first owner of an address *)
(* keep it, and what nextAvailableIP relies on when it skips live owners.   *)
SettledOwnsVip ==
  \A k \in Services : Settled(k) /\ HoldsVip(k) => serviceIPs[api[k].addr] = k

(* The promise of createSingletonControllers ("a globally unique VIP"), up  *)
(* to the changes that still wait for their reconcile: no two reconciled    *)
(* ServiceEntries share a virtual IP, whatever users write and whenever the *)
(* controller restarts.                                                     *)
SettledVipsUnique ==
  \A j, k \in Services :
    /\ Settled(j) /\ HoldsVip(j)
    /\ Settled(k) /\ HoldsVip(k)
    /\ api[j].addr = api[k].addr
    => j = k

(* The inductive invariant behind SettledOwnsVip: resource versions grow;    *)
(* the worker holds the latest version of cur it was told of, or cur waits   *)
(* in the queue again; the address it is about to assign has no owner, and   *)
(* the address it contests has another one.                                  *)
VersionsKnown == \A k \in Services : api[k].rev <= rev /\ cache[k].rev <= rev
WorkerHoldsLatest == pc # "idle" => se.live /\ (se = cache[cur] \/ cur \in queue)
AssignedVipUnowned == pc = "update" => serviceIPs[vip] = NoKey
ContestedVipOwned ==
  pc = "conflict" => se.addr \in Vips /\ serviceIPs[se.addr] \in Services \ {cur}

IInv ==
  /\ TypeOK
  /\ SettledOwnsVip
  /\ VersionsKnown
  /\ WorkerHoldsLatest
  /\ AssignedVipUnowned
  /\ ContestedVipOwned

(* The same promise without its proviso, for ServiceEntries whose virtual   *)
(* IPs are all the controller's: at no moment do two of them share one.     *)
VipsUnique ==
  \A j, k \in Services :
    HoldsVip(j) /\ HoldsVip(k) /\ api[j].addr = api[k].addr => j = k

(* The inductive invariant behind VipsUnique: nobody outruns the store, the  *)
(* worker's copy is not newer than the cache's nor the cache's than the API  *)
(* server's, and a version has one content; so a stored virtual IP has its   *)
(* service as the owner, whom the cache shows alive and nobody takes it from.*)
CacheBehind ==
  \A k \in Services :
    cache[k].rev <= api[k].rev /\ (cache[k].rev = api[k].rev => cache[k] = api[k])
WorkerBehind ==
  pc # "idle" => se.rev <= cache[cur].rev /\ (se.rev = cache[cur].rev => se = cache[cur])
DeletedHasNoAddr == \A k \in Services : ~ api[k].live => api[k].addr = NoAddr
HeldVipOwned ==
  \A k \in Services :
    api[k].addr \in Vips => cache[k].live /\ serviceIPs[api[k].addr] = k

FreshIInv == IInv /\ CacheBehind /\ WorkerBehind /\ DeletedHasNoAddr /\ HeldVipOwned

(* The comment on autoAllocateIP: service entries without an address (and   *)
(* with a resolution other than NONE) are automatically given one, and one  *)
(* of their own: while no call fails, whatever users write and whenever the *)
(* controller restarts.                                                     *)
Allocated ==
  \A k \in Services : api[k].live /\ ~ api[k].none => api[k].addr # NoAddr
EventuallyAllocated == <>(faults > 0) \/ <>[](Allocated /\ VipsUnique)
=============================================================================
