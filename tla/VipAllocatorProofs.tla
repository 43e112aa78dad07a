------------------------- MODULE VipAllocatorProofs -------------------------
(* Proofs about VipAllocator, for every set of services and every bound.   *)
EXTENDS VipAllocator, TLAPS

(* The octets getNextIP computes are octets, and its counter stays within   *)
(* OctetBase * OctetBase, so every address it returns is one of Vips.       *)
LEMMA DivBound ==
  ASSUME NEW b \in Nat \ {0}, NEW n \in Nat, n < b * b
  PROVE  n \div b \in 0..b - 1 /\ n % b \in 0..b - 1
<1>1. n = b * (n \div b) + (n % b) /\ n \div b \in Nat /\ n % b \in 0..b - 1
  OBVIOUS
<1>2. ASSUME n \div b >= b PROVE FALSE
  <2>1. b * (n \div b) >= b * b
    BY <1>1, <1>2
  <2>. QED BY <1>1, <2>1
<1>. QED BY <1>1, <1>2

\* getNextIP yields an address pair again.
LEMMA NextIPType ==
  ASSUME NEW n \in 0..OctetBase * OctetBase
  PROVE  NextIP(n) \in Vips /\ NextMaxIP(n) \in 0..OctetBase * OctetBase
<1> DEFINE B2 == OctetBase * OctetBase
<1>1. OctetBase \in Nat \ {0} /\ B2 \in Nat /\ B2 > 0
  BY BaseAssumption
<1>2. Skipped(n) \in Nat
  BY <1>1 DEF Skipped
<1>3. Wrapped(n) \in Nat /\ Wrapped(n) < B2
  BY <1>1, <1>2 DEF Wrapped
<1>4. NextMaxIP(n) \in 0..B2
  BY <1>1, <1>3 DEF NextMaxIP
<1>5. Wrapped(n) \div OctetBase \in 0..OctetBase - 1 /\ Wrapped(n) % OctetBase \in 0..OctetBase - 1
  BY <1>1, <1>3, DivBound
<1>. QED BY <1>1, <1>4, <1>5 DEF NextIP, Vips, Octets

-----------------------------------------------------------------------------
\* The invariant holds when the controller starts with an empty map.
LEMMA InitInv == Init => IInv
<1> SUFFICES ASSUME Init PROVE IInv
  OBVIOUS
<1> USE ValueAssumption
<1>1. NoEntry \in ServiceEntry
  BY DEF NoEntry, Deleted, ServiceEntry, Addresses
<1>2. 0 \in 0..OctetBase * OctetBase
  BY BaseAssumption
<1>3. TypeOK
  BY <1>1, <1>2 DEF Init, TypeOK
<1>4. SettledOwnsVip /\ VersionsKnown /\ WorkerHoldsLatest /\ AssignedVipUnowned /\ ContestedVipOwned
  BY <1>1 DEF Init, SettledOwnsVip, HoldsVip, VersionsKnown, WorkerHoldsLatest,
     AssignedVipUnowned, ContestedVipOwned, NoEntry, Deleted
<1>. QED BY <1>3, <1>4 DEF IInv

(* Writes of users: the new version is not in the cache, so its entry is not *)
(* settled.                                                                  *)
LEMMA UserWriteInv ==
  ASSUME IInv, NEW k \in Services, NEW a \in Addresses, NEW n \in BOOLEAN, UserWrite(k, a, n)
  PROVE  IInv'
<1> USE DEF IInv
<1> DEFINE new == [live |-> TRUE, addr |-> a, none |-> n, rev |-> rev + 1]
<1>1. new \in ServiceEntry /\ rev \in Nat
  BY DEF TypeOK, ServiceEntry
<1>2. api' = [api EXCEPT ![k] = new] /\ UNCHANGED <<cache, queue, pc, cur, se, vip, serviceIPs, maxIP, failed, faults, restarts>> /\ rev' = rev + 1
  BY DEF UserWrite, memory
<1>3. TypeOK'
  BY <1>1, <1>2 DEF TypeOK
<1>4. VersionsKnown'
  BY <1>1, <1>2 DEF TypeOK, VersionsKnown, ServiceEntry
<1>5. cache[k] # api'[k]
  BY <1>1, <1>2 DEF TypeOK, VersionsKnown, ServiceEntry
<1>6. SettledOwnsVip'
  BY <1>1, <1>2, <1>5 DEF TypeOK, SettledOwnsVip, Settled, HoldsVip
<1>7. WorkerHoldsLatest' /\ AssignedVipUnowned' /\ ContestedVipOwned'
  BY <1>2 DEF WorkerHoldsLatest, AssignedVipUnowned, ContestedVipOwned
<1>. QED BY <1>3, <1>4, <1>6, <1>7

\* A user's deletion of a ServiceEntry keeps the invariant.
LEMMA UserDeleteInv ==
  ASSUME IInv, NEW k \in Services, UserDelete(k)
  PROVE  IInv'
<1> USE DEF IInv
<1> DEFINE gone == Deleted(rev + 1)
<1>1. gone \in ServiceEntry /\ rev \in Nat /\ gone.rev = rev + 1
  BY DEF TypeOK, ServiceEntry, Deleted, Addresses
<1>2. /\ api' = [api EXCEPT ![k] = gone] /\ rev' = rev + 1
      /\ UNCHANGED <<cache, queue, pc, cur, se, vip, serviceIPs, maxIP, failed, faults, restarts>>
  BY DEF UserDelete, memory
<1>3. TypeOK'
  BY <1>1, <1>2 DEF TypeOK
<1>4. VersionsKnown'
  BY <1>1, <1>2 DEF TypeOK, VersionsKnown, ServiceEntry
<1>5. cache[k] # api'[k]
  BY <1>1, <1>2 DEF TypeOK, VersionsKnown, ServiceEntry
<1>6. SettledOwnsVip'
  BY <1>1, <1>2, <1>5 DEF TypeOK, SettledOwnsVip, Settled, HoldsVip
<1>7. WorkerHoldsLatest' /\ AssignedVipUnowned' /\ ContestedVipOwned'
  BY <1>2 DEF WorkerHoldsLatest, AssignedVipUnowned, ContestedVipOwned
<1>. QED BY <1>3, <1>4, <1>6, <1>7

(* The informer: k joins the queue, so it is not settled, and the worker may *)
(* keep an older version of it.                                              *)
LEMMA SyncInv ==
  ASSUME IInv, NEW k \in Services, Sync(k)
  PROVE  IInv'
<1> USE DEF IInv
<1>1. /\ cache' = [cache EXCEPT ![k] = api[k]] /\ queue' = queue \cup {k} /\ failed' = failed \ {k}
      /\ UNCHANGED <<api, rev, pc, cur, se, vip, serviceIPs, maxIP, faults, restarts>>
  BY DEF Sync, memory
<1>2. TypeOK'
  BY <1>1 DEF TypeOK
<1>3. VersionsKnown'
  BY <1>1 DEF TypeOK, VersionsKnown
<1>4. SettledOwnsVip'
  BY <1>1 DEF TypeOK, SettledOwnsVip, Settled, HoldsVip
<1>5. WorkerHoldsLatest'
  BY <1>1 DEF TypeOK, WorkerHoldsLatest
<1>6. AssignedVipUnowned' /\ ContestedVipOwned'
  BY <1>1 DEF AssignedVipUnowned, ContestedVipOwned
<1>. QED BY <1>2, <1>3, <1>4, <1>5, <1>6

(* A crash empties the map, and queues every live entry.                     *)
LEMMA RestartInv == IInv /\ Restart => IInv'
<1> SUFFICES ASSUME IInv, Restart PROVE IInv'
  OBVIOUS
<1> USE DEF IInv
<1>1. NoEntry \in ServiceEntry /\ 0 \in 0..OctetBase * OctetBase
  BY BaseAssumption DEF NoEntry, Deleted, ServiceEntry, Addresses
<1>2. TypeOK'
  BY <1>1, ValueAssumption DEF Restart, TypeOK
<1>3. SettledOwnsVip'
  BY DEF Restart, SettledOwnsVip, Settled, HoldsVip
<1>4. VersionsKnown' /\ WorkerHoldsLatest' /\ AssignedVipUnowned' /\ ContestedVipOwned'
  BY DEF Restart, VersionsKnown, WorkerHoldsLatest, AssignedVipUnowned, ContestedVipOwned
<1>. QED BY <1>2, <1>3, <1>4

(* The first step of a reconcile: it ends at once with the address owned, or *)
(* not to be owned, or the worker holds the version it read.                 *)
LEMMA ReconcileInv ==
  ASSUME IInv, NEW k \in Services, Reconcile(k)
  PROVE  IInv'
<1> USE ValueAssumption DEF IInv
<1> DEFINE s == cache[k]
<1>0. /\ s \in ServiceEntry /\ NoEntry \in ServiceEntry
      /\ s.addr \in Addresses /\ s.live \in BOOLEAN /\ s.none \in BOOLEAN
      /\ s.addr \in Vips => serviceIPs[s.addr] \in Services \cup {NoKey}
  BY DEF TypeOK, ServiceEntry, NoEntry, Deleted, Addresses
<1>1. /\ pc = "idle" /\ cur = NoKey /\ queue' = queue \ {k}
      /\ UNCHANGED <<api, rev, cache, maxIP, failed, faults, restarts>>
  BY DEF Reconcile, TypeOK, store
<1>2. VersionsKnown'
  BY <1>1 DEF VersionsKnown
<1>3. CASE /\ NeedsNoVip(s) \/ (s.addr \in Vips /\ serviceIPs[s.addr] = k)
           /\ Done /\ UNCHANGED serviceIPs
  <2>1. TypeOK'
    BY <1>0, <1>1, <1>3 DEF TypeOK, Done
  <2>2. SettledOwnsVip'
    BY <1>0, <1>1, <1>3 DEF SettledOwnsVip, Settled, HoldsVip, NeedsNoVip, Done
  <2>3. WorkerHoldsLatest' /\ AssignedVipUnowned' /\ ContestedVipOwned'
    BY <1>3 DEF Done, WorkerHoldsLatest, AssignedVipUnowned, ContestedVipOwned
  <2>. QED BY <1>2, <2>1, <2>2, <2>3
<1>4. CASE /\ ~ NeedsNoVip(s) /\ Unclaimed(s)
           /\ serviceIPs' = [serviceIPs EXCEPT ![s.addr] = k]
           /\ Done
  <2>1. TypeOK'
    BY <1>0, <1>1, <1>4 DEF TypeOK, Done, Unclaimed
  <2>2. SettledOwnsVip'
    BY <1>0, <1>1, <1>4 DEF TypeOK, SettledOwnsVip, Settled, HoldsVip, Unclaimed, Done
  <2>3. WorkerHoldsLatest' /\ AssignedVipUnowned' /\ ContestedVipOwned'
    BY <1>4 DEF Done, WorkerHoldsLatest, AssignedVipUnowned, ContestedVipOwned
  <2>. QED BY <1>2, <2>1, <2>2, <2>3
<1>5. CASE /\ ~ NeedsNoVip(s) /\ (s.addr = NoAddr \/ Conflicts(s, k))
           /\ pc' = IF s.addr = NoAddr THEN "probe" ELSE "conflict"
           /\ cur' = k /\ se' = s
           /\ UNCHANGED <<vip, serviceIPs>>
  <2>1. TypeOK'
    BY <1>0, <1>1, <1>5 DEF TypeOK
  <2>2. SettledOwnsVip'
    BY <1>0, <1>1, <1>5 DEF TypeOK, SettledOwnsVip, Settled, HoldsVip
  <2>3. WorkerHoldsLatest' /\ AssignedVipUnowned'
    BY <1>0, <1>1, <1>5 DEF TypeOK, WorkerHoldsLatest, AssignedVipUnowned, NeedsNoVip
  <2>4. ContestedVipOwned'
    BY <1>0, <1>1, <1>5 DEF TypeOK, ContestedVipOwned, Conflicts
  <2>. QED BY <1>2, <2>1, <2>2, <2>3, <2>4
<1>. QED BY <1>3, <1>4, <1>5 DEF Reconcile

\* A Get that fails in Reconcile keeps the invariant.
LEMMA ReconcileFailsInv ==
  ASSUME IInv, NEW k \in Services, ReconcileFails(k)
  PROVE  IInv'
<1> USE DEF IInv
<1>1. UNCHANGED <<api, rev, cache, queue, pc, cur, se, vip, serviceIPs, maxIP, failed, restarts>>
      /\ faults' = faults + 1
  BY DEF ReconcileFails, Fault, store, memory
<1>2. TypeOK'
  BY <1>1 DEF TypeOK
<1>3. SettledOwnsVip' /\ VersionsKnown' /\ WorkerHoldsLatest' /\ AssignedVipUnowned' /\ ContestedVipOwned'
  BY <1>1 DEF SettledOwnsVip, Settled, HoldsVip, VersionsKnown, WorkerHoldsLatest,
     AssignedVipUnowned, ContestedVipOwned
<1>. QED BY <1>2, <1>3

(* An address passes to another entry only when its owner is gone from the   *)
(* cache; a settled owner is live in the cache.                              *)
LEMMA ResolveConflictInv == IInv /\ ResolveConflict => IInv'
<1> SUFFICES ASSUME IInv, ResolveConflict PROVE IInv'
  OBVIOUS
<1> USE ValueAssumption DEF IInv
<1> DEFINE owner == serviceIPs[se.addr]
<1>1. /\ pc = "conflict" /\ cur \in Services /\ se.addr \in Vips /\ owner \in Services \ {cur}
      /\ UNCHANGED <<api, rev, cache, queue, maxIP, failed, faults, restarts>>
  BY DEF ResolveConflict, TypeOK, ContestedVipOwned, store
<1>2. VersionsKnown'
  BY <1>1 DEF VersionsKnown
<1>3. CASE cache[owner].live /\ pc' = "probe" /\ UNCHANGED <<cur, se, vip, serviceIPs>>
  <2>1. TypeOK'
    BY <1>1, <1>3 DEF TypeOK
  <2>2. SettledOwnsVip'
    BY <1>1, <1>3 DEF SettledOwnsVip, Settled, HoldsVip
  <2>3. WorkerHoldsLatest' /\ AssignedVipUnowned' /\ ContestedVipOwned'
    BY <1>1, <1>3 DEF WorkerHoldsLatest, AssignedVipUnowned, ContestedVipOwned
  <2>. QED BY <1>2, <2>1, <2>2, <2>3
<1>4. CASE ~ cache[owner].live /\ serviceIPs' = [serviceIPs EXCEPT ![se.addr] = cur] /\ Done
  <2>0. NoEntry \in ServiceEntry
    BY DEF NoEntry, Deleted, ServiceEntry, Addresses
  <2>1. TypeOK'
    BY <1>1, <1>4, <2>0 DEF TypeOK, Done
  <2>2. ASSUME NEW j \in Services, Settled(j)', HoldsVip(j)'
        PROVE  serviceIPs'[api'[j].addr] = j
    <3>1. CASE j = cur
      <4>1. se = api[cur]
        BY <1>1, <2>2, <3>1 DEF Settled, WorkerHoldsLatest
      <4>. QED BY <1>1, <1>4, <3>1, <4>1 DEF TypeOK
    <3>2. CASE j # cur
      <4>1. Settled(j) /\ HoldsVip(j)
        BY <1>1, <2>2, <3>2 DEF Settled, HoldsVip
      <4>2. serviceIPs[api[j].addr] = j /\ cache[j].live
        BY <4>1 DEF SettledOwnsVip, Settled, HoldsVip
      <4>3. api[j].addr # se.addr
        BY <1>4, <4>2
      <4>. QED BY <1>1, <1>4, <4>1, <4>2, <4>3 DEF TypeOK, HoldsVip
    <3>. QED BY <3>1, <3>2
  <2>3. SettledOwnsVip'
    BY <2>2 DEF SettledOwnsVip
  <2>4. WorkerHoldsLatest' /\ AssignedVipUnowned' /\ ContestedVipOwned'
    BY <1>4 DEF Done, WorkerHoldsLatest, AssignedVipUnowned, ContestedVipOwned
  <2>. QED BY <1>2, <2>1, <2>3, <2>4
<1>. QED BY <1>3, <1>4 DEF ResolveConflict

\* A failing read of the recorded owner keeps the invariant.
LEMMA ResolveConflictFailsInv == IInv /\ ResolveConflictFails => IInv'
<1> SUFFICES ASSUME IInv, ResolveConflictFails PROVE IInv'
  OBVIOUS
<1> USE ValueAssumption DEF IInv
<1>0. NoEntry \in ServiceEntry
  BY DEF NoEntry, Deleted, ServiceEntry, Addresses
<1>1. /\ pc = "conflict" /\ failed' = failed \cup {cur} /\ faults' = faults + 1 /\ Done
      /\ UNCHANGED <<api, rev, cache, queue, serviceIPs, maxIP, restarts>>
  BY DEF ResolveConflictFails, Fault, store, memory
<1>2. TypeOK'
  BY <1>0, <1>1 DEF TypeOK, Done
<1>3. SettledOwnsVip'
  BY <1>1 DEF TypeOK, SettledOwnsVip, Settled, HoldsVip, Done
<1>4. VersionsKnown' /\ WorkerHoldsLatest' /\ AssignedVipUnowned' /\ ContestedVipOwned'
  BY <1>1 DEF Done, VersionsKnown, WorkerHoldsLatest, AssignedVipUnowned, ContestedVipOwned
<1>. QED BY <1>2, <1>3, <1>4

(* The loop of nextAvailableIP: it disowns an address only when the owner is *)
(* gone from the cache, and leaves with an address nobody owns.              *)
LEMMA ProbeIPInv == IInv /\ ProbeIP => IInv'
<1> SUFFICES ASSUME IInv, ProbeIP PROVE IInv'
  OBVIOUS
<1> USE ValueAssumption DEF IInv
<1> DEFINE ip == NextIP(maxIP)
<1>0. ip \in Vips /\ NextMaxIP(maxIP) \in 0..OctetBase * OctetBase
  BY NextIPType DEF TypeOK
<1>1. /\ pc = "probe" /\ maxIP' = NextMaxIP(maxIP)
      /\ UNCHANGED <<api, rev, cache, queue, cur, se, failed, faults, restarts>>
  BY DEF ProbeIP, store
<1>2. VersionsKnown'
  BY <1>1 DEF VersionsKnown
<1>3. CASE Taken(ip) /\ UNCHANGED <<pc, vip, serviceIPs>>
  <2>1. TypeOK'
    BY <1>0, <1>1, <1>3 DEF TypeOK
  <2>2. SettledOwnsVip' /\ WorkerHoldsLatest' /\ AssignedVipUnowned' /\ ContestedVipOwned'
    BY <1>1, <1>3 DEF SettledOwnsVip, Settled, HoldsVip, WorkerHoldsLatest, AssignedVipUnowned,
       ContestedVipOwned
  <2>. QED BY <1>2, <2>1, <2>2
<1>4. CASE ~ Taken(ip) /\ serviceIPs' = [serviceIPs EXCEPT ![ip] = NoKey] /\ vip' = ip /\ pc' = "update"
  <2>1. TypeOK'
    BY <1>0, <1>1, <1>4 DEF TypeOK
  <2>2. ASSUME NEW j \in Services, Settled(j)', HoldsVip(j)'
        PROVE  serviceIPs'[api'[j].addr] = j
    <3>1. Settled(j) /\ HoldsVip(j)
      BY <1>1, <2>2 DEF Settled, HoldsVip
    <3>2. serviceIPs[api[j].addr] = j /\ cache[j].live
      BY <3>1 DEF SettledOwnsVip, Settled, HoldsVip
    <3>3. api[j].addr # ip
      BY <1>4, <3>2 DEF Taken
    <3>. QED BY <1>0, <1>1, <1>4, <3>1, <3>2, <3>3 DEF TypeOK, HoldsVip
  <2>3. SettledOwnsVip'
    BY <2>2 DEF SettledOwnsVip
  <2>4. WorkerHoldsLatest' /\ AssignedVipUnowned' /\ ContestedVipOwned'
    BY <1>0, <1>1, <1>4 DEF TypeOK, WorkerHoldsLatest, AssignedVipUnowned, ContestedVipOwned
  <2>. QED BY <1>2, <2>1, <2>3, <2>4
<1>. QED BY <1>3, <1>4 DEF ProbeIP

\* A failing read during a probe of nextAvailableIP keeps the invariant.
LEMMA ProbeFailsInv == IInv /\ ProbeFails => IInv'
<1> SUFFICES ASSUME IInv, ProbeFails PROVE IInv'
  OBVIOUS
<1> USE DEF IInv
<1>1. /\ maxIP' = NextMaxIP(maxIP) /\ NextMaxIP(maxIP) \in 0..OctetBase * OctetBase
      /\ faults' = faults + 1
      /\ UNCHANGED <<api, rev, cache, queue, pc, cur, se, vip, serviceIPs, failed, restarts>>
  BY NextIPType DEF ProbeFails, Fault, store, TypeOK
<1>2. TypeOK'
  BY <1>1 DEF TypeOK
<1>3. SettledOwnsVip' /\ VersionsKnown' /\ WorkerHoldsLatest' /\ AssignedVipUnowned' /\ ContestedVipOwned'
  BY <1>1 DEF SettledOwnsVip, Settled, HoldsVip, VersionsKnown, WorkerHoldsLatest,
     AssignedVipUnowned, ContestedVipOwned
<1>. QED BY <1>2, <1>3

(* A stored virtual IP is a version the cache does not have yet.             *)
LEMMA StoreVipFacts ==
  ASSUME IInv, pc = "update", StoreVip
  PROVE  /\ rev' = rev + 1 /\ rev' \in Nat
         /\ api' \in [Services -> ServiceEntry]
         /\ \A k \in Services : api'[k].rev <= rev'
         /\ cur \in Services /\ api'[cur] # cache[cur]
         /\ \A k \in Services \ {cur} : api'[k] = api[k]
<1> DEFINE new == [live |-> TRUE, addr |-> vip, none |-> se.none, rev |-> rev + 1]
<1>1. cur \in Services /\ rev \in Nat /\ vip \in Vips /\ se.none \in BOOLEAN
  BY DEF IInv, TypeOK, ServiceEntry
<1>2. new \in ServiceEntry
  BY <1>1 DEF ServiceEntry, Addresses
<1>3. api' = [api EXCEPT ![cur] = new] /\ rev' = rev + 1
  BY DEF StoreVip
<1>. QED BY <1>1, <1>2, <1>3 DEF IInv, TypeOK, VersionsKnown, ServiceEntry

(* updateServiceEntry: on success the entry has a version to be delivered;   *)
(* a refused update means that a newer version is on its way.                *)
LEMMA UpdateServiceEntryInv == IInv /\ UpdateServiceEntry => IInv'
<1> SUFFICES ASSUME IInv, UpdateServiceEntry PROVE IInv'
  OBVIOUS
<1> USE ValueAssumption DEF IInv
<1>0. NoEntry \in ServiceEntry
  BY DEF NoEntry, Deleted, ServiceEntry, Addresses
<1>1. /\ pc = "update" /\ Done /\ cur \in Services /\ vip \in Vips
      /\ UNCHANGED <<cache, queue, maxIP, failed, faults, restarts>>
  BY DEF UpdateServiceEntry, TypeOK
<1>2. WorkerHoldsLatest' /\ AssignedVipUnowned' /\ ContestedVipOwned'
  BY <1>1 DEF Done, WorkerHoldsLatest, AssignedVipUnowned, ContestedVipOwned
<1>3. CASE Current /\ StoreVip /\ serviceIPs' = [serviceIPs EXCEPT ![vip] = cur]
  <2>1. TypeOK'
    BY <1>0, <1>1, <1>3, StoreVipFacts DEF TypeOK, Done
  <2>2. VersionsKnown'
    BY <1>1, <1>3, StoreVipFacts DEF TypeOK, VersionsKnown, ServiceEntry
  <2>3. ASSUME NEW j \in Services, Settled(j)', HoldsVip(j)'
        PROVE  serviceIPs'[api'[j].addr] = j
    <3>1. j # cur
      BY <1>1, <1>3, <2>3, StoreVipFacts DEF Settled
    <3>2. Settled(j) /\ HoldsVip(j) /\ api'[j] = api[j]
      BY <1>1, <1>3, <2>3, <3>1, StoreVipFacts DEF Settled, HoldsVip
    <3>3. serviceIPs[api[j].addr] = j /\ serviceIPs[vip] = NoKey
      BY <1>1, <3>2 DEF SettledOwnsVip, AssignedVipUnowned
    <3>. QED BY <1>1, <1>3, <3>2, <3>3 DEF TypeOK, HoldsVip
  <2>4. SettledOwnsVip'
    BY <2>3 DEF SettledOwnsVip
  <2>. QED BY <1>2, <2>1, <2>2, <2>4
<1>4. CASE ~ Current /\ UNCHANGED <<api, rev, serviceIPs>>
  <2>1. TypeOK'
    BY <1>0, <1>1, <1>4 DEF TypeOK, Done
  <2>2. VersionsKnown'
    BY <1>1, <1>4 DEF VersionsKnown
  <2>3. ASSUME NEW j \in Services, Settled(j)', HoldsVip(j)'
        PROVE  serviceIPs'[api'[j].addr] = j
    <3>1. j # cur
      BY <1>1, <1>4, <2>3 DEF Settled, WorkerHoldsLatest, Current
    <3>2. Settled(j) /\ HoldsVip(j)
      BY <1>1, <1>4, <2>3, <3>1 DEF Settled, HoldsVip
    <3>. QED BY <1>4, <3>2 DEF SettledOwnsVip
  <2>4. SettledOwnsVip'
    BY <2>3 DEF SettledOwnsVip
  <2>. QED BY <1>2, <2>1, <2>2, <2>4
<1>. QED BY <1>3, <1>4 DEF UpdateServiceEntry

\* An Update that fails in updateServiceEntry keeps the invariant.
LEMMA UpdateFailsInv == IInv /\ UpdateFails => IInv'
<1> SUFFICES ASSUME IInv, UpdateFails PROVE IInv'
  OBVIOUS
<1> USE ValueAssumption DEF IInv
<1>0. NoEntry \in ServiceEntry
  BY DEF NoEntry, Deleted, ServiceEntry, Addresses
<1>1. /\ pc = "update" /\ Done /\ cur \in Services /\ faults' = faults + 1
      /\ failed' = failed \cup {cur}
      /\ UNCHANGED <<cache, queue, serviceIPs, maxIP, restarts>>
  BY DEF UpdateFails, Fault, TypeOK, memory
<1>2. /\ rev' \in Nat /\ rev' >= rev
      /\ api' \in [Services -> ServiceEntry]
      /\ \A k \in Services : api'[k].rev <= rev'
      /\ \A k \in Services \ {cur} : api'[k] = api[k]
  <2>1. CASE StoreVip
    BY <1>1, <2>1, StoreVipFacts DEF TypeOK
  <2>2. CASE UNCHANGED <<api, rev>>
    BY <2>2 DEF TypeOK, VersionsKnown
  <2>. QED BY <2>1, <2>2 DEF UpdateFails
<1>3. TypeOK'
  BY <1>0, <1>1, <1>2 DEF TypeOK, Done
<1>4. VersionsKnown'
  BY <1>1, <1>2 DEF TypeOK, VersionsKnown, ServiceEntry
<1>5. SettledOwnsVip'
  BY <1>1, <1>2 DEF SettledOwnsVip, Settled, HoldsVip
<1>6. WorkerHoldsLatest' /\ AssignedVipUnowned' /\ ContestedVipOwned'
  BY <1>1 DEF Done, WorkerHoldsLatest, AssignedVipUnowned, ContestedVipOwned
<1>. QED BY <1>3, <1>4, <1>5, <1>6

\* Every step keeps the invariant: one case per action.
LEMMA NextInv == IInv /\ [Next]_vars => IInv'
<1> SUFFICES ASSUME IInv, [Next]_vars PROVE IInv'
  OBVIOUS
<1>1. CASE User
  <2>1. PICK k \in Services :
          \/ \E a \in UserAddresses \cup {api[k].addr}, n \in BOOLEAN : UserWrite(k, a, n)
          \/ UserDelete(k)
    BY <1>1 DEF User
  <2>2. UserAddresses \cup {api[k].addr} \subseteq Addresses
    BY UserVipAssumption DEF IInv, TypeOK, ServiceEntry, UserAddresses, Addresses
  <2>. QED BY <2>1, <2>2, UserWriteInv, UserDeleteInv
<1>2. CASE \E k \in Services : Sync(k)
  BY <1>2, SyncInv
<1>3. CASE Worker
  BY <1>3, ReconcileInv, ResolveConflictInv, ProbeIPInv, UpdateServiceEntryInv DEF Worker
<1>4. CASE Failure
  BY <1>4, ReconcileFailsInv, ResolveConflictFailsInv, ProbeFailsInv, UpdateFailsInv DEF Failure
<1>5. CASE Restart
  BY <1>5, RestartInv
<1>6. CASE UNCHANGED vars
  BY <1>6 DEF vars, IInv, TypeOK, SettledOwnsVip, Settled, HoldsVip, VersionsKnown,
     WorkerHoldsLatest, AssignedVipUnowned, ContestedVipOwned
<1>. QED BY <1>1, <1>2, <1>3, <1>4, <1>5, <1>6 DEF Next

(* The inductive invariant holds in every reachable state.                   *)
THEOREM Inductive == Spec => []IInv
BY InitInv, NextInv, PTL DEF Spec

(* Every reconciled ServiceEntry owns its virtual IP in serviceIPs.          *)
THEOREM Ownership == Spec => []SettledOwnsVip
<1>1. IInv => SettledOwnsVip
  BY DEF IInv
<1>. QED BY <1>1, Inductive, PTL

(* No two reconciled ServiceEntries share a virtual IP, whatever users write *)
(* and whenever calls fail or the controller restarts.                       *)
THEOREM Uniqueness == Spec => []SettledVipsUnique
<1>1. IInv => SettledVipsUnique
  BY DEF IInv, SettledOwnsVip, SettledVipsUnique
<1>. QED BY <1>1, Inductive, PTL

-----------------------------------------------------------------------------
(* A controller that is never restarted, whose calls succeed, and whose      *)
(* virtual IPs no user writes.                                               *)
Fresh == UserVips = {} /\ MaxFaults = 0 /\ MaxRestarts = 0

\* A user's write keeps a virtual IP or drops it; it cannot bring one.
LEMMA UserWriteFresh ==
  ASSUME Fresh, FreshIInv, NEW k \in Services,
         NEW a \in UserAddresses \cup {api[k].addr}, NEW n \in BOOLEAN, UserWrite(k, a, n)
  PROVE  CacheBehind' /\ WorkerBehind' /\ DeletedHasNoAddr' /\ HeldVipOwned'
<1> DEFINE new == [live |-> TRUE, addr |-> a, none |-> n, rev |-> rev + 1]
<1>1. /\ api' = [api EXCEPT ![k] = new]
      /\ UNCHANGED <<cache, pc, cur, se, serviceIPs>>
  BY DEF UserWrite, memory
<1>2. /\ rev \in Nat /\ DOMAIN api = Services
      /\ \A j \in Services : cache[j].rev \in Nat /\ cache[j].rev <= rev
  BY DEF FreshIInv, IInv, TypeOK, ServiceEntry, VersionsKnown
<1>3. api'[k] = new /\ \A j \in Services \ {k} : api'[j] = api[j]
  BY <1>1, <1>2
<1>4. CacheBehind'
  BY <1>1, <1>2, <1>3 DEF FreshIInv, CacheBehind
<1>5. WorkerBehind'
  BY <1>1 DEF FreshIInv, WorkerBehind
<1>6. DeletedHasNoAddr'
  BY <1>3 DEF FreshIInv, DeletedHasNoAddr
<1>7. a \in Vips => a = api[k].addr
  BY ValueAssumption DEF Fresh, UserAddresses
<1>8. HeldVipOwned'
  BY <1>1, <1>3, <1>7 DEF FreshIInv, HeldVipOwned
<1>. QED BY <1>4, <1>5, <1>6, <1>8

\* A deleted ServiceEntry has no address.
LEMMA UserDeleteFresh ==
  ASSUME FreshIInv, NEW k \in Services, UserDelete(k)
  PROVE  CacheBehind' /\ WorkerBehind' /\ DeletedHasNoAddr' /\ HeldVipOwned'
<1> DEFINE gone == [live |-> FALSE, addr |-> NoAddr, none |-> FALSE, rev |-> rev + 1]
<1>1. /\ api' = [api EXCEPT ![k] = gone]
      /\ UNCHANGED <<cache, pc, cur, se, serviceIPs>>
  BY DEF UserDelete, Deleted, memory
<1>2. /\ rev \in Nat /\ DOMAIN api = Services
      /\ \A j \in Services : cache[j].rev \in Nat /\ cache[j].rev <= rev
  BY DEF FreshIInv, IInv, TypeOK, ServiceEntry, VersionsKnown
<1>3. api'[k] = gone /\ \A j \in Services \ {k} : api'[j] = api[j]
  BY <1>1, <1>2
<1>4. CacheBehind'
  BY <1>1, <1>2, <1>3 DEF FreshIInv, CacheBehind
<1>5. WorkerBehind'
  BY <1>1 DEF FreshIInv, WorkerBehind
<1>6. DeletedHasNoAddr'
  BY <1>3 DEF FreshIInv, DeletedHasNoAddr
<1>7. HeldVipOwned'
  BY <1>1, <1>3, ValueAssumption DEF FreshIInv, HeldVipOwned
<1>. QED BY <1>4, <1>5, <1>6, <1>7

\* The informer catches up with the API server; the worker's copy does not move.
LEMMA SyncFresh ==
  ASSUME FreshIInv, NEW k \in Services, Sync(k)
  PROVE  CacheBehind' /\ WorkerBehind' /\ DeletedHasNoAddr' /\ HeldVipOwned'
<1>1. /\ cache' = [cache EXCEPT ![k] = api[k]] /\ cache[k] # api[k]
      /\ UNCHANGED <<api, pc, cur, se, serviceIPs>>
  BY DEF Sync, memory
<1>2. /\ DOMAIN cache = Services
      /\ \A j \in Services : cache[j].rev \in Nat /\ api[j].rev \in Nat
      /\ se.rev \in Nat /\ (pc # "idle" => cur \in Services)
  BY DEF FreshIInv, IInv, TypeOK, ServiceEntry
<1>3. cache'[k] = api[k] /\ \A j \in Services \ {k} : cache'[j] = cache[j]
  BY <1>1, <1>2
<1>4. CacheBehind'
  BY <1>1, <1>2, <1>3 DEF FreshIInv, CacheBehind
<1>5. cache[k].rev < api[k].rev
  BY <1>1, <1>2 DEF FreshIInv, CacheBehind
<1>6. WorkerBehind'
  BY <1>1, <1>2, <1>3, <1>5 DEF FreshIInv, WorkerBehind
<1>7. DeletedHasNoAddr'
  BY <1>1 DEF FreshIInv, DeletedHasNoAddr
<1>8. api[k].addr \in Vips => api[k].live
  BY ValueAssumption DEF FreshIInv, DeletedHasNoAddr
<1>9. HeldVipOwned'
  BY <1>1, <1>3, <1>8 DEF FreshIInv, HeldVipOwned
<1>. QED BY <1>4, <1>6, <1>7, <1>9

(* The worker's steps up to the update: an address gets another owner, or    *)
(* none, only if its owner is unknown or gone from the cache.                *)
LEMMA DecideFresh ==
  ASSUME FreshIInv,
         (\E k \in Services : Reconcile(k)) \/ ResolveConflict \/ ProbeIP
  PROVE  CacheBehind' /\ WorkerBehind' /\ DeletedHasNoAddr' /\ HeldVipOwned'
<1>1. UNCHANGED <<api, cache>>
  BY DEF Reconcile, ResolveConflict, ProbeIP, store
<1>2. CacheBehind' /\ DeletedHasNoAddr'
  BY <1>1 DEF FreshIInv, CacheBehind, DeletedHasNoAddr
<1>3. WorkerBehind'
  <2>1. ASSUME NEW k \in Services, Reconcile(k) PROVE WorkerBehind'
    <3>1. CASE pc' = "idle"
      BY <3>1 DEF WorkerBehind
    <3>2. CASE cur' = k /\ se' = cache[k]
      <4>1. se'.rev = cache[k].rev /\ cache[k].rev \in Nat
        BY <3>2 DEF FreshIInv, IInv, TypeOK, ServiceEntry
      <4>. QED BY <1>1, <3>2, <4>1 DEF WorkerBehind
    <3>. QED BY <2>1, <3>1, <3>2 DEF Reconcile, Done
  <2>2. CASE ResolveConflict
    BY <1>1, <2>2 DEF FreshIInv, WorkerBehind, ResolveConflict, Done
  <2>3. CASE ProbeIP
    BY <1>1, <2>3 DEF FreshIInv, WorkerBehind, ProbeIP
  <2>. QED BY <2>1, <2>2, <2>3
<1>4. ASSUME NEW j \in Services, api[j].addr \in Vips
      PROVE  serviceIPs'[api[j].addr] = j
  <2>1. cache[j].live /\ serviceIPs[api[j].addr] = j /\ j # NoKey
    BY <1>4, ValueAssumption DEF FreshIInv, HeldVipOwned
  <2>2. serviceIPs \in [Vips -> Services \cup {NoKey}]
    BY DEF FreshIInv, IInv, TypeOK
  <2>3. ASSUME NEW k \in Services, Reconcile(k)
        PROVE  serviceIPs'[api[j].addr] = j
    BY <1>4, <2>1, <2>2, <2>3 DEF Reconcile, Unclaimed
  <2>4. CASE ResolveConflict
    BY <1>4, <2>1, <2>2, <2>4 DEF ResolveConflict
  <2>5. CASE ProbeIP
    BY <1>4, <2>1, <2>2, <2>5 DEF ProbeIP, Taken
  <2>. QED BY <2>3, <2>4, <2>5
<1>5. HeldVipOwned'
  BY <1>1, <1>4 DEF FreshIInv, HeldVipOwned
<1>. QED BY <1>2, <1>3, <1>5

(* The update: the API server accepts it only if the worker's copy, hence    *)
(* the cache, has the stored version, in which the service is alive.         *)
LEMMA UpdateFresh ==
  ASSUME FreshIInv, UpdateServiceEntry
  PROVE  CacheBehind' /\ WorkerBehind' /\ DeletedHasNoAddr' /\ HeldVipOwned'
<1>1. pc' = "idle" /\ UNCHANGED cache
  BY DEF UpdateServiceEntry, Done
<1>2. WorkerBehind'
  BY <1>1 DEF WorkerBehind
<1>3. /\ rev \in Nat /\ DOMAIN api = Services /\ cur \in Services /\ vip \in Vips
      /\ \A j \in Services : cache[j].rev \in Nat /\ cache[j].rev <= rev
      /\ api[cur].rev \in Nat /\ se.rev \in Nat /\ pc = "update"
      /\ serviceIPs \in [Vips -> Services \cup {NoKey}] /\ serviceIPs[vip] = NoKey /\ se.live
  BY DEF FreshIInv, IInv, TypeOK, ServiceEntry, VersionsKnown, UpdateServiceEntry,
     AssignedVipUnowned, WorkerHoldsLatest
<1>4. CASE ~ Current /\ UNCHANGED <<api, rev, serviceIPs>>
  BY <1>1, <1>2, <1>4 DEF FreshIInv, CacheBehind, DeletedHasNoAddr, HeldVipOwned
<1>5. CASE Current /\ StoreVip /\ serviceIPs' = [serviceIPs EXCEPT ![vip] = cur]
  <2> DEFINE new == [live |-> TRUE, addr |-> vip, none |-> se.none, rev |-> rev + 1]
  <2>1. /\ api'[cur].live /\ api'[cur].addr = vip /\ api'[cur].rev = rev + 1
        /\ \A j \in Services \ {cur} : api'[j] = api[j]
    <3>1. api' = [api EXCEPT ![cur] = new]
      BY <1>5 DEF StoreVip
    <3>2. api'[cur] = new
      BY <1>3, <3>1
    <3> QED BY <1>3, <3>1, <3>2
  <2>2. CacheBehind'
    <3>1. cache[cur].rev <= api'[cur].rev /\ cache[cur].rev # api'[cur].rev
      BY <1>3, <2>1
    <3> QED BY <1>1, <2>1, <3>1 DEF FreshIInv, CacheBehind
  <2>3. DeletedHasNoAddr'
    BY <2>1 DEF FreshIInv, DeletedHasNoAddr
  <2>4. cache[cur] = se
    BY <1>3, <1>5 DEF FreshIInv, Current, CacheBehind, WorkerBehind
  <2>5. ASSUME NEW j \in Services, api'[j].addr \in Vips
        PROVE  cache[j].live /\ serviceIPs'[api'[j].addr] = j
    <3>1. CASE j = cur
      BY <1>3, <1>5, <2>1, <2>4, <3>1
    <3>2. CASE j # cur
      <4>1. cache[j].live /\ serviceIPs[api[j].addr] = j /\ api'[j] = api[j] /\ j # NoKey
        BY <2>1, <2>5, <3>2, ValueAssumption DEF FreshIInv, HeldVipOwned
      <4>. QED BY <1>3, <1>5, <2>5, <4>1
    <3>. QED BY <3>1, <3>2
  <2>6. HeldVipOwned'
    BY <1>1, <2>5 DEF HeldVipOwned
  <2>. QED BY <1>2, <2>2, <2>3, <2>6
<1>. QED BY <1>4, <1>5 DEF UpdateServiceEntry

\* Every step of a fresh controller keeps the invariant; it has no failure and no restart.
LEMMA NextFresh == Fresh /\ FreshIInv /\ [Next]_vars => FreshIInv'
<1> SUFFICES ASSUME Fresh, FreshIInv, [Next]_vars PROVE FreshIInv'
  OBVIOUS
<1>1. IInv'
  BY NextInv DEF FreshIInv
<1>2. CASE User
  BY <1>1, <1>2, UserWriteFresh, UserDeleteFresh DEF User, FreshIInv
<1>3. CASE \E k \in Services : Sync(k)
  BY <1>1, <1>3, SyncFresh DEF FreshIInv
<1>4. CASE Worker
  BY <1>1, <1>4, DecideFresh, UpdateFresh DEF Worker, FreshIInv
<1>5. ~ (faults < MaxFaults) /\ ~ (restarts < MaxRestarts)
  BY DEF Fresh, FreshIInv, IInv, TypeOK
<1>6. ~ Failure /\ ~ Restart
  BY <1>5 DEF Failure, Fault, ReconcileFails, ResolveConflictFails, ProbeFails, UpdateFails, Restart
<1>7. CASE UNCHANGED vars
  BY <1>1, <1>7 DEF vars, FreshIInv, CacheBehind, WorkerBehind, DeletedHasNoAddr, HeldVipOwned
<1>. QED BY <1>2, <1>3, <1>4, <1>6, <1>7 DEF Next

(* The invariant of a controller that is not restarted, whose calls succeed  *)
(* and whose users write no virtual IPs themselves: its cache and worker     *)
(* only lag behind the store, and whoever holds a virtual IP owns it.        *)
THEOREM FreshInductive == Fresh => (Spec => []FreshIInv)
<1> SUFFICES ASSUME Fresh PROVE Spec => []FreshIInv
  OBVIOUS
<1>1. Init => FreshIInv
  BY InitInv, ValueAssumption DEF Init, FreshIInv, CacheBehind, WorkerBehind, DeletedHasNoAddr,
     HeldVipOwned, NoEntry, Deleted
<1>2. FreshIInv /\ [Next]_vars => FreshIInv'
  BY NextFresh
<1>. QED BY <1>1, <1>2, PTL DEF Spec

(* While the controller is not restarted, its calls succeed and users write  *)
(* no virtual IPs themselves, no two ServiceEntries share one at any moment, *)
(* reconciled or not, however often the address counter wraps around.        *)
THEOREM FreshUniqueness == Fresh => (Spec => []VipsUnique)
<1> SUFFICES ASSUME Fresh PROVE Spec => []VipsUnique
  OBVIOUS
<1>1. Spec => []FreshIInv
  BY FreshInductive
<1>2. FreshIInv => VipsUnique
  BY DEF FreshIInv, HeldVipOwned, VipsUnique, HoldsVip
<1>. QED BY <1>1, <1>2, PTL
=============================================================================
