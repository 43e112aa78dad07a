------------------------ MODULE LeaderElectionProofs ------------------------
(***************************************************************************)
(* Proofs about the elections, for any number of replicas and masters, and *)
(* about the namespace controller on these replicas, for any number of     *)
(* namespaces.                                                             *)
(***************************************************************************)
EXTENDS NamespaceController, TLAPS

(* Nobody leads at first.                                                   *)
LEMMA InitInv == Init => IInv
BY ConstantAssumption
DEF Init, IInv, TypeOK, OneLeader, LoopsOfMasters, Leader, Elections

(* An elector that acquires a lease becomes the only leader, for the lease  *)
(* was free or its own.                                                     *)
LEMMA AcquireInv ==
  ASSUME IInv, NEW e \in Elections, NEW r \in Replicas, Acquire(e, r), alive' = alive
  PROVE  /\ elector' \in [Elections -> [Replicas -> {"contends", "leads", "ended"}]]
         /\ lease' \in [Elections -> Replicas \cup {NoOne, Former}]
         /\ OneLeader'
         /\ \A f \in Elections, q \in Replicas : f # e \/ q # r => elector'[f][q] = elector[f][q]
<1>1. \A f \in Elections, q \in Replicas :
        elector'[f][q] = IF f = e /\ q = r THEN "leads" ELSE elector[f][q]
  BY DEF IInv, TypeOK, Acquire
<1>2. \A f \in Elections : lease'[f] = IF f = e THEN r ELSE lease[f]
  BY DEF IInv, TypeOK, Acquire
<1>3. lease' \in [Elections -> Replicas \cup {NoOne, Former}]
  BY DEF IInv, TypeOK, Acquire
<1>4. elector' \in [Elections -> [Replicas -> {"contends", "leads", "ended"}]]
  <2>1. [elector[e] EXCEPT ![r] = "leads"] \in [Replicas -> {"contends", "leads", "ended"}]
    BY DEF IInv, TypeOK
  <2>2. elector' = [elector EXCEPT ![e] = [elector[e] EXCEPT ![r] = "leads"]]
    BY DEF Acquire
  <2> QED
    BY <2>1, <2>2 DEF IInv, TypeOK
<1>5. OneLeader'
  <2> SUFFICES ASSUME NEW f \in Elections, NEW q \in Replicas, Leader(f, q)'
               PROVE  lease'[f] = q
    BY DEF OneLeader
  <2>1. CASE f = e /\ q = r
    BY <1>2, <2>1
  <2>2. CASE ~ (f = e /\ q = r)
    <3>1. Leader(f, q)
      BY <1>1, <2>2 DEF Leader
    <3>2. lease[f] = q
      BY <3>1 DEF IInv, OneLeader
    <3> QED
      BY <1>2, <2>2, <3>2, ConstantAssumption DEF Acquire
  <2> QED
    BY <2>1, <2>2
<1> QED
  BY <1>1, <1>3, <1>4, <1>5

(* A master that wins has a loop.                                           *)
LEMMA StartLeadingInv == ASSUME IInv, NEW r \in Replicas, StartLeading(r) PROVE IInv'
<1>0. "ef" \in Elections /\ Acquire("ef", r) /\ alive' = alive /\ r \in alive
  BY DEF StartLeading, Elections, Acquire
<1>1. loops' \in [Replicas -> Nat]
      /\ \A q \in Replicas : loops'[q] = IF q = r THEN loops[r] + 1 ELSE loops[q]
  BY DEF IInv, TypeOK, StartLeading
<1>2. TypeOK'
  BY <1>0, <1>1, AcquireInv DEF IInv, TypeOK, StartLeading
<1>3. LoopsOfMasters'
  BY <1>0, <1>1, AcquireInv DEF IInv, TypeOK, LoopsOfMasters, StartLeading
<1> QED
  BY <1>0, <1>2, <1>3, AcquireInv DEF IInv

(* Every replica may win the VIP lease.                                     *)
LEMMA StartAllocatingInv == ASSUME IInv, NEW r \in Replicas, StartAllocating(r) PROVE IInv'
<1>0. /\ "ef" \in Elections /\ "vip" \in Elections /\ "ef" # "vip"
      /\ Acquire("vip", r) /\ alive' = alive /\ r \in alive
  BY DEF StartAllocating, Elections, Acquire
<1>1. TypeOK'
  BY <1>0, AcquireInv DEF IInv, TypeOK, StartAllocating
<1>2. LoopsOfMasters'
  BY <1>0, AcquireInv DEF IInv, LoopsOfMasters, StartAllocating
<1> QED
  BY <1>0, <1>1, <1>2, AcquireInv DEF IInv

(* Losing a lease ends the leadership before the lease runs out.            *)
LEMMA LoseInv ==
  ASSUME IInv, NEW e \in Elections, NEW r \in Replicas, NEW next \in {"contends", "ended"},
         Lose(e, r, next), stop' \in [Replicas -> {"none", "sent", "taken"}]
  PROVE  IInv'
<1>1. \A f \in Elections, q \in Replicas :
        elector'[f][q] = IF f = e /\ q = r THEN next ELSE elector[f][q]
  BY DEF IInv, TypeOK, Lose
<1>2. elector' \in [Elections -> [Replicas -> {"contends", "leads", "ended"}]]
  <2>1. [elector[e] EXCEPT ![r] = next] \in [Replicas -> {"contends", "leads", "ended"}]
    BY DEF IInv, TypeOK
  <2>2. elector' = [elector EXCEPT ![e] = [elector[e] EXCEPT ![r] = next]]
    BY DEF Lose
  <2> QED
    BY <2>1, <2>2 DEF IInv, TypeOK
<1>3. /\ UNCHANGED <<alive, lease, loops, crashes>> /\ losses' = losses + 1 /\ r \in alive
  BY DEF Lose, Leader
<1>4. TypeOK'
  BY <1>2, <1>3 DEF IInv, TypeOK
<1>5. OneLeader' /\ LoopsOfMasters'
  BY <1>1, <1>3 DEF IInv, OneLeader, LoopsOfMasters, Leader, Elections
<1> QED
  BY <1>1, <1>3, <1>4, <1>5 DEF IInv

(* Only a lease without a leader runs out.                                  *)
LEMMA ExpireInv == ASSUME IInv, NEW e \in Elections, Expire(e) PROVE IInv'
<1>1. TypeOK'
  BY DEF IInv, TypeOK, Expire
<1>2. OneLeader'
  BY DEF IInv, TypeOK, OneLeader, Leader, Expire
<1> QED
  BY <1>1, <1>2 DEF IInv, LoopsOfMasters, Expire

(* The token changes nothing else.                                          *)
LEMMA TokenInv ==
  ASSUME IInv, NEW r \in Replicas, Terminate(r) \/ TakeElsewhere(r)
  PROVE  IInv'
<1>1. /\ stop' \in [Replicas -> {"none", "sent", "taken"}]
      /\ UNCHANGED <<alive, elector, lease, loops, losses>> /\ crashes' \in Nat
  BY DEF IInv, TypeOK, Terminate, TakeElsewhere, Take
<1> QED
  BY <1>1 DEF IInv, TypeOK, OneLeader, LoopsOfMasters, Leader

(* A cancelled elector has left office when its lease is released.          *)
LEMMA CancelInv == ASSUME IInv, NEW r \in Replicas, CancelElection(r) PROVE IInv'
<1>1. \A f \in Elections, q \in Replicas :
        elector'[f][q] = IF f = "ef" /\ q = r THEN "contends" ELSE elector[f][q]
  BY DEF IInv, TypeOK, CancelElection, Elections
<1>2. \A f \in Elections : lease'[f] = lease[f] \/ (f = "ef" /\ Leader("ef", r) /\ lease'[f] = NoOne)
  BY DEF IInv, TypeOK, CancelElection
<1>3. /\ UNCHANGED <<alive, loops, losses, crashes>> /\ r \in alive
      /\ stop' \in [Replicas -> {"none", "sent", "taken"}]
  BY DEF IInv, TypeOK, CancelElection, Take
<1>4. TypeOK'
  <2>1. elector' \in [Elections -> [Replicas -> {"contends", "leads", "ended"}]]
    <3>1. [elector["ef"] EXCEPT ![r] = "contends"] \in [Replicas -> {"contends", "leads", "ended"}]
      BY DEF IInv, TypeOK, Elections
    <3>2. elector' = [elector EXCEPT !["ef"] = [elector["ef"] EXCEPT ![r] = "contends"]]
      BY DEF CancelElection
    <3> QED
      BY <3>1, <3>2 DEF IInv, TypeOK
  <2>2. lease' \in [Elections -> Replicas \cup {NoOne, Former}]
    BY DEF IInv, TypeOK, CancelElection
  <2> QED
    BY <1>3, <2>1, <2>2 DEF IInv, TypeOK
<1>5. OneLeader'
  <2> SUFFICES ASSUME NEW f \in Elections, NEW q \in Replicas, Leader(f, q)'
               PROVE  lease'[f] = q
    BY DEF OneLeader
  <2>1. Leader(f, q) /\ ~ (f = "ef" /\ q = r)
    BY <1>1, <1>3 DEF Leader
  <2>2. lease[f] = q
    BY <2>1 DEF IInv, OneLeader
  <2>3. ASSUME f = "ef", Leader("ef", r) PROVE FALSE
    BY <2>1, <2>2, <2>3 DEF IInv, OneLeader
  <2> QED
    BY <1>2, <2>2, <2>3
<1>6. LoopsOfMasters'
  BY <1>1, <1>3 DEF IInv, LoopsOfMasters, Elections
<1> QED
  BY <1>1, <1>3, <1>4, <1>5, <1>6 DEF IInv

(* A stopped manager allocates no more.                                     *)
LEMMA StopControllersInv == ASSUME IInv, NEW r \in Replicas, StopControllers(r) PROVE IInv'
<1>1. \A f \in Elections, q \in Replicas :
        elector'[f][q] = IF f = "vip" /\ q = r THEN "ended" ELSE elector[f][q]
  BY DEF IInv, TypeOK, StopControllers, Elections
<1>2. /\ UNCHANGED <<alive, lease, loops, losses, crashes>> /\ r \in alive
      /\ stop' \in [Replicas -> {"none", "sent", "taken"}]
  BY DEF IInv, TypeOK, StopControllers, Take
<1>3. elector' \in [Elections -> [Replicas -> {"contends", "leads", "ended"}]]
  <2>1. [elector["vip"] EXCEPT ![r] = "ended"] \in [Replicas -> {"contends", "leads", "ended"}]
    BY DEF IInv, TypeOK, Elections
  <2>2. elector' = [elector EXCEPT !["vip"] = [elector["vip"] EXCEPT ![r] = "ended"]]
    BY DEF StopControllers
  <2> QED
    BY <2>1, <2>2 DEF IInv, TypeOK
<1>4. TypeOK'
  BY <1>2, <1>3 DEF IInv, TypeOK
<1>5. OneLeader' /\ LoopsOfMasters'
  BY <1>1, <1>2 DEF IInv, OneLeader, LoopsOfMasters, Leader, Elections
<1> QED
  BY <1>1, <1>2, <1>4, <1>5 DEF IInv

(* A process that ends leads nothing.                                       *)
LEMMA GoneInv == ASSUME IInv, NEW r \in Replicas, Gone(r), crashes' \in Nat PROVE IInv'
<1>1. \A f \in Elections, q \in Replicas :
        elector'[f][q] = IF q = r THEN "contends" ELSE elector[f][q]
  BY DEF IInv, TypeOK, Gone
<1>2. TypeOK'
  <2>1. elector' \in [Elections -> [Replicas -> {"contends", "leads", "ended"}]]
    BY DEF IInv, TypeOK, Gone
  <2>2. loops' \in [Replicas -> Nat] /\ stop' \in [Replicas -> {"none", "sent", "taken"}]
    BY DEF IInv, TypeOK, Gone
  <2>3. lease' \in [Elections -> Replicas \cup {NoOne, Former}]
    BY DEF IInv, TypeOK, Gone
  <2> QED
    BY <2>1, <2>2, <2>3 DEF IInv, TypeOK, Gone
<1>3. OneLeader'
  <2>1. \A f \in Elections : lease'[f] = lease[f] \/ lease[f] = r
    BY DEF Gone
  <2> QED
    BY <1>1, <2>1 DEF IInv, OneLeader, Leader, Gone
<1>4. LoopsOfMasters'
  BY <1>1 DEF IInv, TypeOK, LoopsOfMasters, Gone, Elections
<1> QED
  BY <1>1, <1>2, <1>3, <1>4 DEF IInv, Gone

(* A new process contends.                                                  *)
LEMMA BeginInv == ASSUME IInv, NEW r \in Replicas, Begin(r) PROVE IInv'
BY DEF IInv, TypeOK, OneLeader, LoopsOfMasters, Leader, Begin, Elections

(* Every step preserves the invariant.                                      *)
LEMMA NextInv == IInv /\ [Next]_vars => IInv'
<1> SUFFICES ASSUME IInv, [Next]_vars PROVE IInv'
  OBVIOUS
<1>1. ASSUME NEW r \in Replicas, StartLeading(r) \/ StartAllocating(r) PROVE IInv'
  BY <1>1, StartLeadingInv, StartAllocatingInv
<1>2. ASSUME NEW r \in Replicas, StopLeading(r) \/ StopAllocating(r) \/ QuitElection(r) PROVE IInv'
  <2>1. stop' \in [Replicas -> {"none", "sent", "taken"}]
    BY <1>2 DEF StopLeading, StopAllocating, QuitElection, Take, IInv, TypeOK
  <2> QED
    BY <1>2, <2>1, LoseInv DEF StopLeading, StopAllocating, QuitElection, Elections
<1>3. ASSUME NEW r \in Replicas, Exit(r) \/ Crash(r) \/ Begin(r) PROVE IInv'
  <2>1. Exit(r) \/ Crash(r) => crashes' \in Nat /\ Gone(r)
    BY DEF Exit, Crash, IInv, TypeOK
  <2> QED
    BY <1>3, <2>1, GoneInv, BeginInv
<1>4. ASSUME NEW e \in Elections, Expire(e) PROVE IInv'
  BY <1>4, ExpireInv
<1>5. ASSUME NEW r \in Replicas,
             Terminate(r) \/ CancelElection(r) \/ StopControllers(r) \/ TakeElsewhere(r)
      PROVE  IInv'
  BY <1>5, TokenInv, CancelInv, StopControllersInv
<1>6. CASE UNCHANGED vars
  BY <1>6 DEF vars, IInv, TypeOK, OneLeader, LoopsOfMasters, Leader
<1> QED
  BY <1>1, <1>2, <1>3, <1>4, <1>5, <1>6 DEF Next

(* IInv holds throughout.                                                   *)
THEOREM Inductive == Spec => []IInv
BY InitInv, NextInv, PTL DEF Spec

-----------------------------------------------------------------------------
(* A step after which those who led in some elections lead, all but r, and  *)
(* nobody else does, is r's resignation.                                    *)
LEMMA ResignStep ==
  ASSUME NEW r \in Replicas, NEW offices \in SUBSET Elections,
         \A e \in Elections, q \in Replicas :
           Leader(e, q)' <=> Leader(e, q) /\ ~ (e \in offices /\ q = r)
  PROVE  Office!Next
<1>1. \A e \in Elections : Leaders'[e] = IF e \in offices THEN Leaders[e] \ {r} ELSE Leaders[e]
  BY DEF Leaders
<1>2. Leaders' = [e \in Elections |-> IF e \in offices THEN Leaders[e] \ {r} ELSE Leaders[e]]
  BY <1>1 DEF Leaders
<1>3. Office!Resign(r, offices)
  BY <1>2 DEF Office!Resign
<1> QED
  BY <1>3 DEF Office!Next

(* Taking a lease is taking the office, which is empty.                     *)
LEMMA TakeOfficeStep ==
  ASSUME IInv, NEW e \in Elections, NEW r \in Replicas, Acquire(e, r), alive' = alive
  PROVE  Office!Next
<1>1. \A f \in Elections, q \in Replicas :
        elector'[f][q] = IF f = e /\ q = r THEN "leads" ELSE elector[f][q]
  BY DEF IInv, TypeOK, Acquire
<1>2. Leaders[e] = {}
  BY ConstantAssumption DEF Leaders, IInv, OneLeader, Leader, Acquire
<1>3. \A f \in Elections : Leaders'[f] = IF f = e THEN {r} ELSE Leaders[f]
  <2>1. \A q \in Replicas : Leader(e, q)' <=> q = r
    BY <1>1, <1>2 DEF Leaders, Leader, Acquire
  <2>2. \A f \in Elections, q \in Replicas : f # e => (Leader(f, q)' <=> Leader(f, q))
    BY <1>1 DEF Leader
  <2> QED
    BY <2>1, <2>2 DEF Leaders
<1>4. Leaders' = [Leaders EXCEPT ![e] = {r}]
  BY <1>3 DEF Leaders
<1>5. Office!TakeOffice(e, r)
  BY <1>2, <1>4 DEF Office!TakeOffice
<1> QED
  BY <1>5 DEF Office!Next

(* Every step of the replicas is a step of the offices, or none.            *)
LEMMA OfficeStep == IInv /\ [Next]_vars => [Office!Next]_Leaders
<1> SUFFICES ASSUME IInv, [Next]_vars PROVE Office!Next \/ UNCHANGED Leaders
  OBVIOUS
<1>1. ASSUME NEW r \in Replicas, StartLeading(r) \/ StartAllocating(r) PROVE Office!Next
  BY <1>1, TakeOfficeStep DEF StartLeading, StartAllocating, Elections
<1>2. ASSUME NEW e \in Elections, NEW r \in Replicas, NEW next \in {"contends", "ended"},
             Lose(e, r, next)
      PROVE  Office!Next
  <2>1. \A f \in Elections, q \in Replicas :
          elector'[f][q] = IF f = e /\ q = r THEN next ELSE elector[f][q]
    BY <1>2 DEF IInv, TypeOK, Lose
  <2>2. \A f \in Elections, q \in Replicas :
          Leader(f, q)' <=> Leader(f, q) /\ ~ (f \in {e} /\ q = r)
    BY <1>2, <2>1 DEF Leader, Lose
  <2>3. {e} \in SUBSET Elections
    OBVIOUS
  <2> QED
    BY <2>2, <2>3, ResignStep
<1>3. ASSUME NEW r \in Replicas, CancelElection(r) PROVE Office!Next
  <2>1. \A f \in Elections, q \in Replicas :
          elector'[f][q] = IF f = "ef" /\ q = r THEN "contends" ELSE elector[f][q]
    BY <1>3 DEF IInv, TypeOK, CancelElection, Elections
  <2>2. \A f \in Elections, q \in Replicas :
          Leader(f, q)' <=> Leader(f, q) /\ ~ (f \in {"ef"} /\ q = r)
    BY <1>3, <2>1 DEF Leader, CancelElection
  <2>3. {"ef"} \in SUBSET Elections
    BY DEF Elections
  <2> QED
    BY <2>2, <2>3, ResignStep
<1>4. ASSUME NEW r \in Replicas, StopControllers(r) PROVE Office!Next
  <2>1. \A f \in Elections, q \in Replicas :
          elector'[f][q] = IF f = "vip" /\ q = r THEN "ended" ELSE elector[f][q]
    BY <1>4 DEF IInv, TypeOK, StopControllers, Elections
  <2>2. \A f \in Elections, q \in Replicas :
          Leader(f, q)' <=> Leader(f, q) /\ ~ (f \in {"vip"} /\ q = r)
    BY <1>4, <2>1 DEF Leader, StopControllers
  <2>3. {"vip"} \in SUBSET Elections
    BY DEF Elections
  <2> QED
    BY <2>2, <2>3, ResignStep
<1>5. ASSUME NEW r \in Replicas, Gone(r) PROVE Office!Next
  <2>1. \A f \in Elections, q \in Replicas :
          elector'[f][q] = IF q = r THEN "contends" ELSE elector[f][q]
    BY <1>5 DEF IInv, TypeOK, Gone
  <2>2. \A f \in Elections, q \in Replicas :
          Leader(f, q)' <=> Leader(f, q) /\ ~ (f \in Elections /\ q = r)
    BY <1>5, <2>1 DEF Leader, Gone
  <2> QED
    BY <2>2, ResignStep
<1>6. ASSUME NEW r \in Replicas, Begin(r) PROVE UNCHANGED Leaders
  BY <1>6 DEF Leaders, Leader, Begin, IInv
<1>7. ASSUME UNCHANGED <<alive, elector>> PROVE UNCHANGED Leaders
  BY <1>7 DEF Leaders, Leader
<1>8. ASSUME NEW r \in Replicas, Terminate(r) \/ TakeElsewhere(r) PROVE UNCHANGED Leaders
  BY <1>7, <1>8 DEF Terminate, TakeElsewhere
<1>9. ASSUME NEW e \in Elections, Expire(e) PROVE UNCHANGED Leaders
  BY <1>7, <1>9 DEF Expire
<1>10. ASSUME NEW r \in Replicas, StopLeading(r) \/ StopAllocating(r) \/ QuitElection(r)
       PROVE  Office!Next
  BY <1>2, <1>10 DEF StopLeading, StopAllocating, QuitElection, Elections
<1>11. ASSUME NEW r \in Replicas, Exit(r) \/ Crash(r) PROVE Office!Next
  BY <1>5, <1>11 DEF Exit, Crash
<1>12. CASE UNCHANGED vars
  BY <1>7, <1>12 DEF vars
<1> QED
  BY <1>1, <1>3, <1>4, <1>6, <1>8, <1>9, <1>10, <1>11, <1>12 DEF Next

(* The leases implement exclusive offices, for any number of replicas and   *)
(* masters, whichever goroutine receives the stop token: a leader has       *)
(* stopped leading before the next one starts.                              *)
THEOREM Implements == Spec => ExclusiveLeases
<1>1. Init => Office!Init
  BY DEF Init, Office!Init, Leaders, Leader, Elections
<1> QED
  BY <1>1, OfficeStep, Inductive, PTL DEF Spec, ExclusiveLeases, Office!Spec

-----------------------------------------------------------------------------
(* A step of the whole is a step of the elections or leaves them alone.     *)
LEMMA ElectionStep == [NsNext]_allVars => [Next]_vars
BY DEF NsNext, allVars, EditNamespace, Reconcile, createBootstrapConfigMap, CreateFails

(* Nothing is queued before a manager leads.                                *)
LEMMA NsInitInv == NsInit => NsIInv
<1> SUFFICES ASSUME NsInit PROVE NsIInv
  OBVIOUS
<1>1. IInv
  BY InitInv DEF NsInit
<1>2. NsTypeOK
  BY DEF NsInit, NsTypeOK
<1>3. NothingForgotten
  BY DEF NsInit, Init, NothingForgotten, Leader, Elections
<1> QED
  BY <1>1, <1>2, <1>3 DEF NsIInv

(* A manager that starts looks at every namespace; the one that led before  *)
(* keeps its queue.  A namespace is no longer missed when it is queued, and *)
(* only the one leader has a queue.                                         *)
LEMMA ManagerInv ==
  ASSUME NsIInv, IInv', Next, ManagerFollows
  PROVE  NsTypeOK' /\ NothingForgotten'
<1>1. Existing \subseteq Namespaces /\ \A n \in Namespaces : shouldHandle(n) => n \in Existing
  BY DEF Existing, shouldHandle
<1>2. \A r \in Replicas : queue'[r] = IF ~ Leader("vip", r)' THEN {}
                                     ELSE IF Leader("vip", r) THEN queue[r] ELSE Existing
  BY DEF ManagerFollows
<1>3. \A r \in Replicas : creating'[r] = IF r \in alive' THEN creating[r] ELSE NoOne
  BY DEF ManagerFollows
<1>4. NsTypeOK'
  <2>1. queue' \in [Replicas -> SUBSET Namespaces]
    BY <1>1 DEF ManagerFollows, NsIInv, NsTypeOK
  <2>2. creating' \in [Replicas -> Namespaces \cup {NoOne}]
    BY DEF ManagerFollows, NsIInv, NsTypeOK
  <2>3. missed' \subseteq Namespaces
    BY DEF ManagerFollows, NsIInv, NsTypeOK
  <2>4. \A r \in Replicas : queue'[r] # {} => Leader("vip", r)'
    BY <1>2
  <2> QED
    BY <2>1, <2>2, <2>3, <2>4 DEF ManagerFollows, NsIInv, NsTypeOK
<1>5. NothingForgotten'
  <2> SUFFICES ASSUME NEW r \in Replicas, NEW n \in Namespaces, Leader("vip", r)', shouldHandle(n)
               PROVE  n \in bootstrap \cup missed' \cup queue'[r] \cup {creating'[r]}
    BY DEF NothingForgotten, shouldHandle, ManagerFollows
  <2>1. CASE ~ Leader("vip", r)
    BY <1>1, <1>2, <2>1
  <2>2. CASE Leader("vip", r)
    <3>1. n \in bootstrap \cup missed \cup queue[r] \cup {creating[r]}
      BY <2>2 DEF NsIInv, NothingForgotten
    <3>2. queue'[r] = queue[r] /\ creating'[r] = creating[r]
      BY <1>2, <1>3, <2>2 DEF Leader
    <3>3. ASSUME NEW q \in Replicas, n \in queue'[q] PROVE q = r
      <4>1. Leader("vip", q)'
        BY <1>2, <3>3
      <4>2. lease'["vip"] = q /\ lease'["vip"] = r
        BY <4>1 DEF IInv, OneLeader, Elections
      <4> QED
        BY <4>2
    <3>4. n \in missed => n \in missed' \cup queue'[r]
      BY <3>3 DEF ManagerFollows
    <3> QED
      BY <3>1, <3>2, <3>4
  <2> QED
    BY <2>1, <2>2
<1> QED
  BY <1>4, <1>5

(* An event reaches the manager that leads.                                 *)
LEMMA EditInv ==
  ASSUME NsIInv, NEW n \in Namespaces, NEW l \in {"absent", "plain", "injected"}, EditNamespace(n, l)
  PROVE  NsTypeOK' /\ NothingForgotten'
<1>1. \A r \in Replicas : Leader("vip", r)' <=> Leader("vip", r)
  BY DEF EditNamespace, vars, Leader
<1>2. \A r \in Replicas : queue'[r] = IF Leader("vip", r) THEN queue[r] \cup {n} ELSE queue[r]
  BY DEF EditNamespace
<1>3. NsTypeOK'
  <2>1. queue' \in [Replicas -> SUBSET Namespaces]
    BY DEF EditNamespace, NsIInv, NsTypeOK
  <2>2. \A r \in Replicas : queue'[r] # {} => Leader("vip", r)'
    BY <1>1, <1>2 DEF NsIInv, NsTypeOK
  <2> QED
    BY <2>1, <2>2 DEF EditNamespace, NsIInv, NsTypeOK
<1>4. NothingForgotten'
  <2> SUFFICES ASSUME NEW r \in Replicas, NEW m \in Namespaces, Leader("vip", r), labels'[m] = "injected"
               PROVE  m \in bootstrap' \cup missed' \cup queue'[r] \cup {creating[r]}
    BY <1>1 DEF NothingForgotten, shouldHandle, EditNamespace
  <2>1. CASE m = n
    BY <1>2, <2>1
  <2>2. CASE m # n
    <3>1. labels'[m] = labels[m] /\ (m \in bootstrap => m \in bootstrap')
      BY <2>2 DEF EditNamespace, NsIInv, NsTypeOK
    <3>2. m \in bootstrap \cup missed \cup queue[r] \cup {creating[r]}
      BY <3>1 DEF NsIInv, NothingForgotten, shouldHandle
    <3>3. ASSUME NEW q \in Replicas, m \in queue'[q] PROVE m \in queue[r]
      <4>1. m \in queue[q] /\ Leader("vip", q)
        BY <1>2, <2>2, <3>3 DEF NsIInv, NsTypeOK
      <4>2. lease["vip"] = q /\ lease["vip"] = r
        BY <4>1 DEF NsIInv, IInv, OneLeader, Elections
      <4> QED
        BY <4>1, <4>2
    <3>4. m \in missed => m \in missed' \cup queue'[r]
      BY <1>2, <3>3 DEF EditNamespace
    <3> QED
      BY <1>2, <3>1, <3>2, <3>4
  <2> QED
    BY <2>1, <2>2
<1> QED
  BY <1>3, <1>4

(* The worker takes a namespace off the queue to create its config map.     *)
LEMMA ReconcileInv ==
  ASSUME NsIInv, NEW r \in Replicas, NEW n \in Namespaces, Reconcile(r, n)
  PROVE  NsTypeOK' /\ NothingForgotten'
<1>1. \A q \in Replicas : Leader("vip", q)' <=> Leader("vip", q)
  BY DEF Reconcile, vars, Leader
<1>2. \A q \in Replicas :
        /\ queue'[q] = IF q = r THEN queue[r] \ {n} ELSE queue[q]
        /\ creating'[q] = IF q # r THEN creating[q] ELSE IF shouldHandle(n) THEN n ELSE NoOne
  BY DEF Reconcile, NsIInv, NsTypeOK
<1>3. NsTypeOK'
  <2>1. queue' \in [Replicas -> SUBSET Namespaces] /\ creating' \in [Replicas -> Namespaces \cup {NoOne}]
    BY DEF Reconcile, NsIInv, NsTypeOK
  <2>2. \A q \in Replicas : queue'[q] # {} => Leader("vip", q)'
    BY <1>1, <1>2 DEF NsIInv, NsTypeOK
  <2> QED
    BY <2>1, <2>2 DEF Reconcile, NsIInv, NsTypeOK
<1>4. NothingForgotten'
  <2> SUFFICES ASSUME NEW q \in Replicas, NEW m \in Namespaces, Leader("vip", q), shouldHandle(m)
               PROVE  m \in bootstrap \cup missed \cup queue'[q] \cup {creating'[q]}
    BY <1>1 DEF NothingForgotten, shouldHandle, Reconcile
  <2>1. m \in bootstrap \cup missed \cup queue[q] \cup {creating[q]}
    BY DEF NsIInv, NothingForgotten
  <2>2. creating[r] = NoOne /\ m # NoOne
    BY NamespaceAssumption DEF Reconcile
  <2> QED
    BY <1>2, <2>1, <2>2
<1> QED
  BY <1>3, <1>4

(* The config map is there, or the creation failed, or the namespace is     *)
(* gone.                                                                    *)
LEMMA CreateInv ==
  ASSUME NsIInv, NEW r \in Replicas, createBootstrapConfigMap(r) \/ CreateFails(r)
  PROVE  NsTypeOK' /\ NothingForgotten'
<1>1. \A q \in Replicas : Leader("vip", q)' <=> Leader("vip", q)
  BY DEF createBootstrapConfigMap, CreateFails, vars, Leader
<1>2. /\ \A q \in Replicas : creating'[q] = IF q = r THEN NoOne ELSE creating[q]
      /\ queue' = queue /\ labels' = labels
      /\ creating[r] \in Namespaces
  BY DEF createBootstrapConfigMap, CreateFails, NsIInv, NsTypeOK
<1>3. NsTypeOK'
  <2>1. creating' \in [Replicas -> Namespaces \cup {NoOne}]
    BY DEF createBootstrapConfigMap, CreateFails, NsIInv, NsTypeOK
  <2>2. \A q \in Replicas : queue'[q] # {} => Leader("vip", q)'
    BY <1>1, <1>2 DEF NsIInv, NsTypeOK
  <2> QED
    BY <1>2, <2>1, <2>2 DEF createBootstrapConfigMap, CreateFails, NsIInv, NsTypeOK
<1>4. NothingForgotten'
  <2> SUFFICES ASSUME NEW q \in Replicas, NEW m \in Namespaces, Leader("vip", q), shouldHandle(m)
               PROVE  m \in bootstrap' \cup missed' \cup queue[q] \cup {creating'[q]}
    BY <1>1, <1>2 DEF NothingForgotten, shouldHandle
  <2>1. m \in bootstrap \cup missed \cup queue[q] \cup {creating[q]}
    BY DEF NsIInv, NothingForgotten
  <2>2. bootstrap \subseteq bootstrap' /\ missed \subseteq missed'
    BY DEF createBootstrapConfigMap, CreateFails
  <2>3. m = creating[r] => m \in bootstrap' \cup missed'
    BY DEF createBootstrapConfigMap, CreateFails, Existing, shouldHandle
  <2> QED
    BY <1>2, <2>1, <2>2, <2>3
<1> QED
  BY <1>3, <1>4

(* Every step preserves the invariant.                                      *)
LEMMA NsNextInv == NsIInv /\ [NsNext]_allVars => NsIInv'
<1> SUFFICES ASSUME NsIInv, [NsNext]_allVars PROVE NsIInv'
  OBVIOUS
<1>1. IInv'
  BY ElectionStep, NextInv DEF NsIInv
<1>2. CASE Next /\ ManagerFollows
  BY <1>1, <1>2, ManagerInv DEF NsIInv
<1>3. ASSUME NEW n \in Namespaces, NEW l \in {"absent", "plain", "injected"}, EditNamespace(n, l)
      PROVE  NsIInv'
  BY <1>1, <1>3, EditInv DEF NsIInv
<1>4. ASSUME NEW r \in Replicas, NEW n \in Namespaces, Reconcile(r, n) PROVE NsIInv'
  BY <1>1, <1>4, ReconcileInv DEF NsIInv
<1>5. ASSUME NEW r \in Replicas, createBootstrapConfigMap(r) \/ CreateFails(r) PROVE NsIInv'
  BY <1>1, <1>5, CreateInv DEF NsIInv
<1>6. CASE UNCHANGED allVars
  BY <1>1, <1>6 DEF allVars, nsVars, vars, NsIInv, NsTypeOK, NothingForgotten, shouldHandle, Leader
<1> QED
  BY <1>2, <1>3, <1>4, <1>5, <1>6 DEF NsNext

(* NsIInv holds throughout.                                                 *)
THEOREM NsInductive == NsSpec => []NsIInv
BY NsInitInv, NsNextInv, PTL DEF NsSpec

(* Whichever replica leads, lost its lease or ended, and wherever its       *)
(* worker was: no injected namespace is forgotten by the manager that leads.*)
THEOREM HandedOver == NsSpec => []NothingForgotten
<1>1. NsIInv => NothingForgotten
  BY DEF NsIInv
<1> QED
  BY <1>1, NsInductive, PTL
=============================================================================
