------------------------ MODULE NamespaceController -------------------------
(***************************************************************************)
(* The namespace controller (internal/controller/kube/namesapce.go) of the *)
(* replicas of LeaderElection: it gives every namespace that Istio injects *)
(* the config map its sidecars are started with.  It runs in the manager   *)
(* of the singleton controllers, on the replica that holds the VIP lease.  *)
(*                                                                         *)
(* A manager that starts lists the namespaces; later each of their events  *)
(* puts the namespace on the queue.  The one worker looks the namespace up *)
(* and creates the config map in a second step, which does not end with    *)
(* the manager: it uses a context of its own.                              *)
(***************************************************************************)
EXTENDS LeaderElection

CONSTANTS
  Namespaces,
  MaxEdits,   \* bound: changes of namespaces
  MaxFaults   \* bound: creations the API server refuses

ASSUME NamespaceAssumption ==
  /\ NoOne \notin Namespaces
  /\ MaxEdits \in Nat /\ MaxFaults \in Nat

VARIABLES
  labels,     \* what a namespace's labels say, if it exists
  bootstrap,  \* the namespaces with a bootstrap config map
  queue,      \* the namespaces a replica's manager is to reconcile
  creating,   \* the namespace whose config map a replica's worker is about to create
  missed,     \* namespaces whose creation failed since they were last queued
  edits, faults

nsVars == <<labels, bootstrap, queue, creating, missed, edits, faults>>
allVars == <<vars, nsVars>>

Existing == {n \in Namespaces : labels[n] # "absent"}

NsInit ==
  /\ Init
  /\ labels \in [Namespaces -> {"absent", "plain", "injected"}]
  /\ bootstrap = {}
  /\ queue = [r \in Replicas |-> {}]
  /\ creating = [r \in Replicas |-> NoOne]
  /\ missed = {}
  /\ edits = 0 /\ faults = 0

\* Mutant of ManagerFollows: a manager that starts waits for events.
ManagerForgets ==
  /\ queue' = [r \in Replicas |-> IF Leader("vip", r)' THEN queue[r] ELSE {}]
  /\ creating' = [r \in Replicas |-> IF r \in alive' THEN creating[r] ELSE NoOne]
  /\ UNCHANGED <<labels, bootstrap, missed, edits, faults>>

(* The manager starts with the namespaces it lists and ends with its queue; *)
(* the worker ends with the process.                                        *)
ManagerFollows ==
  /\ queue' = [r \in Replicas |->
                 IF ~ Leader("vip", r)' THEN {}
                 ELSE IF Leader("vip", r) THEN queue[r] ELSE Existing]
  /\ creating' = [r \in Replicas |-> IF r \in alive' THEN creating[r] ELSE NoOne]
  /\ missed' = missed \ UNION {queue'[r] : r \in Replicas}
  /\ UNCHANGED <<labels, bootstrap, edits, faults>>

\* Mutant of EditNamespace: the predicate drops the updates.
EditUnseen(n, l) ==
  /\ edits < MaxEdits
  /\ edits' = edits + 1
  /\ labels[n] # l
  /\ labels' = [labels EXCEPT ![n] = l]
  /\ bootstrap' = IF l = "absent" THEN bootstrap \ {n} ELSE bootstrap
  /\ queue' = [r \in Replicas |->
                 IF Leader("vip", r) /\ labels[n] = "absent" THEN queue[r] \cup {n} ELSE queue[r]]
  /\ missed' = missed \ UNION {queue'[r] : r \in Replicas}
  /\ UNCHANGED <<vars, creating, faults>>

(* A namespace is created, labelled or deleted, its config map with it.     *)
EditNamespace(n, l) ==
  /\ edits < MaxEdits
  /\ edits' = edits + 1
  /\ labels[n] # l
  /\ labels' = [labels EXCEPT ![n] = l]
  /\ bootstrap' = IF l = "absent" THEN bootstrap \ {n} ELSE bootstrap
  /\ queue' = [r \in Replicas |-> IF Leader("vip", r) THEN queue[r] \cup {n} ELSE queue[r]]
  /\ missed' = missed \ UNION {queue'[r] : r \in Replicas}
  /\ UNCHANGED <<vars, creating, faults>>

shouldHandle(n) == labels[n] = "injected"

(* The worker looks the namespace up.                                       *)
Reconcile(r, n) ==
  /\ Leader("vip", r) /\ creating[r] = NoOne
  /\ n \in queue[r]
  /\ queue' = [queue EXCEPT ![r] = @ \ {n}]
  /\ creating' = [creating EXCEPT ![r] = IF shouldHandle(n) THEN n ELSE NoOne]
  /\ UNCHANGED <<vars, labels, bootstrap, missed, edits, faults>>

(* The API server creates the config map, or has it already, or no longer   *)
(* has the namespace.                                                       *)
createBootstrapConfigMap(r) ==
  /\ creating[r] # NoOne
  /\ bootstrap' = bootstrap \cup ({creating[r]} \cap Existing)
  /\ creating' = [creating EXCEPT ![r] = NoOne]
  /\ UNCHANGED <<vars, labels, queue, missed, edits, faults>>

(* Another error is logged, and the namespace is not put back on the queue. *)
CreateFails(r) ==
  /\ creating[r] # NoOne
  /\ faults < MaxFaults
  /\ faults' = faults + 1
  /\ missed' = missed \cup {creating[r]}
  /\ creating' = [creating EXCEPT ![r] = NoOne]
  /\ UNCHANGED <<vars, labels, bootstrap, queue, edits>>

NsNext ==
  \/ Next /\ ManagerFollows
  \/ \E n \in Namespaces, l \in {"absent", "plain", "injected"} : EditNamespace(n, l)
  \/ \E r \in Replicas :
       \/ \E n \in Namespaces : Reconcile(r, n)
       \/ createBootstrapConfigMap(r) \/ CreateFails(r)

(* Electors retry, leases run out, main returns after sending the token,    *)
(* the cluster restarts a replica, and a manager's worker takes the next    *)
(* namespace.                                                               *)
NsFairness ==
  /\ \A r \in Replicas :
       /\ SF_allVars(StartLeading(r) /\ ManagerFollows)
       /\ SF_allVars(StartAllocating(r) /\ ManagerFollows)
       /\ WF_allVars(Exit(r) /\ ManagerFollows) /\ WF_allVars(Begin(r) /\ ManagerFollows)
       /\ \A n \in Namespaces : WF_allVars(Reconcile(r, n))
       /\ WF_allVars(createBootstrapConfigMap(r))
  /\ \A e \in Elections : WF_allVars(Expire(e) /\ ManagerFollows)

NsSpec == NsInit /\ [][NsNext]_allVars
NsFairSpec == NsSpec /\ NsFairness

-----------------------------------------------------------------------------
(* The types of the controller's variables.  Only a leading manager has a   *)
(* queue.                                                                   *)
NsTypeOK ==
  /\ labels \in [Namespaces -> {"absent", "plain", "injected"}]
  /\ bootstrap \subseteq Namespaces /\ missed \subseteq Namespaces
  /\ queue \in [Replicas -> SUBSET Namespaces]
  /\ creating \in [Replicas -> Namespaces \cup {NoOne}]
  /\ edits \in Nat /\ faults \in Nat
  /\ \A r \in Replicas : queue[r] # {} => Leader("vip", r)

(* No namespace is forgotten when the lease changes hands: the manager that *)
(* leads still has to look at an injected namespace without its config map, *)
(* or is about to create it, or the creation failed.                        *)
NothingForgotten ==
  \A r \in Replicas, n \in Namespaces :
    Leader("vip", r) /\ shouldHandle(n)
    => n \in bootstrap \cup missed \cup queue[r] \cup {creating[r]}

(* The inductive invariant: the elections', and the controller's.           *)
NsIInv == IInv /\ NsTypeOK /\ NothingForgotten

(* Whichever replicas lose the lease or end, and wherever they were, each   *)
(* namespace that stays injected has its config map in the end, unless the  *)
(* creation failed since the namespace was last queued, or no replica has a *)
(* manager left to create it.                                               *)
Bootstrapped ==
  <>[](NoManagerLeft \/ \A n \in Namespaces : shouldHandle(n) => n \in bootstrap \cup missed)
=============================================================================
