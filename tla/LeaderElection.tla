--------------------------- MODULE LeaderElection ---------------------------
(***************************************************************************)
(* The replicas of Aeraki and their two elections                          *)
(* (internal/leaderelection, internal/bootstrap/server.go): a replica that *)
(* runs as a master contends for the EnvoyFilter lease, and starts the     *)
(* EnvoyFilter controller's loop each time it wins; every replica starts   *)
(* the manager of the singleton controllers, which contends for the VIP    *)
(* lease and allocates VIPs while it holds it.                             *)
(*                                                                         *)
(* The leases are those of client-go: a holder that cannot renew gives up  *)
(* within RenewDeadline, before the others may take the lease over after   *)
(* LeaseDuration.                                                          *)
(*                                                                         *)
(* A signal makes main put one token on the stop channel and return        *)
(* (cmd/aeraki/main.go).  Whichever goroutine receives it first is the     *)
(* only one that does; the process may end before anybody does.            *)
(***************************************************************************)
EXTENDS Integers, FiniteSets

CONSTANTS
  Replicas,
  Masters,     \* the replicas started with --master
  NoOne,       \* the holder of a free lease
  Former,      \* the holder of a lease whose process ended
  MaxLosses,   \* bound: leases lost by their holder
  MaxCrashes   \* bound: processes that end

ASSUME ConstantAssumption ==
  /\ Masters \subseteq Replicas
  /\ NoOne \notin Replicas /\ Former \notin Replicas /\ NoOne # Former
  /\ MaxLosses \in Nat /\ MaxCrashes \in Nat

Elections == {"ef", "vip"}

VARIABLES
  alive,    \* the replicas whose process runs
  stop,     \* the token of a replica's stop channel
  elector,  \* for each election, what a replica's elector is doing
  lease,    \* for each election, who is recorded as the holder
  loops,    \* the EnvoyFilter loops of a replica
  losses, crashes

vars == <<alive, stop, elector, lease, loops, losses, crashes>>

Init ==
  /\ alive = Replicas
  /\ stop = [r \in Replicas |-> "none"]
  /\ elector = [e \in Elections |-> [r \in Replicas |-> "contends"]]
  /\ lease = [e \in Elections |-> NoOne]
  /\ loops = [r \in Replicas |-> 0]
  /\ losses = 0 /\ crashes = 0

Leader(e, r) == r \in alive /\ elector[e][r] = "leads"

(* The elector acquires a lease that is free, or still its own.             *)
Acquire(e, r) ==
  /\ r \in alive
  /\ elector[e][r] = "contends"
  /\ lease[e] \in {NoOne, r}
  /\ lease' = [lease EXCEPT ![e] = r]
  /\ elector' = [elector EXCEPT ![e][r] = "leads"]

\* Mutant of StartLeading: the run function is added after the elector has started.
StartLeadingIdle(r) ==
  /\ r \in Masters
  /\ Acquire("ef", r)
  /\ UNCHANGED <<alive, stop, loops, losses, crashes>>

(* OnStartedLeading runs the run function: another loop.                    *)
StartLeading(r) ==
  /\ r \in Masters
  /\ Acquire("ef", r)
  /\ loops' = [loops EXCEPT ![r] = @ + 1]
  /\ UNCHANGED <<alive, stop, losses, crashes>>

(* The manager starts its controllers, on a master or not.                  *)
StartAllocating(r) ==
  /\ Acquire("vip", r)
  /\ UNCHANGED <<alive, stop, loops, losses, crashes>>

(* The lease cannot be renewed in time.                                     *)
Lose(e, r, next) ==
  /\ Leader(e, r)
  /\ losses < MaxLosses
  /\ losses' = losses + 1
  /\ elector' = [elector EXCEPT ![e][r] = next]
  /\ UNCHANGED <<alive, lease, loops, crashes>>

(* Run starts the next cycle.  The run function was given the server's stop *)
(* channel, not the elector's: its loop goes on.                            *)
StopLeading(r) == Lose("ef", r, "contends") /\ UNCHANGED stop

(* Start returns an error, which is logged; nobody calls it again.          *)
StopAllocating(r) == Lose("vip", r, "ended") /\ UNCHANGED stop

\* Mutant of Expire: the lease of an ended process stays.
ExpireWhileUp(e) ==
  /\ lease[e] \in alive
  /\ ~ Leader(e, lease[e])
  /\ lease' = [lease EXCEPT ![e] = NoOne]
  /\ UNCHANGED <<alive, stop, elector, loops, losses, crashes>>

\* Mutant of Expire: only the lease of an ended process runs out.
ExpireWhenDown(e) ==
  /\ lease[e] # NoOne
  /\ lease[e] \notin alive
  /\ lease' = [lease EXCEPT ![e] = NoOne]
  /\ UNCHANGED <<alive, stop, elector, loops, losses, crashes>>

(* A lease that nobody renews runs out.                                     *)
Expire(e) ==
  /\ lease[e] # NoOne
  /\ ~ Leader(e, lease[e])
  /\ lease' = [lease EXCEPT ![e] = NoOne]
  /\ UNCHANGED <<alive, stop, elector, loops, losses, crashes>>

-----------------------------------------------------------------------------
(* SIGTERM: main sends the token.                                           *)
Terminate(r) ==
  /\ r \in alive /\ stop[r] = "none"
  /\ crashes < MaxCrashes
  /\ crashes' = crashes + 1
  /\ stop' = [stop EXCEPT ![r] = "sent"]
  /\ UNCHANGED <<alive, elector, lease, loops, losses>>

Take(r) ==
  /\ r \in alive /\ stop[r] = "sent"
  /\ stop' = [stop EXCEPT ![r] = "taken"]

\* Mutant of CancelElection: the lease is released while the elector goes on.
ReleaseAndLead(r) ==
  /\ r \in Masters
  /\ Take(r)
  /\ lease' = [lease EXCEPT !["ef"] = IF @ = r THEN NoOne ELSE @]
  /\ UNCHANGED <<alive, elector, loops, losses, crashes>>

(* The goroutine of the current cycle cancels the elector, which releases   *)
(* its lease (ReleaseOnCancel).  Run then finds no token in the channel and *)
(* starts the next cycle.                                                   *)
CancelElection(r) ==
  /\ r \in Masters
  /\ Take(r)
  /\ elector' = [elector EXCEPT !["ef"][r] = "contends"]
  /\ lease' = [lease EXCEPT !["ef"] = IF Leader("ef", r) THEN NoOne ELSE @]
  /\ UNCHANGED <<alive, loops, losses, crashes>>

(* Run itself receives the token, after a cycle that lost the lease.        *)
QuitElection(r) == Take(r) /\ Lose("ef", r, "ended")

(* waitForShutdown stops the managers; theirs is a lease that stays until   *)
(* it runs out.                                                             *)
StopControllers(r) ==
  /\ Take(r)
  /\ elector' = [elector EXCEPT !["vip"][r] = "ended"]
  /\ UNCHANGED <<alive, lease, loops, losses, crashes>>

(* A main loop, whose break leaves only the select, a goroutine of an       *)
(* earlier cycle, a debouncer, the config cache or the RDS server.          *)
TakeElsewhere(r) == Take(r) /\ UNCHANGED <<alive, elector, lease, loops, losses, crashes>>

(* A process that is gone.  Its leases are still recorded under its name,   *)
(* which its successor does not have: the names end in a new UUID.          *)
Gone(r) ==
  /\ r \in alive
  /\ alive' = alive \ {r}
  /\ stop' = [stop EXCEPT ![r] = "none"]
  /\ elector' = [e \in Elections |-> [elector[e] EXCEPT ![r] = "contends"]]
  /\ lease' = [e \in Elections |-> IF lease[e] = r THEN Former ELSE lease[e]]
  /\ loops' = [loops EXCEPT ![r] = 0]
  /\ UNCHANGED losses

(* main returns.                                                            *)
Exit(r) == stop[r] # "none" /\ Gone(r) /\ UNCHANGED crashes

Crash(r) == crashes < MaxCrashes /\ crashes' = crashes + 1 /\ Gone(r)

Begin(r) ==
  /\ r \notin alive
  /\ alive' = alive \cup {r}
  /\ UNCHANGED <<stop, elector, lease, loops, losses, crashes>>

Next ==
  \/ \E r \in Replicas :
       \/ StartLeading(r) \/ StopLeading(r)
       \/ StartAllocating(r) \/ StopAllocating(r)
       \/ Terminate(r) \/ CancelElection(r) \/ QuitElection(r)
       \/ StopControllers(r) \/ TakeElsewhere(r)
       \/ Exit(r) \/ Crash(r) \/ Begin(r)
  \/ \E e \in Elections : Expire(e)

Spec == Init /\ [][Next]_vars

-----------------------------------------------------------------------------
(* The variables have their types.                                          *)
TypeOK ==
  /\ alive \subseteq Replicas
  /\ stop \in [Replicas -> {"none", "sent", "taken"}]
  /\ elector \in [Elections -> [Replicas -> {"contends", "leads", "ended"}]]
  /\ lease \in [Elections -> Replicas \cup {NoOne, Former}]
  /\ loops \in [Replicas -> Nat]
  /\ losses \in Nat /\ crashes \in Nat

(* A leader is the recorded holder of its lease.  This is about the         *)
(* electors: the loops that an elector once started go on without it.       *)
OneLeader ==
  \A e \in Elections : \A r \in Replicas : Leader(e, r) => lease[e] = r

(* A replica that was leader at some time has a loop, and only a live       *)
(* master does.                                                             *)
LoopsOfMasters ==
  \A r \in Replicas :
    /\ elector["ef"][r] = "leads" => loops[r] > 0
    /\ loops[r] > 0 => r \in Masters \cap alive

(* The inductive invariant.                                                 *)
IInv ==
  /\ TypeOK /\ OneLeader /\ LoopsOfMasters
  /\ \A e \in Elections, r \in Replicas \ alive : elector[e][r] = "contends"

(* Who leads, and who allocates VIPs.                                       *)
Leaders == [e \in Elections |-> {r \in Replicas : Leader(e, r)}]

Office == INSTANCE ExclusiveOffices
  WITH Offices <- Elections, Candidates <- Replicas, incumbents <- Leaders

(* The leases, however they are lost, released or left behind by processes  *)
(* that end, implement exclusive offices: a leader has stopped leading      *)
(* before the next one starts.                                              *)
ExclusiveLeases == Office!Spec

(* Once leases are no longer lost and processes no longer end, one of the   *)
(* masters pushes EnvoyFilters.                                             *)
SomePusher == <>[](\E r \in Masters : loops[r] > 0 /\ Leader("ef", r))

(* Nobody is left to allocate VIPs: every replica's manager has lost the    *)
(* lease since its process began, and is not started again.                 *)
NoManagerLeft == \A r \in Replicas : elector["vip"][r] = "ended"

(* And one of the replicas allocates VIPs, while a manager is left to.      *)
SomeAllocator == <>[](NoManagerLeft \/ \E r \in Replicas : Leader("vip", r))
=============================================================================
