---------------------------- MODULE EventFanout ----------------------------
(***************************************************************************)
(* How changes reach the two consumers of one Aeraki replica               *)
(* (internal/bootstrap/server.go).  The goroutine of the config store and  *)
(* the workers of the resource controllers call, for each change, the      *)
(* EnvoyFilter controller and then, when routes depend on it, the route    *)
(* cache manager; each call is a blocking send on a bounded channel.  The  *)
(* route cache's loop always runs, the EnvoyFilter loop only from the      *)
(* moment the replica first wins the election.                             *)
(***************************************************************************)
EXTENDS Integers, Sequences

CONSTANTS
  Capacity,   \* of either pushChannel (100)
  Leads,      \* the replica is a master that gets the EnvoyFilter lease
  MaxChanges  \* bound: changes

ASSUME ConstantAssumption ==
  Capacity \in Nat \ {0} /\ Leads \in BOOLEAN /\ MaxChanges \in Nat

Channels == {"ef", "rds"}

(* The goroutines that report changes: the config store's, the MetaRouter   *)
(* controller's, that of the other controllers and of the mesh config       *)
(* watcher, and the RDS server's for a proxy without a snapshot.            *)
Reporters == {"config", "metarouter", "other", "stream"}

(* The channels a change is sent to, in order.  The config store's handlers *)
(* are the EnvoyFilter controller's and the route cache manager's; the      *)
(* second ignores what is not about a MetaProtocol service.                 *)
Calls(r) ==
  CASE r = "config"     -> {<<"ef", "rds">>, <<"ef">>}
    [] r = "metarouter" -> {<<"ef", "rds">>}
    [] r = "other"      -> {<<"ef">>}
    [] r = "stream"     -> {<<"rds">>}

VARIABLES
  work,     \* for each reporter, the calls left of each change it has to report
  queue,    \* number of events in each channel
  stale,    \* a channel's consumer has not been told of the last change
  running,  \* the EnvoyFilter loop has been started
  changes

vars == <<work, queue, stale, running, changes>>

Init ==
  /\ work = [r \in Reporters |-> <<>>]
  /\ queue = [c \in Channels |-> 0]
  /\ stale = [c \in Channels |-> FALSE]
  /\ running = FALSE
  /\ changes = 0

(* A watched object changes, or a proxy without routes sends a request.     *)
Change(r, calls) ==
  /\ changes < MaxChanges
  /\ changes' = changes + 1
  /\ work' = [work EXCEPT ![r] = Append(@, calls)]
  /\ stale' = [c \in Channels |-> stale[c] \/ \E i \in DOMAIN calls : calls[i] = c]
  /\ UNCHANGED <<queue, running>>

\* Mutant of Send: it does not block.
SendUnbounded(r) ==
  /\ work[r] # <<>>
  /\ LET calls == Head(work[r])
         c == Head(calls)
     IN /\ queue' = [queue EXCEPT ![c] = @ + 1]
        /\ work' = [work EXCEPT ![r] =
                      IF Len(calls) = 1 THEN Tail(@) ELSE <<Tail(calls)>> \o Tail(@)]
  /\ UNCHANGED <<stale, running, changes>>

\* Mutant of Send: only the first consumer is told.
SendFirst(r) ==
  /\ work[r] # <<>>
  /\ LET c == Head(Head(work[r]))
     IN /\ queue[c] < Capacity
        /\ queue' = [queue EXCEPT ![c] = @ + 1]
        /\ work' = [work EXCEPT ![r] = Tail(@)]
  /\ UNCHANGED <<stale, running, changes>>

(* The reporter's next call: a send that blocks while the channel is full.  *)
Send(r) ==
  /\ work[r] # <<>>
  /\ LET calls == Head(work[r])
         c == Head(calls)
     IN /\ queue[c] < Capacity
        /\ queue' = [queue EXCEPT ![c] = @ + 1]
        /\ work' = [work EXCEPT ![r] =
                      IF Len(calls) = 1 THEN Tail(@) ELSE <<Tail(calls)>> \o Tail(@)]
  /\ UNCHANGED <<stale, running, changes>>

\* Mutant of StartEnvoyFilters: the test of the master flag is inverted.
StartOnSlave ==
  /\ ~ Leads /\ ~ running
  /\ running' = TRUE
  /\ UNCHANGED <<work, queue, stale, changes>>

(* The election is won: the run function starts the EnvoyFilter loop.       *)
StartEnvoyFilters ==
  /\ Leads /\ ~ running
  /\ running' = TRUE
  /\ UNCHANGED <<work, queue, stale, changes>>

(* A main loop receives an event; its callback will read the configuration  *)
(* as it is then.                                                           *)
Receive(c) ==
  /\ c = "rds" \/ running
  /\ queue[c] > 0
  /\ queue' = [queue EXCEPT ![c] = @ - 1]
  /\ stale' = [stale EXCEPT ![c] = FALSE]
  /\ UNCHANGED <<work, running, changes>>

Next ==
  \/ \E r \in Reporters : (\E calls \in Calls(r) : Change(r, calls)) \/ Send(r)
  \/ StartEnvoyFilters
  \/ \E c \in Channels : Receive(c)

(* Goroutines run; a sender blocked on a channel gets its turn; a replica   *)
(* that leads does so eventually.                                           *)
Fairness ==
  /\ \A r \in Reporters : SF_vars(Send(r))
  /\ \A c \in Channels : WF_vars(Receive(c))
  /\ WF_vars(StartEnvoyFilters)

Spec == Init /\ [][Next]_vars
FairSpec == Spec /\ Fairness

-----------------------------------------------------------------------------
(* The variables have their types; no channel exceeds its capacity.         *)
TypeOK ==
  /\ work \in [Reporters -> Seq(Seq(Channels) \ {<<>>})]
  /\ queue \in [Channels -> 0..Capacity]
  /\ stale \in [Channels -> BOOLEAN]
  /\ running \in BOOLEAN
  /\ changes \in 0..MaxChanges

(* No change is lost between the two handlers: a consumer that has not been *)
(* told of one has an event in its channel, or a reporter still has to send *)
(* it one.                                                                  *)
StaleIsAnnounced ==
  \A c \in Channels :
    stale[c] =>
      \/ queue[c] > 0
      \/ \E r \in Reporters : \E i \in DOMAIN work[r] :
           \E j \in DOMAIN work[r][i] : work[r][i][j] = c

(* The route cache is told of every change of the routes.                   *)
RoutesFollow == stale["rds"] ~> ~ stale["rds"]

(* The EnvoyFilter controller is told of every change.                      *)
FiltersFollow == stale["ef"] ~> ~ stale["ef"]
=============================================================================
