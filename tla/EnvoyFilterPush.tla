-------------------------- MODULE EnvoyFilterPush --------------------------
(***************************************************************************)
(* The EnvoyFilter controller (internal/envoyfilter/controller.go): config *)
(* events go through a bounded channel and a debouncer to a callback that  *)
(* generates the objects the configuration asks for and makes the API      *)
(* server's objects equal to them, one call at a time: first the           *)
(* VirtualServices that open the gateways' listeners, then the             *)
(* EnvoyFilters.  A push that reports an error is retried.                 *)
(*                                                                         *)
(* What the generation computes is abstracted to want, a specification (or *)
(* Absent) for every object name; Generation is about that.                *)
(***************************************************************************)
EXTENDS Integers

CONSTANTS
  Names,      \* names of the generated objects of either kind
  VsSpecs,    \* contents a generated VirtualService can have
  EfSpecs,    \* contents a generated EnvoyFilter can have
  Absent,     \* there is no such object
  Gateways,   \* the names whose EnvoyFilter is one of a gateway
  Sources,    \* goroutines that report changes: the config store's handler
              \* and the reconcilers of Aeraki's own resources
  Capacity,   \* of pushChannel (100)
  MaxRetries, \* maxRetries (3)
  MaxEdits,   \* bound: changes of the configuration
  MaxFaults,  \* bound: API calls that fail
  FaultCost,  \* 1: failures count against MaxFaults; 0: they never end
  MaxRestarts \* bound: crashes of the process

ASSUME ConstantAssumption ==
  /\ Capacity \in Nat \ {0} /\ MaxRetries \in Nat
  /\ MaxEdits \in Nat /\ MaxFaults \in Nat /\ MaxRestarts \in Nat /\ FaultCost \in {0, 1}
  /\ Absent \notin VsSpecs \cup EfSpecs
  /\ Gateways \subseteq Names

Kinds == {"vs", "ef"}
Specs(kind) == IF kind = "vs" THEN VsSpecs ELSE EfSpecs
Objects == VsSpecs \cup EfSpecs \cup {Absent}
Nothing == [kind \in Kinds |-> [n \in Names |-> Absent]]

VARIABLES
  want,     \* what the generation yields for the current configuration
  store,    \* the API server's objects that carry Aeraki's label
  notify,   \* sources with a change they have not reported yet
  queue,    \* number of events in pushChannel
  bounced,  \* the debouncer has an event to fire for
  pc,       \* where the debouncer's callback is
  kind,     \* the kind of object it works on
  gen,      \* what it generated
  listed,   \* the objects of this kind it was listed
  todo,     \* names it has yet to delete, update or create
  err,      \* its error variable
  retries,  \* retries so far
  lapsed,   \* a call of the last push failed, or the process started without
            \* any configuration and so without an event
  edits, faults, restarts

vars == <<want, store, notify, queue, bounced, pc, kind, gen, listed, todo, err,
          retries, lapsed, edits, faults, restarts>>
callback == <<pc, kind, gen, listed, todo, err, retries, lapsed>>
bounds == <<edits, faults, restarts>>

Init ==
  /\ want = Nothing /\ store = Nothing
  /\ notify = {} /\ queue = 0 /\ bounced = FALSE
  /\ pc = "idle" /\ kind = "vs" /\ gen = Nothing /\ listed = Nothing["vs"] /\ todo = {}
  /\ err = FALSE /\ retries = 0 /\ lapsed = FALSE
  /\ edits = 0 /\ faults = 0 /\ restarts = 0

-----------------------------------------------------------------------------
(* The configuration changes, and with it the wanted content of an object.  *)
Change(s, k, n, spec) ==
  /\ edits < MaxEdits
  /\ want[k][n] # spec
  /\ edits' = edits + 1
  /\ want' = [want EXCEPT ![k][n] = spec]
  /\ notify' = notify \cup {s}
  /\ UNCHANGED <<store, queue, bounced, callback, faults, restarts>>

(* ConfigUpdated: the send blocks while the channel is full.                *)
ConfigUpdated(s) ==
  /\ s \in notify
  /\ queue < Capacity
  /\ queue' = queue + 1
  /\ notify' = notify \ {s}
  /\ UNCHANGED <<want, store, bounced, callback, bounds>>

(* mainLoop receives an event and passes it to the debouncer.               *)
Receive ==
  /\ queue > 0
  /\ queue' = queue - 1
  /\ bounced' = TRUE
  /\ UNCHANGED <<want, store, notify, callback, bounds>>

-----------------------------------------------------------------------------
(* The callback.                                                            *)

\* Mutant of Finish: the retries are not counted.
FinishUnbounded(fails) ==
  /\ kind' = "vs" /\ gen' = Nothing /\ listed' = Nothing["vs"] /\ todo' = {} /\ err' = FALSE
  /\ UNCHANGED retries
  /\ pc' = IF fails THEN "retry" ELSE "idle"

Finish(fails) ==
  /\ kind' = "vs" /\ gen' = Nothing /\ listed' = Nothing["vs"] /\ todo' = {} /\ err' = FALSE
  /\ \/ ~ fails /\ retries' = 0 /\ pc' = "idle"
     \/ fails /\ retries >= MaxRetries /\ retries' = 0 /\ pc' = "idle"
     \/ fails /\ retries < MaxRetries /\ retries' = retries + 1 /\ pc' = "retry"

Fault == faults < MaxFaults /\ faults' = faults + FaultCost

(* The debouncer fires: generateEnvoyFilters reads the configuration.       *)
Generate ==
  /\ bounced /\ pc = "idle"
  /\ bounced' = FALSE
  /\ gen' = want
  /\ pc' = "list" /\ kind' = "vs" /\ err' = FALSE
  /\ lapsed' = FALSE
  /\ UNCHANGED <<want, store, notify, queue, listed, todo, retries, bounds>>

(* A read of the MetaRouters fails, and with it the generation.             *)
GenerateFails ==
  /\ bounced /\ pc = "idle"
  /\ bounced' = FALSE
  /\ Fault
  /\ lapsed' = TRUE
  /\ Finish(TRUE)
  /\ UNCHANGED <<want, store, notify, queue, edits, restarts>>

(* The read of the MetaRouters of a gateway fails: the error is logged, the *)
(* gateways from this one on are left out, the listeners are not looked at, *)
(* and the push goes on with what there is.                                 *)
GenerateGatewaysFails ==
  /\ bounced /\ pc = "idle"
  /\ bounced' = FALSE
  /\ Fault
  /\ lapsed' = TRUE
  /\ \E missing \in SUBSET Gateways :
       gen' = [want EXCEPT !["ef"] = [n \in Names |-> IF n \in missing THEN Absent ELSE @[n]]]
  /\ pc' = "list" /\ kind' = "ef" /\ err' = FALSE
  /\ UNCHANGED <<want, store, notify, queue, listed, todo, retries, edits, restarts>>

(* The objects with Aeraki's label are listed, and compared with the        *)
(* generated ones.                                                          *)
ToDelete(new, old) == {n \in Names : old[n] # Absent /\ new[n] = Absent}
ToUpdate(new, old) == {n \in Names : old[n] # Absent /\ new[n] \notin {Absent, old[n]}}

\* Mutant of Compare: what is no longer generated stays.
CompareWithoutDeletes(old) ==
  /\ listed' = old
  /\ todo' = {n \in Names : gen[kind][n] \notin {Absent, old[n]}}
  /\ pc' = "apply"

Compare(old) ==
  /\ listed' = old
  /\ todo' = {n \in Names : old[n] # gen[kind][n]}
  /\ pc' = "apply"

List ==
  /\ pc = "list"
  /\ Compare(store[kind])
  /\ UNCHANGED <<want, store, notify, queue, bounced, kind, gen, err, retries, lapsed, bounds>>

(* The error of the list call is dropped: the list is empty.                *)
ListFails ==
  /\ pc = "list"
  /\ Fault
  /\ lapsed' = TRUE
  /\ Compare(Nothing[kind])
  /\ UNCHANGED <<want, store, notify, queue, bounced, kind, gen, err, retries, edits, restarts>>

(* Deletions come before updates, and updates before creations.             *)
Stage(n) ==
  CASE n \in ToDelete(gen[kind], listed) -> 1
    [] n \in ToUpdate(gen[kind], listed) -> 2
    [] OTHER -> 3
Due(n) == n \in todo /\ \A m \in todo : Stage(n) <= Stage(m)

(* What the API server accepts: to create an object that is not there, to   *)
(* update one with the resource version of the listed one.  The update of a *)
(* VirtualService carries no resource version.                              *)
Accepts(n) ==
  CASE Stage(n) = 1 -> TRUE
    [] Stage(n) = 2 -> kind = "ef"
    [] OTHER -> store[kind][n] = Absent

Write(n) == store' = [store EXCEPT ![kind][n] = gen[kind][n]]

(* One call of one of the three loops; err is that of the last call.        *)
Apply(n) ==
  /\ pc = "apply" /\ Due(n)
  /\ todo' = todo \ {n}
  /\ \/ Accepts(n) /\ Write(n) /\ err' = FALSE /\ UNCHANGED lapsed
     \/ ~ Accepts(n) /\ err' = TRUE /\ lapsed' = TRUE /\ UNCHANGED store
  /\ UNCHANGED <<want, notify, queue, bounced, pc, kind, gen, listed, retries, bounds>>

(* The call fails, before or after the server has applied it.               *)
ApplyFails(n) ==
  /\ pc = "apply" /\ Due(n)
  /\ Fault
  /\ todo' = todo \ {n}
  /\ err' = TRUE /\ lapsed' = TRUE
  /\ (Accepts(n) /\ Write(n)) \/ UNCHANGED store
  /\ UNCHANGED <<want, notify, queue, bounced, pc, kind, gen, listed, retries, edits, restarts>>

\* Mutant of EndListeners: neither the rest of the listeners nor an error is waited for.
EndListenersEarly ==
  /\ pc = "apply" /\ kind = "vs"
  /\ kind' = "ef" /\ pc' = "list"
  /\ UNCHANGED <<want, store, notify, queue, bounced, gen, listed, todo, err, retries, lapsed, bounds>>

(* The gateways' listeners are done: an error ends the push, otherwise the  *)
(* EnvoyFilters are next.                                                   *)
EndListeners ==
  /\ pc = "apply" /\ todo = {} /\ kind = "vs"
  /\ \/ err /\ Finish(TRUE)
     \/ ~ err /\ kind' = "ef" /\ pc' = "list" /\ UNCHANGED <<gen, listed, todo, err, retries>>
  /\ UNCHANGED <<want, store, notify, queue, bounced, lapsed, bounds>>

EndPush ==
  /\ pc = "apply" /\ todo = {} /\ kind = "ef"
  /\ Finish(err)
  /\ UNCHANGED <<want, store, notify, queue, bounced, lapsed, bounds>>

(* The callback asks for a retry through the same channel.                  *)
Retry ==
  /\ pc = "retry"
  /\ queue < Capacity
  /\ queue' = queue + 1
  /\ pc' = "idle"
  /\ UNCHANGED <<want, store, notify, bounced, kind, gen, listed, todo, err, retries, lapsed, bounds>>

(* A crash: the new process is told of the configuration there is.          *)
Restart ==
  /\ restarts < MaxRestarts
  /\ restarts' = restarts + 1
  /\ queue' = 0 /\ bounced' = FALSE
  /\ pc' = "idle" /\ kind' = "vs" /\ gen' = Nothing /\ listed' = Nothing["vs"] /\ todo' = {}
  /\ err' = FALSE /\ retries' = 0
  /\ notify' \in SUBSET Sources
  /\ notify' = {} => want = Nothing
  /\ lapsed' = (notify' = {})
  /\ UNCHANGED <<want, store, edits, faults>>

Environment ==
  \E s \in Sources, k \in Kinds, n \in Names :
    \E spec \in Specs(k) \cup {Absent} : Change(s, k, n, spec)
Loop == (\E s \in Sources : ConfigUpdated(s)) \/ Receive \/ Retry
Push == Generate \/ List \/ (\E n \in Names : Apply(n)) \/ EndListeners \/ EndPush
Failure == GenerateFails \/ GenerateGatewaysFails \/ ListFails \/ \E n \in Names : ApplyFails(n)

Next == Environment \/ Loop \/ Push \/ Failure \/ Restart

(* The goroutines run; a sender blocked on the channel gets its turn.       *)
Fairness ==
  /\ \A s \in Sources : SF_vars(ConfigUpdated(s))
  /\ SF_vars(Retry)
  /\ WF_vars(Receive)
  /\ WF_vars(Push \/ Failure)

Spec == Init /\ [][Next]_vars
FairSpec == Spec /\ Fairness

-----------------------------------------------------------------------------
(* The variables have their types; the channel is within its capacity, and  *)
(* mainLoop's callback counts its retries up to maxRetries.                 *)
TypeOK ==
  /\ want \in [Kinds -> [Names -> Objects]]
  /\ store \in [Kinds -> [Names -> Objects]]
  /\ gen \in [Kinds -> [Names -> Objects]]
  /\ listed \in [Names -> Objects]
  /\ notify \subseteq Sources
  /\ queue \in 0..Capacity
  /\ bounced \in BOOLEAN /\ err \in BOOLEAN /\ lapsed \in BOOLEAN
  /\ pc \in {"idle", "list", "apply", "retry"}
  /\ kind \in Kinds
  /\ todo \subseteq Names
  /\ retries \in 0..MaxRetries
  /\ edits \in Nat /\ faults \in Nat /\ restarts \in Nat

(* An event is on its way to the callback.                                  *)
Upcoming == notify # {} \/ queue > 0 \/ bounced
Pending == Upcoming \/ pc # "idle"

(* When nothing is pending and no call of the last push failed, the API     *)
(* server has exactly the objects the configuration asks for: no change     *)
(* that came while a push was running is lost by pushChannel, the debouncer *)
(* or the comparison in pushEnvoyFilters2APIServer.                         *)
InSyncWhenQuiet == ~ Pending /\ ~ lapsed => store = want

(* A push works on the current configuration, or another one will follow.   *)
GeneratedCurrent ==
  pc \in {"list", "apply"} /\ ~ lapsed => gen = want \/ Upcoming

(* The objects of the kind at hand are as generated, but for those still to *)
(* do, which are as listed; the listeners are done before the EnvoyFilters. *)
AppliedAsGenerated ==
  ~ lapsed =>
    /\ pc # "retry" /\ err = FALSE
    /\ pc \in {"list", "apply"} /\ kind = "ef" => store["vs"] = gen["vs"]
    /\ pc = "apply" =>
         \A n \in Names :
           /\ store[kind][n] = IF n \in todo THEN listed[n] ELSE gen[kind][n]
           /\ n \in todo => listed[n] # gen[kind][n]

(* The inductive invariant of the controller.                               *)
IInv ==
  /\ TypeOK
  /\ GeneratedCurrent
  /\ AppliedAsGenerated
  /\ pc = "idle" /\ ~ lapsed => store = want \/ Upcoming

(* However often the API server fails, the controller comes to rest: it     *)
(* never retries forever, no sender stays blocked on the channel, and it    *)
(* has then what the configuration asks for, or a call of its last push     *)
(* failed.                                                                  *)
Settles == <>[](~ Pending /\ (lapsed \/ store = want))

(* "envoyFilterController watches changes on config and create/update       *)
(* corresponding EnvoyFilters": once the configuration stops changing, the  *)
(* API server's objects become and stay what it asks for.                   *)
Converges == <>[](store = want)
=============================================================================
