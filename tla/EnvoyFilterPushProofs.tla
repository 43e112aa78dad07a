----------------------- MODULE EnvoyFilterPushProofs -----------------------
(***************************************************************************)
(* Proofs about the EnvoyFilter controller: for every set of objects,      *)
(* sources and contents, and any number of faults and restarts.            *)
(***************************************************************************)
EXTENDS EnvoyFilterPush, TLAPS

(* Nothing maps every name of every kind to Absent, an object's content.    *)
LEMMA NothingType ==
  /\ Nothing \in [Kinds -> [Names -> Objects]]
  /\ \A k \in Kinds : Nothing[k] \in [Names -> Objects]
BY DEF Nothing, Kinds, Objects

(* Two maps of objects are equal when they are so kind by kind.             *)
LEMMA KindWise ==
  ASSUME NEW f \in [Kinds -> [Names -> Objects]], NEW g \in [Kinds -> [Names -> Objects]],
         f["vs"] = g["vs"], f["ef"] = g["ef"]
  PROVE  f = g
BY DEF Kinds

(* The controller starts in sync.                                           *)
LEMMA InitInv == Init => IInv
<1> SUFFICES ASSUME Init PROVE IInv
  OBVIOUS
<1>a. want \in [Kinds -> [Names -> Objects]] /\ store \in [Kinds -> [Names -> Objects]]
  BY NothingType DEF Init
<1>b. gen \in [Kinds -> [Names -> Objects]] /\ listed \in [Names -> Objects]
  BY NothingType DEF Init, Kinds
<1>c. kind \in Kinds
  BY DEF Init, Kinds
<1>d. /\ queue \in 0..Capacity /\ retries \in 0..MaxRetries
      /\ edits \in Nat /\ faults \in Nat /\ restarts \in Nat
  BY ConstantAssumption DEF Init
<1>e. /\ notify \subseteq Sources /\ todo \subseteq Names
      /\ bounced \in BOOLEAN /\ err \in BOOLEAN /\ lapsed \in BOOLEAN
      /\ pc \in {"idle", "list", "apply", "retry"}
  BY DEF Init
<1>1. TypeOK
  BY <1>a, <1>b, <1>c, <1>d, <1>e DEF TypeOK
<1> QED
  BY <1>1 DEF Init, IInv, GeneratedCurrent, AppliedAsGenerated

(* A change of the configuration leaves an event to report.                 *)
LEMMA ChangeInv ==
  ASSUME IInv, NEW s \in Sources, NEW k \in Kinds, NEW n \in Names,
         NEW spec \in Specs(k) \cup {Absent}, Change(s, k, n, spec)
  PROVE  IInv'
<1>1. TypeOK'
  BY DEF IInv, TypeOK, Change, Specs, Objects, callback
<1>2. Upcoming'
  BY DEF Change, Upcoming
<1> QED
  BY <1>1, <1>2 DEF IInv, GeneratedCurrent, AppliedAsGenerated, Change, callback

(* Reporting an event, receiving it and asking for a retry keep it on its   *)
(* way to the callback.                                                     *)
LEMMA ConfigUpdatedInv == ASSUME IInv, NEW s \in Sources, ConfigUpdated(s) PROVE IInv'
<1>1. TypeOK'
  BY ConstantAssumption DEF IInv, TypeOK, ConfigUpdated, callback, bounds
<1>2. Upcoming'
  BY DEF IInv, TypeOK, ConfigUpdated, Upcoming
<1> QED
  BY <1>1, <1>2 DEF IInv, GeneratedCurrent, AppliedAsGenerated, ConfigUpdated, callback, bounds

(* See ConfigUpdatedInv.                                                    *)
LEMMA ReceiveInv == ASSUME IInv, Receive PROVE IInv'
<1>1. TypeOK'
  BY ConstantAssumption DEF IInv, TypeOK, Receive, callback, bounds
<1>2. Upcoming'
  BY DEF Receive, Upcoming
<1> QED
  BY <1>1, <1>2 DEF IInv, GeneratedCurrent, AppliedAsGenerated, Receive, callback, bounds

(* See ConfigUpdatedInv.                                                    *)
LEMMA RetryInv == ASSUME IInv, Retry PROVE IInv'
<1>1. TypeOK'
  BY ConstantAssumption DEF IInv, TypeOK, Retry, bounds
<1>2. Upcoming'
  BY DEF IInv, TypeOK, Retry, Upcoming
<1> QED
  BY <1>1, <1>2 DEF IInv, GeneratedCurrent, AppliedAsGenerated, Retry, bounds

(* The end of a push leaves the callback's variables in their types, and it *)
(* asks for a retry only after an error.                                    *)
LEMMA FinishType ==
  ASSUME TypeOK, NEW fails \in BOOLEAN, Finish(fails)
  PROVE  /\ gen' \in [Kinds -> [Names -> Objects]] /\ listed' \in [Names -> Objects]
         /\ kind' \in Kinds /\ todo' \subseteq Names /\ err' = FALSE
         /\ retries' \in 0..MaxRetries
         /\ pc' \in {"idle", "retry"}
         /\ pc' = "retry" => fails
BY NothingType, ConstantAssumption DEF Finish, TypeOK, Kinds

(* A push starts from the current configuration.                            *)
LEMMA GenerateInv == ASSUME IInv, Generate PROVE IInv'
<1>1. TypeOK'
  BY DEF IInv, TypeOK, Generate, Kinds, bounds
<1> QED
  BY <1>1 DEF IInv, GeneratedCurrent, AppliedAsGenerated, Generate, bounds

(* Every failure is recorded in lapsed, which frees the rest of the         *)
(* invariant.                                                               *)
LEMMA GenerateFailsInv == ASSUME IInv, GenerateFails PROVE IInv'
<1>a. faults' \in Nat
  BY ConstantAssumption DEF IInv, TypeOK, GenerateFails, Fault
<1>1. TypeOK'
  BY <1>a, FinishType DEF IInv, TypeOK, GenerateFails
<1> QED
  BY <1>1 DEF IInv, GeneratedCurrent, AppliedAsGenerated, GenerateFails

(* See GenerateFailsInv.                                                    *)
LEMMA GenerateGatewaysFailsInv == ASSUME IInv, GenerateGatewaysFails PROVE IInv'
<1>1. gen' \in [Kinds -> [Names -> Objects]]
  <2>1. PICK missing \in SUBSET Gateways :
          gen' = [want EXCEPT !["ef"] = [n \in Names |-> IF n \in missing THEN Absent ELSE @[n]]]
    BY DEF GenerateGatewaysFails
  <2>2. [n \in Names |-> IF n \in missing THEN Absent ELSE want["ef"][n]] \in [Names -> Objects]
    BY DEF IInv, TypeOK, Objects, Kinds
  <2> QED
    BY <2>1, <2>2 DEF IInv, TypeOK, Kinds
<1>2. kind' \in Kinds
  BY DEF GenerateGatewaysFails, Kinds
<1>3. TypeOK'
  <2>1. faults' \in Nat
    BY ConstantAssumption DEF IInv, TypeOK, GenerateGatewaysFails, Fault
  <2>2. /\ bounced' = FALSE /\ lapsed' = TRUE /\ pc' = "list" /\ err' = FALSE
        /\ UNCHANGED <<want, store, notify, queue, listed, todo, retries, edits, restarts>>
    BY DEF GenerateGatewaysFails
  <2> QED
    BY <1>1, <1>2, <2>1, <2>2 DEF IInv, TypeOK
<1> QED
  BY <1>3 DEF IInv, GeneratedCurrent, AppliedAsGenerated, GenerateGatewaysFails

(* The comparison leaves to do exactly the names whose object differs.      *)
LEMMA ListInv == ASSUME IInv, List PROVE IInv'
<1>1. TypeOK'
  BY DEF IInv, TypeOK, List, Compare, bounds
<1>2. AppliedAsGenerated'
  BY DEF IInv, AppliedAsGenerated, List, Compare, bounds
<1> QED
  BY <1>1, <1>2 DEF IInv, GeneratedCurrent, Upcoming, List, Compare, bounds

(* See GenerateFailsInv.                                                    *)
LEMMA ListFailsInv == ASSUME IInv, ListFails PROVE IInv'
<1>1. TypeOK'
  BY NothingType, ConstantAssumption DEF IInv, TypeOK, ListFails, Compare, Fault
<1> QED
  BY <1>1 DEF IInv, GeneratedCurrent, AppliedAsGenerated, ListFails, Compare

(* A write stores a generated object.                                       *)
LEMMA WriteType ==
  ASSUME TypeOK, NEW n \in Names, Write(n)
  PROVE  store' \in [Kinds -> [Names -> Objects]]
<1>1. gen[kind][n] \in Objects
  BY DEF TypeOK
<1>2. [store[kind] EXCEPT ![n] = gen[kind][n]] \in [Names -> Objects]
  BY <1>1 DEF TypeOK
<1>3. store' = [store EXCEPT ![kind] = [store[kind] EXCEPT ![n] = gen[kind][n]]]
  BY DEF Write
<1> QED
  BY <1>2, <1>3 DEF TypeOK

(* An accepted call makes one more object as generated.                     *)
LEMMA ApplyInv == ASSUME IInv, NEW n \in Names, Apply(n) PROVE IInv'
<1>0. store' \in [Kinds -> [Names -> Objects]]
  BY WriteType DEF IInv, TypeOK, Apply
<1>1. TypeOK'
  BY <1>0 DEF IInv, TypeOK, Apply, bounds
<1>2. CASE ~ Accepts(n)
  BY <1>1, <1>2 DEF IInv, GeneratedCurrent, AppliedAsGenerated, Apply, bounds
<1>3. CASE Accepts(n) /\ lapsed
  BY <1>1, <1>3 DEF IInv, GeneratedCurrent, AppliedAsGenerated, Apply, bounds
<1>4. CASE Accepts(n) /\ ~ lapsed
  <2>1. AppliedAsGenerated'
    BY <1>4 DEF IInv, TypeOK, AppliedAsGenerated, Apply, Write, Due, Kinds, bounds
  <2> QED
    BY <1>1, <1>4, <2>1 DEF IInv, GeneratedCurrent, Upcoming, Apply, bounds
<1> QED
  BY <1>2, <1>3, <1>4

(* See GenerateFailsInv.                                                    *)
LEMMA ApplyFailsInv == ASSUME IInv, NEW n \in Names, ApplyFails(n) PROVE IInv'
<1>0. store' \in [Kinds -> [Names -> Objects]]
  BY WriteType DEF IInv, TypeOK, ApplyFails
<1>1. TypeOK'
  BY <1>0, ConstantAssumption DEF IInv, TypeOK, ApplyFails, Fault
<1> QED
  BY <1>1 DEF IInv, GeneratedCurrent, AppliedAsGenerated, ApplyFails

(* With nothing left to do, the listeners are as generated.                 *)
LEMMA EndListenersInv == ASSUME IInv, EndListeners PROVE IInv'
<1>1. TypeOK'
  BY FinishType DEF IInv, TypeOK, EndListeners, Kinds, bounds
<1>2. CASE lapsed
  BY <1>1, <1>2 DEF IInv, GeneratedCurrent, AppliedAsGenerated, EndListeners
<1>3. CASE ~ lapsed
  <2>1. store["vs"] = gen["vs"]
    BY <1>3 DEF IInv, TypeOK, AppliedAsGenerated, EndListeners, Kinds
  <2>2. ~ err
    BY <1>3 DEF IInv, AppliedAsGenerated
  <2> QED
    BY <1>1, <2>1, <2>2
    DEF IInv, GeneratedCurrent, AppliedAsGenerated, Upcoming, EndListeners, bounds
<1> QED
  BY <1>2, <1>3

(* A push that ends without a failed call leaves the API server with what   *)
(* it generated, which is what is wanted unless another event is coming.    *)
LEMMA EndPushInv == ASSUME IInv, EndPush PROVE IInv'
<1>1. TypeOK'
  BY FinishType DEF IInv, TypeOK, EndPush, bounds
<1>2. CASE lapsed
  BY <1>1, <1>2 DEF IInv, GeneratedCurrent, AppliedAsGenerated, EndPush
<1>3. CASE ~ lapsed
  <2>1. err = FALSE
    BY <1>3 DEF IInv, AppliedAsGenerated
  <2>2. store["vs"] = gen["vs"] /\ store["ef"] = gen["ef"]
    BY <1>3 DEF IInv, TypeOK, AppliedAsGenerated, EndPush, Kinds
  <2>3. store = gen
    BY <2>2, KindWise DEF IInv, TypeOK
  <2>4. pc' = "idle" /\ err' = FALSE
    BY <2>1 DEF EndPush, Finish
  <2> QED
    BY <1>1, <1>3, <2>3, <2>4
    DEF IInv, GeneratedCurrent, AppliedAsGenerated, Upcoming, EndPush, bounds
<1> QED
  BY <1>2, <1>3

(* A new process has events to report, unless nothing is configured.        *)
LEMMA RestartInv == ASSUME IInv, Restart PROVE IInv'
<1>a. lapsed' \in BOOLEAN /\ notify' \subseteq Sources /\ kind' \in Kinds
  BY DEF Restart, Kinds
<1>b. /\ restarts' = restarts + 1 /\ queue' = 0 /\ bounced' = FALSE
      /\ pc' = "idle" /\ kind' = "vs" /\ gen' = Nothing /\ listed' = Nothing["vs"]
      /\ todo' = {} /\ err' = FALSE /\ retries' = 0
      /\ UNCHANGED <<want, store, edits, faults>>
  BY DEF Restart
<1>c. gen' \in [Kinds -> [Names -> Objects]] /\ listed' \in [Names -> Objects]
  BY <1>b, NothingType DEF Kinds
<1>d. queue' \in 0..Capacity /\ retries' \in 0..MaxRetries /\ restarts' \in Nat
  BY <1>b, ConstantAssumption DEF IInv, TypeOK
<1>1. TypeOK'
  BY <1>a, <1>b, <1>c, <1>d DEF IInv, TypeOK
<1> QED
  BY <1>1 DEF IInv, GeneratedCurrent, AppliedAsGenerated, Upcoming, Restart

(* Every step preserves the invariant.                                      *)
LEMMA NextInv == IInv /\ [Next]_vars => IInv'
<1> SUFFICES ASSUME IInv, [Next]_vars PROVE IInv'
  OBVIOUS
<1>1. CASE Environment
  BY <1>1, ChangeInv DEF Environment
<1>2. CASE Loop
  BY <1>2, ConfigUpdatedInv, ReceiveInv, RetryInv DEF Loop
<1>3. CASE Push
  BY <1>3, GenerateInv, ListInv, ApplyInv, EndListenersInv, EndPushInv DEF Push
<1>4. CASE Failure
  BY <1>4, GenerateFailsInv, GenerateGatewaysFailsInv, ListFailsInv, ApplyFailsInv DEF Failure
<1>5. CASE Restart
  BY <1>5, RestartInv
<1>6. CASE UNCHANGED vars
  BY <1>6 DEF vars, IInv, TypeOK, GeneratedCurrent, AppliedAsGenerated, Upcoming
<1> QED
  BY <1>1, <1>2, <1>3, <1>4, <1>5, <1>6 DEF Next

(* IInv holds throughout: a push without a failed call works on the current *)
(* configuration or is followed by another one.                             *)
THEOREM Inductive == Spec => []IInv
BY InitInv, NextInv, PTL DEF Spec

(* No change of the configuration is lost: whenever nothing is pending and  *)
(* no call of the last push failed, the API server's objects are the wanted *)
(* ones.                                                                    *)
THEOREM InSync == Spec => []InSyncWhenQuiet
<1>1. IInv => InSyncWhenQuiet
  BY DEF IInv, InSyncWhenQuiet, Pending
<1> QED
  BY <1>1, Inductive, PTL
=============================================================================
