------------------------- MODULE EventFanoutProofs --------------------------
(***************************************************************************)
(* Proofs about the fan-out of changes: for channels of any capacity and   *)
(* any number of changes, on a replica that leads or not.                  *)
(***************************************************************************)
EXTENDS EventFanout, SequenceTheorems, TLAPS

(* What a reporter still has to send.                                       *)
Todo(c, calls) == \E j \in DOMAIN calls : calls[j] = c
Owes(c, changeList) == \E i \in DOMAIN changeList : Todo(c, changeList[i])

(* The invariant: no change is lost, and everything has its type.           *)
Inv == TypeOK /\ StaleIsAnnounced

LEMMA AnnouncedDef ==
  StaleIsAnnounced <=>
    \A c \in Channels : stale[c] => queue[c] > 0 \/ \E r \in Reporters : Owes(c, work[r])
BY DEF StaleIsAnnounced, Owes, Todo

(* A list of calls is a non-empty sequence of channels.                     *)
LEMMA CallsType ==
  ASSUME NEW r \in Reporters, NEW calls \in Calls(r)
  PROVE  calls \in Seq(Channels) \ {<<>>}
<1>1. <<"ef", "rds">> \in Seq(Channels) /\ <<"ef", "rds">> # <<>>
  BY DEF Channels
<1>2. <<"ef">> \in Seq(Channels) /\ <<"ef">> # <<>>
  BY DEF Channels
<1>3. <<"rds">> \in Seq(Channels) /\ <<"rds">> # <<>>
  BY DEF Channels
<1>4. calls \in {<<"ef", "rds">>, <<"ef">>, <<"rds">>}
  BY DEF Reporters, Calls
<1> QED
  BY <1>1, <1>2, <1>3, <1>4

(* Nothing is stale before the first change.                                *)
LEMMA InitInv == Init => Inv
<1> SUFFICES ASSUME Init PROVE Inv
  OBVIOUS
<1>1. work \in [Reporters -> Seq(Seq(Channels) \ {<<>>})]
  BY DEF Init
<1>2. StaleIsAnnounced
  BY DEF Init, StaleIsAnnounced
<1>3. queue \in [Channels -> 0..Capacity] /\ stale \in [Channels -> BOOLEAN]
  BY ConstantAssumption DEF Init, ConstantAssumption
<1>4. changes \in 0..MaxChanges
  BY ConstantAssumption DEF Init, ConstantAssumption
<1>5. running \in BOOLEAN
  BY DEF Init
<1> QED
  BY <1>1, <1>2, <1>3, <1>4, <1>5 DEF Inv, TypeOK

(* A new change is owed to each channel it names, and what was owed stays.  *)
LEMMA OwesAppend ==
  ASSUME NEW list \in Seq(Seq(Channels) \ {<<>>}), NEW calls \in Seq(Channels) \ {<<>>},
         NEW c \in Channels
  PROVE  /\ Append(list, calls) \in Seq(Seq(Channels) \ {<<>>})
         /\ Owes(c, Append(list, calls)) <=> Owes(c, list) \/ Todo(c, calls)
<1>1. Append(list, calls) \in Seq(Seq(Channels) \ {<<>>})
  OBVIOUS
<1>2. /\ Len(Append(list, calls)) = Len(list) + 1 /\ Len(list) \in Nat
      /\ Append(list, calls)[Len(list) + 1] = calls
      /\ \A i \in 1..Len(list) : Append(list, calls)[i] = list[i]
  OBVIOUS
<1>3. DOMAIN Append(list, calls) = 1..(Len(list) + 1) /\ DOMAIN list = 1..Len(list)
  BY <1>1, <1>2
<1>4. ASSUME Owes(c, list) PROVE Owes(c, Append(list, calls))
  <2>1. PICK i \in 1..Len(list) : Todo(c, list[i])
    BY <1>3, <1>4 DEF Owes
  <2>2. i \in 1..(Len(list) + 1) /\ Append(list, calls)[i] = list[i]
    BY <1>2, <2>1
  <2> QED
    BY <1>3, <2>1, <2>2 DEF Owes
<1>5. Todo(c, calls) => Owes(c, Append(list, calls))
  BY <1>2, <1>3 DEF Owes
<1>6. ASSUME Owes(c, Append(list, calls)), ~ Todo(c, calls) PROVE Owes(c, list)
  <2>1. PICK i \in 1..(Len(list) + 1) : Todo(c, Append(list, calls)[i])
    BY <1>3, <1>6 DEF Owes
  <2>2. i \in 1..Len(list)
    BY <1>2, <1>6, <2>1
  <2> QED
    BY <1>2, <1>3, <2>1, <2>2 DEF Owes
<1> QED
  BY <1>1, <1>4, <1>5, <1>6

(* A call that is made is the only thing no longer owed.                    *)
LEMMA OwesAfterSend ==
  ASSUME NEW list \in Seq(Seq(Channels) \ {<<>>}), list # <<>>, NEW c \in Channels,
         c # Head(Head(list)), Owes(c, list)
  PROVE  Owes(c, IF Len(Head(list)) = 1 THEN Tail(list) ELSE <<Tail(Head(list))>> \o Tail(list))
<1> DEFINE calls == Head(list)
<1>1. /\ calls \in Seq(Channels) /\ calls # <<>> /\ calls = list[1] /\ Head(calls) = calls[1]
      /\ Len(list) \in Nat /\ Len(list) >= 1 /\ Len(calls) \in Nat /\ Len(calls) >= 1
  OBVIOUS
<1>2. /\ Tail(list) \in Seq(Seq(Channels) \ {<<>>}) /\ Len(Tail(list)) = Len(list) - 1
      /\ \A i \in 1..(Len(list) - 1) : Tail(list)[i] = list[i + 1]
  BY <1>1
<1>3. /\ Tail(calls) \in Seq(Channels) /\ Len(Tail(calls)) = Len(calls) - 1
      /\ \A j \in 1..(Len(calls) - 1) : Tail(calls)[j] = calls[j + 1]
  BY <1>1
<1>4. PICK i \in 1..Len(list) : Todo(c, list[i])
  <2>1. DOMAIN list = 1..Len(list)
    OBVIOUS
  <2> QED
    BY <2>1 DEF Owes
<1>5. CASE i = 1
  <2>1. PICK j \in 1..Len(calls) : calls[j] = c
    BY <1>1, <1>4, <1>5 DEF Todo
  <2>2. j # 1 /\ Len(calls) # 1
    BY <1>1, <2>1
  <2>3. j - 1 \in 1..(Len(calls) - 1) /\ Tail(calls)[j - 1] = c
    BY <1>1, <1>3, <2>1, <2>2
  <2>4. Todo(c, Tail(calls))
    BY <1>1, <1>3, <2>3 DEF Todo
  <2>5. (<<Tail(calls)>> \o Tail(list))[1] = Tail(calls) /\ 1 \in DOMAIN (<<Tail(calls)>> \o Tail(list))
    BY <1>1, <1>2, <1>3
  <2>6. Owes(c, <<Tail(calls)>> \o Tail(list))
    BY <2>4, <2>5 DEF Owes
  <2> QED
    BY <2>2, <2>6
<1>6. CASE i # 1
  <2>1. i - 1 \in 1..(Len(list) - 1) /\ Tail(list)[i - 1] = list[i]
    BY <1>1, <1>2, <1>4, <1>6
  <2>2. CASE Len(calls) = 1
    <3>1. DOMAIN Tail(list) = 1..(Len(list) - 1)
      BY <1>1, <1>2
    <3>2. Owes(c, Tail(list))
      BY <1>4, <2>1, <3>1 DEF Owes
    <3> QED
      BY <2>2, <3>2
  <2>3. CASE Len(calls) # 1
    <3>1. (<<Tail(calls)>> \o Tail(list))[i] = Tail(list)[i - 1]
          /\ i \in DOMAIN (<<Tail(calls)>> \o Tail(list))
      BY <1>1, <1>2, <1>3, <1>4, <1>6
    <3> QED
      <4>1. Owes(c, <<Tail(calls)>> \o Tail(list))
        BY <1>4, <2>1, <3>1 DEF Owes
      <4> QED
        BY <2>3, <4>1
  <2> QED
    BY <2>2, <2>3
<1> QED
  BY <1>5, <1>6
(* What is left of a list after a call is a list of calls again.            *)
LEMMA LeftType ==
  ASSUME NEW list \in Seq(Seq(Channels) \ {<<>>}), list # <<>>
  PROVE  (IF Len(Head(list)) = 1 THEN Tail(list) ELSE <<Tail(Head(list))>> \o Tail(list))
           \in Seq(Seq(Channels) \ {<<>>})
<1>1. Tail(list) \in Seq(Seq(Channels) \ {<<>>})
  OBVIOUS
<1>2. PICK calls \in Seq(Channels) : calls = Head(list) /\ calls # <<>>
  OBVIOUS
<1>3. CASE Len(calls) # 1
  <2>1. PICK n \in Nat \ {0} : n = Len(calls)
    BY <1>2, EmptySeq, Zenon
  <2>2. Tail(calls) \in Seq(Channels) /\ Len(Tail(calls)) = Len(calls) - 1
    BY <1>2
  <2>3. Tail(calls) # <<>>
    <3>1. n - 1 # 0
      BY <1>3, <2>1
    <3>2. Len(Tail(calls)) # 0
      BY <2>1, <2>2, <3>1, Zenon
    <3> QED
      BY <3>2, EmptySeq, Zenon
  <2>4. <<Tail(calls)>> \in Seq(Seq(Channels) \ {<<>>})
    BY <2>2, <2>3
  <2> QED
    BY <1>1, <1>2, <1>3, <2>4
<1> QED
  BY <1>1, <1>2, <1>3

(* Every action keeps the invariant.  A change makes stale only what it     *)
(* will announce.                                                           *)
LEMMA ChangeInv ==
  ASSUME Inv, NEW r \in Reporters, NEW calls \in Calls(r), Change(r, calls)
  PROVE  Inv'
<1>1. calls \in Seq(Channels) \ {<<>>}
  BY CallsType
<1>2. \A q \in Reporters : work[q] \in Seq(Seq(Channels) \ {<<>>})
  BY DEF Inv, TypeOK
<1>3. /\ work' = [work EXCEPT ![r] = Append(work[r], calls)]
      /\ work \in [Reporters -> Seq(Seq(Channels) \ {<<>>})]
      /\ stale' = [c \in Channels |-> stale[c] \/ Todo(c, calls)]
      /\ queue' = queue /\ running' = running
      /\ changes < MaxChanges /\ changes' = changes + 1
  BY DEF Inv, TypeOK, Change, Todo
<1>4. Append(work[r], calls) \in Seq(Seq(Channels) \ {<<>>})
  BY <1>1, <1>2, OwesAppend DEF Channels
<1>5. \A c \in Channels, q \in Reporters :
        Owes(c, work[q]) \/ (q = r /\ Todo(c, calls)) => Owes(c, work'[q])
  <2> SUFFICES ASSUME NEW c \in Channels, NEW q \in Reporters,
                      Owes(c, work[q]) \/ (q = r /\ Todo(c, calls))
               PROVE  Owes(c, work'[q])
    OBVIOUS
  <2>1. CASE q = r
    <3>1. work'[q] = Append(work[r], calls)
      BY <1>3, <2>1
    <3> QED
      BY <1>1, <1>2, <2>1, <3>1, OwesAppend
  <2>2. CASE q # r
    BY <1>3, <2>2
  <2> QED
    BY <2>1, <2>2
<1>6. TypeOK'
  <2>1. work' \in [Reporters -> Seq(Seq(Channels) \ {<<>>})]
    BY <1>3, <1>4
  <2>2. changes' \in 0..MaxChanges
    BY <1>3, ConstantAssumption DEF Inv, TypeOK, ConstantAssumption
  <2>3. stale' \in [Channels -> BOOLEAN]
    BY <1>3
  <2> QED
    BY <1>3, <2>1, <2>2, <2>3 DEF Inv, TypeOK
<1>7. \A c \in Channels : stale'[c] => queue'[c] > 0 \/ \E q \in Reporters : Owes(c, work'[q])
  <2> SUFFICES ASSUME NEW c \in Channels, stale'[c]
               PROVE  queue'[c] > 0 \/ \E q \in Reporters : Owes(c, work'[q])
    OBVIOUS
  <2>1. stale[c] \/ Todo(c, calls)
    BY <1>3
  <2>2. stale[c] => queue[c] > 0 \/ \E q \in Reporters : Owes(c, work[q])
    BY AnnouncedDef DEF Inv
  <2> QED
    BY <1>3, <1>5, <2>1, <2>2
<1>8. StaleIsAnnounced'
  BY <1>7 DEF StaleIsAnnounced, Owes, Todo
<1> QED
  BY <1>6, <1>8 DEF Inv

\* A channel that is not full takes one more event.
LEMMA OneMore ==
  ASSUME NEW q \in [Channels -> 0..Capacity], NEW c \in Channels, q[c] < Capacity,
         NEW p, p = [q EXCEPT ![c] = q[c] + 1]
  PROVE  /\ p \in [Channels -> 0..Capacity] /\ p[c] > 0
         /\ \A d \in Channels : p[d] >= q[d]
<1>1. Capacity \in Nat
  BY ConstantAssumption
<1>2. \A d \in Channels : q[d] \in Nat
  BY <1>1
<1>3. q[c] + 1 \in 0..Capacity /\ q[c] + 1 > 0 /\ q[c] + 1 >= q[c]
  BY <1>1, <1>2
<1>4. p \in [Channels -> 0..Capacity]
  BY <1>3
<1>5. p[c] = q[c] + 1 /\ \A d \in Channels \ {c} : p[d] = q[d]
  OBVIOUS
<1>6. ASSUME NEW d \in Channels PROVE p[d] >= q[d]
  <2>1. CASE d = c
    BY <1>3, <1>5, <2>1
  <2>2. CASE d # c
    BY <1>2, <1>5, <2>2
  <2> QED BY <2>1, <2>2
<1> QED BY <1>3, <1>4, <1>5, <1>6

(* A call that is made leaves an event in its channel.                      *)
LEMMA SendInv == ASSUME Inv, NEW r \in Reporters, Send(r) PROVE Inv'
<1> DEFINE calls == Head(work[r])
           left  == IF Len(calls) = 1 THEN Tail(work[r]) ELSE <<Tail(calls)>> \o Tail(work[r])
           sent  == Head(calls)
<1>1. /\ work[r] \in Seq(Seq(Channels) \ {<<>>}) /\ work[r] # <<>>
      /\ work' = [work EXCEPT ![r] = left]
      /\ work \in [Reporters -> Seq(Seq(Channels) \ {<<>>})]
      /\ queue \in [Channels -> 0..Capacity] /\ queue[sent] < Capacity
      /\ queue' = [queue EXCEPT ![sent] = queue[sent] + 1]
      /\ stale' = stale /\ running' = running /\ changes' = changes
  BY DEF Inv, TypeOK, Send
<1>2. calls \in Seq(Channels) /\ calls # <<>> /\ sent \in Channels /\ Tail(calls) \in Seq(Channels)
  BY <1>1
<1>3. left \in Seq(Seq(Channels) \ {<<>>})
  BY <1>1, LeftType
<1>4. queue' \in [Channels -> 0..Capacity] /\ queue'[sent] > 0
      /\ \A c \in Channels : queue'[c] >= queue[c]
  BY <1>1, <1>2, OneMore
<1>5. TypeOK'
  BY <1>1, <1>3, <1>4 DEF Inv, TypeOK
<1>6. \A c \in Channels : stale'[c] => queue'[c] > 0 \/ \E q \in Reporters : Owes(c, work'[q])
  <2> SUFFICES ASSUME NEW c \in Channels, stale'[c]
               PROVE  queue'[c] > 0 \/ \E q \in Reporters : Owes(c, work'[q])
    OBVIOUS
  <2>1. queue[c] > 0 \/ \E q \in Reporters : Owes(c, work[q])
    BY <1>1, AnnouncedDef DEF Inv
  <2>2. CASE c = sent
    BY <1>4, <2>2
  <2>3. CASE queue[c] > 0
    <3>1. queue[c] \in Nat /\ queue'[c] \in Nat
      BY <1>1, <1>4, ConstantAssumption DEF ConstantAssumption
    <3> QED
      BY <1>4, <2>3, <3>1
  <2>4. CASE c # sent /\ \E q \in Reporters : Owes(c, work[q])
    <3>1. PICK q \in Reporters : Owes(c, work[q])
      BY <2>4
    <3>2. CASE q = r
      <4>1. Owes(c, left)
        BY <1>1, <2>4, <3>1, <3>2, OwesAfterSend
      <4> QED
        BY <1>1, <4>1
    <3>3. CASE q # r
      BY <1>1, <3>1, <3>3
    <3> QED
      BY <3>2, <3>3
  <2> QED
    BY <2>1, <2>2, <2>3, <2>4
<1>7. StaleIsAnnounced'
  BY <1>6 DEF StaleIsAnnounced, Owes, Todo
<1> QED
  BY <1>5, <1>7 DEF Inv

(* A consumer that receives an event reads the configuration afterwards.    *)
LEMMA ReceiveInv == ASSUME Inv, NEW c \in Channels, Receive(c) PROVE Inv'
<1>1. queue' \in [Channels -> 0..Capacity] /\ stale' \in [Channels -> BOOLEAN]
  BY ConstantAssumption DEF Inv, TypeOK, Receive, ConstantAssumption
<1>2. TypeOK'
  BY <1>1 DEF Inv, TypeOK, Receive
<1>3. StaleIsAnnounced'
  BY DEF Inv, TypeOK, StaleIsAnnounced, Receive
<1> QED
  BY <1>2, <1>3 DEF Inv

(* Every step keeps the invariant.                                          *)
LEMMA NextInv == Inv /\ [Next]_vars => Inv'
<1> SUFFICES ASSUME Inv, [Next]_vars PROVE Inv'
  OBVIOUS
<1>1. ASSUME NEW r \in Reporters, NEW calls \in Calls(r), Change(r, calls) PROVE Inv'
  BY <1>1, ChangeInv
<1>2. ASSUME NEW r \in Reporters, Send(r) PROVE Inv'
  BY <1>2, SendInv
<1>3. CASE StartEnvoyFilters
  BY <1>3 DEF Inv, TypeOK, StaleIsAnnounced, StartEnvoyFilters
<1>4. ASSUME NEW c \in Channels, Receive(c) PROVE Inv'
  BY <1>4, ReceiveInv
<1>5. CASE UNCHANGED vars
  BY <1>5 DEF Inv, TypeOK, StaleIsAnnounced, vars
<1> QED
  BY <1>1, <1>2, <1>3, <1>4, <1>5 DEF Next

(* The inductive invariant of the queues and the channels.                  *)
LEMMA Inductive == Spec => []Inv
  BY InitInv, NextInv, PTL DEF Spec

(* No channel ever holds more events than its buffer has room for, and no   *)
(* reporter has a call to make that is about no channel.                    *)
THEOREM Typing == Spec => []TypeOK
<1>1. Inv => TypeOK
  BY DEF Inv
<1> QED
  BY Inductive, <1>1, PTL

(* No event is lost between the goroutines that report a change and the two *)
(* consumers: whatever the channels hold, a consumer that has not been told *)
(* of a change will be, if its loop runs.                                   *)
THEOREM NoLostChange == Spec => []StaleIsAnnounced
<1>1. Inv => StaleIsAnnounced
  BY DEF Inv
<1> QED
  BY Inductive, <1>1, PTL
=============================================================================
