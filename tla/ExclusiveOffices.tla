-------------------------- MODULE ExclusiveOffices --------------------------
(***************************************************************************)
(* What the elections promise, without leases, processes and stop channel: *)
(* each office has at most one incumbent, who must have left it before     *)
(* somebody else takes it.                                                 *)
(***************************************************************************)
CONSTANTS Offices, Candidates

VARIABLE incumbents  \* the candidates in each office

Init == incumbents = [o \in Offices |-> {}]

TakeOffice(o, c) ==
  /\ incumbents[o] = {}
  /\ incumbents' = [incumbents EXCEPT ![o] = {c}]

(* A candidate leaves one office, or all of them at once.                   *)
Resign(c, offices) ==
  incumbents' = [o \in Offices |-> IF o \in offices THEN incumbents[o] \ {c} ELSE incumbents[o]]

Next ==
  \E c \in Candidates :
    \/ \E o \in Offices : TakeOffice(o, c)
    \/ \E offices \in SUBSET Offices : Resign(c, offices)

Spec == Init /\ [][Next]_incumbents
=============================================================================
