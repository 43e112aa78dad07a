--------------------------- MODULE RoutePublication -------------------------
(***************************************************************************)
(* What the route cache and the RDS server promise together, without the   *)
(* channel, the debouncer, the snapshot cache and the streams between      *)
(* them: now and then the routes the configuration asks for are published  *)
(* under a version that is not older than any other, and every subscriber  *)
(* only moves to a publication of a newer version.                         *)
(***************************************************************************)
EXTENDS Integers

CONSTANTS
  Subscribers,
  DefaultRoutes  \* published for a service whose MetaRouters cannot be read

VARIABLES
  asked,  \* the routes the configuration asks for
  live,   \* the publications that somebody has or may still get
  view    \* the publication a subscriber has

vars == <<asked, live, view>>

Nothing == [version |-> 0, routes |-> DefaultRoutes]

Init ==
  /\ asked = 1
  /\ view = [s \in Subscribers |-> Nothing]
  /\ live = {view[s] : s \in Subscribers}

Ask == asked' = asked + 1 /\ UNCHANGED <<live, view>>

(* No publication that somebody may still get has a newer version; one may  *)
(* have the same, and whoever has that one will not get this one.           *)
Publish ==
  \E new \in live' :
    /\ new.version \in Nat /\ \A old \in live : old.version <= new.version
    /\ new.routes \in {asked, DefaultRoutes}
    /\ live' \subseteq live \cup {new}
    /\ UNCHANGED <<asked, view>>

Deliver(s) ==
  \E new \in live :
    /\ view[s].version < new.version
    /\ view' = [view EXCEPT ![s] = new]
    /\ new \in live' /\ live' \subseteq live
    /\ UNCHANGED asked

(* A publication that nobody has any more is superseded.                    *)
Forget == live' \subseteq live /\ UNCHANGED <<asked, view>>

Next == Ask \/ Publish \/ (\E s \in Subscribers : Deliver(s)) \/ Forget

Spec == Init /\ [][Next]_vars
=============================================================================
