---------------------------- MODULE MCRouteCache ----------------------------
(* Instances of RouteCache for TLC.                                         *)
EXTENDS RouteCache, TLC

CONSTANTS s1, s2, p1

TwoStreams == {s1, s2}
OneNode == {p1}
AllOfOne == [s \in Streams |-> p1]
=============================================================================
