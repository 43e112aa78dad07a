-------------------------- MODULE MCLeaderElection --------------------------
(* Instances of LeaderElection and NamespaceController for TLC.             *)
EXTENDS NamespaceController

CONSTANTS r1, r2

TwoReplicas == {r1, r2}
=============================================================================
