--------------------------- MODULE MCVipAllocator ---------------------------
(* Instances of VipAllocator for TLC.                                      *)
EXTENDS VipAllocator, TLC

NoUserVips == {}
OneUserVip == {<<0, 1>>}
Symmetry == Permutations(Services)
=============================================================================
