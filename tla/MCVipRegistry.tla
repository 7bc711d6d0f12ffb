--------------------------- MODULE MCVipRegistry ---------------------------
(***************************************************************************)
(* VipRegistry on small sets of model values.  The channels, and in the    *)
(* safety runs the nodes and the addresses of the pool, are alike.         *)
(***************************************************************************)
EXTENDS VipRegistry, TLC

Alike == Permutations(Channel) \cup Permutations(Mac) \cup Permutations(Pool)
=============================================================================
