---------------------------- MODULE MCFakeCluster ----------------------------
(***************************************************************************)
(* The fake cluster for TLC: fake nodes that are model values, and may be  *)
(* exchanged.                                                              *)
(***************************************************************************)
EXTENDS FakeCluster, TLC

Symmetry == Permutations(Nodes)
==============================================================================
