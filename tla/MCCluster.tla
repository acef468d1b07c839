----------------------------- MODULE MCCluster -----------------------------
(* Three nodes, of which two are a quorum; node ids are only compared for  *)
(* equality, so that they may be permuted.                                 *)
EXTENDS Cluster, TLC

CONSTANTS n1, n2, n3

MCNode   == {n1, n2, n3}
MCQuorum == {S \in SUBSET MCNode : Cardinality(S) = 2}
Nodes    == Permutations(MCNode)
=============================================================================
