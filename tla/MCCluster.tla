---------------------------- MODULE MCCluster ----------------------------
(***************************************************************************)
(* Instances of Cluster for TLC: one role, interchangeable connections.    *)
(***************************************************************************)
EXTENDS Cluster, TLC

CONSTANTS w1, w2, k1, k2

Codex == {"codex"}
CodexIsCodex == [n \in Codex |-> n]
CodexLists == {{"codex"}}

Symmetry == Permutations({k1, k2})
=============================================================================
