--------------------------- MODULE MCHubServer ---------------------------
(***************************************************************************)
(* Instances of HubServer for TLC: one role, interchangeable workers and   *)
(* connections.                                                            *)
(***************************************************************************)
EXTENDS HubServer, TLC

CONSTANTS w1, w2, k1, k2, k3

Codex == {"codex"}
CodexIsCodex == [n \in Codex |-> n]
CodexLists == {{"codex"}}

Symmetry == Permutations({k1, k2, k3})
=============================================================================
