---------------------------- MODULE MCWsCalls ----------------------------
(***************************************************************************)
(* Instances of WsCalls for TLC: one role; workers, connections and calls  *)
(* are interchangeable where an instance has two of them.                  *)
(***************************************************************************)
EXTENDS WsCalls, TLC

CONSTANTS w1, w2, k1, k2, c1, c2

Codex == {"codex"}
CodexIsCodex == [n \in Codex |-> n]
CodexLists == {{"codex"}}
AllCodex == [c \in Call |-> "codex"]
OnlyCodex == [n \in Codex |-> {n}]

TwoCalls == Permutations({w1, w2}) \cup Permutations({c1, c2})
=============================================================================
