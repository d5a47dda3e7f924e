------------------------------ MODULE MCHub ------------------------------
(***************************************************************************)
(* Instances of Hub for TLC.  The role names are those of                  *)
(* provider_factory.ROLE_ALIASES: "grok" is a legacy id of "researcher".   *)
(***************************************************************************)
EXTENDS Hub, TLC

CONSTANTS w1, w2

\* Interchangeable workers.
Codex == {"codex"}
CodexIsCodex == [n \in Codex |-> n]
CodexLists == {{"codex"}}

\* A legacy id, its canonical name and another role.
Names == {"grok", "researcher", "codex"}
Aliases == [n \in Names |-> IF n = "grok" THEN "researcher" ELSE n]
MixedLists == {{"grok"}, {"grok", "codex"}}

Symmetry == Permutations({w1, w2})
=============================================================================
