----------------------------- MODULE MCAgents -----------------------------
(***************************************************************************)
(* Instances of Agents for TLC: one request that may be a run of any kind, *)
(* and one that meets it at grok.                                          *)
(***************************************************************************)
EXTENDS Agents

CONSTANTS r1, r2

Roles == {"researcher", "claude", "codex", "security"}
Chains == [role \in Roles |->
  CASE role = "researcher" -> <<"grok", "agy">>
    [] role = "claude" -> <<"claude", "notebooklm">>
    [] role = "codex" -> <<"codex", "grok">>
    [] role = "security" -> <<"grok">>]

Plain(a, role) == [agent |-> a, role |-> role, stateless |-> FALSE, generation |-> FALSE]
AnyRun ==
  {Plain("standard", "claude"), Plain("codex", "codex"), Plain("tester", "codex"),
   Plain("debate", "claude"), Plain("notebook", "claude")}
    \cup {[Plain(a, "codex") EXCEPT !.stateless = TRUE] : a \in {"codex", "tester"}}
    \cup {[Plain("codex", "codex") EXCEPT !.generation = TRUE]}
RunsOf == [r \in Request |-> IF r = r1 THEN AnyRun ELSE {Plain("standard", "security")}]
=============================================================================
