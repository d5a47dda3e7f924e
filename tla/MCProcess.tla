----------------------------- MODULE MCProcess -----------------------------
(***************************************************************************)
(* Instances of Store and Startup for TLC.  The two share no variable, so  *)
(* a behaviour follows one of them, and nothing is lost by not             *)
(* interleaving them.                                                      *)
(***************************************************************************)
EXTENDS Store, Startup

CONSTANTS t1, t2, j1, a1, a2, dyn

VARIABLE part  \* which of the two

Line(auto_pilot, roles, prompt, distributed, keep_alive) ==
  [auto_pilot |-> auto_pilot, roles |-> roles, prompt |-> prompt,
   distributed |-> distributed, keep_alive |-> keep_alive]

\* First an agent with the dashboard, auto-pilot, the menu, the hub alone, or a routed command; then, with what
\* that left in the registry, a hub with an agent, or two agents.
CommandLines ==
  <<{Line(FALSE, {"tester", "dashboard"}, "text", FALSE, FALSE),
     Line(TRUE, {}, "none", FALSE, FALSE),
     Line(FALSE, {"orchestrator"}, "none", FALSE, TRUE),
     Line(FALSE, {}, "none", TRUE, FALSE),
     Line(FALSE, {}, "command", FALSE, FALSE)},
    {Line(FALSE, {"tester", "orchestrator"}, "none", TRUE, TRUE),
     Line(FALSE, {"codex", "tester"}, "text", FALSE, FALSE)}>>

Init == StoreInit /\ StartupInit /\ part \in {"store", "startup"}

Next ==
  \/ part = "store" /\ StoreNext /\ UNCHANGED <<startVars, part>>
  \/ part = "startup" /\ StartupNext /\ UNCHANGED <<storeVars, part>>

FairSpec == Init /\ [][Next]_<<storeVars, startVars, part>>
  /\ StoreFairness /\ StartupFairness
=============================================================================
