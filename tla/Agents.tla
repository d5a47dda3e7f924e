------------------------------ MODULE Agents ------------------------------
(***************************************************************************)
(* Runs of the agents (base_agent.py, codex_reviewer.py, tester.py) and of *)
(* the debate and NotebookLM tools of the MCP server, over the providers.  *)
(*                                                                         *)
(* Answers are numbered by the run that got them: the text of an answer    *)
(* matters only as what is tested, written or returned.  Scanning, memory  *)
(* and the artifact of an agent without tests are left out.                *)
(***************************************************************************)
EXTENDS Providers

CONSTANTS
  runs_of,     \* per request: the runs it may be, as [agent, role, stateless, generation]
  max_retries, \* of the two self-healing loops
  rounds       \* of the debate

ASSUME AgentsAssumption ==
  /\ runs_of \in [Request -> SUBSET
       [agent : {"standard", "codex", "tester", "debate", "notebook"}, role : Role,
        stateless : BOOLEAN, generation : BOOLEAN]]
  /\ max_retries \in Nat /\ rounds \in Nat \ {0}
  /\ {"researcher", "claude"} \subseteq Role

VARIABLES
  run,   \* per request: what it is
  agent  \* per request: how far it is

agentVars == <<run, agent>>
vars == <<providerVars, agentVars>>

Ended == {"done", "failed", "cancelled"}
Progress ==
  [pc : {"new", "asking", "lint", "test", "relint", "create", "import", "query"} \cup Ended,
   attempt : 0..max_retries \cup 0..rounds,
   version : Nat,       \* answers so far; the last one is returned
   disk : Int,          \* the answer the tree holds, 0 as long as it is as it was; the
                        \* part of answer v that a failed write left there is -v
   checked : Int,       \* what pytest or the critic saw last
   passed : BOOLEAN,    \* its verdict
   unwritten : BOOLEAN] \* history: a write of the last answer failed

Init ==
  /\ ProvidersInit
  /\ run \in {f \in [Request -> UNION {runs_of[r] : r \in Request}] :
                \A r \in Request : f[r] \in runs_of[r]}
  /\ agent = [r \in Request |->
       [pc |-> "new", attempt |-> 0, version |-> 0, disk |-> 0, checked |-> 0,
        passed |-> FALSE, unwritten |-> FALSE]]

Is(r, a) == run[r].agent = a
Become(r, a) == agent' = [agent EXCEPT ![r] = a]
At(r, pc) == agent[r].pc = pc /\ awaited[r].ending # "running"
Answered(r) == agent[r].pc = "asking" /\ prompt[r].pc = "answered"
NewAnswer(r) == [agent[r] EXCEPT !.version = @ + 1, !.unwritten = FALSE]
Quiet == UNCHANGED <<run, prompt_file, resolved, login_attempted, logins>>

\* A write may fail by itself, when the file is opened or after that has truncated it;
\* it is not fatal.
Written(a) ==
  {[a EXCEPT !.disk = a.version]}
    \cup {[a EXCEPT !.disk = left, !.unwritten = TRUE] : left \in {a.disk, -a.version}}

\* The run asks its provider again, which remembers who answered last.
AskAgain(r, a) ==
  /\ Become(r, [a EXCEPT !.pc = "asking"])
  /\ Send(r, run[r].role, prompt[r].active)
  /\ UNCHANGED <<alive, awaited>>

\* The run is over.
End(r, a, pc) ==
  /\ Become(r, [a EXCEPT !.pc = pc])
  /\ prompt' = [prompt EXCEPT ![r] = NoPrompt(1)]
  /\ awaited' = [awaited EXCEPT ![r] = Nothing]
  /\ UNCHANGED alive

Return(r, a) == End(r, a, "done")

\* A program of the run's own is started and awaited at pc.
Start(r, p, a, pc) ==
  /\ Spawn(r, p)
  /\ Become(r, [a EXCEPT !.pc = pc])
  /\ prompt' = [prompt EXCEPT ![r] = NoPrompt(@.active)]

-----------------------------------------------------------------------------
(* Agents without tests: _run_standard, and the skill servers' codex and tester *)

Ask(r) ==
  /\ agent[r].pc = "new" /\ ~Is(r, "notebook")
  /\ Become(r, [agent[r] EXCEPT !.pc = "asking"])
  /\ Send(r, IF Is(r, "debate") THEN "researcher" ELSE run[r].role, 1)
  /\ Quiet /\ UNCHANGED <<alive, awaited>>

StandardAnswered(r) ==
  /\ Answered(r)
  /\ \/ Is(r, "standard")
     \/ Is(r, "codex") /\ (run[r].generation \/ run[r].stateless)
     \/ Is(r, "tester") /\ run[r].stateless
  /\ Return(r, NewAnswer(r)) /\ Quiet

\* No backend answered, or a provider raised something else.
PromptFailed(r) ==
  /\ agent[r].pc = "asking" /\ prompt[r].pc \in {"failed", "raised"}
  /\ Become(r, [agent[r] EXCEPT !.pc = "failed"])
  /\ Quiet /\ UNCHANGED <<prompt, alive, awaited>>

-----------------------------------------------------------------------------
(* CodexReviewerAgent.run *)

Healing(r) == Is(r, "codex") /\ ~run[r].generation /\ ~run[r].stateless

\* What follows a verdict: the loop ends, or asks for a fix.
CodexDecides(r, a) ==
  \/ /\ a.passed \/ a.attempt = max_retries
     /\ Return(r, a)
  \/ /\ ~a.passed /\ a.attempt < max_retries
     /\ AskAgain(r, [a EXCEPT !.attempt = @ + 1])

\* flake8 after pytest, in the loop only, if there are Python files and it starts.
CodexRelints(r, a) ==
  \/ a.attempt > 0 /\ Start(r, "flake8", a, "relint")
  \/ CodexDecides(r, a)

CodexTests(r, a) ==
  \/ Start(r, "pytest", [a EXCEPT !.checked = a.disk], "test")
  \/ CodexRelints(r, [a EXCEPT !.passed = FALSE])

\* The first answer is reviewed against the tree as it is.
CodexReviewed(r) ==
  /\ Answered(r) /\ Healing(r) /\ agent[r].attempt = 0
  /\ \/ Start(r, "flake8", NewAnswer(r), "lint")
     \/ CodexTests(r, NewAnswer(r))
  /\ Quiet

CodexLinted(r) == At(r, "lint") /\ CodexTests(r, agent[r]) /\ Quiet

\* A fix is written where its path or the prompt says, if anywhere; a path outside
\* the tree ends the run.
CodexFixed(r) ==
  LET a == NewAnswer(r) IN
  /\ Answered(r) /\ Healing(r) /\ agent[r].attempt > 0
  /\ \/ \E b \in Written(a) \cup {a} : CodexTests(r, b)
     \/ End(r, a, "failed")
  /\ Quiet

CodexTested(r) ==
  /\ At(r, "test") /\ Is(r, "codex")
  /\ CodexRelints(r, [agent[r] EXCEPT !.passed = awaited[r].ending = "answer"])
  /\ Quiet

CodexRelinted(r) == At(r, "relint") /\ CodexDecides(r, agent[r]) /\ Quiet

-----------------------------------------------------------------------------
(* TesterAgent.run *)

TesterFails(r, a) == AskAgain(r, [a EXCEPT !.passed = FALSE])

\* Mutant of TesterAnswered: pytest is started before the answer is written.
TesterAnsweredTrusting(r) ==
  /\ Answered(r) /\ Is(r, "tester") /\ ~run[r].stateless
  /\ \E a \in Written(NewAnswer(r)) :
       \/ /\ a.attempt < max_retries
          /\ \/ Start(r, "pytest", [a EXCEPT !.attempt = @ + 1, !.checked = agent[r].disk], "test")
             \/ TesterFails(r, [a EXCEPT !.attempt = @ + 1])
       \/ a.attempt = max_retries /\ Return(r, a)
  /\ Quiet

\* An answer is written and the file tested; the answer to the failure of the last
\* attempt is written and returned.
TesterAnswered(r) ==
  /\ Answered(r) /\ Is(r, "tester") /\ ~run[r].stateless
  /\ \E a \in Written(NewAnswer(r)) :
       \/ /\ a.attempt < max_retries
          /\ \/ Start(r, "pytest", [a EXCEPT !.attempt = @ + 1, !.checked = a.disk], "test")
             \/ TesterFails(r, [a EXCEPT !.attempt = @ + 1])
       \/ a.attempt = max_retries /\ Return(r, a)
  /\ Quiet

\* An answer that passed is written once more.
TesterTested(r) ==
  /\ At(r, "test") /\ Is(r, "tester")
  /\ IF awaited[r].ending = "answer"
       THEN \E a \in Written([agent[r] EXCEPT !.passed = TRUE]) : Return(r, a)
       ELSE TesterFails(r, agent[r])
  /\ Quiet

-----------------------------------------------------------------------------
(* _run_debate: the draft handed in is answer 0, and is what the tree holds *)

Criticised(r) ==
  LET a == [agent[r] EXCEPT !.attempt = @ + 1, !.checked = agent[r].version] IN
  /\ Answered(r) /\ Is(r, "debate") /\ prompt[r].role = "researcher"
  /\ \/ Return(r, [a EXCEPT !.passed = TRUE])
     \/ Become(r, a) /\ Send(r, "claude", 1) /\ UNCHANGED <<alive, awaited>>
  /\ Quiet

Refined(r) ==
  LET a == [NewAnswer(r) EXCEPT !.disk = agent[r].version + 1] IN
  /\ Answered(r) /\ Is(r, "debate") /\ prompt[r].role = "claude"
  /\ IF a.attempt = rounds
       THEN Return(r, a)
       ELSE Become(r, a) /\ Send(r, "researcher", 1) /\ UNCHANGED <<alive, awaited>>
  /\ Quiet

-----------------------------------------------------------------------------
(* notebooklm_list, _query and _research: one program after the other *)

NotebookFails(r) == End(r, agent[r], "failed")

Nlm(r, pc) == Start(r, "nlm", agent[r], pc) \/ NotebookFails(r)

\* The research tool creates a notebook unless it is given one; the others ask at once.
Notebook(r) ==
  /\ agent[r].pc = "new" /\ Is(r, "notebook")
  /\ \E pc \in {"create", "import", "query"} : Nlm(r, pc)
  /\ Quiet

\* _run_nlm looks at the exit code; only an id or an answer is read from the output.
Created(r) ==
  /\ At(r, "create")
  /\ \/ awaited[r].ending \in {"answer", "odd"} /\ Nlm(r, "import")
     \/ awaited[r].ending # "answer" /\ NotebookFails(r)
  /\ Quiet

Imported(r) ==
  /\ At(r, "import")
  /\ IF awaited[r].ending \in {"code", "killed"} THEN NotebookFails(r) ELSE Nlm(r, "query")
  /\ Quiet

Queried(r) ==
  /\ At(r, "query")
  /\ \/ awaited[r].ending \in {"answer", "refused", "odd"} /\ Return(r, NewAnswer(r))
     \/ awaited[r].ending \notin {"answer", "refused"} /\ NotebookFails(r)
  /\ Quiet

-----------------------------------------------------------------------------
AgentStep(r) ==
  \/ StandardAnswered(r) \/ PromptFailed(r)
  \/ CodexReviewed(r) \/ CodexLinted(r) \/ CodexFixed(r) \/ CodexTested(r) \/ CodexRelinted(r)
  \/ TesterAnswered(r) \/ TesterTested(r)
  \/ Criticised(r) \/ Refined(r)
  \/ Created(r) \/ Imported(r) \/ Queried(r)

\* The task of the run is cancelled: by the worker it runs on, or with its server.
Cancel(r) ==
  /\ agent[r].pc \notin Ended \cup {"new"}
  /\ Become(r, [agent[r] EXCEPT !.pc = "cancelled"])
  /\ Cancelled(r)
  /\ UNCHANGED run

Environment(r) ==
  \/ \E p \in Program, e \in Exit : Exits(r, p, e) /\ UNCHANGED agentVars
  \/ Cancel(r)

Next == \E r \in Request :
  \/ Ask(r) \/ Notebook(r)
  \/ AgentStep(r)
  \/ PromptStep(r) /\ UNCHANGED agentVars
  \/ Timeout(r) /\ UNCHANGED agentVars
  \/ Environment(r)

Spec == Init /\ [][Next]_vars

\* The event loop runs the code and the timeouts.  No program need ever end.
FairSpec == Spec /\ \A r \in Request :
  /\ WF_vars(AgentStep(r))
  /\ WF_vars(PromptStep(r) /\ UNCHANGED agentVars)
  /\ WF_vars(Timeout(r) /\ UNCHANGED agentVars)

-----------------------------------------------------------------------------
(* Properties *)

\* Nothing is left behind: a program still running, or a prompt still in a file, is
\* one that its run waits for, unless the run was cancelled (which leaves the program).
NothingLeftBehind ==
  \A r \in Request :
    /\ agent[r].pc # "cancelled" => alive[r] \subseteq
         {p \in Program : awaited[r] = [program |-> p, ending |-> "running"]}
    /\ agent[r].pc \in Ended \ {"cancelled"} => alive[r] = {}
    /\ r \in prompt_file => prompt[r].pc = "cli" /\ awaited[r].program = "grok"

\* A prompt is given up only when each backend of its chain was tried, once.
EveryBackendTried ==
  \A r \in Request :
    prompt[r].pc = "failed" =>
      /\ {prompt[r].tried[i] : i \in DOMAIN prompt[r].tried} = DOMAIN Backends(r)
      /\ Len(prompt[r].tried) = Len(Backends(r))

\* However many requests reach grok, with or without each other, and whether the
\* first is cancelled, one login program is started (the docstring of _maybe_login).
LoginOnce == logins <= 1

\* A pass that a run reports with its answer is about what it leaves behind: pytest
\* ran on the file as it is, the critic saw the design as it is returned.  Codex and the
\* debate need no more for it; the tester writes once after the test, and needs that
\* no write of its last answer failed: if the one before the test did (tester.py:62), the
\* pass may be of an older file, and the one after it (tester.py:120) may succeed.
PassIsOfTheTree ==
  \A r \in Request :
    agent[r].pc = "done" /\ agent[r].passed /\ (Is(r, "tester") => ~agent[r].unwritten) =>
      agent[r].checked = agent[r].disk

\* Every run ends, though a program it waits for never does.
AgentEnds == \A r \in Request : agent[r].pc \notin {"new"} ~> agent[r].pc \in Ended
=============================================================================
