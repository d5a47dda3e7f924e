---------------------------- MODULE AgentsProofs ----------------------------
(***************************************************************************)
(* Proofs about Agents, for any number of requests, any chains and any     *)
(* bounds of the loops: the login program is started once, a reported pass *)
(* is of the tree as it is left, every backend has its turn, and nothing   *)
(* is left behind.                                                         *)
(*                                                                         *)
(* PassInv says what a verdict is about at each point of a run, ChainInv   *)
(* that what a prompt has tried and what it has left make up the order of  *)
(* its chain, and WaitInv, which needs both, which program a run waits for *)
(* at each point.  Every action of a run ends it, starts one program or    *)
(* asks a provider (Moves), so the last two look at these only.            *)
(***************************************************************************)
EXTENDS Agents, TLAPS

-----------------------------------------------------------------------------
(* The login *)

\* As long as no request has come to the login, none was started.
LoginInv ==
  /\ logins \in Nat /\ logins <= 1
  /\ ~login_attempted => logins = 0

\* Only the login itself touches the two.
LEMMA OnlyLogin ==
  ASSUME Next
  PROVE  UNCHANGED <<login_attempted, logins>> \/ \E r \in Request : Login(r)
  <1> SUFFICES ASSUME NEW r \in Request,
                      \/ Ask(r) \/ Notebook(r) \/ AgentStep(r) \/ PromptStep(r) \/ Timeout(r)
                      \/ Environment(r),
                      ~Login(r)
               PROVE  UNCHANGED <<login_attempted, logins>>
    BY DEF Next
  <1>1. CASE Ask(r) \/ Notebook(r)
    BY <1>1 DEF Ask, Notebook, Quiet
  <1>2. CASE AgentStep(r)
    BY <1>2 DEF AgentStep, StandardAnswered, PromptFailed, CodexReviewed, CodexLinted, CodexFixed,
                CodexTested, CodexRelinted, TesterAnswered, TesterTested, Criticised, Refined,
                Created, Imported, Queried, Quiet
  <1>3. CASE PromptStep(r)
    BY <1>3 DEF PromptStep, NotFound, Try, LoggedIn, Read, Exhausted
  <1>4. CASE Timeout(r)
    BY <1>4 DEF Timeout
  <1>5. CASE Environment(r)
    BY <1>5 DEF Environment, Exits, Cancel, Cancelled
  <1> QED BY <1>1, <1>2, <1>3, <1>4, <1>5

\* However many requests reach grok, together or one after the other, and whichever of
\* them is cancelled, at most one login program is started.
THEOREM LoginStartsOnce == Spec => []LoginOnce
  <1>1. Init => LoginInv
    BY DEF Init, ProvidersInit, LoginInv
  <1>2. LoginInv /\ [Next]_vars => LoginInv'
    <2> SUFFICES ASSUME LoginInv, [Next]_vars PROVE LoginInv'
      OBVIOUS
    <2>1. CASE UNCHANGED <<login_attempted, logins>>
      BY <2>1 DEF LoginInv
    <2>2. ASSUME NEW r \in Request, Login(r) PROVE LoginInv'
      <3>1. ~login_attempted /\ login_attempted' /\ (logins' = logins \/ logins' = logins + 1)
        BY <2>2 DEF Login, LoginFirst
      <3> QED BY <3>1 DEF LoginInv
    <2>3. CASE UNCHANGED vars
      BY <2>1, <2>3 DEF vars, providerVars
    <2> QED BY <2>1, <2>2, <2>3, OnlyLogin
  <1>3. LoginInv => LoginOnce
    BY DEF LoginInv, LoginOnce
  <1> QED BY <1>1, <1>2, <1>3, PTL DEF Spec

-----------------------------------------------------------------------------
(* Verdicts *)

\* Where a run awaits a program of its own.
Own == {"lint", "test", "relint", "create", "import", "query"}
Agent ==
  [pc : {"new", "asking"} \cup Own \cup Ended, attempt : Nat, version : Nat, disk : Int,
   checked : Int, passed : BOOLEAN, unwritten : BOOLEAN]

Typed == agent \in [Request -> Agent] /\ run \in [Request -> UNION {runs_of[r] : r \in Request}]

\* A verdict is kept no longer than the tree it is about.
Passes(R, a) ==
  /\ a.pc \in {"lint", "relint"} => R.agent = "codex"
  /\ a.passed => a.pc \in {"relint"} \cup Ended
  /\ a.pc = "test" => a.checked = a.disk
  /\ a.pc = "test" /\ R.agent = "tester" /\ ~a.unwritten => a.disk = a.version
  /\ a.pc = "relint" /\ a.passed => a.checked = a.disk
  /\ a.pc = "done" /\ a.passed /\ (R.agent = "tester" => ~a.unwritten) => a.checked = a.disk
  /\ a.pc \in {"new", "asking"} /\ R.agent = "debate" => a.disk = a.version

PassInv == Typed /\ \A r \in Request : Passes(run[r], agent[r])

\* A step of one run.
LEMMA PassBecomes ==
  ASSUME PassInv, NEW r \in Request, NEW q \in Agent, Become(r, q), Passes(run[r], q), UNCHANGED run
  PROVE  PassInv'
  BY DEF PassInv, Typed, Become

\* What the record of a run becomes.
LEMMA WithPc ==
  ASSUME NEW a \in Agent, NEW pc \in {"new", "asking"} \cup Own \cup Ended
  PROVE  /\ [a EXCEPT !.pc = pc] \in Agent
         /\ [a EXCEPT !.pc = pc].pc = pc
         /\ [a EXCEPT !.pc = pc].version = a.version
         /\ [a EXCEPT !.pc = pc].disk = a.disk
         /\ [a EXCEPT !.pc = pc].checked = a.checked
         /\ [a EXCEPT !.pc = pc].passed = a.passed
         /\ [a EXCEPT !.pc = pc].unwritten = a.unwritten
  BY DEF Agent

\* The run is over: what it reports as passed must be what it leaves.
LEMMA PassEnds ==
  ASSUME PassInv, NEW r \in Request, NEW a \in Agent, NEW pc \in {"done", "failed"}, End(r, a, pc),
         pc = "done" /\ a.passed /\ (run[r].agent = "tester" => ~a.unwritten) => a.checked = a.disk,
         UNCHANGED run
  PROVE  PassInv'
  <1> DEFINE q == [a EXCEPT !.pc = pc]
  <1>1. Become(r, q)
    BY DEF End
  <1>2. /\ q \in Agent /\ q.pc = pc /\ q.passed = a.passed
        /\ q.checked = a.checked /\ q.disk = a.disk /\ q.unwritten = a.unwritten
    BY WithPc DEF Ended
  <1> HIDE DEF q
  <1>3. Passes(run[r], q)
    BY <1>2 DEF Passes, Ended
  <1> QED BY <1>1, <1>2, <1>3, PassBecomes

\* An agent that asks again has no pass to report.
LEMMA PassAsks ==
  ASSUME PassInv, NEW r \in Request, NEW a \in Agent, AskAgain(r, a), ~a.passed,
         run[r].agent # "debate", UNCHANGED run
  PROVE  PassInv'
  <1> DEFINE q == [a EXCEPT !.pc = "asking"]
  <1>1. Become(r, q)
    BY DEF AskAgain
  <1>2. q \in Agent /\ q.pc = "asking" /\ q.passed = a.passed
    BY WithPc
  <1> HIDE DEF q
  <1>3. Passes(run[r], q)
    BY <1>2 DEF Passes
  <1> QED BY <1>1, <1>2, <1>3, PassBecomes

\* A program of the run's own starts.
LEMMA PassStarts ==
  ASSUME PassInv, NEW r \in Request, NEW a \in Agent, NEW p, NEW pc \in Own, Start(r, p, a, pc),
         Passes(run[r], [a EXCEPT !.pc = pc]), UNCHANGED run
  PROVE  PassInv'
  <1> DEFINE q == [a EXCEPT !.pc = pc]
  <1>1. Become(r, q)
    BY DEF Start
  <1>2. q \in Agent
    BY WithPc
  <1> HIDE DEF q
  <1> QED BY <1>1, <1>2, PassBecomes DEF q

\* The run of codex after a verdict, if any, on what the tree holds.
LEMMA PassDecides ==
  ASSUME PassInv, NEW r \in Request, NEW a \in Agent, CodexDecides(r, a),
         a.passed => a.checked = a.disk, run[r].agent = "codex", UNCHANGED run
  PROVE  PassInv'
  <1>1. CASE Return(r, a)
    BY <1>1, PassEnds DEF Return
  <1>2. CASE ~a.passed /\ AskAgain(r, [a EXCEPT !.attempt = @ + 1])
    <2> DEFINE q == [a EXCEPT !.attempt = @ + 1]
    <2>1. q \in Agent /\ q.passed = a.passed
      BY DEF Agent
    <2> HIDE DEF q
    <2> QED BY <1>2, <2>1, PassAsks DEF q
  <1> QED BY <1>1, <1>2 DEF CodexDecides

\* The same when flake8 may come first.
LEMMA PassRelints ==
  ASSUME PassInv, NEW r \in Request, NEW a \in Agent, CodexRelints(r, a),
         a.passed => a.checked = a.disk, run[r].agent = "codex", UNCHANGED run
  PROVE  PassInv'
  <1>1. CASE Start(r, "flake8", a, "relint")
    <2>1. Passes(run[r], [a EXCEPT !.pc = "relint"])
      BY WithPc DEF Passes, Own
    <2> QED BY <1>1, <2>1, PassStarts DEF Own
  <1>2. CASE CodexDecides(r, a)
    BY <1>2, PassDecides
  <1> QED BY <1>1, <1>2 DEF CodexRelints

\* Without a pass, codex may test what the tree holds: that is what is checked.
LEMMA PassTests ==
  ASSUME PassInv, NEW r \in Request, NEW a \in Agent, CodexTests(r, a), ~a.passed,
         run[r].agent = "codex", UNCHANGED run
  PROVE  PassInv'
  <1>1. CASE Start(r, "pytest", [a EXCEPT !.checked = a.disk], "test")
    <2> DEFINE q == [a EXCEPT !.checked = a.disk]
    <2>1. q \in Agent /\ q.checked = q.disk /\ ~q.passed
      BY DEF Agent
    <2> HIDE DEF q
    <2>2. Passes(run[r], [q EXCEPT !.pc = "test"])
      BY <2>1, WithPc DEF Passes, Own
    <2> QED BY <1>1, <2>1, <2>2, PassStarts DEF Own, q
  <1>2. CASE CodexRelints(r, [a EXCEPT !.passed = FALSE])
    <2> DEFINE q == [a EXCEPT !.passed = FALSE]
    <2>1. q \in Agent /\ ~q.passed
      BY DEF Agent
    <2> HIDE DEF q
    <2> QED BY <1>2, <2>1, PassRelints DEF q
  <1> QED BY <1>1, <1>2 DEF CodexTests

\* What a run that is not over has of a verdict.
LEMMA AsAsked ==
  ASSUME PassInv, NEW r \in Request
  PROVE  /\ agent[r] \in Agent /\ Passes(run[r], agent[r])
         /\ NewAnswer(r) \in Agent
         /\ NewAnswer(r).pc = agent[r].pc /\ NewAnswer(r).passed = agent[r].passed
         /\ NewAnswer(r).disk = agent[r].disk /\ NewAnswer(r).checked = agent[r].checked
         /\ NewAnswer(r).version = agent[r].version + 1
  <1> DEFINE n == agent[r].version + 1
  <1>1. agent[r] \in Agent /\ Passes(run[r], agent[r])
    BY DEF PassInv, Typed
  <1>2. n \in Nat
    BY <1>1 DEF Agent
  <1>3. NewAnswer(r) = [agent[r] EXCEPT !.version = n, !.unwritten = FALSE]
    BY DEF NewAnswer
  <1> HIDE DEF n
  <1>4. /\ NewAnswer(r) \in Agent /\ NewAnswer(r).version = n
        /\ NewAnswer(r).pc = agent[r].pc /\ NewAnswer(r).passed = agent[r].passed
        /\ NewAnswer(r).disk = agent[r].disk /\ NewAnswer(r).checked = agent[r].checked
    BY <1>1, <1>2, <1>3 DEF Agent
  <1> QED BY <1>1, <1>4 DEF n

\* The same once the answer is written, or could not be.
LEMMA AsWritten ==
  ASSUME NEW a \in Agent, NEW b \in Written(a)
  PROVE  /\ b \in Agent
         /\ b.pc = a.pc /\ b.passed = a.passed
         /\ b.checked = a.checked
         /\ b.version = a.version
         /\ ~b.unwritten => ~a.unwritten /\ b.disk = a.version
<1>1. CASE b = [a EXCEPT !.disk = a.version]
  BY <1>1 DEF Agent
<1>2. ASSUME NEW left \in {a.disk, -a.version}, b = [a EXCEPT !.disk = left, !.unwritten = TRUE]
      PROVE  /\ b \in Agent /\ b.pc = a.pc /\ b.passed = a.passed
             /\ b.checked = a.checked /\ b.version = a.version /\ b.unwritten
  <2>1. left \in Int
    BY DEF Agent
  <2> QED BY <1>2, <2>1 DEF Agent
<1> QED BY <1>1, <1>2 DEF Written

\* No step of codex keeps a pass that is not of the tree.
LEMMA PassCodex ==
  ASSUME PassInv, NEW r \in Request, UNCHANGED run,
         \/ CodexReviewed(r) \/ CodexLinted(r) \/ CodexFixed(r) \/ CodexTested(r) \/ CodexRelinted(r)
  PROVE  PassInv'
  <1> DEFINE a == agent[r]
             b == NewAnswer(r)
  <1>1. a \in Agent /\ b \in Agent /\ Passes(run[r], a) /\ b.passed = a.passed /\ b.pc = a.pc
    BY AsAsked
  <1>2. CASE CodexReviewed(r)
    <2>1. run[r].agent = "codex" /\ ~a.passed
      BY <1>1, <1>2 DEF CodexReviewed, Answered, Healing, Is, Passes, Ended
    <2>2. CASE Start(r, "flake8", b, "lint")
      <3>1. Passes(run[r], [b EXCEPT !.pc = "lint"])
        BY <1>1, <2>1, WithPc DEF Passes, Own
      <3> QED BY <1>1, <2>2, <3>1, PassStarts DEF Own
    <2>3. CASE CodexTests(r, b)
      BY <1>1, <2>1, <2>3, PassTests
    <2> QED BY <1>2, <2>2, <2>3 DEF CodexReviewed
  <1>3. CASE CodexLinted(r)
    <2>1. run[r].agent = "codex" /\ ~a.passed
      BY <1>1, <1>3 DEF CodexLinted, At, Passes, Ended
    <2> QED BY <1>1, <1>3, <2>1, PassTests DEF CodexLinted
  <1>4. CASE CodexFixed(r)
    <2>1. run[r].agent = "codex" /\ ~b.passed
      BY <1>1, <1>4 DEF CodexFixed, Answered, Healing, Is, Passes, Ended
    <2>2. ASSUME NEW q \in Written(b), CodexTests(r, q)
          PROVE  PassInv'
      <3>1. q \in Agent /\ ~q.passed
        BY <1>1, <2>1, AsWritten
      <3> QED BY <2>1, <2>2, <3>1, PassTests
    <2>3. CASE CodexTests(r, b)
      BY <1>1, <2>1, <2>3, PassTests
    <2>4. CASE End(r, b, "failed")
      BY <1>1, <2>4, PassEnds
    <2> QED BY <1>4, <2>2, <2>3, <2>4 DEF CodexFixed
  <1>5. CASE CodexTested(r)
    <2> DEFINE v == awaited[r].ending = "answer"
               q == [a EXCEPT !.passed = v]
    <2>1. run[r].agent = "codex" /\ a.checked = a.disk
      BY <1>1, <1>5 DEF CodexTested, At, Is, Passes
    <2>2. v \in BOOLEAN
      OBVIOUS
    <2> HIDE DEF v
    <2>3. q \in Agent /\ q.checked = q.disk
      BY <1>1, <2>1, <2>2 DEF Agent
    <2>4. CodexRelints(r, q)
      BY <1>5 DEF CodexTested, v
    <2> HIDE DEF q
    <2> QED BY <2>1, <2>3, <2>4, PassRelints
  <1>6. CASE CodexRelinted(r)
    <2>1. run[r].agent = "codex" /\ (a.passed => a.checked = a.disk)
      BY <1>1, <1>6 DEF CodexRelinted, At, Passes
    <2> QED BY <1>1, <1>6, <2>1, PassDecides DEF CodexRelinted
  <1> QED BY <1>2, <1>3, <1>4, <1>5, <1>6

\* Nor one of the tester, when its writes succeed: it tests what it has written, and
\* writes nothing else later.
LEMMA PassTester ==
  ASSUME PassInv, NEW r \in Request, UNCHANGED run, TesterAnswered(r) \/ TesterTested(r)
  PROVE  PassInv'
  <1> DEFINE a == agent[r]
  <1>1. a \in Agent /\ Passes(run[r], a)
    BY AsAsked
  <1>2. CASE TesterAnswered(r)
    <2>2. PICK b \in Written(NewAnswer(r)) :
             \/ Start(r, "pytest", [b EXCEPT !.attempt = @ + 1, !.checked = b.disk], "test")
             \/ TesterFails(r, [b EXCEPT !.attempt = @ + 1])
             \/ Return(r, b)
      BY <1>2 DEF TesterAnswered
    <2>1. b \in Agent /\ ~b.passed /\ run[r].agent = "tester" /\ (~b.unwritten => b.disk = b.version)
      <3>1. NewAnswer(r) \in Agent /\ NewAnswer(r).passed = a.passed
        BY AsAsked
      <3>2. ~a.passed /\ run[r].agent = "tester"
        BY <1>1, <1>2 DEF TesterAnswered, Answered, Is, Passes, Ended
      <3> QED BY <3>1, <3>2, AsWritten
    <2>3. CASE Start(r, "pytest", [b EXCEPT !.attempt = @ + 1, !.checked = b.disk], "test")
      <3> DEFINE n == b.attempt + 1
                 q == [b EXCEPT !.attempt = n, !.checked = b.disk]
      <3>2. Start(r, "pytest", q, "test")
        BY <2>3
      <3>4. n \in Nat
        BY <2>1 DEF Agent
      <3> HIDE DEF n
      <3>1. q \in Agent /\ q.checked = q.disk /\ ~q.passed /\ (~q.unwritten => q.disk = q.version)
        BY <2>1, <3>4 DEF Agent
      <3> HIDE DEF q
      <3>3. Passes(run[r], [q EXCEPT !.pc = "test"])
        BY <2>1, <3>1, WithPc DEF Passes, Own
      <3> QED BY <3>1, <3>2, <3>3, PassStarts DEF Own
    <2>4. CASE TesterFails(r, [b EXCEPT !.attempt = @ + 1])
      <3> DEFINE q == [b EXCEPT !.attempt = @ + 1]
                 p == [q EXCEPT !.passed = FALSE]
      <3>1. q \in Agent
        BY <2>1 DEF Agent
      <3>2. AskAgain(r, p)
        BY <2>4 DEF TesterFails
      <3> HIDE DEF q
      <3>3. p \in Agent /\ ~p.passed
        BY <3>1 DEF Agent
      <3> HIDE DEF p
      <3> QED BY <2>1, <3>2, <3>3, PassAsks
    <2>5. CASE Return(r, b)
      BY <2>1, <2>5, PassEnds DEF Return
    <2> QED BY <2>2, <2>3, <2>4, <2>5
  <1>3. CASE TesterTested(r)
    <2>1. run[r].agent = "tester" /\ a.checked = a.disk /\ (~a.unwritten => a.disk = a.version)
      BY <1>1, <1>3 DEF TesterTested, At, Is, Passes
    <2> DEFINE q == [a EXCEPT !.passed = TRUE]
               p == [a EXCEPT !.passed = FALSE]
    <2>2. q \in Agent /\ q.checked = q.disk /\ (~q.unwritten => q.disk = q.version)
      BY <1>1, <2>1 DEF Agent
    <2>3. p \in Agent /\ ~p.passed
      BY <1>1 DEF Agent
    <2>4. (\E b \in Written(q) : Return(r, b)) \/ AskAgain(r, p)
      BY <1>3 DEF TesterTested, TesterFails
    <2> HIDE DEF q, p
    <2>5. ASSUME NEW b \in Written(q), Return(r, b)
          PROVE  PassInv'
      <3>1. b \in Agent /\ (~b.unwritten => b.checked = b.disk)
        BY <2>2, AsWritten
      <3> QED BY <2>1, <2>5, <3>1, PassEnds DEF Return
    <2> QED BY <2>1, <2>3, <2>4, <2>5, PassAsks
  <1> QED BY <1>2, <1>3

\* Nor one of the debate: the critic sees the draft that was refined last.
LEMMA PassDebate ==
  ASSUME PassInv, NEW r \in Request, UNCHANGED run, Criticised(r) \/ Refined(r)
  PROVE  PassInv'
  <1> DEFINE a == agent[r]
  <1>1. /\ a \in Agent /\ ~a.passed /\ a.disk = a.version /\ run[r].agent = "debate"
        /\ a.pc = "asking"
    BY AsAsked DEF Criticised, Refined, Answered, Is, Passes, Ended
  <1>2. CASE Criticised(r)
    <2> DEFINE n == a.attempt + 1
               b == [a EXCEPT !.attempt = n, !.checked = a.version]
               q == [b EXCEPT !.passed = TRUE]
    <2>2. Return(r, q) \/ Become(r, b)
      BY <1>2 DEF Criticised
    <2>5. n \in Nat
      BY <1>1 DEF Agent
    <2> HIDE DEF n
    <2>1. b \in Agent /\ ~b.passed /\ b.checked = b.disk /\ b.disk = b.version /\ b.pc = "asking"
      BY <1>1, <2>5 DEF Agent
    <2> HIDE DEF b
    <2>3. q \in Agent /\ q.checked = q.disk
      BY <2>1 DEF Agent
    <2> HIDE DEF q
    <2>4. Passes(run[r], b)
      BY <1>1, <2>1 DEF Passes
    <2> QED BY <2>1, <2>2, <2>3, <2>4, PassEnds, PassBecomes DEF Return
  <1>3. CASE Refined(r)
    <2> DEFINE b == NewAnswer(r)
               q == [b EXCEPT !.disk = a.version + 1]
    <2>1. b \in Agent /\ ~b.passed /\ b.version = a.version + 1 /\ b.pc = "asking"
          /\ a.version + 1 \in Nat
      BY <1>1, AsAsked DEF Agent
    <2>2. Return(r, q) \/ Become(r, q)
      BY <1>3 DEF Refined
    <2> HIDE DEF b
    <2>3. q \in Agent /\ ~q.passed /\ q.disk = q.version /\ q.pc = "asking"
      BY <2>1 DEF Agent
    <2> HIDE DEF q
    <2>4. Passes(run[r], q)
      BY <1>1, <2>3 DEF Passes
    <2> QED BY <2>2, <2>3, <2>4, PassEnds, PassBecomes DEF Return
  <1> QED BY <1>2, <1>3

\* The NotebookLM tools have nothing to pass.
LEMMA PassNotebook ==
  ASSUME PassInv, NEW r \in Request, UNCHANGED run,
         \/ Notebook(r) \/ Created(r) \/ Imported(r) \/ Queried(r)
  PROVE  PassInv'
  <1> DEFINE a == agent[r]
  <1>1. a \in Agent /\ ~a.passed
    BY AsAsked DEF Notebook, Created, Imported, Queried, At, Passes, Ended
  <1>2. CASE NotebookFails(r)
    BY <1>1, <1>2, PassEnds DEF NotebookFails
  <1>3. ASSUME NEW pc \in {"create", "import", "query"}, Nlm(r, pc)
        PROVE  PassInv'
    <2>1. CASE Start(r, "nlm", a, pc)
      <3>1. Passes(run[r], [a EXCEPT !.pc = pc])
        BY <1>1, WithPc DEF Passes, Own
      <3> QED BY <1>1, <2>1, <3>1, PassStarts DEF Own
    <2> QED BY <1>2, <1>3, <2>1 DEF Nlm
  <1>4. CASE Return(r, NewAnswer(r))
    BY <1>1, <1>4, AsAsked, PassEnds DEF Return
  <1> QED BY <1>2, <1>3, <1>4 DEF Notebook, Created, Imported, Queried

\* Nor have the first question, plain agents, failures and cancellations.
LEMMA PassOthers ==
  ASSUME PassInv, NEW r \in Request, UNCHANGED run,
         Ask(r) \/ StandardAnswered(r) \/ PromptFailed(r) \/ Cancel(r)
  PROVE  PassInv'
  <1> DEFINE a == agent[r]
  <1>1. a \in Agent /\ Passes(run[r], a)
    BY AsAsked
  <1>2. CASE Ask(r)
    <2> DEFINE q == [a EXCEPT !.pc = "asking"]
    <2>2. q \in Agent /\ q.pc = "asking" /\ q.passed = a.passed /\ q.disk = a.disk
          /\ q.version = a.version /\ a.pc = "new"
      BY <1>1, <1>2 DEF Agent, Ask
    <2>3. Become(r, q)
      BY <1>2 DEF Ask
    <2> HIDE DEF q
    <2>4. Passes(run[r], q)
      BY <1>1, <2>2 DEF Passes, Ended
    <2> QED BY <2>2, <2>3, <2>4, PassBecomes
  <1>3. CASE StandardAnswered(r)
    <2>1. ~a.passed
      BY <1>1, <1>3 DEF StandardAnswered, Answered, Passes, Ended
    <2> QED BY <1>3, <2>1, AsAsked, PassEnds DEF StandardAnswered, Return
  <1>4. ASSUME NEW pc \in {"failed", "cancelled"}, Become(r, [a EXCEPT !.pc = pc])
        PROVE  PassInv'
    <2> DEFINE q == [a EXCEPT !.pc = pc]
    <2>1. q \in Agent /\ q.pc = pc
      BY <1>1, WithPc DEF Ended
    <2>2. Become(r, q)
      BY <1>4
    <2> HIDE DEF q
    <2>3. Passes(run[r], q)
      BY <2>1 DEF Passes, Ended
    <2> QED BY <2>1, <2>2, <2>3, PassBecomes
  <1> QED BY <1>2, <1>3, <1>4 DEF PromptFailed, Cancel

-----------------------------------------------------------------------------
(* Prompts: every backend of the chain has its turn *)

\* What was tried and what is left are the order that starts with backend s.
Ordered(p, n, s) ==
  /\ Len(p.tried) + Len(p.order) = n
  /\ \A i \in 1..Len(p.tried) : p.tried[i] = call_order(n, s)[i]
  /\ \A i \in 1..Len(p.order) : p.order[i] = call_order(n, s)[Len(p.tried) + i]

Started(p) == \E s \in 1..Len(chain[p.role]) : Ordered(p, Len(chain[p.role]), s)

Chained(R, p) ==
  /\ p \in Prompt
  /\ p.pc # "none" => Started(p)
  /\ p.pc \in {"login", "cli"} => p.order # <<>>
  /\ p.pc = "failed" => p.order = <<>>
  /\ R.agent # "debate" =>
       /\ p.active \in 1..Len(chain[R.role])
       /\ p.pc # "none" => p.role = R.role

Runs == [agent : {"standard", "codex", "tester", "debate", "notebook"}, role : Role,
         stateless : BOOLEAN, generation : BOOLEAN]

ChainInv ==
  /\ run \in [Request -> Runs] /\ prompt \in [Request -> Prompt]
  /\ \A r \in Request : Chained(run[r], prompt[r])

\* The lengths of the chains.
LEMMA Chains ==
  ASSUME NEW role \in Role
  PROVE  /\ chain[role] \in Seq(Backend) /\ Len(chain[role]) \in Nat \ {0}
         /\ DOMAIN chain[role] = 1..Len(chain[role])
  BY ProvidersAssumption

\* The order of a chain of n starts with s, and each of its members is in it once.
LEMMA CallOrder ==
  ASSUME NEW n \in Nat, NEW s \in 1..n
  PROVE  /\ call_order(n, s) \in Seq(Nat) /\ Len(call_order(n, s)) = n
         /\ \A i \in 1..n : call_order(n, s)[i] \in 1..n
         /\ \A k \in 1..n : \E i \in 1..n : call_order(n, s)[i] = k
  <1> DEFINE f == [i \in 1..n |-> IF i = 1 THEN s ELSE IF i <= s THEN i - 1 ELSE i]
  <1>1. \A i \in 1..n : f[i] \in 1..n /\ f[i] \in Nat
    OBVIOUS
  <1>2. f \in Seq(Nat) /\ Len(f) = n
    BY <1>1
  <1>3. ASSUME NEW k \in 1..n PROVE \E i \in 1..n : f[i] = k
    <2>1. CASE k = s
      <3>1. 1 \in 1..n /\ f[1] = k
        BY <2>1
      <3> QED BY <3>1
    <2>2. CASE k < s
      <3>1. k + 1 \in 1..n /\ f[k + 1] = k
        BY <2>2
      <3> QED BY <3>1
    <2>3. CASE k > s
      <3>1. k \in 1..n /\ f[k] = k
        BY <2>3
      <3> QED BY <3>1
    <2> QED BY <2>1, <2>2, <2>3
  <1>4. call_order(n, s) = f
    BY DEF call_order
  <1> HIDE DEF f
  <1> QED BY <1>1, <1>2, <1>3, <1>4

\* What is left of a sequence that is not empty.
LEMMA Rest ==
  ASSUME NEW S, NEW s \in Seq(S), s # <<>>
  PROVE  /\ Len(s) \in Nat \ {0} /\ Head(s) = s[1] /\ s[1] \in S
         /\ Tail(s) \in Seq(S) /\ Len(Tail(s)) = Len(s) - 1
         /\ \A i \in 1..(Len(s) - 1) : Tail(s)[i] = s[i + 1]
  <1>1. Len(s) \in Nat /\ Len(s) # 0
    OBVIOUS
  <1>2. Head(s) = s[1] /\ s[1] \in S
    BY <1>1
  <1>3. Tail(s) \in Seq(S) /\ Len(Tail(s)) = Len(s) - 1
    OBVIOUS
  <1> QED BY <1>1, <1>2, <1>3

\* A run that is in no prompt remembers a backend of its chain.
LEMMA NoPromptFits ==
  ASSUME NEW R \in Runs, NEW active \in Nat,
         R.agent # "debate" => active \in 1..Len(chain[R.role])
  PROVE  Chained(R, NoPrompt(active))
  <1>1. (CHOOSE role \in Role : TRUE) \in Role
    BY AgentsAssumption
  <1>2. NoPrompt(active) \in Prompt /\ NoPrompt(active).pc = "none" /\ NoPrompt(active).active = active
    BY <1>1 DEF NoPrompt, Prompt
  <1> QED BY <1>2 DEF Chained

\* A new prompt has tried nothing, and all of its chain is left.
LEMMA PromptedFits ==
  ASSUME NEW R \in Runs, NEW role \in Role, NEW active \in 1..Len(chain[role]),
         R.agent # "debate" => role = R.role
  PROVE  Chained(R, Prompted(role, active))
  <1> DEFINE n == Len(chain[role])
             order == call_order(n, active)
             p == Prompted(role, active)
  <1>1. n \in Nat /\ order \in Seq(Nat) /\ Len(order) = n /\ active \in Nat
    BY Chains, CallOrder
  <1> HIDE DEF order
  <1>2. p = [pc |-> "trying", role |-> role, order |-> order, tried |-> <<>>, active |-> active]
    BY DEF Prompted, order
  <1> HIDE DEF p
  <1>3. p \in Prompt /\ p.pc = "trying" /\ p.role = role /\ p.order = order /\ p.tried = <<>>
        /\ p.active = active
    BY <1>1, <1>2 DEF Prompt
  <1>4. Ordered(p, n, active)
    BY <1>1, <1>3 DEF Ordered, order
  <1>5. Started(p)
    BY <1>3, <1>4 DEF Started
  <1> QED BY <1>3, <1>5 DEF Chained, p

\* A prompt with a backend left is about one of its chain.
LEMMA HeadFits ==
  ASSUME NEW p \in Prompt, Started(p), p.order # <<>>
  PROVE  Head(p.order) \in Nat /\ Head(p.order) \in 1..Len(chain[p.role])
  <1> DEFINE n == Len(chain[p.role])
  <1>1. n \in Nat /\ p.order \in Seq(Nat) /\ p.tried \in Seq(Nat)
    BY Chains DEF Prompt
  <1>2. PICK s \in 1..n : Ordered(p, n, s)
    BY DEF Started
  <1> HIDE DEF n
  <1> DEFINE t == Len(p.tried)
             o == Len(p.order)
  <1>3. t \in Nat /\ o \in Nat \ {0} /\ Head(p.order) = p.order[1]
    BY <1>1, Rest
  <1>4. t + o = n /\ \A i \in 1..o : p.order[i] = call_order(n, s)[t + i]
    BY <1>2 DEF Ordered
  <1> HIDE DEF t, o
  <1>5. Head(p.order) = call_order(n, s)[t + 1] /\ t + 1 \in 1..n
    BY <1>3, <1>4
  <1>6. Head(p.order) \in 1..n
    BY <1>1, <1>5, CallOrder
  <1> QED BY <1>1, <1>6 DEF n

\* The next backend.
LEMMA FallFits ==
  ASSUME NEW R \in Runs, NEW p, Chained(R, p), p.pc # "none", p.order # <<>>
  PROVE  Chained(R, [p EXCEPT !.pc = "trying", !.order = Tail(p.order), !.tried = Append(p.tried, Head(p.order))])
  <1> DEFINE n == Len(chain[p.role])
             order == Tail(p.order)
             tried == Append(p.tried, Head(p.order))
             q == [p EXCEPT !.pc = "trying", !.order = order, !.tried = tried]
  <1>1. p \in Prompt /\ Started(p) /\ n \in Nat /\ p.order \in Seq(Nat) /\ p.tried \in Seq(Nat)
    BY Chains DEF Chained, Prompt
  <1>2. PICK s \in 1..n : Ordered(p, n, s)
    BY <1>1 DEF Started
  <1>3. Head(p.order) \in Nat
    BY <1>1, HeadFits
  <1> DEFINE t == Len(p.tried)
             o == Len(p.order)
  <1>4. /\ order \in Seq(Nat) /\ Len(order) = o - 1 /\ t \in Nat /\ o \in Nat \ {0}
        /\ \A i \in 1..(o - 1) : order[i] = p.order[i + 1]
    BY <1>1, Rest
  <1>11. /\ tried \in Seq(Nat) /\ Len(tried) = t + 1
         /\ \A i \in 1..t : tried[i] = p.tried[i]
         /\ tried[t + 1] = p.order[1]
    BY <1>1, <1>3, Rest
  <1> HIDE DEF order, tried, n
  <1>5. q \in Prompt /\ q.pc = "trying" /\ q.role = p.role /\ q.order = order /\ q.tried = tried
        /\ q.active = p.active
    BY <1>1, <1>4, <1>11 DEF Prompt
  <1> HIDE DEF q
  <1>9. t + o = n
    BY <1>2 DEF Ordered
  <1>10. /\ \A i \in 1..t : p.tried[i] = call_order(n, s)[i]
         /\ \A i \in 1..o : p.order[i] = call_order(n, s)[t + i]
    BY <1>2 DEF Ordered
  <1> HIDE DEF t, o
  <1>6. Ordered(q, n, s)
    <2>1. Len(q.tried) + Len(q.order) = n
      <3>1. Len(q.tried) = t + 1 /\ Len(q.order) = o - 1
        BY <1>4, <1>5, <1>11
      <3>2. t \in Nat /\ o \in Nat /\ t + o = n
        BY <1>4, <1>9
      <3> QED BY <3>1, <3>2
    <2>2. \A i \in 1..(t + 1) : tried[i] = call_order(n, s)[i]
      <3> SUFFICES ASSUME NEW i \in 1..(t + 1) PROVE tried[i] = call_order(n, s)[i]
        OBVIOUS
      <3>1. CASE i \in 1..t
        BY <3>1, <1>10, <1>11
      <3>2. CASE i = t + 1
        <4>1. 1 \in 1..o
          BY <1>4, <1>9
        <4> QED BY <3>2, <4>1, <1>4, <1>10, <1>11
      <3> QED BY <3>1, <3>2, <1>4, <1>9
    <2>3. \A i \in 1..(o - 1) : order[i] = call_order(n, s)[(t + 1) + i]
      <3> SUFFICES ASSUME NEW i \in 1..(o - 1) PROVE order[i] = call_order(n, s)[(t + 1) + i]
        OBVIOUS
      <3>1. i + 1 \in 1..o /\ t + (i + 1) = (t + 1) + i
        BY <1>4, <1>9
      <3>2. p.order[i + 1] = call_order(n, s)[t + (i + 1)]
        BY <3>1, <1>10
      <3> QED BY <3>1, <3>2, <1>4, <1>11
    <2> QED BY <1>4, <1>5, <1>11, <2>1, <2>2, <2>3 DEF Ordered
  <1>7. Started(q)
    BY <1>5, <1>6 DEF Started, n
  <1>8. Chained(R, q)
    BY <1>5, <1>7 DEF Chained
  <1> QED BY <1>8 DEF q, order, tried

\* The state of a prompt changes.
LEMMA PcFits ==
  ASSUME NEW R \in Runs, NEW p, Chained(R, p), p.pc # "none",
         NEW pc \in {"login", "cli", "failed", "raised"},
         pc \in {"login", "cli"} => p.order # <<>>,
         pc = "failed" => p.order = <<>>
  PROVE  Chained(R, [p EXCEPT !.pc = pc])
  <1> DEFINE q == [p EXCEPT !.pc = pc]
  <1>1. p \in Prompt /\ Started(p)
    BY DEF Chained
  <1>2. q \in Prompt /\ q.pc = pc /\ q.role = p.role /\ q.order = p.order /\ q.tried = p.tried
        /\ q.active = p.active
    BY <1>1 DEF Prompt
  <1> HIDE DEF q
  <1>3. Started(q)
    <2>1. PICK s \in 1..Len(chain[p.role]) : Ordered(p, Len(chain[p.role]), s)
      BY <1>1 DEF Started
    <2>2. Ordered(q, Len(chain[p.role]), s)
      BY <1>2, <2>1 DEF Ordered
    <2> QED BY <1>2, <2>2 DEF Started
  <1>4. Chained(R, q)
    BY <1>2, <1>3 DEF Chained
  <1> QED BY <1>4 DEF q

\* A backend has answered.
LEMMA AnswerFits ==
  ASSUME NEW R \in Runs, NEW p, Chained(R, p), p.pc # "none", p.order # <<>>
  PROVE  Chained(R, [p EXCEPT !.pc = "answered", !.active = Head(p.order)])
  <1> DEFINE h == Head(p.order)
             q == [p EXCEPT !.pc = "answered", !.active = h]
  <1>1. p \in Prompt /\ Started(p) /\ h \in Nat /\ h \in 1..Len(chain[p.role])
    BY HeadFits DEF Chained
  <1> HIDE DEF h
  <1>2. q \in Prompt /\ q.pc = "answered" /\ q.role = p.role /\ q.order = p.order /\ q.tried = p.tried
        /\ q.active = h
    BY <1>1 DEF Prompt
  <1> HIDE DEF q
  <1>3. Started(q)
    <2>1. PICK s \in 1..Len(chain[p.role]) : Ordered(p, Len(chain[p.role]), s)
      BY <1>1 DEF Started
    <2>2. Ordered(q, Len(chain[p.role]), s)
      BY <1>2, <2>1 DEF Ordered
    <2> QED BY <1>2, <2>2 DEF Started
  <1>4. Chained(R, q)
    BY <1>1, <1>2, <1>3 DEF Chained
  <1> QED BY <1>4 DEF q, h

-----------------------------------------------------------------------------
(* The moves of a run that is asked nothing and awaits nothing *)

\* Its provider is asked, and starts with a backend of its chain.
Asks(r) ==
  /\ \E a \in Agent : a.pc = "asking" /\ Become(r, a)
  /\ \E role \in Role : \E active \in 1..Len(chain[role]) :
       /\ run[r].agent # "debate" => role = run[r].role
       /\ Send(r, role, active)
  /\ UNCHANGED <<alive, awaited>>

Ends(r) == \E a \in Agent, pc \in {"done", "failed"} : End(r, a, pc)
Starts(r) == \E a \in Agent, p \in Program, pc \in Own : Start(r, p, a, pc)
Moves(r) == Asks(r) \/ Ends(r) \/ Starts(r)

\* Each of the helpers the actions are built from is one of these moves.
LEMMA MoveStarts ==
  ASSUME NEW r \in Request, NEW a \in Agent, NEW p \in Program, NEW pc \in Own, Start(r, p, a, pc)
  PROVE  Moves(r)
  BY DEF Moves, Starts

\* The run ends.
LEMMA MoveEnds ==
  ASSUME NEW r \in Request, NEW a \in Agent, NEW pc \in {"done", "failed"}, End(r, a, pc)
  PROVE  Moves(r)
  BY DEF Moves, Ends

\* The provider of a run remembers who answered last: a backend of the chain of its role.
LEMMA MoveAsks ==
  ASSUME ChainInv, NEW r \in Request, NEW a \in Agent, AskAgain(r, a), run[r].agent # "debate"
  PROVE  Moves(r)
  <1>1. \E b \in Agent : b.pc = "asking" /\ Become(r, b)
    BY WithPc DEF AskAgain
  <1>2. /\ run[r].role \in Role /\ prompt[r].active \in 1..Len(chain[run[r].role])
        /\ Send(r, run[r].role, prompt[r].active)
    BY DEF ChainInv, Chained, Runs, AskAgain
  <1>3. UNCHANGED <<alive, awaited>>
    BY DEF AskAgain
  <1> QED BY <1>1, <1>2, <1>3 DEF Moves, Asks

\* What codex does after an answer, a test or a verdict.
LEMMA MoveCodex ==
  ASSUME ChainInv, NEW r \in Request, NEW a \in Agent, run[r].agent = "codex",
         CodexDecides(r, a) \/ CodexRelints(r, a) \/ CodexTests(r, a)
  PROVE  Moves(r)
  <1>1. ASSUME NEW b \in Agent, CodexDecides(r, b) PROVE Moves(r)
    <2>1. [b EXCEPT !.attempt = @ + 1] \in Agent
      BY DEF Agent
    <2> QED BY <1>1, <2>1, MoveAsks, MoveEnds DEF CodexDecides, Return
  <1>2. ASSUME NEW b \in Agent, CodexRelints(r, b) PROVE Moves(r)
    BY <1>1, <1>2, MoveStarts DEF CodexRelints, Program, Own
  <1>3. ASSUME CodexTests(r, a) PROVE Moves(r)
    <2>1. [a EXCEPT !.checked = a.disk] \in Agent /\ [a EXCEPT !.passed = FALSE] \in Agent
      BY DEF Agent
    <2> QED BY <1>2, <1>3, <2>1, MoveStarts DEF CodexTests, Program, Own
  <1> QED BY <1>1, <1>2, <1>3

\* A step of a run that is asked and awaits nothing.
Acts(r) ==
  \/ Ask(r) \/ Notebook(r) \/ StandardAnswered(r)
  \/ CodexReviewed(r) \/ CodexLinted(r) \/ CodexFixed(r) \/ CodexTested(r) \/ CodexRelinted(r)
  \/ TesterAnswered(r) \/ TesterTested(r)
  \/ Criticised(r) \/ Refined(r)
  \/ Created(r) \/ Imported(r) \/ Queried(r)

\* Hence every step of codex is one,
LEMMA CodexMoves ==
  ASSUME PassInv, ChainInv, NEW r \in Request,
         \/ CodexReviewed(r) \/ CodexLinted(r) \/ CodexFixed(r) \/ CodexTested(r) \/ CodexRelinted(r)
  PROVE  Moves(r)
  <1> DEFINE a == agent[r]
             b == NewAnswer(r)
  <1>1. a \in Agent /\ b \in Agent /\ \A q \in Written(b) : q \in Agent
    BY AsAsked, AsWritten
  <1>2. run[r].agent = "codex"
    BY AsAsked DEF CodexReviewed, CodexLinted, CodexFixed, CodexTested, CodexRelinted, Healing, Is,
                   At, Passes
  <1>3. CASE CodexReviewed(r)
    BY <1>1, <1>2, <1>3, MoveCodex, MoveStarts DEF CodexReviewed, Program, Own
  <1>4. CASE CodexLinted(r)
    BY <1>1, <1>2, <1>4, MoveCodex DEF CodexLinted
  <1>5. CASE CodexFixed(r)
    BY <1>1, <1>2, <1>5, MoveCodex, MoveEnds DEF CodexFixed
  <1>6. CASE CodexTested(r)
    <2> DEFINE v == awaited[r].ending = "answer"
               q == [a EXCEPT !.passed = v]
    <2>1. v \in BOOLEAN
      OBVIOUS
    <2> HIDE DEF v
    <2>2. q \in Agent
      BY <1>1, <2>1 DEF Agent
    <2>3. CodexRelints(r, q)
      BY <1>6 DEF CodexTested, v
    <2> HIDE DEF q
    <2> QED BY <1>2, <2>2, <2>3, MoveCodex
  <1>7. CASE CodexRelinted(r)
    BY <1>1, <1>2, <1>7, MoveCodex DEF CodexRelinted
  <1> QED BY <1>3, <1>4, <1>5, <1>6, <1>7

\* every step of the tester,
LEMMA TesterMoves ==
  ASSUME PassInv, ChainInv, NEW r \in Request, TesterAnswered(r) \/ TesterTested(r)
  PROVE  Moves(r)
  <1> DEFINE a == agent[r]
  <1>1. a \in Agent /\ run[r].agent # "debate"
    BY AsAsked DEF TesterAnswered, TesterTested, Is
  <1>2. ASSUME NEW b \in Agent, TesterFails(r, b) PROVE Moves(r)
    <2>1. [b EXCEPT !.passed = FALSE] \in Agent
      BY DEF Agent
    <2> QED BY <1>1, <1>2, <2>1, MoveAsks DEF TesterFails
  <1>3. CASE TesterAnswered(r)
    <2>5. PICK b \in Written(NewAnswer(r)) :
             \/ Start(r, "pytest", [b EXCEPT !.attempt = @ + 1, !.checked = b.disk], "test")
             \/ TesterFails(r, [b EXCEPT !.attempt = @ + 1])
             \/ Return(r, b)
      BY <1>3 DEF TesterAnswered
    <2> DEFINE n == b.attempt + 1
               c == [b EXCEPT !.attempt = n]
               q == [b EXCEPT !.attempt = n, !.checked = b.disk]
    <2>1. b \in Agent
      BY AsAsked, AsWritten
    <2>2. Start(r, "pytest", q, "test") \/ TesterFails(r, c) \/ Return(r, b)
      BY <2>5
    <2>3. n \in Nat
      BY <2>1 DEF Agent
    <2> HIDE DEF n
    <2>4. c \in Agent /\ q \in Agent
      BY <2>1, <2>3 DEF Agent
    <2> HIDE DEF c, q
    <2> QED BY <1>2, <2>1, <2>2, <2>4, MoveStarts, MoveEnds DEF Return, Program, Own
  <1>4. CASE TesterTested(r)
    <2> DEFINE q == [a EXCEPT !.passed = TRUE]
    <2>1. q \in Agent
      BY <1>1 DEF Agent
    <2>2. (\E b \in Written(q) : Return(r, b)) \/ TesterFails(r, a)
      BY <1>4 DEF TesterTested
    <2> HIDE DEF q
    <2>3. \A b \in Written(q) : b \in Agent
      BY <2>1, AsWritten
    <2> QED BY <1>1, <1>2, <2>2, <2>3, MoveEnds DEF Return
  <1> QED BY <1>3, <1>4

\* and of the debate;
LEMMA DebateMoves ==
  ASSUME PassInv, ChainInv, NEW r \in Request, Criticised(r) \/ Refined(r)
  PROVE  Moves(r)
  <1> DEFINE a == agent[r]
  <1>1. a \in Agent /\ a.pc = "asking" /\ run[r].agent = "debate"
    BY AsAsked DEF Criticised, Refined, Answered, Is
  <1>2. ASSUME NEW b \in Agent, b.pc = "asking", Become(r, b), UNCHANGED <<alive, awaited>>,
               Send(r, "claude", 1) \/ Send(r, "researcher", 1)
        PROVE  Moves(r)
    <2>1. ASSUME NEW role \in {"claude", "researcher"}
          PROVE  role \in Role /\ 1 \in 1..Len(chain[role])
      BY Chains, AgentsAssumption
    <2> QED BY <1>1, <1>2, <2>1 DEF Moves, Asks
  <1>3. CASE Criticised(r)
    <2> DEFINE n == a.attempt + 1
               b == [a EXCEPT !.attempt = n, !.checked = a.version]
               q == [b EXCEPT !.passed = TRUE]
    <2>1. n \in Nat /\ a.version \in Int
      BY <1>1 DEF Agent
    <2>2. Return(r, q) \/ (Become(r, b) /\ Send(r, "claude", 1) /\ UNCHANGED <<alive, awaited>>)
      BY <1>3 DEF Criticised
    <2> HIDE DEF n
    <2>3. b \in Agent /\ b.pc = "asking"
      BY <1>1, <2>1 DEF Agent
    <2> HIDE DEF b
    <2>4. q \in Agent
      BY <2>3 DEF Agent
    <2> HIDE DEF q
    <2> QED BY <1>2, <2>2, <2>3, <2>4, MoveEnds DEF Return
  <1>4. CASE Refined(r)
    <2> DEFINE b == NewAnswer(r)
               q == [b EXCEPT !.disk = a.version + 1]
    <2>1. b \in Agent /\ b.pc = "asking" /\ a.version + 1 \in Nat
      BY <1>1, AsAsked DEF Agent
    <2>2. Return(r, q) \/ (Become(r, q) /\ Send(r, "researcher", 1) /\ UNCHANGED <<alive, awaited>>)
      BY <1>4 DEF Refined
    <2> HIDE DEF b
    <2>3. q \in Agent /\ q.pc = "asking"
      BY <2>1 DEF Agent
    <2> HIDE DEF q
    <2> QED BY <1>2, <2>2, <2>3, MoveEnds DEF Return
  <1> QED BY <1>3, <1>4

\* and so are the others.
LEMMA ActsMoves ==
  ASSUME PassInv, ChainInv, NEW r \in Request, Acts(r)
  PROVE  Moves(r)
  <1> DEFINE a == agent[r]
  <1>1. a \in Agent /\ NewAnswer(r) \in Agent
    BY AsAsked
  <1>2. CASE Ask(r)
    <2> DEFINE role == IF Is(r, "debate") THEN "researcher" ELSE run[r].role
    <2> DEFINE q == [a EXCEPT !.pc = "asking"]
    <2>2. q \in Agent /\ q.pc = "asking"
      BY <1>1 DEF Agent
    <2>3. Become(r, q)
      BY <1>2 DEF Ask
    <2> HIDE DEF q
    <2>4. role \in Role /\ (run[r].agent # "debate" => role = run[r].role)
      BY AgentsAssumption DEF ChainInv, Runs, Is
    <2>5. Send(r, role, 1) /\ UNCHANGED <<alive, awaited>>
      BY <1>2 DEF Ask
    <2> HIDE DEF role
    <2>6. 1 \in 1..Len(chain[role])
      BY <2>4, Chains
    <2> QED BY <2>2, <2>3, <2>4, <2>5, <2>6 DEF Moves, Asks
  <1>3. ASSUME NEW pc \in Own, Nlm(r, pc) PROVE Moves(r)
    BY <1>1, <1>3, MoveStarts, MoveEnds DEF Nlm, NotebookFails, Program
  <1>4. CASE NotebookFails(r) \/ Return(r, NewAnswer(r))
    BY <1>1, <1>4, MoveEnds DEF NotebookFails, Return
  <1>5. CASE Notebook(r) \/ Created(r) \/ Imported(r) \/ Queried(r) \/ StandardAnswered(r)
    BY <1>3, <1>4, <1>5 DEF Notebook, Created, Imported, Queried, StandardAnswered, Own
  <1> QED BY <1>2, <1>5, CodexMoves, TesterMoves, DebateMoves DEF Acts

\* A step of one prompt.
LEMMA ChainBecomes ==
  ASSUME ChainInv, NEW r \in Request, NEW q, Chained(run[r], q), UNCHANGED run,
         prompt' = [prompt EXCEPT ![r] = q]
  PROVE  ChainInv'
  <1>1. q \in Prompt
    BY DEF Chained
  <1> QED BY <1>1 DEF ChainInv

\* The moves leave every prompt with a chain of its own.
LEMMA ChainMoves ==
  ASSUME ChainInv, NEW r \in Request, Moves(r), UNCHANGED run
  PROVE  ChainInv'
  <1>1. run[r] \in Runs /\ Chained(run[r], prompt[r]) /\ prompt[r].active \in Nat
    BY DEF ChainInv, Prompt
  <1>2. CASE Asks(r)
    <2>1. PICK role \in Role : \E active \in 1..Len(chain[role]) :
            /\ run[r].agent # "debate" => role = run[r].role
            /\ Send(r, role, active)
      BY <1>2 DEF Asks
    <2>2. PICK active \in 1..Len(chain[role]) :
            /\ run[r].agent # "debate" => role = run[r].role
            /\ Send(r, role, active)
      BY <2>1
    <2> QED BY <1>1, <2>2, PromptedFits, ChainBecomes DEF Send
  <1>3. CASE Ends(r)
    <2>1. prompt' = [prompt EXCEPT ![r] = NoPrompt(1)]
      BY <1>3 DEF Ends, End
    <2>2. run[r].agent # "debate" => 1 \in 1..Len(chain[run[r].role])
      BY <1>1, Chains DEF Runs
    <2> QED BY <1>1, <2>1, <2>2, NoPromptFits, ChainBecomes
  <1>4. CASE Starts(r)
    <2>1. prompt' = [prompt EXCEPT ![r] = NoPrompt(prompt[r].active)]
      BY <1>4 DEF Starts, Start
    <2>2. run[r].agent # "debate" => prompt[r].active \in 1..Len(chain[run[r].role])
      BY <1>1 DEF Chained
    <2> QED BY <1>1, <2>1, <2>2, NoPromptFits, ChainBecomes
  <1> QED BY <1>2, <1>3, <1>4 DEF Moves

\* So do the steps of the prompt itself.
LEMMA ChainSteps ==
  ASSUME ChainInv, NEW r \in Request, PromptStep(r), UNCHANGED run
  PROVE  ChainInv'
  <1> DEFINE p == prompt[r]
             h == Head(p.order)
  <1>1. run[r] \in Runs /\ Chained(run[r], p)
    BY DEF ChainInv
  <1>2. p.pc # "none"
    BY DEF PromptStep, NotFound, Try, Login, LoggedIn, Read, Exhausted
  <1>3. ASSUME p.order # <<>>, FallThrough(r) PROVE ChainInv'
    <2> DEFINE q == [p EXCEPT !.pc = "trying", !.order = Tail(p.order), !.tried = Append(p.tried, h)]
    <2>1. Chained(run[r], q)
      BY <1>1, <1>2, <1>3, FallFits
    <2>2. prompt' = [prompt EXCEPT ![r] = q]
      BY <1>3 DEF FallThrough
    <2> HIDE DEF q
    <2> QED BY <2>1, <2>2, ChainBecomes
  <1>4. ASSUME NEW pc \in {"login", "cli", "failed", "raised"},
               pc \in {"login", "cli"} => p.order # <<>>,
               pc = "failed" => p.order = <<>>,
               prompt' = [prompt EXCEPT ![r].pc = pc]
        PROVE  ChainInv'
    <2> DEFINE q == [p EXCEPT !.pc = pc]
    <2>1. Chained(run[r], q)
      BY <1>1, <1>2, <1>4, PcFits
    <2>2. prompt' = [prompt EXCEPT ![r] = q]
      BY <1>4
    <2> HIDE DEF q
    <2> QED BY <2>1, <2>2, ChainBecomes
  <1>5. ASSUME p.order # <<>>, prompt' = [prompt EXCEPT ![r] = [@ EXCEPT !.pc = "answered", !.active = h]]
        PROVE  ChainInv'
    <2> DEFINE q == [p EXCEPT !.pc = "answered", !.active = h]
    <2>1. Chained(run[r], q)
      BY <1>1, <1>2, <1>5, AnswerFits
    <2>2. prompt' = [prompt EXCEPT ![r] = q]
      BY <1>5
    <2> HIDE DEF q
    <2> QED BY <2>1, <2>2, ChainBecomes
  <1>6. ASSUME p.order # <<>>, Run(r, Trying(r)) PROVE ChainInv'
    BY <1>3, <1>4, <1>6 DEF Run
  <1>7. p.pc \in {"login", "cli"} => p.order # <<>>
    BY <1>1 DEF Chained
  <1>8. CASE NotFound(r)
    BY <1>3, <1>8 DEF NotFound
  <1>9. CASE Try(r)
    BY <1>6, <1>9 DEF Try
  <1>10. CASE Login(r)
    BY <1>4, <1>6, <1>10 DEF Login
  <1>11. CASE LoggedIn(r)
    BY <1>6, <1>7, <1>11 DEF LoggedIn
  <1>12. CASE Read(r)
    <2>1. FallThrough(r) \/ prompt' = [prompt EXCEPT ![r].pc = "raised"]
          \/ prompt' = [prompt EXCEPT ![r] = [@ EXCEPT !.pc = "answered", !.active = h]]
      BY <1>12 DEF Read
    <2>2. p.order # <<>>
      BY <1>7, <1>12 DEF Read
    <2> QED BY <1>3, <1>4, <1>5, <2>1, <2>2
  <1>13. CASE Exhausted(r)
    BY <1>4, <1>13 DEF Exhausted
  <1> QED BY <1>8, <1>9, <1>10, <1>11, <1>12, <1>13 DEF PromptStep

\* And the failure of a run, its cancellation and the ends of programs.
LEMMA ChainOthers ==
  ASSUME ChainInv, NEW r \in Request, UNCHANGED run,
         PromptFailed(r) \/ Cancel(r) \/ Timeout(r) \/ \E p \in Program, e \in Exit : Exits(r, p, e)
  PROVE  ChainInv'
  <1>1. CASE Cancel(r)
    <2>1. prompt' = [prompt EXCEPT ![r] = NoPrompt(1)]
      BY <1>1 DEF Cancel, Cancelled
    <2>2. run[r] \in Runs /\ (run[r].agent # "debate" => 1 \in 1..Len(chain[run[r].role]))
      BY Chains DEF ChainInv, Runs
    <2> QED BY <2>1, <2>2, NoPromptFits, ChainBecomes
  <1>2. CASE UNCHANGED prompt
    BY <1>2 DEF ChainInv
  <1> QED BY <1>1, <1>2 DEF PromptFailed, Timeout, Exits

\* What a step is.
LEMMA Steps ==
  ASSUME [Next]_vars
  PROVE  /\ UNCHANGED run
         /\ \/ \E r \in Request : Acts(r) /\ UNCHANGED prompt_file
            \/ \E r \in Request : PromptFailed(r) /\ UNCHANGED prompt_file
            \/ \E r \in Request : Cancel(r)
            \/ \E r \in Request : PromptStep(r) /\ UNCHANGED agent
            \/ \E r \in Request : Timeout(r) /\ UNCHANGED agent
            \/ \E r \in Request : UNCHANGED agent /\ \E p \in Program, e \in Exit : Exits(r, p, e)
            \/ UNCHANGED vars
  <1>1. ASSUME NEW r \in Request, Acts(r) \/ PromptFailed(r) PROVE UNCHANGED <<run, prompt_file>>
    BY <1>1 DEF Acts, Ask, Notebook, StandardAnswered, PromptFailed, CodexReviewed,
                CodexLinted, CodexFixed, CodexTested, CodexRelinted, TesterAnswered,
                TesterTested, Criticised, Refined, Created, Imported, Queried, Quiet
  <1>2. CASE UNCHANGED vars
    BY <1>2 DEF vars, agentVars
  <1>3. ASSUME NEW r \in Request, Ask(r) \/ Notebook(r) \/ AgentStep(r)
        PROVE  Acts(r) \/ PromptFailed(r)
    BY <1>3 DEF AgentStep, Acts
  <1>4. ASSUME NEW r \in Request, Cancel(r) PROVE UNCHANGED run
    BY <1>4 DEF Cancel
  <1> QED BY <1>1, <1>2, <1>3, <1>4 DEF Next, Environment, agentVars

\* The first two invariants hold to begin with,
LEMMA RunsInit == Init => PassInv /\ ChainInv
  <1> SUFFICES ASSUME Init PROVE PassInv /\ ChainInv
    OBVIOUS
  <1>1. PassInv
    BY AgentsAssumption DEF Init, PassInv, Typed, Agent, Passes, Ended
  <1>2. run \in [Request -> Runs]
    BY AgentsAssumption DEF Init, Runs
  <1>3. ASSUME NEW r \in Request PROVE prompt[r] = NoPrompt(1) /\ Chained(run[r], prompt[r])
    <2>1. run[r] \in Runs /\ prompt[r] = NoPrompt(1)
      BY <1>2 DEF Init, ProvidersInit
    <2>2. 1 \in 1..Len(chain[run[r].role])
      BY <2>1, Chains DEF Runs
    <2> QED BY <2>1, <2>2, NoPromptFits
  <1>4. prompt \in [Request -> Prompt]
    BY <1>3 DEF Init, ProvidersInit, Chained
  <1> QED BY <1>1, <1>2, <1>3, <1>4 DEF ChainInv

\* and no step breaks them.
LEMMA RunsNext ==
  ASSUME PassInv, ChainInv, [Next]_vars
  PROVE  PassInv' /\ ChainInv'
  <1>1. UNCHANGED run
    BY Steps
  <1>2. ASSUME NEW r \in Request, Acts(r) PROVE PassInv' /\ ChainInv'
    <2>1. PassInv'
      BY <1>1, <1>2, PassCodex, PassTester, PassDebate, PassNotebook, PassOthers DEF Acts
    <2>2. ChainInv'
      BY <1>1, <1>2, ActsMoves, ChainMoves
    <2> QED BY <2>1, <2>2
  <1>3. ASSUME NEW r \in Request, PromptFailed(r) \/ Cancel(r) PROVE PassInv' /\ ChainInv'
    BY <1>1, <1>3, PassOthers, ChainOthers
  <1>4. ASSUME UNCHANGED agent PROVE PassInv'
    BY <1>1, <1>4 DEF PassInv, Typed
  <1>5. ASSUME NEW r \in Request,
               PromptStep(r) \/ Timeout(r) \/ \E p \in Program, e \in Exit : Exits(r, p, e)
        PROVE  ChainInv'
    BY <1>1, <1>5, ChainSteps, ChainOthers
  <1>6. CASE UNCHANGED vars
    BY <1>6 DEF vars, agentVars, providerVars, PassInv, Typed, ChainInv
  <1> QED BY <1>2, <1>3, <1>4, <1>5, <1>6, Steps

\* A run that reports a pass with its answer leaves behind what was tested: pytest ran on
\* the file as it is, the critic saw the design as it is returned, however often the
\* self-healing loops wrote in between; of the tester, unless a write of its last answer
\* failed (write_output of base_agent.py, which is not fatal).
THEOREM PassesAreOfTheTree == Spec => []PassIsOfTheTree
  <1>1. PassInv => PassIsOfTheTree
    BY DEF PassInv, Passes, PassIsOfTheTree, Is
  <1> QED BY <1>1, RunsInit, RunsNext, PTL DEF Spec

\* A prompt that fails was given to each backend of its chain, and to each once, whichever
\* backend answered the prompts before it.
THEOREM BackendsAreAllTried == Spec => []EveryBackendTried
  <1>1. ChainInv => EveryBackendTried
    <2> SUFFICES ASSUME ChainInv, NEW r \in Request, prompt[r].pc = "failed"
                 PROVE  /\ {prompt[r].tried[i] : i \in DOMAIN prompt[r].tried} = DOMAIN Backends(r)
                        /\ Len(prompt[r].tried) = Len(Backends(r))
      BY DEF EveryBackendTried
    <2> DEFINE p == prompt[r]
               n == Len(chain[p.role])
    <2>1. /\ p \in Prompt /\ Started(p) /\ p.order = <<>> /\ n \in Nat
          /\ p.tried \in Seq(Nat) /\ DOMAIN chain[p.role] = 1..n
      BY Chains DEF ChainInv, Chained, Prompt
    <2>2. PICK s \in 1..n : Ordered(p, n, s)
      BY <2>1 DEF Started
    <2> HIDE DEF n
    <2>3. Len(p.tried) = n /\ DOMAIN p.tried = 1..n
      BY <2>1, <2>2 DEF Ordered
    <2>4. \A i \in 1..n : p.tried[i] = call_order(n, s)[i]
      BY <2>2, <2>3 DEF Ordered
    <2> DEFINE tried == p.tried
               order == call_order(n, s)
    <2>6. \A i \in 1..n : tried[i] = order[i] /\ order[i] \in 1..n
      BY <2>1, <2>4, CallOrder
    <2>7. \A k \in 1..n : \E i \in 1..n : order[i] = k
      BY <2>1, CallOrder
    <2> HIDE DEF tried, order
    <2>5. {tried[i] : i \in 1..n} = 1..n
      BY <2>6, <2>7
    <2> QED BY <2>1, <2>3, <2>5 DEF Backends, n, tried
  <1> QED BY <1>1, RunsInit, RunsNext, PTL DEF Spec

-----------------------------------------------------------------------------
(* Programs: what runs is waited for *)

\* The programs l of a run, its prompt p and the program w it waits for.
Waits(r, a, p, l, w, F) ==
  /\ a.pc # "cancelled" => \A q \in l : w.program = q /\ w.ending = "running"
  /\ w.ending = "running" => (a.pc = "asking" /\ p.pc \in {"login", "cli"}) \/ a.pc \in Own
  /\ p.pc # "none" => a.pc = "asking" \/ (a.pc = "failed" /\ p.pc \in {"failed", "raised"})
  /\ r \in F => p.pc = "cli" /\ w.program = "grok"

WaitTypes ==
  /\ agent \in [Request -> Agent] /\ prompt \in [Request -> Prompt]
  /\ awaited \in [Request -> Awaited] /\ alive \in [Request -> SUBSET Program]

WaitInv ==
  /\ WaitTypes
  /\ \A r \in Request : Waits(r, agent[r], prompt[r], alive[r], awaited[r], prompt_file)

\* A step of one run.
LEMMA WaitBecomes ==
  ASSUME WaitInv, NEW r \in Request, WaitTypes',
         \A s \in Request \ {r} :
           /\ agent'[s] = agent[s] /\ prompt'[s] = prompt[s] /\ alive'[s] = alive[s]
           /\ awaited'[s] = awaited[s] /\ (s \in prompt_file' => s \in prompt_file),
         Waits(r, agent'[r], prompt'[r], alive'[r], awaited'[r], prompt_file')
  PROVE  WaitInv'
  <1>1. ASSUME NEW s \in Request
        PROVE  Waits(s, agent'[s], prompt'[s], alive'[s], awaited'[s], prompt_file')
    <2>1. CASE s = r
      BY <2>1
    <2>2. CASE s # r
      <3>1. Waits(s, agent[s], prompt[s], alive[s], awaited[s], prompt_file)
        BY DEF WaitInv
      <3>2. Waits(s, agent[s], prompt[s], alive[s], awaited[s], prompt_file')
        BY <2>2, <3>1 DEF Waits
      <3> QED BY <2>2, <3>2
    <2> QED BY <2>1, <2>2
  <1> QED BY <1>1 DEF WaitInv

\* Nothing runs for the run, nothing is awaited, and no prompt lies in a file.
Idle(r) == alive[r] = {} /\ awaited[r].ending # "running" /\ r \notin prompt_file

\* A run acts only when nothing of its own still runs.
LEMMA ActsWhenIdle ==
  ASSUME WaitInv, NEW r \in Request, Acts(r)
  PROVE  Idle(r) /\ agent[r].pc # "cancelled"
  <1>1. Waits(r, agent[r], prompt[r], alive[r], awaited[r], prompt_file)
    BY DEF WaitInv
  <1>2. \/ agent[r].pc = "new"
        \/ Answered(r)
        \/ \E pc \in Own : At(r, pc)
    BY DEF Acts, Ask, Notebook, StandardAnswered, CodexReviewed, CodexLinted, CodexFixed, CodexTested,
           CodexRelinted, TesterAnswered, TesterTested, Criticised, Refined, Created, Imported,
           Queried, Own
  <1>3. /\ agent[r].pc # "cancelled" /\ awaited[r].ending # "running"
        /\ prompt[r].pc # "cli"
    BY <1>1, <1>2 DEF Waits, Answered, At, Own, Ended
  <1> QED BY <1>1, <1>3 DEF Waits, Idle

\* Its moves start one program at most, and wait for it.
LEMMA WaitMoves ==
  ASSUME WaitInv, ChainInv', NEW r \in Request, Idle(r), Moves(r), UNCHANGED prompt_file
  PROVE  WaitInv'
  <1>1. prompt' \in [Request -> Prompt] /\ WaitTypes
    BY DEF ChainInv, WaitInv
  <1>2. CASE Asks(r)
    <2>1. PICK a \in Agent : a.pc = "asking" /\ Become(r, a)
      BY <1>2 DEF Asks
    <2>2. PICK role \in Role, active \in Nat : Send(r, role, active)
      BY <1>2 DEF Asks
    <2>3. UNCHANGED <<alive, awaited>>
      BY <1>2 DEF Asks
    <2>4. WaitTypes'
      BY <1>1, <2>1, <2>3 DEF WaitTypes, Become
    <2>5. agent'[r] = a /\ \A s \in Request \ {r} : agent'[s] = agent[s]
      BY <1>1, <2>1 DEF WaitTypes, Become
    <2>6. \A s \in Request \ {r} : prompt'[s] = prompt[s]
      BY <1>1, <2>2 DEF WaitTypes, Send
    <2>7. Waits(r, a, prompt'[r], alive[r], awaited[r], prompt_file)
      BY <2>1 DEF Waits, Idle
    <2> QED BY <2>3, <2>4, <2>5, <2>6, <2>7, WaitBecomes
  <1>3. CASE Ends(r)
    <2>1. PICK a \in Agent, pc \in {"done", "failed"} : End(r, a, pc)
      BY <1>3 DEF Ends
    <2> DEFINE q == [a EXCEPT !.pc = pc]
    <2>2. Become(r, q)
      BY <2>1 DEF End
    <2>3. q \in Agent /\ q.pc = pc
      BY WithPc DEF Ended
    <2> HIDE DEF q
    <2>4. NoPrompt(1).pc = "none" /\ Nothing \in Awaited /\ Nothing.ending # "running"
      BY DEF NoPrompt, Nothing, Awaited, Ending
    <2>5. /\ prompt' = [prompt EXCEPT ![r] = NoPrompt(1)]
          /\ awaited' = [awaited EXCEPT ![r] = Nothing] /\ UNCHANGED alive
      BY <2>1 DEF End
    <2>6. WaitTypes'
      BY <1>1, <2>2, <2>3, <2>4, <2>5 DEF WaitTypes, Become
    <2>7. /\ agent'[r] = q /\ prompt'[r] = NoPrompt(1) /\ awaited'[r] = Nothing
          /\ \A s \in Request \ {r} :
               agent'[s] = agent[s] /\ prompt'[s] = prompt[s] /\ awaited'[s] = awaited[s]
      BY <1>1, <2>2, <2>5 DEF WaitTypes, Become
    <2>8. Waits(r, q, NoPrompt(1), alive[r], Nothing, prompt_file)
      BY <2>3, <2>4 DEF Waits, Idle
    <2> QED BY <2>5, <2>6, <2>7, <2>8, WaitBecomes
  <1>4. CASE Starts(r)
    <2>1. PICK a \in Agent, p \in Program, pc \in Own : Start(r, p, a, pc)
      BY <1>4 DEF Starts
    <2> DEFINE q == [a EXCEPT !.pc = pc]
               w == [program |-> p, ending |-> "running"]
    <2>2. Become(r, q)
      BY <2>1 DEF Start
    <2>3. q \in Agent /\ q.pc = pc
      BY WithPc
    <2> HIDE DEF q
    <2>4. w \in Awaited /\ w.program = p /\ w.ending = "running"
      BY DEF Awaited
    <2>5. /\ alive' = [alive EXCEPT ![r] = @ \cup {p}]
          /\ awaited' = [awaited EXCEPT ![r] = w]
          /\ prompt' = [prompt EXCEPT ![r] = NoPrompt(prompt[r].active)]
      BY <2>1 DEF Start, Spawn
    <2> HIDE DEF w
    <2>6. WaitTypes'
      BY <1>1, <2>2, <2>3, <2>4, <2>5 DEF WaitTypes, Become
    <2>7. /\ agent'[r] = q /\ prompt'[r] = NoPrompt(prompt[r].active) /\ awaited'[r] = w
          /\ alive'[r] = {p}
          /\ \A s \in Request \ {r} :
               /\ agent'[s] = agent[s] /\ prompt'[s] = prompt[s] /\ awaited'[s] = awaited[s]
               /\ alive'[s] = alive[s]
      BY <1>1, <2>2, <2>5 DEF WaitTypes, Become, Idle
    <2>8. NoPrompt(prompt[r].active).pc = "none"
      BY DEF NoPrompt
    <2>9. Waits(r, q, NoPrompt(prompt[r].active), {p}, w, prompt_file)
      BY <2>3, <2>4, <2>8 DEF Waits, Idle
    <2> QED BY <2>5, <2>6, <2>7, <2>9, WaitBecomes
  <1> QED BY <1>2, <1>3, <1>4 DEF Moves

\* A run fails or is cancelled.
LEMMA WaitStops ==
  ASSUME WaitInv, ChainInv', NEW r \in Request,
         (PromptFailed(r) /\ UNCHANGED prompt_file) \/ Cancel(r)
  PROVE  WaitInv'
  <1> DEFINE a == agent[r]
  <1>1. prompt' \in [Request -> Prompt] /\ WaitTypes /\ a \in Agent
    BY DEF ChainInv, WaitInv, WaitTypes
  <1>2. Waits(r, a, prompt[r], alive[r], awaited[r], prompt_file)
    BY DEF WaitInv
  <1>3. ASSUME NEW pc \in Ended, Become(r, [a EXCEPT !.pc = pc])
        PROVE  /\ agent' \in [Request -> Agent] /\ agent'[r].pc = pc
               /\ \A s \in Request \ {r} : agent'[s] = agent[s]
    <2> DEFINE q == [a EXCEPT !.pc = pc]
    <2>1. q \in Agent /\ q.pc = pc
      BY <1>1, WithPc
    <2>2. Become(r, q)
      BY <1>3
    <2> HIDE DEF q
    <2> QED BY <1>1, <2>1, <2>2 DEF WaitTypes, Become
  <1>4. CASE PromptFailed(r) /\ UNCHANGED prompt_file
    <2>1. UNCHANGED <<prompt, alive, awaited, prompt_file>>
      BY <1>4 DEF PromptFailed
    <2>2. /\ agent' \in [Request -> Agent] /\ agent'[r].pc = "failed"
          /\ \A s \in Request \ {r} : agent'[s] = agent[s]
      BY <1>3, <1>4 DEF PromptFailed, Ended
    <2>3. a.pc = "asking" /\ prompt[r].pc \in {"failed", "raised"}
      BY <1>4 DEF PromptFailed
    <2> DEFINE b == agent'[r]
    <2> HIDE DEF b
    <2>4. Waits(r, b, prompt[r], alive[r], awaited[r], prompt_file)
      BY <1>2, <2>2, <2>3 DEF Waits, Own, Ended, b
    <2>5. WaitTypes'
      BY <1>1, <2>1, <2>2 DEF WaitTypes
    <2> QED BY <2>1, <2>2, <2>4, <2>5, WaitBecomes DEF b
  <1>5. CASE Cancel(r)
    <2>1. /\ agent' \in [Request -> Agent] /\ agent'[r].pc = "cancelled"
          /\ \A s \in Request \ {r} : agent'[s] = agent[s]
      BY <1>3, <1>5 DEF Cancel, Ended
    <2>2. NoPrompt(1).pc = "none" /\ Nothing \in Awaited /\ Nothing.ending # "running"
      BY DEF NoPrompt, Nothing, Awaited, Ending
    <2>3. /\ prompt' = [prompt EXCEPT ![r] = NoPrompt(1)] /\ prompt_file' = prompt_file \ {r}
          /\ awaited' = [awaited EXCEPT ![r] = Nothing] /\ UNCHANGED alive
      BY <1>5 DEF Cancel, Cancelled
    <2>4. WaitTypes'
      BY <1>1, <2>1, <2>2, <2>3 DEF WaitTypes
    <2>5. /\ prompt'[r] = NoPrompt(1) /\ awaited'[r] = Nothing
          /\ \A s \in Request \ {r} : prompt'[s] = prompt[s] /\ awaited'[s] = awaited[s]
      BY <1>1, <2>3 DEF WaitTypes
    <2> DEFINE b == agent'[r]
    <2> HIDE DEF b
    <2>6. Waits(r, b, NoPrompt(1), alive[r], Nothing, prompt_file')
      BY <2>1, <2>2, <2>3 DEF Waits, b
    <2> QED BY <2>1, <2>3, <2>4, <2>5, <2>6, WaitBecomes DEF b
  <1> QED BY <1>4, <1>5

\* A program ends, or overruns its timeout.
LEMMA WaitPrograms ==
  ASSUME WaitInv, NEW r \in Request, UNCHANGED agent,
         Timeout(r) \/ \E p \in Program, e \in Exit : Exits(r, p, e)
  PROVE  WaitInv'
  <1> DEFINE w == awaited[r]
  <1>1. WaitTypes /\ Waits(r, agent[r], prompt[r], alive[r], w, prompt_file) /\ w \in Awaited
        /\ alive[r] \in SUBSET Program
    BY DEF WaitInv, WaitTypes
  <1>2. ASSUME NEW p \in Program, NEW e \in Ending, NEW v \in Awaited,
               alive' = [alive EXCEPT ![r] = @ \ {p}], awaited' = [awaited EXCEPT ![r] = v],
               v.program = w.program,
               IF w.program = p /\ w.ending = "running" THEN v.ending = e ELSE v = w,
               p \in alive[r] \/ (w.program = p /\ w.ending = "running"),
               UNCHANGED <<prompt, prompt_file>>
        PROVE  WaitInv'
    <2>1. WaitTypes'
      BY <1>1, <1>2 DEF WaitTypes
    <2>2. /\ alive'[r] = alive[r] \ {p} /\ awaited'[r] = v
          /\ \A s \in Request \ {r} : alive'[s] = alive[s] /\ awaited'[s] = awaited[s]
      BY <1>1, <1>2 DEF WaitTypes
    <2>3. e # "running"
      BY DEF Ending, Exit
    <2>4. Waits(r, agent[r], prompt[r], alive[r] \ {p}, v, prompt_file)
      <3>1. CASE w.program = p /\ w.ending = "running"
        BY <1>1, <1>2, <2>3, <3>1 DEF Waits
      <3>2. CASE ~(w.program = p /\ w.ending = "running")
        BY <1>1, <1>2, <3>2 DEF Waits
      <3> QED BY <3>1, <3>2
    <2> QED BY <1>2, <2>1, <2>2, <2>4, WaitBecomes
  <1>3. CASE Timeout(r)
    <2> DEFINE v == [w EXCEPT !.ending = "killed"]
    <2>1. w.ending = "running" /\ alive' = [alive EXCEPT ![r] = @ \ {w.program}]
          /\ awaited' = [awaited EXCEPT ![r] = v] /\ UNCHANGED <<prompt, prompt_file>>
      BY <1>3 DEF Timeout, Terminated
    <2>2. v \in Awaited /\ v.program = w.program /\ v.ending = "killed" /\ "killed" \in Ending
      BY <1>1 DEF Awaited, Ending
    <2> HIDE DEF v
    <2>3. CASE w.program \in Program
      BY <1>2, <2>1, <2>2, <2>3
    <2>4. CASE w.program \notin Program
      <3>1. /\ alive'[r] = alive[r] \ {w.program} /\ awaited'[r] = v
            /\ \A s \in Request \ {r} : alive'[s] = alive[s] /\ awaited'[s] = awaited[s]
        BY <1>1, <2>1 DEF WaitTypes
      <3>2. WaitTypes'
        BY <1>1, <2>1, <2>2 DEF WaitTypes
      <3>3. Waits(r, agent[r], prompt[r], alive[r] \ {w.program}, v, prompt_file)
        BY <1>1, <2>1, <2>2 DEF Waits
      <3> QED BY <2>1, <3>1, <3>2, <3>3, WaitBecomes
    <2> QED BY <2>3, <2>4
  <1>4. ASSUME NEW p \in Program, NEW e \in Exit, Exits(r, p, e) PROVE WaitInv'
    <2> DEFINE v == IF w.program = p /\ w.ending = "running" THEN [w EXCEPT !.ending = e] ELSE w
    <2>1. /\ p \in alive[r] /\ alive' = [alive EXCEPT ![r] = @ \ {p}]
          /\ awaited' = [awaited EXCEPT ![r] = v] /\ UNCHANGED <<prompt, prompt_file>>
      BY <1>4 DEF Exits
    <2>2. /\ v \in Awaited /\ v.program = w.program /\ e \in Ending
          /\ IF w.program = p /\ w.ending = "running" THEN v.ending = e ELSE v = w
      BY <1>1 DEF Awaited, Ending
    <2> HIDE DEF v
    <2> QED BY <1>2, <2>1, <2>2
  <1> QED BY <1>3, <1>4

\* A step of the prompt starts a program only when the one before has ended.
LEMMA WaitSteps ==
  ASSUME WaitInv, ChainInv, ChainInv', NEW r \in Request, PromptStep(r), UNCHANGED agent
  PROVE  WaitInv'
  <1> DEFINE p == prompt[r]
             a == agent[r]
             b == Trying(r)
  <1>1. prompt' \in [Request -> Prompt] /\ WaitTypes /\ Chained(run[r], p) /\ p \in Prompt
    BY DEF ChainInv, WaitInv, WaitTypes
  <1>2. Waits(r, a, p, alive[r], awaited[r], prompt_file)
    BY DEF WaitInv
  <1>3. p.pc \in {"trying", "login", "cli"}
    BY DEF PromptStep, NotFound, Try, Login, LoggedIn, Read, Exhausted
  <1>4. a.pc = "asking"
    BY <1>2, <1>3 DEF Waits
  <1>5. ASSUME p.order # <<>> PROVE b \in Backend
    <2>1. Head(p.order) \in 1..Len(chain[p.role]) /\ chain[p.role] \in Seq(Backend)
      BY <1>1, <1>3, <1>5, HeadFits, Chains DEF Chained, Prompt
    <2> DEFINE c == chain[p.role]
               h == Head(p.order)
    <2>2. b = c[h]
      BY DEF Trying, Backends
    <2> HIDE DEF c, h
    <2> QED BY <2>1, <2>2 DEF c, h
  <1>6. p.pc \in {"login", "cli"} => p.order # <<>>
    BY <1>1 DEF Chained
  \* What the step makes of the prompt and the rest.
  <1>18. ASSUME NEW q \in Prompt, prompt' = [prompt EXCEPT ![r] = q]
         PROVE  prompt'[r] = q /\ \A s \in Request \ {r} : prompt'[s] = prompt[s]
    BY <1>1, <1>18 DEF WaitTypes
  <1>19. ASSUME NEW q \in Prompt, prompt' = [prompt EXCEPT ![r] = q],
                UNCHANGED <<alive, awaited, prompt_file>>, q.pc \in {"trying", "failed"},
                p.pc \in {"trying", "login"}, awaited[r].ending # "running"
         PROVE  WaitInv'
    <2>1. WaitTypes'
      BY <1>1, <1>19 DEF WaitTypes
    <2>2. Waits(r, a, q, alive[r], awaited[r], prompt_file)
      BY <1>2, <1>4, <1>19 DEF Waits
    <2> QED BY <1>18, <1>19, <2>1, <2>2, WaitBecomes
  <1>20. ASSUME NEW q \in Prompt, prompt' = [prompt EXCEPT ![r] = q],
                awaited' = [awaited EXCEPT ![r] = Nothing], UNCHANGED alive,
                prompt_file' = prompt_file \ {r}, awaited[r].ending # "running"
         PROVE  WaitInv'
    <2>1. Nothing \in Awaited /\ Nothing.ending # "running"
      BY DEF Nothing, Awaited, Ending
    <2>2. WaitTypes'
      BY <1>1, <1>20, <2>1 DEF WaitTypes
    <2>3. awaited'[r] = Nothing /\ \A s \in Request \ {r} : awaited'[s] = awaited[s]
      BY <1>1, <1>20 DEF WaitTypes
    <2>4. Waits(r, a, q, alive[r], Nothing, prompt_file')
      BY <1>2, <1>4, <1>20, <2>1 DEF Waits
    <2> QED BY <1>18, <1>20, <2>2, <2>3, <2>4, WaitBecomes
  <1>21. ASSUME NEW q \in Prompt, prompt' = [prompt EXCEPT ![r] = q],
                NEW g \in Program, Spawn(r, g), q.pc \in {"login", "cli"},
                UNCHANGED prompt_file \/ (g = "grok" /\ prompt_file' = prompt_file \cup {r}),
                g = "grok" => q.pc = "cli",
                p.pc \in {"trying", "login"}, awaited[r].ending # "running"
         PROVE  WaitInv'
    <2> DEFINE w == [program |-> g, ending |-> "running"]
    <2>1. w \in Awaited /\ w.program = g /\ w.ending = "running"
      BY DEF Awaited
    <2>2. alive' = [alive EXCEPT ![r] = @ \cup {g}] /\ awaited' = [awaited EXCEPT ![r] = w]
      BY <1>21 DEF Spawn
    <2> HIDE DEF w
    <2>3. alive[r] = {} /\ r \notin prompt_file
      BY <1>2, <1>4, <1>21 DEF Waits
    <2>4. WaitTypes'
      BY <1>1, <2>1, <2>2 DEF WaitTypes
    <2>5. /\ alive'[r] = {g} /\ awaited'[r] = w
          /\ \A s \in Request \ {r} : alive'[s] = alive[s] /\ awaited'[s] = awaited[s]
      BY <1>1, <2>2, <2>3 DEF WaitTypes
    <2>6. Waits(r, a, q, {g}, w, prompt_file')
      BY <1>4, <1>21, <2>1, <2>3 DEF Waits
    <2>7. \A s \in Request \ {r} : s \in prompt_file' => s \in prompt_file
      BY <1>21
    <2> QED BY <1>18, <1>21, <2>4, <2>5, <2>6, <2>7, WaitBecomes
  <1>8. ASSUME NEW pc \in {"login", "cli", "failed", "raised"}, prompt' = [prompt EXCEPT ![r].pc = pc]
        PROVE  \E q \in Prompt : q.pc = pc /\ prompt' = [prompt EXCEPT ![r] = q]
    <2> DEFINE q == [p EXCEPT !.pc = pc]
    <2>1. q \in Prompt /\ q.pc = pc
      BY <1>1 DEF Prompt
    <2>2. prompt' = [prompt EXCEPT ![r] = q]
      BY <1>8
    <2> HIDE DEF q
    <2> QED BY <2>1, <2>2
  <1>9. ASSUME FallThrough(r)
        PROVE  \E q \in Prompt : q.pc = "trying" /\ prompt' = [prompt EXCEPT ![r] = q]
    <2> DEFINE q == [p EXCEPT !.pc = "trying", !.order = Tail(p.order),
                              !.tried = Append(p.tried, Head(p.order))]
    <2>1. prompt' = [prompt EXCEPT ![r] = q]
      BY <1>9 DEF FallThrough
    <2>2. q.pc = "trying"
      BY <1>1 DEF Prompt
    <2> HIDE DEF q
    <2>3. q \in Prompt
      BY <1>1, <2>1 DEF WaitTypes
    <2> QED BY <2>1, <2>2, <2>3
  <1>10. ASSUME p.order # <<>>, Run(r, b), p.pc \in {"trying", "login"}, awaited[r].ending # "running"
         PROVE  WaitInv'
    <2>1. CASE FallThrough(r) /\ UNCHANGED <<alive, awaited, prompt_file>>
      <3>1. PICK q \in Prompt : q.pc = "trying" /\ prompt' = [prompt EXCEPT ![r] = q]
        BY <1>9, <2>1
      <3> QED BY <1>10, <1>19, <2>1, <3>1
    <2>2. CASE /\ Spawn(r, b) /\ prompt' = [prompt EXCEPT ![r].pc = "cli"]
               /\ prompt_file' = IF b = "grok" THEN prompt_file \cup {r} ELSE prompt_file
      <3>1. PICK q \in Prompt : q.pc = "cli" /\ prompt' = [prompt EXCEPT ![r] = q]
        BY <1>8, <2>2
      <3>2. b \in Program
        BY <1>5, <1>10 DEF Program
      <3>3. UNCHANGED prompt_file \/ (b = "grok" /\ prompt_file' = prompt_file \cup {r})
        BY <2>2
      <3> HIDE DEF b
      <3> QED BY <1>10, <1>21, <2>2, <3>1, <3>2, <3>3
    <2> QED BY <1>10, <2>1, <2>2 DEF Run
  <1>11. p.pc = "trying" => awaited[r].ending # "running"
    BY <1>2, <1>4 DEF Waits, Own
  <1>12. CASE NotFound(r)
    <2>1. PICK q \in Prompt : q.pc = "trying" /\ prompt' = [prompt EXCEPT ![r] = q]
      BY <1>9, <1>12 DEF NotFound
    <2> QED BY <1>11, <1>12, <1>19, <2>1 DEF NotFound
  <1>13. CASE Try(r)
    BY <1>10, <1>11, <1>13 DEF Try
  <1>14. CASE Login(r)
    <2>1. CASE Spawn(r, "login") /\ prompt' = [prompt EXCEPT ![r].pc = "login"] /\ UNCHANGED prompt_file
      <3>1. PICK q \in Prompt : q.pc = "login" /\ prompt' = [prompt EXCEPT ![r] = q]
        BY <1>8, <2>1
      <3>2. "login" \in Program
        BY DEF Program
      <3> QED BY <1>11, <1>14, <1>21, <2>1, <3>1, <3>2 DEF Login
    <2> QED BY <1>10, <1>11, <1>14, <2>1 DEF Login
  <1>15. CASE LoggedIn(r)
    BY <1>6, <1>10, <1>15 DEF LoggedIn
  <1>16. CASE Read(r)
    <2>1. \E q \in Prompt : prompt' = [prompt EXCEPT ![r] = q]
      <3>1. CASE FallThrough(r)
        BY <1>9, <3>1
      <3>2. CASE prompt' = [prompt EXCEPT ![r].pc = "raised"]
        BY <1>8, <3>2
      <3>3. CASE prompt' = [prompt EXCEPT ![r] = [@ EXCEPT !.pc = "answered", !.active = Head(p.order)]]
        <4> DEFINE q == [p EXCEPT !.pc = "answered", !.active = Head(p.order)]
        <4>1. prompt' = [prompt EXCEPT ![r] = q]
          BY <3>3
        <4> HIDE DEF q
        <4>2. q \in Prompt
          BY <1>1, <4>1 DEF WaitTypes
        <4> QED BY <4>1, <4>2
      <3> QED BY <1>16, <3>1, <3>2, <3>3 DEF Read
    <2>2. PICK q \in Prompt : prompt' = [prompt EXCEPT ![r] = q]
      BY <2>1
    <2> QED BY <1>16, <1>20, <2>2 DEF Read
  <1>17. CASE Exhausted(r)
    <2>1. PICK q \in Prompt : q.pc = "failed" /\ prompt' = [prompt EXCEPT ![r] = q]
      BY <1>8, <1>17 DEF Exhausted
    <2> QED BY <1>11, <1>17, <1>19, <2>1 DEF Exhausted
  <1> QED BY <1>12, <1>13, <1>14, <1>15, <1>16, <1>17 DEF PromptStep

\* A program that runs, or a prompt in a file, is one its run waits for; a run that is over
\* left neither, unless it was cancelled.  So no step forgets a program it started, and
\* at most one runs for each run.
THEOREM NothingIsLeftBehind == Spec => []NothingLeftBehind
  <1> DEFINE Inv == PassInv /\ ChainInv /\ WaitInv
  <1>1. Init => Inv
    <2> SUFFICES ASSUME Init PROVE WaitInv
      BY RunsInit
    <2>1. Nothing \in Awaited /\ Nothing.ending # "running" /\ NoPrompt(1).pc = "none"
      BY DEF Nothing, Awaited, Ending, NoPrompt
    <2>2. WaitTypes
      BY <2>1, RunsInit DEF Init, ProvidersInit, WaitTypes, PassInv, Typed, ChainInv
    <2>3. ASSUME NEW r \in Request
          PROVE  Waits(r, agent[r], prompt[r], alive[r], awaited[r], prompt_file)
      <3>1. /\ agent[r].pc = "new" /\ prompt[r] = NoPrompt(1) /\ alive[r] = {}
            /\ awaited[r] = Nothing /\ prompt_file = {}
        BY DEF Init, ProvidersInit
      <3> QED BY <2>1, <3>1 DEF Waits
    <2> QED BY <2>2, <2>3 DEF WaitInv
  <1>2. Inv /\ [Next]_vars => Inv'
    <2> SUFFICES ASSUME Inv, [Next]_vars PROVE WaitInv'
      BY RunsNext
    <2>1. ChainInv'
      BY RunsNext
    <2>2. ASSUME NEW r \in Request, Acts(r), UNCHANGED prompt_file PROVE WaitInv'
      BY <2>1, <2>2, ActsMoves, ActsWhenIdle, WaitMoves
    <2>3. CASE UNCHANGED vars
      BY <2>3 DEF vars, agentVars, providerVars, WaitInv, WaitTypes
    <2> QED BY <2>1, <2>2, <2>3, Steps, WaitStops, WaitSteps, WaitPrograms
  <1>3. Inv => NothingLeftBehind
    <2> SUFFICES ASSUME WaitInv, NEW r \in Request
                 PROVE  /\ agent[r].pc # "cancelled" => alive[r] \subseteq
                             {p \in Program : awaited[r] = [program |-> p, ending |-> "running"]}
                        /\ agent[r].pc \in Ended \ {"cancelled"} => alive[r] = {}
                        /\ r \in prompt_file => prompt[r].pc = "cli" /\ awaited[r].program = "grok"
      BY DEF NothingLeftBehind
    <2>1. /\ Waits(r, agent[r], prompt[r], alive[r], awaited[r], prompt_file)
          /\ awaited[r] \in Awaited /\ alive[r] \in SUBSET Program
      BY DEF WaitInv, WaitTypes
    <2> DEFINE w == awaited[r]
    <2>2. w = [program |-> w.program, ending |-> w.ending]
      BY <2>1 DEF Awaited
    <2> HIDE DEF w
    <2>3. ASSUME agent[r].pc # "cancelled", NEW p \in alive[r]
          PROVE  p \in Program /\ w = [program |-> p, ending |-> "running"]
      BY <2>1, <2>2, <2>3 DEF Waits, w
    <2>4. agent[r].pc \in Ended \ {"cancelled"} => alive[r] = {}
      BY <2>1 DEF Waits, Own, Ended
    <2> QED BY <2>1, <2>3, <2>4 DEF Waits, w
  <1> QED BY <1>1, <1>2, <1>3, PTL DEF Spec
=============================================================================
