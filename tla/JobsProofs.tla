---------------------------- MODULE JobsProofs ----------------------------
(***************************************************************************)
(* Proofs about Jobs, for any number of jobs, workspaces, files, attempts  *)
(* and debate rounds: the approval gate holds; a verified file was checked *)
(* as it is; a run that succeeds delivers verified files; artifacts are    *)
(* those of the jobs of their workspace.                                   *)
(***************************************************************************)
EXTENDS Jobs, TLAPS

Stage == {"research", "design", "code"}
PC == {"none", "called", "research", "architect", "critic", "refine", "format", "gate", "files",
       "devops", "closing", "ended"}
RunRecord ==
  [pc : PC, stage : Stage \cup {"none"}, pipeline : {"sequential", "e2e"},
   dir : Dir \cup {NoJob}, gated : BOOLEAN, draft : Nat, parses : BOOLEAN, published : Nat,
   context : Nat, round : Nat, tries : Nat, claim : {"none", "all", "some"},
   outcome : {"none", "completed", "failed"}]

\* The stages a run record has behind it, and those before a stage.
Past(r) ==
  CASE r.outcome = "completed" \/ r.pc = "devops" -> {"research", "design", "code"}
    [] r.pc = "files" -> {"research", "design"}
    [] r.pc \in {"architect", "critic", "refine", "format"} -> {"research"}
    [] OTHER -> {}
Before(s) == CASE s = "research" -> {} [] s = "design" -> {"research"}
               [] OTHER -> {"research", "design"}

\* A run that is still the one the caller asked for: its pipeline, workspace and gates.
Kin(q, r) == q \in RunRecord /\ q.gated = r.gated /\ q.pipeline = r.pipeline /\ q.dir = r.dir

\* The design is being written or debated.
Debate == {"architect", "critic", "refine", "format"}

\* The map of the pipelines: where a run that is at no gate may go in one step.
Leads(r, q) ==
  \/ q.pc = "closing" /\ (q.outcome = "completed" => r.pc \in {"files", "devops"})
  \/ r.pc = "called" /\ q.pc = IF r.pipeline = "e2e" THEN "architect" ELSE "research"
  \/ r.pc = "research" /\ (q.pc = "architect" \/ (q.pc = "gate" /\ q.stage = "research"))
  \/ r.pc \in Debate /\ (q.pc \in {"critic", "refine", "format", "files"} \/ (q.pc = "gate" /\ q.stage = "design"))
  \/ r.pc = "files" /\ (q.pc \in {"files", "devops"} \/ (q.pc = "gate" /\ q.stage = "code"))

\* A run between its call and its end that waits at no gate.
Working(r) ==
  /\ r \in RunRecord
  /\ r.pc \notin {"none", "gate", "closing", "ended"}
  /\ r.outcome # "completed"
  /\ r.pipeline = "e2e" => ~r.gated

\* What one step of a run that is not at a gate may do: it gets no stage behind it but
\* through a gate, and reaches the gate of a stage with those before it behind it.
Move(q, r) ==
  /\ Kin(q, r)
  /\ Leads(r, q)
  /\ q.outcome = "completed" => q.pc = "closing"
  /\ q.gated => q.pc = "gate" \/ Past(q) \subseteq Past(r)
  /\ q.pc = "gate" => q.gated /\ q.stage \in Stage /\ Before(q.stage) \subseteq Past(r)

\* Setting one field of a run.
LEMMA SetRun ==
  ASSUME NEW r \in RunRecord
  PROVE  /\ \A v \in PC : LET q == [r EXCEPT !.pc = v]
                           IN /\ Kin(q, r) /\ q.pc = v /\ q.stage = r.stage /\ q.outcome = r.outcome
                              /\ q.claim = r.claim
         /\ \A v \in Nat : LET q == [r EXCEPT !.context = v]
                           IN Kin(q, r) /\ q.pc = r.pc /\ q.stage = r.stage /\ q.outcome = r.outcome
  BY DEF RunRecord, Kin

\* Failing, succeeding and passing a stage.
LEMMA RaisedRun ==
  ASSUME NEW r \in RunRecord
  PROVE  Kin(Raised(r), r) /\ Raised(r).pc = "closing" /\ Raised(r).outcome = "failed"
  BY DEF RunRecord, Raised, Kin, PC

\* The same of a run that succeeds.
LEMMA SucceededRun ==
  ASSUME NEW r \in RunRecord
  PROVE  /\ Kin(Succeeded(r), r) /\ Succeeded(r).pc = "closing" /\ Succeeded(r).outcome = "completed"
         /\ Succeeded(r).claim = r.claim
  BY DEF RunRecord, Succeeded, Kin, PC

\* The same of a run that passes from one stage to the next.
LEMMA PassedRun ==
  ASSUME NEW r \in RunRecord, NEW s \in Stage
  PROVE  /\ Kin(Passed(r, s), r) /\ Passed(r, s).pc = NextStage[s]
         /\ Passed(r, s).outcome = r.outcome /\ Passed(r, s).claim = r.claim
<1>1. NextStage["research"] = "architect" /\ NextStage["design"] = "files" /\ NextStage["code"] = "devops"
  BY DEF NextStage
<1> DEFINE c == IF s = "design" THEN r.published ELSE r.context
           n == NextStage[s]
<1>2. c \in Nat /\ n \in PC
  BY <1>1 DEF RunRecord, Stage, PC
<1>3. Passed(r, s) = [r EXCEPT !.pc = n, !.context = c]
  BY DEF Passed, RunRecord
<1> HIDE DEF c, n
<1>4. LET q == [r EXCEPT !.pc = n, !.context = c]
      IN Kin(q, r) /\ q.pc = n /\ q.outcome = r.outcome /\ q.claim = r.claim
  BY <1>2 DEF RunRecord, Kin
<1> QED BY <1>3, <1>4 DEF n

\* A completed stage ends at its gate, if the run has gates.
LEMMA CompletedRun ==
  ASSUME NEW r \in RunRecord, NEW s \in Stage
  PROVE  /\ Kin(Completed(r, s), r) /\ Completed(r, s).outcome = r.outcome
         /\ Completed(r, s).claim = r.claim
         /\ r.gated => Completed(r, s).pc = "gate" /\ Completed(r, s).stage = s
         /\ ~r.gated => Completed(r, s).pc = NextStage[s]
<1> DEFINE q == [r EXCEPT !.pc = "gate", !.stage = s]
<1>1. Kin(q, r) /\ q.outcome = r.outcome /\ q.pc = "gate" /\ q.stage = s /\ q.claim = r.claim
  BY DEF RunRecord, Kin, PC, Stage
<1> HIDE DEF q
<1>2. r.gated => Completed(r, s) = q
  BY DEF Completed, q
<1>3. ~r.gated => Completed(r, s) = Passed(r, s)
  BY DEF Completed
<1> QED BY <1>1, <1>2, <1>3, PassedRun

-----------------------------------------------------------------------------
(* What the parts of a step do to a working run r; q is r with changes so far. *)

Same(q, r) == Kin(q, r) /\ q.outcome # "completed"

\* A step into the work of a stage r has reached.
LEMMA WorkMove ==
  ASSUME NEW r, Working(r), NEW q, Same(q, r), Leads(r, q), q.pc \in Debate \cup {"research", "files"},
         r.pc = "research" => ~r.gated,
         q.pc = "files" => ~r.gated
  PROVE  Move(q, r)
  BY DEF Working, Same, Kin, Move, Past, RunRecord, Leads, Debate

\* A failing run leaves every stage.
LEMMA RaisedMove ==
  ASSUME NEW r, Working(r), NEW q, Same(q, r)
  PROVE  Move(Raised(q), r)
<1>1. q \in RunRecord /\ q.gated = r.gated /\ q.pipeline = r.pipeline /\ q.dir = r.dir
  BY DEF Same, Kin
<1> QED BY <1>1, RaisedRun DEF Move, Kin, Past, Leads

\* A succeeding run has its stages behind it, as it had before.
LEMMA SucceededMove ==
  ASSUME NEW r, Working(r), NEW q, Same(q, r),
         r.pc = "devops" \/ (r.pc = "files" /\ ~r.gated)
  PROVE  Move(Succeeded(q), r)
<1>1. q \in RunRecord /\ q.gated = r.gated /\ q.pipeline = r.pipeline /\ q.dir = r.dir
  BY DEF Same, Kin
<1> QED BY <1>1, SucceededRun DEF Move, Kin, Past, Leads

\* A completed stage.
LEMMA CompletedMove ==
  ASSUME NEW r, Working(r), NEW q, Same(q, r), NEW s \in Stage,
         s = "research" => r.pc = "research",
         s = "design" => r.pc \in Debate,
         s = "code" => r.pc = "files"
  PROVE  Move(Completed(q, s), r)
<1>1. /\ q \in RunRecord /\ q.gated = r.gated /\ q.pipeline = r.pipeline /\ q.dir = r.dir
      /\ q.outcome # "completed"
  BY DEF Same, Kin
<1>2. /\ s = "research" => NextStage[s] = "architect"
      /\ s = "design" => NextStage[s] = "files"
      /\ s = "code" => NextStage[s] = "devops"
  BY DEF NextStage
<1>3. r.gated \in BOOLEAN
  BY DEF Working, RunRecord
<1> DEFINE c == Completed(q, s)
<1>4. /\ Kin(c, q) /\ c.outcome = q.outcome
      /\ q.gated => c.pc = "gate" /\ c.stage = s
      /\ ~q.gated => c.pc = NextStage[s]
  BY <1>1, CompletedRun
<1>5. Before(s) \subseteq Past(r)
  BY DEF Before, Past, Working, Stage, Debate
<1> HIDE DEF c
<1>6. Leads(r, c) /\ (c.pc = "gate" => q.gated)
  BY <1>1, <1>2, <1>3, <1>4 DEF Leads, Stage
<1>7. Move(c, r)
  BY <1>1, <1>3, <1>4, <1>5, <1>6 DEF Move, Kin
<1> QED BY <1>7 DEF c

\* The result of parsing a design.
LEMMA ParsedMove ==
  ASSUME NEW r, Working(r), NEW q, Same(q, r), r.pc \in Debate
  PROVE  Move(Parsed(q), r)
<1>1. /\ q \in RunRecord /\ q.gated = r.gated /\ q.pipeline = r.pipeline /\ q.dir = r.dir
      /\ q.outcome # "completed"
  BY DEF Same, Kin
<1> DEFINE n == q.tries + 1
           again == [q EXCEPT !.pc = "format", !.tries = n]
           files == [q EXCEPT !.pc = "files"]
<1>2. Same(again, r) /\ again.pc = "format"
  <2>1. n \in Nat
    BY <1>1 DEF RunRecord
  <2> HIDE DEF n
  <2> QED BY <1>1, <2>1 DEF Same, Kin, RunRecord, PC
<1>3. Same(files, r) /\ files.pc = "files"
  BY <1>1 DEF Same, Kin, RunRecord, PC
<1> HIDE DEF again, files
<1>4. Move(again, r)
  BY <1>2, WorkMove DEF Leads, Debate
<1>5. q.pipeline = "e2e" => Move(files, r)
  BY <1>1, <1>3, WorkMove DEF Working, Leads, Debate
<1>6. Move(Completed(q, "design"), r)
  BY CompletedMove DEF Stage
<1>7. \/ Parsed(q) = again \/ Parsed(q) = Raised(q)
      \/ q.pipeline = "e2e" /\ Parsed(q) = files
      \/ Parsed(q) = Completed(q, "design")
  BY <1>1 DEF Parsed, again, files, n, RunRecord
<1> QED BY <1>4, <1>5, <1>6, <1>7, RaisedMove

\* The end of a debate and the answer of an architect.
LEMMA SettledMove ==
  ASSUME NEW r, Working(r), NEW q, Same(q, r), r.pc \in Debate
  PROVE  Move(Settled(q), r)
<1> DEFINE v == IF q.pipeline = "sequential" THEN q.draft ELSE 0
           p == [q EXCEPT !.published = v]
<1>1. v \in Nat
  BY DEF Same, Kin, RunRecord
<1> HIDE DEF v
<1>2. Same(p, r) /\ p.pipeline = q.pipeline
  BY <1>1 DEF Same, Kin, RunRecord
<1>3. Settled(q) = Parsed(p)
  BY DEF Settled, v
<1> HIDE DEF p
<1> QED BY <1>2, <1>3, ParsedMove

\* A new answer of an architect is r but for the draft.
LEMMA DraftedRun ==
  ASSUME NEW r, Working(r), NEW parses \in BOOLEAN
  PROVE  Same(NewDraft(r, parses), r)
<1> DEFINE n == r.draft + 1
           p == [r EXCEPT !.draft = n, !.parses = parses]
<1>1. n \in Nat /\ r \in RunRecord /\ r.outcome # "completed"
  BY DEF Working, RunRecord
<1>2. NewDraft(r, parses) = p
  BY DEF NewDraft
<1> HIDE DEF n
<1> QED BY <1>1, <1>2 DEF Same, Kin, RunRecord

\* A draft goes to the critic or is settled.
LEMMA DebatedMove ==
  ASSUME NEW r, Working(r), NEW q, Same(q, r), r.pc \in Debate
  PROVE  Move(Debated(q), r)
<1> DEFINE n == q.round + 1
           p == [q EXCEPT !.pc = "critic", !.round = n]
<1>1. Same(p, r) /\ p.pc = "critic"
  <2>1. n \in Nat
    BY DEF Same, Kin, RunRecord
  <2> HIDE DEF n
  <2> QED BY <2>1 DEF Same, Kin, RunRecord, PC
<1> HIDE DEF p
<1>2. Move(p, r)
  BY <1>1, WorkMove DEF Leads, Debate
<1>3. Debated(q) = p \/ Debated(q) = Settled(q)
  BY DEF Debated, p, n
<1> QED BY <1>2, <1>3, SettledMove

-----------------------------------------------------------------------------
(* The steps of the pipelines. *)

\* Every step a run takes by itself is a Move of that run alone.
LEMMA AdvanceMove ==
  ASSUME NEW j \in Job, run \in [Job -> RunRecord], Advance(j),
         run[j].outcome = "completed" => run[j].pc \in {"closing", "ended"},
         run[j].pipeline = "e2e" => ~run[j].gated
  PROVE  /\ Working(run[j])
         /\ \E q : Move(q, run[j]) /\ run' = [run EXCEPT ![j] = q]
<1> DEFINE r == run[j]
<1>0. r \in RunRecord
  OBVIOUS
<1>a. Advance(j) => r.pc \in {"called", "research", "architect", "critic", "refine", "format",
                              "files", "devops"}
  BY DEF Advance, Begin, Fails, Researched, Designed, Criticised, DebateStops, Reformatted,
         FileStep, FilesDone, Deployed, In, Acquire, CodingFails, Coded, CheckingFails, Checked,
         Tested, Linted, GenerationFails, Generated, TestedE2E
<1>1. Working(r)
  BY <1>0, <1>a DEF Working
<1>2. Same(r, r)
  BY <1>1 DEF Working, Same, Kin
<1>c. r.gated \in BOOLEAN /\ r.pipeline \in {"sequential", "e2e"} /\ r.outcome # "completed"
  BY <1>1 DEF Working, RunRecord
<1> SUFFICES \E q : Move(q, r) /\ run' = [run EXCEPT ![j] = q]
  BY <1>1
<1>3. CASE Begin(j)
  <2> DEFINE n == IF r.pipeline = "e2e" THEN "architect" ELSE "research"
             q == [r EXCEPT !.pc = n]
  <2>1. run' = [run EXCEPT ![j] = q]
    BY <1>3 DEF Begin
  <2>2. n \in PC /\ (n = "architect" => ~r.gated) /\ n \in {"architect", "research"}
    BY <1>c DEF PC
  <2> HIDE DEF n
  <2>3. Kin(q, r) /\ q.pc = n /\ q.outcome = r.outcome
    BY <1>0, <2>2, SetRun
  <2>4. Move(q, r)
    <3>1. Same(q, r)
      BY <2>3, <1>c DEF Same
    <3>2. Leads(r, q)
      BY <1>3, <2>3 DEF Begin, Leads, n
    <3>3. r.pc # "research"
      BY <1>3 DEF Begin
    <3> HIDE DEF q, r
    <3> QED BY <3>1, <3>2, <3>3, <2>2, <2>3, <1>1, WorkMove DEF Debate
  <2> QED BY <2>1, <2>4
<1>4. CASE Fails(j)
  BY <1>4, <1>1, <1>2, RaisedMove DEF Fails
<1>5. CASE Researched(j)
  BY <1>5, <1>1, <1>2, CompletedMove DEF Researched, Stage
<1>6. CASE Designed(j)
  <2>1. PICK parses \in BOOLEAN : run' = [run EXCEPT ![j] = Debated(NewDraft(@, parses))]
    BY <1>6 DEF Designed
  <2>2. Move(Debated(NewDraft(r, parses)), r)
    BY <1>6, <1>1, DraftedRun, DebatedMove DEF Designed, Debate
  <2> QED BY <2>1, <2>2
<1>7. CASE Criticised(j)
  <2> DEFINE q == [r EXCEPT !.pc = "refine"]
  <2>1. run' = [run EXCEPT ![j] = q]
    BY <1>7 DEF Criticised
  <2>2. Same(q, r) /\ q.pc = "refine"
    BY <1>0, <1>c, SetRun DEF Same, PC
  <2>3. r.pc = "critic"
    BY <1>7 DEF Criticised
  <2> HIDE DEF q
  <2>4. Move(q, r)
    BY <2>2, <2>3, <1>1, WorkMove DEF Leads, Debate
  <2> QED BY <2>1, <2>4
<1>8. CASE DebateStops(j)
  BY <1>8, <1>1, <1>2, SettledMove DEF DebateStops, Debate
<1>9. CASE Reformatted(j)
  <2>1. PICK parses \in BOOLEAN : run' = [run EXCEPT ![j] = Parsed(NewDraft(@, parses))]
    BY <1>9 DEF Reformatted
  <2>2. Move(Parsed(NewDraft(r, parses)), r)
    BY <1>9, <1>1, DraftedRun, ParsedMove DEF Reformatted, Debate
  <2> QED BY <2>1, <2>2
<1>10. CASE FileStep(j)
  <2>1. r.pc = "files" /\ run' = run
    BY <1>10 DEF FileStep, In, Acquire, CodingFails, Coded, CheckingFails, Checked, Tested,
                 Linted, GenerationFails, Generated, TestedE2E
  <2>2. Move(r, r)
    BY <2>1, <1>2, <1>c DEF Move, Same, Leads
  <2> QED BY <2>1, <2>2
<1>11. CASE FilesDone(j)
  <2>1. r.pc = "files"
    BY <1>11 DEF FilesDone
  <2>2. PICK c \in {"all", "some"} :
          \/ run' = [run EXCEPT ![j] = Raised(@)]
          \/ r.pipeline = "e2e" /\ run' = [run EXCEPT ![j] = Succeeded([@ EXCEPT !.claim = c])]
          \/ run' = [run EXCEPT ![j] = Completed([@ EXCEPT !.claim = c], "code")]
    BY <1>11 DEF FilesDone
  <2> DEFINE p == [r EXCEPT !.claim = c]
  <2>3. Same(p, r)
    BY <1>0, <1>c DEF Same, Kin, RunRecord
  <2>5. Move(Raised(r), r)
    BY <1>1, <1>2, RaisedMove
  <2>6. r.pipeline = "e2e" => Move(Succeeded(p), r)
    BY <1>1, <2>1, <2>3, SucceededMove DEF Working
  <2>7. Move(Completed(p, "code"), r)
    BY <1>1, <2>1, <2>3, CompletedMove DEF Stage
  <2> QED BY <2>2, <2>5, <2>6, <2>7
<1>12. CASE Deployed(j)
  BY <1>12, <1>1, <1>2, SucceededMove DEF Deployed
<1> QED
  BY <1>3, <1>4, <1>5, <1>6, <1>7, <1>8, <1>9, <1>10, <1>11, <1>12 DEF Advance

-----------------------------------------------------------------------------
(* The jobs and their gates. *)

\* What every entry of ORCHESTRATION_JOBS is made of.
Shaped(b) ==
  /\ b = [status |-> b.status, awaiting_stage |-> b.awaiting_stage,
          approval_event |-> b.approval_event, rejected |-> b.rejected,
          artifacts |-> b.artifacts]
  /\ b.approval_event \in BOOLEAN
  /\ b.rejected \in BOOLEAN

\* A run r, its job b and the answers p to its gates.
Gated(r, b, p) ==
  /\ r.pc = "none" => p = {}
  /\ r.pipeline = "e2e" => ~r.gated
  /\ r.outcome = "completed" => r.pc \in {"closing", "ended"}
  /\ r.gated => \A s \in Past(r) : <<s, "approved">> \in p
  /\ \A s \in Stage : <<s, "rejected">> \in p =>
       \/ r.pc = "gate" /\ (b.rejected \/ (~b.approval_event /\ b.status # "awaiting_approval"))
       \/ r.pc \in {"closing", "ended"} /\ r.outcome # "completed"
  /\ r.pc = "gate" =>
       /\ r.gated /\ r.stage \in Stage
       /\ \A s \in Before(r.stage) : <<s, "approved">> \in p
       /\ b.approval_event /\ ~b.rejected => <<r.stage, "approved">> \in p
  /\ b.status = "awaiting_approval" =>
       \/ r.pc = "gate" /\ b.awaiting_stage = r.stage /\ ~b.approval_event
       \/ r.pc \in {"closing", "ended"} /\ b.awaiting_stage = "none"

GateInv ==
  /\ run \in [Job -> RunRecord]
  /\ job = [j \in Job |-> job[j]]
  /\ \A j \in Job : Shaped(job[j])
  /\ replies = [j \in Job |-> replies[j]]
  /\ \A j \in Job : Gated(run[j], job[j], replies[j])

\* What an answer, a gate, the end of a wait and the end of the pipeline make of a job.
Answered(b, d) == [b EXCEPT !.status = "running", !.awaiting_stage = "none", !.rejected = d,
                            !.approval_event = TRUE]
AtGate(b, w, x) == [b EXCEPT !.status = "awaiting_approval", !.awaiting_stage = w,
                             !.approval_event = FALSE, !.artifacts = x]
Unawaited(b) == [b EXCEPT !.awaiting_stage = "none"]
Recorded(b, s, x) == [b EXCEPT !.status = s, !.artifacts = x]

\* An answer keeps the shape of its job.
LEMMA SetAnswered ==
  ASSUME NEW b, Shaped(b), NEW d \in BOOLEAN
  PROVE  LET c == Answered(b, d)
         IN /\ Shaped(c) /\ c.status = "running" /\ c.awaiting_stage = "none"
            /\ c.rejected = d /\ c.approval_event = TRUE /\ c.artifacts = b.artifacts
<1> DEFINE R == [status : {b.status, "running"}, awaiting_stage : {b.awaiting_stage, "none"},
                 approval_event : BOOLEAN, rejected : BOOLEAN, artifacts : {b.artifacts}]
<1>1. b \in R
  BY DEF Shaped
<1>2. LET c == Answered(b, d)
      IN /\ c \in R /\ c.status = "running" /\ c.awaiting_stage = "none"
         /\ c.rejected = d /\ c.approval_event = TRUE /\ c.artifacts = b.artifacts
  BY <1>1 DEF Answered
<1>3. ASSUME NEW c \in R PROVE Shaped(c)
  BY DEF Shaped
<1> HIDE DEF R
<1> QED BY <1>2, <1>3

\* So does a gate.
LEMMA SetAtGate ==
  ASSUME NEW b, Shaped(b), NEW w, NEW x
  PROVE  /\ Shaped(AtGate(b, w, x))
         /\ AtGate(b, w, x).status = "awaiting_approval"
         /\ AtGate(b, w, x).awaiting_stage = w
         /\ AtGate(b, w, x).approval_event = FALSE
         /\ AtGate(b, w, x).artifacts = x
<1> DEFINE R == [status : {b.status, "awaiting_approval"}, awaiting_stage : {b.awaiting_stage, w},
                 approval_event : BOOLEAN, rejected : BOOLEAN, artifacts : {b.artifacts, x}]
<1>1. b \in R
  BY DEF Shaped
<1>2. LET c == AtGate(b, w, x)
      IN /\ c \in R /\ c.status = "awaiting_approval" /\ c.awaiting_stage = w
         /\ c.rejected = b.rejected /\ c.approval_event = FALSE /\ c.artifacts = x
  BY <1>1 DEF AtGate
<1>3. ASSUME NEW c \in R PROVE Shaped(c)
  BY DEF Shaped
<1> HIDE DEF R
<1> QED BY <1>2, <1>3

\* So does the end of a wait.
LEMMA SetUnawaited ==
  ASSUME NEW b, Shaped(b)
  PROVE  LET c == Unawaited(b)
         IN /\ Shaped(c) /\ c.status = b.status /\ c.awaiting_stage = "none"
            /\ c.rejected = b.rejected /\ c.approval_event = b.approval_event /\ c.artifacts = b.artifacts
<1> DEFINE R == [status : {b.status}, awaiting_stage : {b.awaiting_stage, "none"},
                 approval_event : BOOLEAN, rejected : BOOLEAN, artifacts : {b.artifacts}]
<1>1. b \in R
  BY DEF Shaped
<1>2. LET c == Unawaited(b)
      IN /\ c \in R /\ c.status = b.status /\ c.awaiting_stage = "none"
         /\ c.rejected = b.rejected /\ c.approval_event = b.approval_event /\ c.artifacts = b.artifacts
  BY <1>1 DEF Unawaited
<1>3. ASSUME NEW c \in R PROVE Shaped(c)
  BY DEF Shaped
<1> HIDE DEF R
<1> QED BY <1>2, <1>3

\* So does the record of its end.
LEMMA SetRecorded ==
  ASSUME NEW b, Shaped(b), NEW s, NEW x
  PROVE  LET c == Recorded(b, s, x)
         IN /\ Shaped(c) /\ c.status = s /\ c.awaiting_stage = b.awaiting_stage
            /\ c.rejected = b.rejected /\ c.approval_event = b.approval_event /\ c.artifacts = x
<1> DEFINE R == [status : {b.status, s}, awaiting_stage : {b.awaiting_stage},
                 approval_event : BOOLEAN, rejected : BOOLEAN, artifacts : {b.artifacts, x}]
<1>1. b \in R
  BY DEF Shaped
<1>2. LET c == Recorded(b, s, x)
      IN /\ c \in R /\ c.status = s /\ c.awaiting_stage = b.awaiting_stage
         /\ c.rejected = b.rejected /\ c.approval_event = b.approval_event /\ c.artifacts = x
  BY <1>1 DEF Recorded
<1>3. ASSUME NEW c \in R PROVE Shaped(c)
  BY DEF Shaped
<1> HIDE DEF R
<1> QED BY <1>2, <1>3

\* The shape of the two constants a job starts from.
LEMMA NewJobShape ==
  /\ Shaped(NewJob) /\ Shaped(Unknown)
  /\ NewJob.status = "running" /\ ~NewJob.approval_event /\ NewJob.artifacts = NoArtifacts
  /\ Unknown.status = "unknown" /\ ~Unknown.approval_event /\ Unknown.artifacts = NoArtifacts
<1>1. /\ Shaped(NewJob) /\ NewJob.status = "running" /\ ~NewJob.approval_event
      /\ NewJob.artifacts = NoArtifacts
  BY DEF Shaped, NewJob
<1> DEFINE R == [status : {"running", "unknown"}, awaiting_stage : {"none"},
                 approval_event : BOOLEAN, rejected : BOOLEAN, artifacts : {NoArtifacts}]
<1>2. NewJob \in R
  BY DEF NewJob
<1>3. /\ Unknown \in R /\ Unknown.status = "unknown"
      /\ Unknown.approval_event = NewJob.approval_event /\ Unknown.artifacts = NewJob.artifacts
  BY <1>2 DEF Unknown
<1>4. ASSUME NEW c \in R PROVE Shaped(c)
  BY DEF Shaped
<1> QED BY <1>1, <1>3, <1>4

\* A record of a run yet to be called, and of one that has just been called.
LEMMA NewRunShape ==
  /\ \A pipeline \in {"sequential", "e2e"}, dir \in Dir \cup {NoJob}, gated \in BOOLEAN :
       LET r == NewRun(pipeline, dir, gated)
       IN /\ r \in RunRecord /\ r.pc = "called" /\ r.outcome = "none"
          /\ r.pipeline = pipeline /\ r.gated = gated /\ r.dir = dir
  /\ NoRun \in RunRecord /\ NoRun.pc = "none" /\ NoRun.outcome = "none"
  /\ NoRun.pipeline = "sequential" /\ ~NoRun.gated
<1>1. ASSUME NEW pipeline \in {"sequential", "e2e"}, NEW dir \in Dir \cup {NoJob},
             NEW gated \in BOOLEAN
      PROVE  LET r == NewRun(pipeline, dir, gated)
             IN /\ r \in RunRecord /\ r.pc = "called" /\ r.outcome = "none"
                /\ r.pipeline = pipeline /\ r.gated = gated /\ r.dir = dir
  <2> DEFINE r == NewRun(pipeline, dir, gated)
  <2>1. r \in RunRecord
    BY DEF NewRun, RunRecord, PC
  <2>2. r.pc = "called" /\ r.outcome = "none" /\ r.pipeline = pipeline /\ r.dir = dir
    BY DEF NewRun
  <2>3. r.gated = gated
    BY Zenon DEF NewRun
  <2> QED BY <2>1, <2>2, <2>3
<1> DEFINE r == NewRun("sequential", NoJob, FALSE)
<1>2. r \in RunRecord /\ r.outcome = "none" /\ r.pipeline = "sequential" /\ r.gated = FALSE
  <2>1. "sequential" \in {"sequential", "e2e"} /\ NoJob \in Dir \cup {NoJob} /\ FALSE \in BOOLEAN
    OBVIOUS
  <2> QED BY <1>1, <2>1, Zenon
<1>3. NoRun = [r EXCEPT !.pc = "none"]
  BY DEF NoRun
<1> HIDE DEF r
<1>4. Kin(NoRun, r) /\ NoRun.pc = "none" /\ NoRun.outcome = r.outcome
  BY <1>2, <1>3, SetRun DEF PC
<1> QED BY <1>1, <1>2, <1>4 DEF Kin

\* Initially there is no job.
LEMMA GateInit == JobsInit => GateInv
  BY NewJobShape, NewRunShape DEF JobsInit, PipelineInit, GateInv, Gated, Past, Stage

\* A step that touches one job, or none, keeps the invariant if it keeps it there.
LEMMA OneJob ==
  ASSUME GateInv, NEW j \in Job, NEW q, NEW b, NEW p,
         run' = [run EXCEPT ![j] = q], job' = [job EXCEPT ![j] = b],
         replies' = [replies EXCEPT ![j] = p],
         q \in RunRecord, Shaped(b), Gated(q, b, p)
  PROVE  GateInv'
  BY DEF GateInv

\* A job that does not change.
LEMMA SameJob ==
  ASSUME GateInv, NEW j \in Job
  PROVE  /\ run = [run EXCEPT ![j] = run[j]] /\ job = [job EXCEPT ![j] = job[j]]
         /\ replies = [replies EXCEPT ![j] = replies[j]]
         /\ run[j] \in RunRecord /\ Shaped(job[j]) /\ Gated(run[j], job[j], replies[j])
  BY DEF GateInv

\* orchestrate: a run that has not been called has no answers; the jobs pruned are unknown.
LEMMA GateOrchestrate ==
  ASSUME GateInv, NEW j \in Job, NEW pipeline \in {"sequential", "e2e"}, NEW dir \in Dir,
         NEW gated \in BOOLEAN, Orchestrate(j, pipeline, dir, gated)
  PROVE  GateInv'
<1> DEFINE q == NewRun(pipeline, dir, gated)
<1>1. /\ q \in RunRecord /\ q.pc = "called" /\ q.outcome = "none"
      /\ q.pipeline = pipeline /\ q.gated = gated
  BY NewRunShape
<1> HIDE DEF q
<1>2. /\ run' = [run EXCEPT ![j] = q] /\ replies' = replies /\ run[j].pc = "none"
      /\ job' = [i \in Job |-> IF i = j THEN NewJob
                               ELSE IF i \in ToSet(Pruned) THEN Unknown ELSE job[i]]
      /\ pipeline = "e2e" => ~gated
  BY DEF Orchestrate, q
<1>3. \A i \in Job : Shaped(job'[i])
  BY <1>2, NewJobShape DEF GateInv
<1>4. run' \in [Job -> RunRecord] /\ run'[j] = q /\ \A i \in Job : i # j => run'[i] = run[i]
  BY <1>1, <1>2 DEF GateInv
<1>5. ASSUME NEW i \in Job PROVE Gated(run'[i], job'[i], replies'[i])
  <2>1. CASE i = j
    <3>1. replies[j] = {}
      BY <1>2 DEF GateInv, Gated
    <3>2. Gated(q, NewJob, {})
      BY <1>1, <1>2, NewJobShape DEF Gated, Past
    <3> QED BY <2>1, <3>1, <3>2, <1>2, <1>4
  <2>2. CASE i # j /\ i \in ToSet(Pruned)
    <3>1. Gated(run[i], Unknown, replies[i])
      BY NewJobShape DEF GateInv, Gated
    <3> QED BY <2>2, <3>1, <1>2, <1>4
  <2>3. CASE i # j /\ i \notin ToSet(Pruned)
    BY <2>3, <1>2, <1>4 DEF GateInv
  <2> QED BY <2>1, <2>2, <2>3
<1>6. job' = [i \in Job |-> job'[i]] /\ replies' = [i \in Job |-> replies'[i]]
  BY <1>2 DEF GateInv
<1> QED BY <1>3, <1>4, <1>5, <1>6 DEF GateInv

\* An answer is counted for the gate its job is at, and closes it for further answers.
LEMMA GateAnswer ==
  ASSUME GateInv, NEW j \in Job, NEW verdict \in {"approved", "rejected"}, Answer(j, verdict)
  PROVE  GateInv'
<1> DEFINE r == run[j]
           b == job[j]
           d == b.rejected \/ verdict = "rejected"
           c == Answered(b, d)
           p == replies[j] \cup {<<b.awaiting_stage, verdict>>}
<1>1. Shaped(b) /\ r \in RunRecord /\ Gated(r, b, replies[j]) /\ run = [run EXCEPT ![j] = r]
  BY SameJob
<1>2. run' = run /\ job' = [job EXCEPT ![j] = c] /\ replies' = [replies EXCEPT ![j] = p]
  BY DEF Answer, Answered, pipelineVars, GateInv
<1>3. /\ Shaped(c) /\ c.status = "running" /\ c.awaiting_stage = "none" /\ c.rejected = d
      /\ c.approval_event = TRUE
  <2>1. d \in BOOLEAN
    BY <1>1 DEF Shaped
  <2> HIDE DEF d
  <2> QED BY <1>1, <2>1, SetAnswered
<1>4. b.status = "awaiting_approval"
  BY DEF Answer
<1> HIDE DEF c
<1>5. Gated(r, c, p)
  <2>1. CASE r.pc = "gate"
    <3>1. b.awaiting_stage = r.stage /\ ~b.approval_event
      BY <1>1, <1>4, <2>1 DEF Gated
    <3>2. verdict = "rejected" => c.rejected
      BY <1>3
    <3>3. b.rejected => c.rejected
      BY <1>3
    <3>4. ~c.rejected => <<r.stage, "approved">> \in p
      BY <1>3, <3>1
    <3> HIDE DEF d
    <3>5. \A s \in Stage : <<s, "rejected">> \in p => c.rejected
      BY <1>1, <1>4, <2>1, <3>1, <3>2, <3>3 DEF Gated
    <3> QED BY <1>1, <1>3, <2>1, <3>4, <3>5 DEF Gated
  <2>2. CASE r.pc \in {"closing", "ended"} /\ b.awaiting_stage = "none"
    <3>1. \A s \in Stage : <<s, verdict>> \in p => <<s, verdict>> \in replies[j]
      BY <2>2 DEF Stage
    <3>2. \A s \in Stage : <<s, "rejected">> \in p => <<s, "rejected">> \in replies[j]
      BY <2>2 DEF Stage
    <3> QED BY <1>1, <1>3, <2>2, <3>2 DEF Gated
  <2> QED BY <1>1, <1>4, <2>1, <2>2 DEF Gated
<1> QED BY <1>1, <1>2, <1>3, <1>5, OneJob

\* The work of a stage, and the gate at its end.
LEMMA GateWork ==
  ASSUME GateInv, NEW j \in Job, Work(j)
  PROVE  GateInv'
<1> DEFINE r == run[j]
           b == job[j]
           p == replies[j]
<1>1. Shaped(b) /\ r \in RunRecord /\ Gated(r, b, p) /\ replies = [replies EXCEPT ![j] = p]
  BY SameJob
<1>2. run \in [Job -> RunRecord]
  BY DEF GateInv
<1>3. /\ r.outcome = "completed" => r.pc \in {"closing", "ended"}
      /\ r.pipeline = "e2e" => ~r.gated
  BY <1>1 DEF Gated
<1>4. Working(r) /\ \E q : Move(q, r) /\ run' = [run EXCEPT ![j] = q]
  BY <1>2, <1>3, AdvanceMove DEF Work
<1>5. PICK q : Move(q, r) /\ run' = [run EXCEPT ![j] = q]
  BY <1>4
<1>6. q \in RunRecord /\ run'[j] = q /\ q.gated = r.gated /\ q.pipeline = r.pipeline
  BY <1>2, <1>5 DEF Move, Kin
<1>7. \A s \in Stage : <<s, "rejected">> \notin p
  BY <1>1, <1>4 DEF Gated, Working
<1>8. b.status # "awaiting_approval"
  BY <1>1, <1>4 DEF Gated, Working
<1>9. q.gated => \A s \in Past(r) : <<s, "approved">> \in p
  BY <1>1, <1>6 DEF Gated
<1>10. r.gated \in BOOLEAN
  BY <1>1 DEF RunRecord
<1>11. /\ q.pc # "none"
       /\ q.outcome = "completed" => q.pc = "closing"
       /\ q.gated => q.pc = "gate" \/ Past(q) \subseteq Past(r)
       /\ q.pc = "gate" => q.gated /\ q.stage \in Stage /\ Before(q.stage) \subseteq Past(r)
  BY <1>5 DEF Move, Leads, Debate
<1>12. q.pc = "gate" => Past(q) = {}
  BY <1>11 DEF Past
<1>13. CASE q.pc = "gate"
  <2>0. \E x : job' = [job EXCEPT ![j] = AtGate(b, q.stage, x)]
    BY <1>6, <1>13 DEF Work, EnterGate, AtGate, GateInv
  <2>1. PICK x : job' = [job EXCEPT ![j] = AtGate(b, q.stage, x)]
    BY <2>0
  <2> DEFINE c == AtGate(b, q.stage, x)
  <2>2. /\ Shaped(c) /\ c.status = "awaiting_approval" /\ c.awaiting_stage = q.stage
        /\ c.approval_event = FALSE
    <3>1. Shaped(c)
      BY <1>1, SetAtGate
    <3>2. c.status = "awaiting_approval" /\ c.awaiting_stage = q.stage
      BY <1>1 DEF AtGate, Shaped
    <3>3. c.approval_event = FALSE
      BY <1>1, SetAtGate, Zenon
    <3> QED BY <3>1, <3>2, <3>3
  <2> HIDE DEF c
  <2>3. Gated(q, c, p)
    BY <1>3, <1>6, <1>7, <1>9, <1>11, <1>12, <1>13, <2>2 DEF Gated
  <2>4. replies' = replies
    BY DEF Work
  <2>5. job' = [job EXCEPT ![j] = c]
    BY <2>1 DEF c
  <2> QED BY <1>1, <1>5, <1>6, <2>2, <2>3, <2>4, <2>5, OneJob
<1>14. CASE q.pc # "gate"
  <2>1. job' = job /\ job = [job EXCEPT ![j] = b]
    BY <1>6, <1>14, SameJob DEF Work, EnterGate
  <2>2. Gated(q, b, p)
    BY <1>3, <1>6, <1>7, <1>8, <1>9, <1>11, <1>14 DEF Gated
  <2>3. replies' = replies
    BY DEF Work
  <2> QED BY <1>1, <1>5, <1>6, <2>1, <2>2, <2>3, OneJob
<1> QED BY <1>13, <1>14

\* A wait at a gate that ends badly.
LEMMA GateStops ==
  ASSUME GateInv, NEW j \in Job, Stop(j), NEW b, job' = [job EXCEPT ![j] = b], Shaped(b),
         b.status = "awaiting_approval" => b.awaiting_stage = "none", replies' = replies
  PROVE  GateInv'
<1> DEFINE r == run[j]
           p == replies[j]
           q == Raised(r)
<1>1. /\ r \in RunRecord /\ Gated(r, job[j], p) /\ replies = [replies EXCEPT ![j] = p]
      /\ r.pc = "gate"
  BY SameJob DEF Stop
<1>2. run' = [run EXCEPT ![j] = q]
  BY DEF Stop
<1>3. Kin(q, r) /\ q.pc = "closing" /\ q.outcome = "failed"
  BY <1>1, RaisedRun
<1> HIDE DEF q
<1>4. Gated(q, b, p)
  BY <1>1, <1>3 DEF Gated, Kin, Past
<1> QED BY <1>1, <1>2, <1>3, <1>4, OneJob DEF Kin

\* An approved gate: the stage is behind the run, with its approval.
LEMMA GatePasses ==
  ASSUME GateInv, NEW j \in Job, Pass(j), job[j].approval_event, ~job[j].rejected,
         UNCHANGED jobVars
  PROVE  GateInv'
<1> DEFINE r == run[j]
           b == job[j]
           p == replies[j]
           q == Passed(r, r.stage)
<1>1. /\ r \in RunRecord /\ Gated(r, b, p) /\ replies = [replies EXCEPT ![j] = p]
      /\ Shaped(b) /\ job = [job EXCEPT ![j] = b] /\ r.pc = "gate"
  BY SameJob DEF Pass
<1>2. /\ r.stage \in Stage /\ b.status # "awaiting_approval" /\ r.outcome # "completed"
      /\ \A s \in Before(r.stage) \cup {r.stage} : <<s, "approved">> \in p
      /\ \A s \in Stage : <<s, "rejected">> \notin p
  BY <1>1 DEF Gated
<1>3. job' = job /\ replies' = replies
  BY DEF jobVars
<1>4. CASE run' = [run EXCEPT ![j] = q]
  <2>1. Kin(q, r) /\ q.pc = NextStage[r.stage] /\ q.outcome = r.outcome
    BY <1>1, <1>2, PassedRun
  <2> HIDE DEF q
  <2>2. /\ q.pc \in {"architect", "files", "devops"}
        /\ Past(q) \subseteq Before(r.stage) \cup {r.stage}
    BY <1>2, <2>1 DEF NextStage, Past, Before, Stage
  <2>3. Gated(q, b, p)
    BY <1>1, <1>2, <2>1, <2>2 DEF Gated, Kin
  <2> QED BY <1>1, <1>3, <1>4, <2>1, <2>3, OneJob DEF Kin
<1>5. CASE run' = [run EXCEPT ![j] = Raised(r)]
  <2>1. Stop(j)
    BY <1>5 DEF Stop, Pass
  <2> QED BY <1>1, <1>2, <1>3, <2>1, GateStops
<1> QED BY <1>4, <1>5 DEF Pass

\* The record of the end.
LEMMA GateFinish ==
  ASSUME GateInv, NEW j \in Job, Finish(j)
  PROVE  GateInv'
<1> DEFINE r == run[j]
           p == replies[j]
           b == job[j]
           x == IF r.outcome = "completed" THEN Collected(disk[r.dir]) ELSE b.artifacts
           c == Recorded(b, r.outcome, x)
           q == [r EXCEPT !.pc = "ended"]
<1>1. /\ r \in RunRecord /\ Gated(r, b, p) /\ replies = [replies EXCEPT ![j] = p]
      /\ Shaped(b) /\ r.pc = "closing"
  BY SameJob DEF Finish, Returns
<1>2. run' = [run EXCEPT ![j] = q] /\ replies' = replies
  BY DEF Finish, Returns
<1>3. job' = [job EXCEPT ![j] = c]
  BY DEF Finish, Recorded, GateInv
<1>4. Kin(q, r) /\ q.pc = "ended" /\ q.outcome = r.outcome
  BY <1>1, SetRun DEF PC
<1>5. Shaped(c) /\ c.status = r.outcome
  <2> HIDE DEF x, b, r
  <2> QED BY <1>1, SetRecorded
<1>6. r.outcome # "awaiting_approval"
  BY <1>1 DEF RunRecord
<1>7. Past(q) \subseteq Past(r)
  <2> HIDE DEF q, r
  <2>1. r.outcome = "completed" => Past(q) = Past(r)
    BY <1>4 DEF Past
  <2>2. r.outcome # "completed" => Past(q) = {}
    BY <1>4 DEF Past
  <2> QED BY <2>1, <2>2
<1> HIDE DEF c, q
<1>8. Gated(q, c, p)
  BY <1>1, <1>4, <1>5, <1>6, <1>7 DEF Gated, Kin
<1> QED BY <1>1, <1>2, <1>3, <1>4, <1>5, <1>8, OneJob DEF Kin

\* Every step keeps the invariant.
LEMMA GateStep ==
  ASSUME GateInv, [Next]_vars
  PROVE  GateInv'
<1>1. ASSUME NEW j \in Job, NEW pipeline \in {"sequential", "e2e"}, NEW dir \in Dir,
             NEW gated \in BOOLEAN, Orchestrate(j, pipeline, dir, gated)
      PROVE  GateInv'
  BY <1>1, GateOrchestrate
<1>2. ASSUME NEW j \in Job, NEW verdict \in {"approved", "rejected"}, Answer(j, verdict)
      PROVE  GateInv'
  BY <1>2, GateAnswer
<1>3. ASSUME NEW j \in Job, Work(j) PROVE GateInv'
  BY <1>3, GateWork
<1>4. ASSUME NEW j \in Job, GateOpens(j) PROVE GateInv'
  <2>1. CASE job[j].rejected
    <3>1. Stop(j) /\ job' = job /\ replies' = replies /\ job[j].approval_event
      BY <1>4, <2>1 DEF GateOpens, jobVars
    <3>2. Shaped(job[j]) /\ job = [job EXCEPT ![j] = job[j]] /\ Gated(run[j], job[j], replies[j])
      BY SameJob
    <3>3. job[j].status # "awaiting_approval"
      BY <3>1, <3>2 DEF Stop, Gated
    <3> QED BY <3>1, <3>2, <3>3, GateStops
  <2>2. CASE ~job[j].rejected
    BY <1>4, <2>2, GatePasses DEF GateOpens
  <2> QED BY <2>1, <2>2
<1>5. ASSUME NEW j \in Job, GateTimesOut(j) PROVE GateInv'
  <2> DEFINE b == job[j]
  <2>1. Shaped(b)
    BY SameJob
  <2>2. Shaped(Unawaited(b)) /\ Unawaited(b).awaiting_stage = "none"
    <3> HIDE DEF b
    <3> QED BY <2>1, SetUnawaited
  <2>3. Stop(j) /\ job' = [job EXCEPT ![j] = Unawaited(b)] /\ replies' = replies
    BY <1>5 DEF GateTimesOut, Unawaited, GateInv
  <2> QED BY <2>2, <2>3, GateStops
<1>6. ASSUME NEW j \in Job, Finish(j) PROVE GateInv'
  BY <1>6, GateFinish
<1>7. ASSUME UNCHANGED vars PROVE GateInv'
  BY <1>7 DEF vars, pipelineVars, jobVars, GateInv
<1> QED BY <1>1, <1>2, <1>3, <1>4, <1>5, <1>6, <1>7 DEF Next

\* The invariant says what GateHolds says.
LEMMA GateImplies == GateInv => GateHolds
<1> SUFFICES ASSUME GateInv, NEW j \in Job
             PROVE  /\ run[j].gated => \A s \in Behind(j) : <<s, "approved">> \in replies[j]
                    /\ \A s \in Stage : <<s, "rejected">> \in replies[j] => s \notin Behind(j)
  BY DEF GateHolds, Stage
<1>1. Gated(run[j], job[j], replies[j]) /\ Behind(j) = Past(run[j])
  BY DEF GateInv, Behind, Past
<1>2. run[j].pc = "gate" => Past(run[j]) = {}
  BY <1>1 DEF Gated, Past
<1>3. run[j].pc \in {"closing", "ended"} /\ run[j].outcome # "completed" => Past(run[j]) = {}
  BY DEF Past
<1> QED BY <1>1, <1>2, <1>3 DEF Gated

\* No work of a stage without an approval of the stage before, given for that very
\* stage, and none after a rejection (mcp_server.py, orchestrate_approve,
\* orchestrate_reject and _approval_gate).
THEOREM GateAlwaysHolds == Spec => []GateHolds
<1>1. JobsInit => GateInv
  BY GateInit
<1>2. GateInv /\ [Next]_vars => GateInv'
  BY GateStep
<1>3. GateInv => GateHolds
  BY GateImplies
<1> QED BY <1>1, <1>2, <1>3, PTL DEF Spec

-----------------------------------------------------------------------------
(* Files.  T is the tree of a project: a function from some paths.          *)

FilePC == {"waiting", "coding", "checking", "linting", "generating", "testing", "verified", "failed"}
FileRecord(S) ==
  [pc : FilePC, attempt : Nat, code : Nat, audit : Nat, report : {"none", "clean", "blocking", "empty"},
   ran : S]

\* A file of a project is a record, with the code of its last answer in the tree.
FileShape(r) == r \in FileRecord({r.ran})

\* What the record r of a file f says of the tree T, in a run of pipeline p.
Faithful(f, p, r, T) ==
  /\ r.pc \in {"checking", "linting", "generating", "testing", "verified"} =>
       f \in DOMAIN T /\ T[f] = Code(f, r.code)
  /\ r.pc = "checking" => p = "sequential" /\ ~file_is_test[f]
  /\ r.pc \in {"linting", "generating"} => p = "e2e"
  /\ r.pc = "testing" =>
       /\ (file_is_python[f] /\ ~file_is_test[f]) \/ p = "e2e" =>
            generated_path(f) \in DOMAIN T /\ T[generated_path(f)] = Tests(f, r.code)
       /\ p = "sequential" /\ ~file_is_test[f] => r.audit = r.code
  /\ r.pc = "verified" =>
       /\ p # "sequential" => r.ran = Tests(f, r.code)
       /\ p = "sequential" /\ file_is_python[f] =>
            r.ran = IF file_is_test[f] THEN Code(f, r.code) ELSE Tests(f, r.code)
       /\ p = "sequential" /\ ~file_is_test[f] => r.audit = r.code /\ r.report = "clean"

\* Writing one path of a tree.
LEMMA WithPath ==
  ASSUME NEW T, NEW path, NEW content
  PROVE  path \in DOMAIN With(T, path, content) /\ With(T, path, content)[path] = content
  BY DEF With

\* The other paths are as they were.
LEMMA WithOther ==
  \A T, path, content : \A x \in DOMAIN T : x # path =>
    x \in DOMAIN With(T, path, content) /\ With(T, path, content)[x] = T[x]
  BY DEF With

\* The assignments the loops make to a file record.
At(r, pc) == [r EXCEPT !.pc = pc]
Again(r, pc, n) == [r EXCEPT !.pc = pc, !.attempt = n]
Recoded(r, n, pc) == [r EXCEPT !.code = n, !.pc = pc]
Audited(r, report) == [r EXCEPT !.pc = "testing", !.audit = r.code, !.report = report]
Ran(r, x) == [r EXCEPT !.ran = x]

\* q is r but for its place in the loop and the number of the attempt.
Resumed(q, r, pc) ==
  /\ FileShape(q) /\ q.pc = pc
  /\ q.code = r.code /\ q.audit = r.audit /\ q.report = r.report /\ q.ran = r.ran

\* What those assignments make of a record.
LEMMA SetAt ==
  ASSUME NEW r, FileShape(r), NEW pc \in FilePC
  PROVE  Resumed(At(r, pc), r, pc)
  BY DEF FileShape, FileRecord, At, Resumed

\* The next attempt.
LEMMA SetAgain ==
  ASSUME NEW r, FileShape(r), NEW pc \in FilePC, NEW n \in Nat
  PROVE  Resumed(Again(r, pc, n), r, pc)
  BY DEF FileShape, FileRecord, Again, Resumed

\* A new version of the code.
LEMMA SetRecoded ==
  ASSUME NEW r, FileShape(r), NEW pc \in FilePC, NEW n \in Nat
  PROVE  /\ FileShape(Recoded(r, n, pc)) /\ Recoded(r, n, pc).pc = pc
         /\ Recoded(r, n, pc).code = n
  BY DEF FileShape, FileRecord, Recoded

\* An audit.
LEMMA SetAudited ==
  ASSUME NEW r, FileShape(r), NEW report \in {"clean", "blocking", "empty"}
  PROVE  /\ FileShape(Audited(r, report)) /\ Audited(r, report).pc = "testing"
         /\ Audited(r, report).code = r.code /\ Audited(r, report).audit = r.code
         /\ Audited(r, report).report = report
<1>1. r.code \in Nat
  BY DEF FileShape, FileRecord
<1> QED BY <1>1 DEF FileShape, FileRecord, FilePC, Audited

\* A test run.
LEMMA SetRan ==
  ASSUME NEW r, FileShape(r), NEW x
  PROVE  /\ FileShape(Ran(r, x)) /\ Ran(r, x).pc = r.pc /\ Ran(r, x).code = r.code
         /\ Ran(r, x).audit = r.audit /\ Ran(r, x).report = r.report /\ Ran(r, x).ran = x
<1> DEFINE q == [r EXCEPT !.ran = x]
<1>1. r \in FileRecord({r.ran, x})
  BY DEF FileShape, FileRecord
<1>2. /\ q \in FileRecord({r.ran, x}) /\ q.pc = r.pc /\ q.code = r.code
      /\ q.audit = r.audit /\ q.report = r.report /\ q.ran = x
  BY <1>1 DEF FileRecord
<1>3. Ran(r, x) = q
  BY DEF Ran
<1> HIDE DEF q
<1>4. q \in FileRecord({q.ran})
  BY <1>2 DEF FileRecord
<1> QED BY <1>2, <1>3, <1>4 DEF FileShape

\* What a record says of a tree depends on the tree at the file and at its tests only.
LEMMA FaithfulFrame ==
  ASSUME NEW f, NEW p, NEW r, NEW T, NEW U, Faithful(f, p, r, T),
         \A x \in {f, generated_path(f)} : x \in DOMAIN T => x \in DOMAIN U /\ U[x] = T[x]
  PROVE  Faithful(f, p, r, U)
  BY DEF Faithful

\* The files of all projects.
FilesInv ==
  /\ file = [j \in Job |-> [f \in files_of[j] |-> file[j][f]]]
  /\ tree = [j \in Job |-> tree[j]]
  /\ \A j \in Job : \A f \in files_of[j] :
       /\ FileShape(file[j][f])
       /\ run[j].pc = "none" => file[j][f].pc = "waiting"
       /\ Apart(j, f) => Faithful(f, run[j].pipeline, file[j][f], tree[j])

\* A step of one file that writes, if anything, the file or its tests.
LEMMA OneFileMoves ==
  ASSUME FilesInv, NEW j \in Job, NEW f \in files_of[j], run[j].pc # "none", run' = run,
         NEW q, FileShape(q), file' = [file EXCEPT ![j][f] = q],
         \/ tree' = tree
         \/ \E path \in {f, generated_path(f)} : \E content :
              tree' = [tree EXCEPT ![j] = With(tree[j], path, content)],
         Apart(j, f) => Faithful(f, run[j].pipeline, q, tree'[j])
  PROVE  FilesInv'
<1>1. /\ file' = [i \in Job |-> [g \in files_of[i] |-> file'[i][g]]]
      /\ file'[j][f] = q
      /\ \A i \in Job : \A g \in files_of[i] : i # j \/ g # f => file'[i][g] = file[i][g]
  BY DEF FilesInv
<1>2. tree' = [i \in Job |-> tree'[i]] /\ \A i \in Job \ {j} : tree'[i] = tree[i]
  BY DEF FilesInv
<1>3. ASSUME NEW x \in DOMAIN tree[j], x \notin {f, generated_path(f)}
      PROVE  x \in DOMAIN tree'[j] /\ tree'[j][x] = tree[j][x]
  <2>1. CASE tree' = tree
    BY <1>3, <2>1
  <2>2. ASSUME NEW path \in {f, generated_path(f)}, NEW content,
               tree' = [tree EXCEPT ![j] = With(tree[j], path, content)]
        PROVE  x \in DOMAIN tree'[j] /\ tree'[j][x] = tree[j][x]
    <3>1. tree'[j] = With(tree[j], path, content)
      BY <2>2 DEF FilesInv
    <3> QED BY <1>3, <3>1, WithOther
  <2> QED BY <2>1, <2>2
<1>4. ASSUME NEW i \in Job, NEW g \in files_of[i], i # j \/ g # f, Apart(i, g)
      PROVE  Faithful(g, run'[i].pipeline, file'[i][g], tree'[i])
  <2>1. Faithful(g, run[i].pipeline, file[i][g], tree[i]) /\ file'[i][g] = file[i][g]
    BY <1>1, <1>4 DEF FilesInv
  <2>2. CASE i # j
    BY <1>2, <2>1, <2>2
  <2>3. CASE i = j
    <3>1. {g, generated_path(g)} \cap {f, generated_path(f)} = {}
      BY <1>4, <2>3 DEF Apart
    <3>2. \A x \in {g, generated_path(g)} :
            x \in DOMAIN tree[j] => x \in DOMAIN tree'[j] /\ tree'[j][x] = tree[j][x]
      BY <1>3, <3>1
    <3> QED BY <2>1, <2>3, <3>2, FaithfulFrame
  <2> QED BY <2>2, <2>3
<1>5. \A i \in Job : \A g \in files_of[i] : Apart(i, g)' = Apart(i, g)
  BY DEF Apart
<1>6. ASSUME NEW i \in Job, NEW g \in files_of[i]
      PROVE  /\ FileShape(file'[i][g])
             /\ run'[i].pc = "none" => file'[i][g].pc = "waiting"
             /\ Apart(i, g) => Faithful(g, run'[i].pipeline, file'[i][g], tree'[i])
  <2>1. CASE i = j /\ g = f
    BY <1>1, <2>1
  <2>2. CASE i # j \/ g # f
    BY <1>1, <1>4, <2>2 DEF FilesInv
  <2> QED BY <2>1, <2>2
<1> QED BY <1>1, <1>2, <1>5, <1>6 DEF FilesInv

\* A failed attempt says nothing of the code, but that its generation goes on from it.
LEMMA RetryFile ==
  ASSUME PipelineAssumption, NEW r, FileShape(r), NEW pc \in {"coding", "generating"}
  PROVE  /\ FileShape(Retry(r, pc)) /\ Retry(r, pc).pc \in {pc, "failed"}
         /\ Retry(r, pc).code = r.code
<1>1. r.attempt \in Nat /\ r.attempt + 1 \in Nat
  BY DEF FileShape, FileRecord
<1> DEFINE n == r.attempt + 1
<1>2. Retry(r, pc) = Again(r, pc, n) \/ Retry(r, pc) = At(r, "failed")
  BY DEF Retry, Again, At
<1>3. n \in Nat /\ pc \in FilePC /\ "failed" \in FilePC
  BY <1>1 DEF FilePC
<1> HIDE DEF n
<1>4. Resumed(Again(r, pc, n), r, pc) /\ Resumed(At(r, "failed"), r, "failed")
  BY <1>3, SetAgain, SetAt
<1> QED BY <1>2, <1>4 DEF Resumed

\* Every step of the self-healing loop of a file.
LEMMA FilesStep ==
  ASSUME PipelineAssumption, FilesInv, NEW j \in Job, FileStep(j),
         run[j].pipeline \in {"sequential", "e2e"}
  PROVE  FilesInv'
<1>1. PICK f \in files_of[j] :
        \/ Acquire(j, f) \/ CodingFails(j, f) \/ Coded(j, f)
        \/ CheckingFails(j, f) \/ Checked(j, f) \/ Tested(j, f)
        \/ Linted(j, f) \/ GenerationFails(j, f) \/ Generated(j, f) \/ TestedE2E(j, f)
  BY DEF FileStep
<1> DEFINE r == file[j][f]
           T == tree[j]
           p == run[j].pipeline
<1>2. run[j].pc = "files" /\ run' = run
  BY <1>1 DEF In, Acquire, CodingFails, Coded, CheckingFails, Checked, Tested, Linted,
              GenerationFails, Generated, TestedE2E
<1>3. FileShape(r) /\ (Apart(j, f) => Faithful(f, p, r, T))
  BY DEF FilesInv
<1>4. ASSUME NEW q, FileShape(q), file' = [file EXCEPT ![j][f] = q], tree' = tree,
             Apart(j, f) => Faithful(f, p, q, T)
      PROVE  FilesInv'
  BY <1>2, <1>4, OneFileMoves
<1>5. ASSUME NEW q, FileShape(q), file' = [file EXCEPT ![j][f] = q],
             NEW path \in {f, generated_path(f)}, NEW content,
             tree' = [tree EXCEPT ![j] = With(T, path, content)],
             Apart(j, f) => Faithful(f, p, q, With(T, path, content))
      PROVE  FilesInv'
  <2>1. tree'[j] = With(T, path, content)
    BY <1>5 DEF FilesInv
  <2> HIDE DEF r, T, p
  <2>2. Apart(j, f) => Faithful(f, p, q, tree'[j])
    BY <1>5, <2>1
  <2> QED BY <1>2, <1>5, <2>2, OneFileMoves DEF T, p
<1>6. ASSUME NEW q, FileShape(q), q.pc \in {"waiting", "coding", "failed"},
             file' = [file EXCEPT ![j][f] = q], tree' = tree
      PROVE  FilesInv'
  <2>1. Faithful(f, p, q, T)
    BY <1>6 DEF Faithful
  <2> HIDE DEF T, p
  <2> QED BY <1>4, <1>6, <2>1
<1>7. FilePC = {"waiting", "coding", "checking", "linting", "generating", "testing", "verified",
                "failed"}
  BY DEF FilePC
<1>8. CASE Acquire(j, f)
  <2> DEFINE q == Again(r, "coding", 1)
  <2>1. FileShape(q) /\ q.pc = "coding"
    <3> HIDE DEF r, T
    <3>1. "coding" \in FilePC /\ 1 \in Nat
      BY <1>7
    <3>2. Resumed(q, r, "coding")
      BY <1>3, <3>1, SetAgain
    <3> QED BY <3>2 DEF Resumed
  <2>2. file' = [file EXCEPT ![j][f] = q] /\ tree' = tree
    BY <1>8 DEF Acquire, Become, At, Again, Recoded, Audited, Ran
  <2> HIDE DEF q
  <2> QED BY <1>6, <2>1, <2>2
<1> DEFINE failed == At(r, "failed")
<1>9. FileShape(failed) /\ failed.pc = "failed"
  BY <1>3, <1>7, SetAt DEF Resumed
<1>10. /\ FileShape(Retry(r, "coding")) /\ Retry(r, "coding").pc \in {"coding", "failed"}
       /\ FileShape(Retry(r, "generating")) /\ Retry(r, "generating").pc \in {"generating", "failed"}
       /\ Retry(r, "generating").code = r.code
  BY <1>3, RetryFile
<1>11. CASE CodingFails(j, f)
  <2>1. tree' = tree /\ (Become(j, f, Retry(r, "coding")) \/ Become(j, f, failed))
    BY <1>11 DEF CodingFails, At, Again, Recoded, Audited, Ran
  <2> HIDE DEF failed, r
  <2> QED BY <1>6, <1>9, <1>10, <2>1 DEF Become
<1>12. CASE Coded(j, f)
  <2> DEFINE n == r.code + 1
             pc == IF p = "e2e" THEN "linting"
                   ELSE IF file_is_test[f] THEN "testing" ELSE "checking"
             q == Recoded(r, n, pc)
             U == With(T, f, Code(f, n))
  <2>1. n \in Nat /\ pc \in FilePC
    BY <1>3, <1>7 DEF FileShape, FileRecord
  <2>2. file' = [file EXCEPT ![j][f] = q] /\ tree' = [tree EXCEPT ![j] = U]
    BY <1>12, <1>3 DEF Coded, Become, Put, FileShape, FileRecord, At, Again, Recoded, Audited, Ran
  <2>3. FileShape(q) /\ q.pc = pc /\ q.code = n
    <3> HIDE DEF n, pc, r
    <3>1. FileShape(r)
      BY <1>3
    <3> QED BY ONLY <2>1, <3>1, SetRecoded, SMTT(30)
  <2>4. f \in DOMAIN U /\ U[f] = Code(f, n)
    <3> HIDE DEF r, T
    <3> QED BY WithPath, WithOther
  <2>5. /\ pc = "linting" => p = "e2e"
        /\ pc = "testing" => p # "e2e" /\ file_is_test[f]
        /\ pc = "checking" => p = "sequential" /\ ~file_is_test[f]
        /\ pc \in {"linting", "testing", "checking"}
    OBVIOUS
  <2> HIDE DEF q, U, n, pc
  <2>6. Faithful(f, p, q, U)
    BY <2>3, <2>4, <2>5 DEF Faithful
  <2> HIDE DEF p, r, T
  <2> QED BY <1>5, <2>2, <2>3, <2>6 DEF U
<1>13. CASE CheckingFails(j, f)
  <2>1. tree' = tree /\ (Become(j, f, Retry(r, "coding")) \/ Become(j, f, failed))
    BY <1>13 DEF CheckingFails, At, Again, Recoded, Audited, Ran
  <2> HIDE DEF failed, r
  <2> QED BY <1>6, <1>9, <1>10, <2>1 DEF Become
<1>14. CASE Checked(j, f)
  <2>1. PICK report \in {"clean", "blocking", "empty"} :
          Become(j, f, Audited(r, report))
    BY <1>14, <1>3 DEF Checked, FileShape, FileRecord, At, Again, Recoded, Audited, Ran
  <2> DEFINE q == Audited(r, report)
             path == test_file_path(f)
             U == With(T, path, Tests(f, r.code))
  <2>2. FileShape(q) /\ q.pc = "testing" /\ q.code = r.code /\ q.audit = r.code
    <3> HIDE DEF r, T
    <3> QED BY <1>3, SetAudited
  <2>3. file' = [file EXCEPT ![j][f] = q]
    BY <2>1 DEF Become
  <2>4. \/ file_is_python[f] /\ tree' = [tree EXCEPT ![j] = U]
        \/ ~file_is_python[f] /\ tree' = tree
    BY <1>14 DEF Checked, Put
  <2>5. Apart(j, f) => /\ f \in DOMAIN T /\ T[f] = Code(f, r.code) /\ f # generated_path(f)
                       /\ p = "sequential" /\ ~file_is_test[f] /\ path = generated_path(f)
    BY <1>3, <1>14 DEF Checked, In, Faithful, Apart, test_file_path
  <2>6. /\ path \in DOMAIN U /\ U[path] = Tests(f, r.code)
        /\ f # path /\ f \in DOMAIN T => f \in DOMAIN U /\ U[f] = T[f]
    <3> HIDE DEF r, T, path
    <3> QED BY WithPath, WithOther
  <2>7. path \in {f, generated_path(f)}
    BY DEF test_file_path
  <2> HIDE DEF q, U, T, r, p, path
  <2>8. Apart(j, f) => Faithful(f, p, q, U)
    BY <2>2, <2>5, <2>6 DEF Faithful
  <2>9. Apart(j, f) /\ ~file_is_python[f] => Faithful(f, p, q, T)
    BY <2>2, <2>5 DEF Faithful
  <2> QED BY <1>4, <1>5, <2>2, <2>3, <2>4, <2>7, <2>8, <2>9 DEF U
<1>15. CASE Tested(j, f)
  <2> DEFINE x == IF file_is_python[f] THEN T[test_file_path(f)] ELSE r.ran
             s == Ran(r, x)
             v == At(s, "verified")
             audited == file_is_test[f] \/ s.report = "clean"
  <2>1. /\ FileShape(s) /\ s.pc = r.pc /\ s.code = r.code /\ s.audit = r.audit
        /\ s.report = r.report /\ s.ran = x
    <3> HIDE DEF x, r, T
    <3> QED BY <1>3, SetRan
  <2>2. tree' = tree /\ p = "sequential" /\ r.pc = "testing"
        /\ \/ audited /\ Become(j, f, v)
           \/ Become(j, f, Retry(s, "coding"))
    <3>1. s = [file[j][f] EXCEPT !.ran = IF file_is_python[f] THEN tree[j][test_file_path(f)]
                                         ELSE @]
      BY <1>3 DEF FileShape, FileRecord, Ran
    <3> HIDE DEF s
    <3> QED BY <1>15, <3>1 DEF Tested, In, At
  <2> HIDE DEF s
  <2>3. FileShape(Retry(s, "coding")) /\ Retry(s, "coding").pc \in {"coding", "failed"}
    BY <2>1, RetryFile
  <2>4. /\ FileShape(v) /\ v.pc = "verified" /\ v.code = s.code /\ v.audit = s.audit
        /\ v.report = s.report /\ v.ran = s.ran
    <3> HIDE DEF r, T
    <3> QED BY <1>7, <2>1, SetAt DEF Resumed
  <2> HIDE DEF v
  <2>5. ASSUME audited, Apart(j, f)
        PROVE  Faithful(f, p, v, T)
    <3>1. Faithful(f, p, r, T)
      BY <1>3, <2>5
    <3>2. file_is_python[f] /\ file_is_test[f] => x = T[f]
      BY DEF test_file_path
    <3>3. file_is_python[f] /\ ~file_is_test[f] => x = T[generated_path(f)]
      BY DEF test_file_path
    <3> HIDE DEF x, T, r, p
    <3> QED BY <2>1, <2>2, <2>4, <2>5, <3>1, <3>2, <3>3 DEF Faithful
  <2> HIDE DEF audited, T, p
  <2>6. CASE audited /\ Become(j, f, v)
    BY <1>4, <2>2, <2>4, <2>5, <2>6 DEF Become
  <2>7. CASE Become(j, f, Retry(s, "coding"))
    BY <1>6, <2>2, <2>3, <2>7 DEF Become
  <2> QED BY <2>2, <2>6, <2>7
<1>16. CASE Linted(j, f)
  <2> DEFINE q == Again(r, "generating", 1)
  <2>1. FileShape(q) /\ q.pc = "generating" /\ q.code = r.code
    <3> HIDE DEF r, T
    <3>1. "generating" \in FilePC /\ 1 \in Nat
      BY <1>7
    <3>2. Resumed(q, r, "generating")
      BY <1>3, <3>1, SetAgain
    <3> QED BY <3>2 DEF Resumed
  <2>2. /\ tree' = tree /\ r.pc = "linting"
        /\ \/ Become(j, f, q) \/ Become(j, f, Retry(r, "coding")) \/ Become(j, f, failed)
    BY <1>16 DEF Linted, In, At, Again, Recoded, Audited, Ran
  <2> HIDE DEF q, failed, r, T, p
  <2>3. Apart(j, f) => Faithful(f, p, q, T)
    BY <1>3, <2>1, <2>2 DEF Faithful
  <2> QED BY <1>4, <1>6, <1>9, <1>10, <2>1, <2>2, <2>3 DEF Become
<1>17. CASE GenerationFails(j, f)
  <2> DEFINE q == Retry(r, "generating")
  <2>1. /\ tree' = tree /\ r.pc = "generating"
        /\ Become(j, f, q) \/ Become(j, f, failed)
    BY <1>17 DEF GenerationFails, In, At, Again, Recoded, Audited, Ran
  <2> HIDE DEF q, failed, r, T, p
  <2>2. Apart(j, f) => Faithful(f, p, q, T)
    BY <1>3, <1>10, <2>1 DEF Faithful, q
  <2> QED BY <1>4, <1>6, <1>9, <1>10, <2>1, <2>2 DEF Become, q
<1>18. CASE Generated(j, f)
  <2> DEFINE q == At(r, "testing")
             U == With(T, generated_path(f), Tests(f, r.code))
  <2>1. FileShape(q) /\ q.pc = "testing" /\ q.code = r.code
    <3> HIDE DEF r, T
    <3> QED BY <1>3, <1>7, SetAt DEF Resumed
  <2>2. /\ file' = [file EXCEPT ![j][f] = q] /\ tree' = [tree EXCEPT ![j] = U]
        /\ r.pc = "generating"
    BY <1>18 DEF Generated, Become, Put, In, At, Again, Recoded, Audited, Ran
  <2>3. /\ generated_path(f) \in DOMAIN U /\ U[generated_path(f)] = Tests(f, r.code)
        /\ f # generated_path(f) /\ f \in DOMAIN T => f \in DOMAIN U /\ U[f] = T[f]
    <3> HIDE DEF r, T
    <3> QED BY WithPath, WithOther
  <2> HIDE DEF q, U, T, r, p
  <2>4. Apart(j, f) => Faithful(f, p, q, U)
    BY <1>3, <2>1, <2>2, <2>3 DEF Faithful, Apart
  <2> QED BY <1>5, <2>1, <2>2, <2>4 DEF U
<1>19. CASE TestedE2E(j, f)
  <2> DEFINE x == T[generated_path(f)]
             s == Ran(r, x)
             v == At(s, "verified")
             q == Retry(s, "generating")
  <2>1. /\ FileShape(s) /\ s.pc = r.pc /\ s.code = r.code /\ s.ran = x
    <3> HIDE DEF x, r, T
    <3> QED BY <1>3, SetRan
  <2>2. /\ tree' = tree /\ p = "e2e" /\ r.pc = "testing"
        /\ Become(j, f, v) \/ Become(j, f, q) \/ Become(j, f, failed)
    BY <1>19 DEF TestedE2E, In, At, Again, Recoded, Audited, Ran
  <2> HIDE DEF s
  <2>3. FileShape(q) /\ q.pc \in {"generating", "failed"} /\ q.code = s.code
    BY <2>1, RetryFile
  <2>4. FileShape(v) /\ v.pc = "verified" /\ v.code = s.code /\ v.ran = s.ran
    <3> HIDE DEF r, T
    <3> QED BY <1>7, <2>1, SetAt DEF Resumed
  <2> HIDE DEF q, v, failed, r, T, p
  <2>5. Apart(j, f) => Faithful(f, p, v, T) /\ Faithful(f, p, q, T)
    BY <1>3, <2>1, <2>2, <2>3, <2>4 DEF Faithful
  <2> QED BY <1>4, <1>6, <1>9, <2>2, <2>3, <2>4, <2>5 DEF Become
<1> QED BY <1>1, <1>8, <1>11, <1>12, <1>13, <1>14, <1>15, <1>16, <1>17, <1>18, <1>19

-----------------------------------------------------------------------------
(* Runs, whatever moves them. *)

\* Every step moves one run, if any, along the map, lets it end, or calls it.
LEMMA RunStep ==
  ASSUME GateInv, [Next]_vars, NEW j \in Job
  PROVE  /\ run \in [Job -> RunRecord] /\ run' \in [Job -> RunRecord]
         /\ \/ run'[j] = run[j]
            \/ run[j].pc = "none" /\ run'[j].pc = "called"
            \/ /\ run[j].pc # "none" /\ run'[j].pc # "none"
               /\ run'[j].pipeline = run[j].pipeline /\ run'[j].dir = run[j].dir
<1>1. run \in [Job -> RunRecord] /\ run' \in [Job -> RunRecord]
  BY GateStep DEF GateInv
<1> DEFINE Goal == \/ run'[j] = run[j]
                   \/ run[j].pc = "none" /\ run'[j].pc = "called"
                   \/ /\ run[j].pc # "none" /\ run'[j].pc # "none"
                      /\ run'[j].pipeline = run[j].pipeline /\ run'[j].dir = run[j].dir
<1>2. ASSUME NEW i \in Job, NEW q, run' = [run EXCEPT ![i] = q], run[i].pc # "none", Kin(q, run[i]),
             q.pc # "none"
      PROVE  Goal
  BY <1>1, <1>2 DEF Kin
<1>3. ASSUME NEW i \in Job, NEW pipeline \in {"sequential", "e2e"}, NEW dir \in Dir,
             NEW gated \in BOOLEAN, Orchestrate(i, pipeline, dir, gated)
      PROVE  Goal
  BY <1>1, <1>3, NewRunShape DEF Orchestrate
<1>4. ASSUME NEW i \in Job, NEW verdict \in {"approved", "rejected"}, Answer(i, verdict) PROVE Goal
  BY <1>4 DEF Answer, pipelineVars
<1>5. ASSUME NEW i \in Job, Work(i) PROVE Goal
  <2>1. Gated(run[i], job[i], replies[i])
    BY DEF GateInv
  <2>2. Working(run[i]) /\ \E q : Move(q, run[i]) /\ run' = [run EXCEPT ![i] = q]
    BY <1>1, <1>5, <2>1, AdvanceMove DEF Work, Gated
  <2> QED BY <1>2, <2>2 DEF Move, Working, Leads, Debate
<1>6. ASSUME NEW i \in Job, Stop(i) PROVE Goal
  BY <1>1, <1>2, <1>6, RaisedRun DEF Stop
<1>7. ASSUME NEW i \in Job, Pass(i) PROVE Goal
  <2>1. run[i].stage \in Stage
    BY <1>7 DEF Pass, GateInv, Gated
  <2>2. NextStage[run[i].stage] # "none"
    BY <2>1 DEF NextStage, Stage
  <2>3. /\ run[i].pc # "none" /\ run[i] \in RunRecord
        /\ \/ run' = [run EXCEPT ![i] = Passed(run[i], run[i].stage)]
           \/ run' = [run EXCEPT ![i] = Raised(run[i])]
    BY <1>1, <1>7 DEF Pass
  <2>4. /\ Kin(Passed(run[i], run[i].stage), run[i]) /\ Passed(run[i], run[i].stage).pc # "none"
        /\ Kin(Raised(run[i]), run[i]) /\ Raised(run[i]).pc # "none"
    BY <2>1, <2>2, <2>3, RaisedRun, PassedRun
  <2> QED BY <1>2, <2>3, <2>4
<1>8. ASSUME NEW i \in Job, Finish(i) PROVE Goal
  BY <1>1, <1>2, <1>8, SetRun DEF Finish, Returns, PC
<1>9. ASSUME UNCHANGED vars PROVE Goal
  BY <1>9 DEF vars, pipelineVars
<1>10. Goal
  BY <1>3, <1>4, <1>5, <1>6, <1>7, <1>8, <1>9 DEF Next, GateOpens, GateTimesOut
<1> QED BY <1>1, <1>10

\* The files of a project are left alone but by the self-healing loop.
LEMMA FilesLeft ==
  ASSUME [Next]_vars
  PROVE  \/ file' = file /\ tree' = tree
         \/ \E j \in Job : FileStep(j)
<1>1. ASSUME NEW j \in Job, Work(j)
      PROVE  (file' = file /\ tree' = tree) \/ FileStep(j)
  BY <1>1 DEF Work, Advance, Begin, Fails, Researched, Designed, Criticised, DebateStops,
              Reformatted, FilesDone, Deployed
<1> QED BY <1>1 DEF Next, Orchestrate, Answer, GateOpens, GateTimesOut, Finish, Returns, Pass, Stop,
               vars, pipelineVars

\* Initially no file is begun.
LEMMA FilesInit == JobsInit => FilesInv
<1> SUFFICES ASSUME JobsInit PROVE FilesInv
  OBVIOUS
<1>1. /\ file = [j \in Job |-> [f \in files_of[j] |-> NewFile]]
      /\ tree = [j \in Job |-> << >>]
  BY DEF JobsInit, PipelineInit
<1>2. FileShape(NewFile) /\ NewFile.pc = "waiting"
  BY DEF NewFile, FileShape, FileRecord, FilePC
<1>3. \A f, p, T : Faithful(f, p, NewFile, T)
  BY <1>2 DEF Faithful
<1> HIDE DEF NewFile
<1> QED BY <1>1, <1>2, <1>3 DEF FilesInv

\* Every step keeps what the records of the files say true.
LEMMA FilesKeep ==
  ASSUME PipelineAssumption, GateInv, FilesInv, [Next]_vars
  PROVE  FilesInv'
<1>1. ASSUME NEW j \in Job, FileStep(j) PROVE FilesInv'
  <2>1. run[j].pipeline \in {"sequential", "e2e"}
    BY DEF GateInv, RunRecord
  <2> QED BY <1>1, <2>1, FilesStep
<1>2. CASE file' = file /\ tree' = tree
  <2>1. ASSUME NEW j \in Job, NEW f \in files_of[j]
        PROVE  /\ run'[j].pc = "none" => file[j][f].pc = "waiting"
               /\ Apart(j, f) => Faithful(f, run'[j].pipeline, file[j][f], tree[j])
    <3>1. /\ run[j].pc = "none" => file[j][f].pc = "waiting"
          /\ Apart(j, f) => Faithful(f, run[j].pipeline, file[j][f], tree[j])
      BY DEF FilesInv
    <3>2. file[j][f].pc = "waiting" => Faithful(f, run'[j].pipeline, file[j][f], tree[j])
      BY DEF Faithful
    <3> QED BY <3>1, <3>2, RunStep
  <2>2. \A i \in Job : \A g \in files_of[i] : Apart(i, g)' = Apart(i, g)
    BY DEF Apart
  <2> QED BY <1>2, <2>1, <2>2 DEF FilesInv
<1> QED BY <1>1, <1>2, FilesLeft

\* A file that passed, and shares its paths with no other, was checked as it is on disk:
\* a Python file by pytest (run_e2e_pipeline: any file), a file that is not a test module
\* by a clean audit (orchestrator.py, process_single_file and run_e2e_pipeline).
THEOREM AlwaysVerifiedAsWritten == Spec => []VerifiedAsWritten
<1>1. JobsInit => GateInv /\ FilesInv
  BY GateInit, FilesInit
<1>2. GateInv /\ FilesInv /\ [Next]_vars => (GateInv /\ FilesInv)'
  BY GateStep, FilesKeep, PipelineAssumption
<1>3. FilesInv => VerifiedAsWritten
  BY DEF FilesInv, Faithful, VerifiedAsWritten
<1> QED BY <1>1, <1>2, <1>3, PTL DEF Spec

-----------------------------------------------------------------------------
(* What a run delivers. *)

\* The files of a run are behind it.
Late(r) == r.pc = "devops" \/ (r.pc = "gate" /\ r.stage = "code") \/ r.outcome = "completed"

\* A run that has its files behind it delivers verified ones and says how many.
Delivers(r, j) ==
  LET verified == {f \in files_of[j] : file[j][f].pc = "verified"} IN
  Late(r) =>
    /\ verified # {}
    /\ ~degraded => verified = files_of[j]
    /\ r.claim = "all" <=> verified = files_of[j]

DeliveryInv == \A j \in Job : Delivers(run[j], j)

\* Runs are late only after their files, and stay what they were.
LEMMA LateMove ==
  ASSUME NEW r, Working(r), NEW q, Move(q, r), Late(q)
  PROVE  r.pc \in {"files", "devops"}
  BY DEF Working, Move, Leads, Late, Debate

\* The steps of a run that is not in its files, nor leaves them, take nothing back.
LEMMA DeliveryFrame ==
  ASSUME DeliveryInv, NEW j \in Job, NEW q, run \in [Job -> RunRecord],
         run' = [run EXCEPT ![j] = q], file' = file, degraded' = degraded, Delivers(q, j)
  PROVE  DeliveryInv'
<1>1. ASSUME NEW i \in Job PROVE Delivers(run'[i], i)
  BY DEF DeliveryInv
<1>2. ASSUME NEW i \in Job PROVE Delivers(run[i], i)' <=> Delivers(run'[i], i)
  BY DEF Delivers
<1> QED BY <1>1, <1>2 DEF DeliveryInv

\* The fan-out is joined: its claim is true.
LEMMA DeliveryFilesDone ==
  ASSUME GateInv, DeliveryInv, NEW j \in Job, FilesDone(j),
         files_of[j] # {}
  PROVE  DeliveryInv'
<1> DEFINE r == run[j]
           failed == {f \in files_of[j] : file[j][f].pc = "failed"}
           verified == {f \in files_of[j] : file[j][f].pc = "verified"}
           c == IF failed = {} THEN "all" ELSE "some"
           p == [r EXCEPT !.claim = c]
<1>1. r \in RunRecord /\ run \in [Job -> RunRecord]
  BY DEF GateInv
<1>2. /\ file' = file /\ degraded' = degraded
      /\ \/ run' = [run EXCEPT ![j] = Raised(r)]
         \/ /\ ~(failed # {} /\ (~degraded \/ failed = files_of[j]))
            /\ \/ run' = [run EXCEPT ![j] = Succeeded(p)]
               \/ run' = [run EXCEPT ![j] = Completed(p, "code")]
  BY Zenon DEF FilesDone
<1>3. verified = files_of[j] \ failed /\ failed \subseteq files_of[j]
  BY DEF FilesDone
<1>4. p \in RunRecord /\ p.claim = c
  <2> HIDE DEF failed
  <2>1. c \in {"all", "some"}
    OBVIOUS
  <2> HIDE DEF c, r
  <2> QED BY <1>1, <2>1 DEF RunRecord
<1>5. Delivers(Raised(r), j)
  BY <1>1, RaisedRun DEF Delivers, Late
<1>6. ASSUME NEW q, q.claim = c, ~(failed # {} /\ (~degraded \/ failed = files_of[j]))
      PROVE  Delivers(q, j)
  <2>1. /\ verified # {} /\ (~degraded => verified = files_of[j])
        /\ c = "all" <=> verified = files_of[j]
    BY <1>3, <1>6
  <2> QED BY <1>6, <2>1 DEF Delivers
<1>7. Succeeded(p).claim = c /\ Completed(p, "code").claim = c
  <2> HIDE DEF p, c, failed
  <2> QED BY <1>4, SucceededRun, CompletedRun DEF Stage
<1> HIDE DEF p, c, failed, r
<1> QED BY <1>1, <1>2, <1>5, <1>6, <1>7, DeliveryFrame DEF r

\* The work of a run.
LEMMA DeliveryAdvance ==
  ASSUME PipelineAssumption, GateInv, FilesInv, DeliveryInv, NEW j \in Job, Advance(j)
  PROVE  DeliveryInv'
<1> DEFINE r == run[j]
<1>1. Gated(r, job[j], replies[j]) /\ run \in [Job -> RunRecord] /\ r \in RunRecord
  BY DEF GateInv
<1>2. Working(r) /\ \E q : Move(q, r) /\ run' = [run EXCEPT ![j] = q]
  BY <1>1, AdvanceMove DEF Gated
<1>3. PICK q : Move(q, r) /\ run' = [run EXCEPT ![j] = q]
  BY <1>2
<1>4. CASE FilesDone(j)
  BY <1>4, DeliveryFilesDone DEF PipelineAssumption
<1>5. CASE FileStep(j)
  <2>1. r.pc = "files" /\ run' = run /\ degraded' = degraded
        /\ \E f \in files_of[j] : \E x : file' = [file EXCEPT ![j][f] = x]
    BY <1>5 DEF FileStep, In, Acquire, CodingFails, Coded, CheckingFails, Checked, Tested,
                Linted, GenerationFails, Generated, TestedE2E, Become
  <2>2. \A i \in Job \ {j} : file'[i] = file[i]
    BY <2>1 DEF FilesInv
  <2>3. ~Late(r)
    BY <1>2, <2>1 DEF Working, Late
  <2> QED BY <2>1, <2>2, <2>3 DEF DeliveryInv, Delivers
<1>6. CASE Deployed(j)
  <2>1. run' = [run EXCEPT ![j] = Succeeded(r)] /\ file' = file /\ degraded' = degraded
        /\ r.pc = "devops"
    BY <1>6 DEF Deployed
  <2>2. Succeeded(r).claim = r.claim
    BY <1>1, SucceededRun
  <2>3. Delivers(r, j)
    BY DEF DeliveryInv
  <2>4. Delivers(Succeeded(r), j)
    BY <2>1, <2>2, <2>3 DEF Delivers, Late
  <2> QED BY <1>1, <2>1, <2>4, DeliveryFrame
<1>7. CASE \/ Begin(j) \/ Fails(j) \/ Researched(j) \/ Designed(j) \/ Criticised(j)
           \/ DebateStops(j) \/ Reformatted(j)
  <2>1. file' = file /\ degraded' = degraded /\ r.pc # "files" /\ (r.pc = "devops" => Fails(j))
    BY <1>7 DEF Begin, Fails, Researched, Designed, Criticised, DebateStops, Reformatted
  <2>2. Fails(j) => run'[j] = Raised(r)
    BY <1>1 DEF Fails
  <2>3. Fails(j) => ~Late(q)
    BY <1>1, <1>3, <2>2, RaisedRun DEF Late
  <2>4. Delivers(q, j)
    BY <1>2, <1>3, <2>1, <2>3, LateMove DEF Delivers
  <2> QED BY <1>1, <1>3, <2>1, <2>4, DeliveryFrame
<1> QED BY <1>4, <1>5, <1>6, <1>7 DEF Advance

\* Every step keeps the promise.
LEMMA DeliveryKeep ==
  ASSUME PipelineAssumption, GateInv, FilesInv, DeliveryInv, [Next]_vars
  PROVE  DeliveryInv'
<1>0. run \in [Job -> RunRecord]
  BY DEF GateInv
<1>1. ASSUME NEW j \in Job, NEW pipeline \in {"sequential", "e2e"}, NEW dir \in Dir,
             NEW gated \in BOOLEAN, Orchestrate(j, pipeline, dir, gated)
      PROVE  DeliveryInv'
  <2> DEFINE q == NewRun(pipeline, dir, gated)
  <2>1. q.pc = "called" /\ q.outcome = "none"
    BY NewRunShape
  <2>2. run' = [run EXCEPT ![j] = q] /\ file' = file /\ degraded' = degraded
    BY <1>1 DEF Orchestrate
  <2> HIDE DEF q
  <2>3. Delivers(q, j)
    BY <2>1 DEF Delivers, Late
  <2> QED BY <1>0, <2>2, <2>3, DeliveryFrame
<1>2. ASSUME UNCHANGED pipelineVars PROVE DeliveryInv'
  BY <1>2 DEF pipelineVars, DeliveryInv, Delivers
<1>3. ASSUME NEW j \in Job, Work(j) PROVE DeliveryInv'
  BY <1>3, DeliveryAdvance DEF Work
<1>4. ASSUME NEW j \in Job, NEW q, run' = [run EXCEPT ![j] = q], file' = file, degraded' = degraded,
             Late(q) => Late(run[j]) /\ q.claim = run[j].claim
      PROVE  DeliveryInv'
  <2>1. Delivers(q, j)
    BY <1>4 DEF DeliveryInv, Delivers
  <2> QED BY <1>0, <1>4, <2>1, DeliveryFrame
<1>5. ASSUME NEW j \in Job, Stop(j) PROVE DeliveryInv'
  <2>1. ~Late(Raised(run[j]))
    BY <1>0, RaisedRun DEF Late
  <2> QED BY <1>4, <1>5, <2>1 DEF Stop
<1>6. ASSUME NEW j \in Job, Pass(j) PROVE DeliveryInv'
  <2> DEFINE r == run[j]
  <2>1. r.stage \in Stage /\ r.outcome # "completed"
    BY <1>6 DEF Pass, GateInv, Gated
  <2>2. /\ run' = [run EXCEPT ![j] = Passed(r, r.stage)] \/ run' = [run EXCEPT ![j] = Raised(r)]
        /\ file' = file /\ degraded' = degraded /\ r.pc = "gate"
    BY <1>6 DEF Pass
  <2>3. /\ Passed(r, r.stage).pc = NextStage[r.stage] /\ Passed(r, r.stage).outcome = r.outcome
        /\ Passed(r, r.stage).claim = r.claim /\ ~Late(Raised(r))
    BY <1>0, <2>1, PassedRun, RaisedRun DEF Late
  <2>4. Late(Passed(r, r.stage)) => Late(r)
    BY <2>1, <2>2, <2>3 DEF Late, NextStage, Stage
  <2> HIDE DEF r
  <2> QED BY <1>4, <2>2, <2>3, <2>4 DEF r
<1>7. ASSUME NEW j \in Job, Finish(j) PROVE DeliveryInv'
  <2> DEFINE q == [run[j] EXCEPT !.pc = "ended"]
  <2>1. q.pc = "ended" /\ q.outcome = run[j].outcome /\ q.claim = run[j].claim
    BY <1>0, SetRun DEF PC
  <2>2. run' = [run EXCEPT ![j] = q] /\ file' = file /\ degraded' = degraded
    BY <1>7 DEF Finish, Returns
  <2> HIDE DEF q
  <2>3. Late(q) => Late(run[j]) /\ q.claim = run[j].claim
    BY <2>1 DEF Late
  <2> QED BY <1>4, <2>2, <2>3
<1> QED BY <1>1, <1>2, <1>3, <1>5, <1>6, <1>7 DEF Next, Answer, GateOpens, GateTimesOut, vars

\* A run that succeeds delivers verified files and says so truthfully; without degraded
\* mode all of them (orchestrator.py, the checks after the fan-out of both pipelines).
THEOREM SuccessIsAlwaysVerified == Spec => []SuccessIsVerified
<1>1. JobsInit => GateInv /\ FilesInv /\ DeliveryInv
  <2>1. NoRun.pc = "none" /\ NoRun.outcome = "none"
    BY NewRunShape
  <2>2. JobsInit => \A j \in Job : run[j] = NoRun
    BY DEF JobsInit, PipelineInit
  <2> HIDE DEF NoRun
  <2>3. JobsInit => DeliveryInv
    BY <2>1, <2>2 DEF DeliveryInv, Delivers, Late
  <2> QED BY <2>3, GateInit, FilesInit
<1>2. GateInv /\ FilesInv /\ DeliveryInv /\ [Next]_vars => (GateInv /\ FilesInv /\ DeliveryInv)'
  BY GateStep, FilesKeep, DeliveryKeep, PipelineAssumption
<1>3. DeliveryInv => SuccessIsVerified
  BY DEF DeliveryInv, Delivers, Late, SuccessIsVerified
<1> QED BY <1>1, <1>2, <1>3, PTL DEF Spec

-----------------------------------------------------------------------------
(* Artifacts. *)

\* The jobs that were given a workspace.
Tenants(R, d) == {i \in Job : R[i].pc # "none" /\ R[i].dir = d}

\* What a run of run_pipeline has made by the time it is where it is.
Made(r) ==
  {a \in Artifact :
     \/ a # "plan" /\ r.outcome = "completed"
     \/ a = "research" /\ r.pc \in Debate \cup {"gate", "files", "devops"}
     \/ a = "design" /\ (r.pc \in (Debate \ {"architect"}) \cup {"files", "devops"}
                         \/ (r.pc = "gate" /\ r.stage # "research"))
     \/ a \in {"review", "audit"} /\ (r.pc = "devops" \/ (r.pc = "gate" /\ r.stage = "code"))}

\* A job whose workspace is its own: what it has made is there, and what it shows is its.
Kept(j) ==
  run[j].pc # "none" /\ Tenants(run, run[j].dir) = {j} /\ run[j].pipeline = "sequential" =>
    /\ \A a \in Made(run[j]) : disk[run[j].dir][a] = j
    /\ job[j].status = "completed" => \A a \in Outputs("sequential") : job[j].artifacts[a] = j

ArtifactInv ==
  /\ disk \in [Dir -> [Artifact -> Job \cup {NoJob}]]
  /\ \A d \in Dir : \A a \in Artifact : disk[d][a] \in Tenants(run, d) \cup {NoJob}
  /\ \A j \in Job :
       /\ run[j].pc # "none" =>
            /\ run[j].dir \in Dir
            /\ \A a \in Artifact : job[j].artifacts[a] \in Tenants(run, run[j].dir) \cup {NoJob}
       /\ job[j].status = "completed" => run[j].pc = "ended"
       /\ Kept(j)

\* A workspace loses no tenant; the new one, if any, is a job just called.
LEMMA TenantsGrow ==
  ASSUME GateInv, [Next]_vars
  PROVE  /\ \A d \in Dir : Tenants(run, d) \subseteq Tenants(run', d)
         /\ \A j \in Job : run[j].pc # "none" => run'[j].pc # "none" /\ run'[j].dir = run[j].dir
                                                /\ run'[j].pipeline = run[j].pipeline
  BY RunStep DEF Tenants

\* What the steps of a pipeline do to the disk: they write in their own workspace, and
\* what they have made is there.
LEMMA AdvanceDisk ==
  ASSUME NEW j \in Job, NEW q, Working(run[j]), Move(q, run[j]), Advance(j),
         run \in [Job -> RunRecord], run' = [run EXCEPT ![j] = q], run[j].dir \in Dir,
         disk \in [Dir -> [Artifact -> Job \cup {NoJob}]]
  PROVE  /\ disk' \in [Dir -> [Artifact -> Job \cup {NoJob}]]
         /\ \A d \in Dir \ {run[j].dir} : disk'[d] = disk[d]
         /\ \A a \in Artifact : disk'[run[j].dir][a] \in {disk[run[j].dir][a], j, NoJob}
         /\ run[j].pipeline = "sequential" =>
              \A a \in Made(q) :
                disk'[run[j].dir][a] = j
                \/ (a \in Made(run[j]) /\ disk'[run[j].dir][a] = disk[run[j].dir][a])
<1> DEFINE r == run[j]
           d == r.dir
           Goal == /\ disk' \in [Dir -> [Artifact -> Job \cup {NoJob}]]
                   /\ \A e \in Dir \ {d} : disk'[e] = disk[e]
                   /\ \A a \in Artifact : disk'[d][a] \in {disk[d][a], j, NoJob}
                   /\ r.pipeline = "sequential" =>
                        \A a \in Made(q) :
                          disk'[d][a] = j \/ (a \in Made(r) /\ disk'[d][a] = disk[d][a])
<1>1. r \in RunRecord /\ q \in RunRecord /\ run'[j] = q
  BY DEF Move, Kin
<1>2. /\ Leads(r, q) /\ (q.outcome = "completed" => q.pc = "closing") /\ r.outcome # "completed"
      /\ r.pc \notin {"none", "gate", "closing", "ended"}
      /\ q.outcome = "completed" => r.pc \in {"files", "devops"}
  BY DEF Move, Working, Leads, Debate
<1>3. ASSUME disk' = disk, Made(q) \subseteq Made(r) \/ r.pipeline # "sequential" PROVE Goal
  BY <1>3 DEF Made
<1>4. ASSUME NEW b \in Artifact, disk' = [disk EXCEPT ![d][b] = j],
             Made(q) \subseteq Made(r) \cup {b} \/ r.pipeline # "sequential"
      PROVE  Goal
  <2>1. /\ disk' \in [Dir -> [Artifact -> Job \cup {NoJob}]]
        /\ \A e \in Dir \ {d} : disk'[e] = disk[e]
        /\ disk'[d][b] = j /\ \A a \in Artifact \ {b} : disk'[d][a] = disk[d][a]
    BY <1>4
  <2> QED BY <1>4, <2>1 DEF Made
<1>5. CASE Begin(j)
  <2>1. /\ disk' \in [Dir -> [Artifact -> Job \cup {NoJob}]]
        /\ \A e \in Dir \ {d} : disk'[e] = disk[e]
        /\ \A a \in Artifact : disk'[d][a] \in {disk[d][a], NoJob}
    BY <1>5 DEF Begin
  <2>2. r.pipeline = "sequential" => Made(q) = {}
    BY <1>2, <1>5 DEF Begin, Leads, Made, Debate
  <2> QED BY <2>1, <2>2
<1>6. CASE Fails(j)
  <2>1. disk' = disk /\ q = Raised(r)
    BY <1>1, <1>6 DEF Fails
  <2>2. Made(q) = {}
    BY <1>1, <2>1, RaisedRun DEF Made, Debate
  <2> QED BY <1>3, <2>1, <2>2
<1>7. CASE Researched(j)
  <2>1. disk' = [disk EXCEPT ![d]["research"] = j] /\ r.pc = "research"
    BY <1>7 DEF Researched, Write
  <2>2. Made(q) \subseteq {"research"}
    BY <1>2, <2>1 DEF Leads, Made, Debate
  <2> QED BY <1>4, <2>1, <2>2 DEF Artifact
<1>8. CASE Designed(j)
  <2>1. /\ disk' = [disk EXCEPT ![d][Plan(j)] = j] /\ r.pc \in {"architect", "refine"}
        /\ Plan(j) \in Artifact /\ (r.pipeline = "sequential" => Plan(j) = "design")
    BY <1>8 DEF Designed, Write, Plan, Artifact
  <2>2. Made(q) \subseteq Made(r) \cup {"design"}
    BY <1>2, <2>1 DEF Leads, Made, Debate
  <2> QED BY <1>4, <2>1, <2>2
<1>9. CASE Criticised(j)
  <2>0. disk' = disk /\ r.pc = "critic" /\ q = [r EXCEPT !.pc = "refine"]
    BY <1>1, <1>9 DEF Criticised
  <2>1. disk' = disk /\ r.pc = "critic" /\ q.pc = "refine"
    BY <1>1, <2>0 DEF RunRecord
  <2>2. Made(q) \subseteq Made(r)
    BY <1>2, <2>1 DEF Made, Debate
  <2> QED BY <1>3, <2>1, <2>2
<1>10. CASE DebateStops(j)
  <2>1. /\ disk' = [disk EXCEPT ![d][Plan(j)] = j] /\ r.pc \in {"critic", "refine"}
        /\ Plan(j) \in Artifact /\ (r.pipeline = "sequential" => Plan(j) = "design")
    BY <1>10 DEF DebateStops, Write, Plan, Artifact
  <2>2. Made(q) \subseteq Made(r) \cup {"design"}
    BY <1>2, <2>1 DEF Leads, Made, Debate
  <2> QED BY <1>4, <2>1, <2>2
<1>11. CASE Reformatted(j)
  <2>1. disk' = [disk EXCEPT ![d]["design"] = j] /\ r.pc = "format"
    BY <1>11 DEF Reformatted, Write
  <2>2. Made(q) \subseteq Made(r) \cup {"design"}
    BY <1>2, <2>1 DEF Leads, Made, Debate
  <2> QED BY <1>4, <2>1, <2>2 DEF Artifact
<1>12. CASE FileStep(j)
  <2>1. r.pc = "files" /\ run' = run /\ disk' = disk
    BY <1>12 DEF FileStep, In, Acquire, CodingFails, Coded, CheckingFails, Checked, Tested,
                 Linted, GenerationFails, Generated, TestedE2E
  <2>2. q = r
    BY <1>1, <2>1
  <2> QED BY <1>3, <2>1, <2>2
<1>13. CASE FilesDone(j)
  <2>1. r.pc = "files"
    BY <1>13 DEF FilesDone
  <2>2. CASE disk' = disk /\ q.outcome # "completed" /\ q.pc = "closing"
    <3>1. Made(q) = {}
      BY <2>2 DEF Made, Debate
    <3> QED BY <1>3, <2>2, <3>1
  <2>3. CASE disk' = disk /\ r.pipeline # "sequential"
    BY <1>3, <2>3
  <2>4. CASE q.outcome # "completed" /\ disk' = [disk EXCEPT ![d] = [@ EXCEPT !.review = j, !.audit = j]]
    <3>1. /\ disk' \in [Dir -> [Artifact -> Job \cup {NoJob}]]
          /\ \A e \in Dir \ {d} : disk'[e] = disk[e]
          /\ disk'[d]["review"] = j /\ disk'[d]["audit"] = j
          /\ \A a \in Artifact \ {"review", "audit"} : disk'[d][a] = disk[d][a]
      BY <2>4 DEF Artifact
    <3>2. Made(q) \subseteq Made(r) \cup {"review", "audit"}
      BY <1>2, <2>1, <2>4 DEF Leads, Made, Debate
    <3> QED BY <3>1, <3>2 DEF Made
  <2>5. \/ disk' = disk /\ run'[j] = Raised(r)
        \/ disk' = disk /\ r.pipeline = "e2e"
        \/ /\ disk' = [disk EXCEPT ![d] = [@ EXCEPT !.review = j, !.audit = j]]
           /\ \E c \in {"all", "some"} : run'[j] = Completed([r EXCEPT !.claim = c], "code")
    BY <1>13 DEF FilesDone
  <2>6. run'[j] = Raised(r) => q.outcome # "completed" /\ q.pc = "closing"
    BY <1>1, RaisedRun
  <2>7. ASSUME NEW c \in {"all", "some"}, run'[j] = Completed([r EXCEPT !.claim = c], "code")
        PROVE  q.outcome # "completed"
    <3> DEFINE p == [r EXCEPT !.claim = c]
    <3>1. p \in RunRecord /\ p.outcome = r.outcome
      BY <1>1 DEF RunRecord
    <3> HIDE DEF p
    <3>2. Completed(p, "code").outcome = p.outcome
      BY <3>1, CompletedRun DEF Stage
    <3> QED BY <1>1, <1>2, <2>7, <3>1, <3>2 DEF p
  <2> QED BY <2>2, <2>3, <2>4, <2>5, <2>6, <2>7
<1>14. CASE Deployed(j)
  <2>1. disk' = [disk EXCEPT ![d]["deploy"] = j] /\ r.pc = "devops"
    BY <1>14 DEF Deployed, Write
  <2>2. Made(q) \subseteq Made(r) \cup {"deploy"}
    <3>1. q.pc = "closing"
      BY <1>2, <2>1 DEF Leads, Debate
    <3> QED BY <2>1, <3>1 DEF Made, Artifact, Debate
  <2> QED BY <1>4, <2>1, <2>2 DEF Artifact
<1> QED BY <1>5, <1>6, <1>7, <1>8, <1>9, <1>10, <1>11, <1>12, <1>13, <1>14 DEF Advance

\* A step of job j, whose run and record are then q and b, leaves the others alone and
\* keeps the promise for j.
KeepsTo(j, q, b) ==
  /\ q.pc # "none" /\ q.dir \in Dir
  /\ job'[j] = b /\ \A i \in Job \ {j} : job'[i] \in {job[i], Unknown}
  /\ disk' \in [Dir -> [Artifact -> Job \cup {NoJob}]]
  /\ \A d \in Dir \ {q.dir} : disk'[d] = disk[d]
  /\ \A a \in Artifact : disk'[q.dir][a] \in {disk[q.dir][a], j, NoJob}
  /\ \A a \in Artifact :
       \/ b.artifacts[a] \in {NoJob, disk'[q.dir][a]}
       \/ run[j].pc # "none" /\ b.artifacts[a] = job[j].artifacts[a]
  /\ b.status = "completed" => q.pc = "ended"
  /\ Tenants(run', q.dir) = {j} /\ q.pipeline = "sequential" =>
       /\ \A a \in Made(q) : disk'[q.dir][a] = j
       /\ b.status = "completed" => \A a \in Outputs("sequential") : b.artifacts[a] = j

\* Then it keeps the promise for all.
LEMMA ArtifactFrame ==
  ASSUME GateInv, ArtifactInv, [Next]_vars, NEW j \in Job, NEW q, NEW b,
         run' = [run EXCEPT ![j] = q], KeepsTo(j, q, b)
  PROVE  ArtifactInv'
<1> USE DEF KeepsTo
<1>1. /\ run' \in [Job -> RunRecord] /\ run'[j] = q /\ \A i \in Job \ {j} : run'[i] = run[i]
      /\ j \in Tenants(run', q.dir)
  BY RunStep DEF Tenants
<1>2. ASSUME NEW d \in Dir, NEW a \in Artifact PROVE disk'[d][a] \in Tenants(run', d) \cup {NoJob}
  <2>1. disk[d][a] \in Tenants(run', d) \cup {NoJob}
    BY TenantsGrow DEF ArtifactInv
  <2>2. CASE d = q.dir
    BY <1>1, <2>1, <2>2
  <2>3. CASE d # q.dir
    BY <2>1, <2>3
  <2> QED BY <2>2, <2>3
<1>3. ASSUME NEW i \in Job \ {j}
      PROVE  /\ job'[i].artifacts = NoArtifacts \/ job'[i].artifacts = job[i].artifacts
             /\ job'[i].status = "completed" => job'[i] = job[i]
  BY NewJobShape
<1>4. ASSUME NEW i \in Job, run'[i].pc # "none"
      PROVE  /\ run'[i].dir \in Dir
             /\ \A a \in Artifact : job'[i].artifacts[a] \in Tenants(run', run'[i].dir) \cup {NoJob}
  <2>1. CASE i = j
    <3>1. ASSUME NEW a \in Artifact, run[j].pc # "none"
          PROVE  job[j].artifacts[a] \in Tenants(run', q.dir) \cup {NoJob}
      <4>1. job[j].artifacts[a] \in Tenants(run, q.dir) \cup {NoJob}
        BY <1>1, <3>1, TenantsGrow DEF ArtifactInv
      <4> QED BY <4>1, TenantsGrow
    <3> QED BY <1>1, <1>2, <2>1, <3>1
  <2>2. CASE i # j
    <3>1. /\ run[i].dir \in Dir /\ run'[i].dir = run[i].dir
          /\ \A a \in Artifact : job[i].artifacts[a] \in Tenants(run', run[i].dir) \cup {NoJob}
      BY <1>1, <1>4, <2>2, TenantsGrow DEF ArtifactInv
    <3>2. \A a \in Artifact : NoArtifacts[a] = NoJob
      BY DEF NoArtifacts
    <3> QED BY <1>3, <2>2, <3>1, <3>2
  <2> QED BY <2>1, <2>2
<1>5. ASSUME NEW i \in Job, job'[i].status = "completed" PROVE run'[i].pc = "ended"
  BY <1>1, <1>3, <1>5 DEF ArtifactInv
<1>6. ASSUME NEW i \in Job PROVE Kept(i)'
  <2>1. CASE i = j
    BY <1>1, <2>1 DEF Kept
  <2>2. CASE i # j
    <3> SUFFICES ASSUME run[i].pc # "none", Tenants(run', run[i].dir) = {i}, run[i].pipeline = "sequential"
                 PROVE  /\ \A a \in Made(run[i]) : disk'[run[i].dir][a] = i
                        /\ job'[i].status = "completed" =>
                             \A a \in Outputs("sequential") : job'[i].artifacts[a] = i
      BY <1>1, <2>2 DEF Kept
    <3>1. run[i].dir \in Dir /\ run[i].dir # q.dir
      BY <1>1, <2>2 DEF ArtifactInv
    <3>2. Tenants(run, run[i].dir) = {i}
      BY <3>1, TenantsGrow DEF Tenants
    <3>3. /\ \A a \in Made(run[i]) : disk[run[i].dir][a] = i
          /\ job[i].status = "completed" =>
               \A a \in Outputs("sequential") : job[i].artifacts[a] = i
      BY <3>2 DEF ArtifactInv, Kept
    <3> QED BY <1>3, <2>2, <3>1, <3>3
  <2> QED BY <2>1, <2>2
<1> QED BY <1>2, <1>4, <1>5, <1>6 DEF ArtifactInv

\* A call of orchestrate.
LEMMA ArtifactOrchestrate ==
  ASSUME JobsAssumption, GateInv, ArtifactInv, NEW j \in Job, NEW pipeline \in {"sequential", "e2e"},
         NEW dir \in Dir, NEW gated \in BOOLEAN, Orchestrate(j, pipeline, dir, gated), [Next]_vars
  PROVE  ArtifactInv'
<1> DEFINE q == NewRun(pipeline, dir, gated)
<1>1. q.pc = "called" /\ q.outcome = "none" /\ q.dir = dir
  BY NewRunShape
<1>2. /\ run' = [run EXCEPT ![j] = q] /\ disk' = disk
      /\ job' = [i \in Job |-> IF i = j THEN NewJob
                               ELSE IF i \in ToSet(Pruned) THEN Unknown ELSE job[i]]
  BY DEF Orchestrate
<1> HIDE DEF q
<1>3. job'[j] = NewJob /\ \A i \in Job \ {j} : job'[i] \in {job[i], Unknown}
  BY <1>2
<1>4. \A a \in Artifact : NewJob.artifacts[a] = NoJob
  BY NewJobShape DEF NoArtifacts
<1>5. Made(q) = {}
  BY <1>1 DEF Made, Debate
<1>6. NewJob.status # "completed"
  BY NewJobShape
<1>7. disk \in [Dir -> [Artifact -> Job \cup {NoJob}]]
  BY DEF ArtifactInv
<1>8. /\ q.pc # "none" /\ q.dir \in Dir
      /\ \A d \in Dir \ {q.dir} : disk'[d] = disk[d]
      /\ \A a \in Artifact : disk'[q.dir][a] \in {disk[q.dir][a], j, NoJob}
      /\ disk' \in [Dir -> [Artifact -> Job \cup {NoJob}]]
      /\ \A a \in Artifact : NewJob.artifacts[a] \in {NoJob, disk'[q.dir][a]}
      /\ \A a \in Made(q) : disk'[q.dir][a] = j
  BY <1>1, <1>2, <1>4, <1>5, <1>7
<1>9. KeepsTo(j, q, NewJob)
  BY <1>3, <1>6, <1>8 DEF KeepsTo
<1> QED BY <1>2, <1>9, ArtifactFrame

\* A step that leaves the disk and the artifacts of its job alone.
LEMMA ArtifactQuiet ==
  ASSUME GateInv, ArtifactInv, [Next]_vars, NEW j \in Job, NEW q, NEW b,
         run' = [run EXCEPT ![j] = q], run[j].pc # "none", Made(q) \subseteq Made(run[j]),
         job' = [job EXCEPT ![j] = b], b.artifacts = job[j].artifacts, disk' = disk,
         b.status = "completed" => job[j].status = "completed" /\ q.pc = "ended"
  PROVE  ArtifactInv'
<1>1. q.pc # "none" /\ q.dir = run[j].dir /\ q.pipeline = run[j].pipeline /\ q.dir \in Dir
  BY TenantsGrow DEF GateInv, ArtifactInv
<1>2. job'[j] = b /\ \A i \in Job \ {j} : job'[i] = job[i]
  BY DEF GateInv
<1>3. ASSUME Tenants(run', q.dir) = {j}, q.pipeline = "sequential"
      PROVE  /\ \A a \in Made(q) : disk'[q.dir][a] = j
             /\ b.status = "completed" => \A a \in Outputs("sequential") : b.artifacts[a] = j
  <2>1. Tenants(run, run[j].dir) = {j}
    BY <1>1, <1>3, TenantsGrow DEF Tenants
  <2>2. Kept(j)
    BY DEF ArtifactInv
  <2> QED BY <1>1, <1>3, <2>1, <2>2 DEF Kept
<1>4. disk \in [Dir -> [Artifact -> Job \cup {NoJob}]]
  BY DEF ArtifactInv
<1>5. KeepsTo(j, q, b)
  BY <1>1, <1>2, <1>3, <1>4 DEF KeepsTo
<1> QED BY <1>5, ArtifactFrame

\* The work of a job, and the gate at its end.
LEMMA ArtifactWork ==
  ASSUME GateInv, ArtifactInv, [Next]_vars, NEW j \in Job, Work(j)
  PROVE  ArtifactInv'
<1> DEFINE r == run[j]
           b == job[j]
           d == r.dir
<1>1. Gated(r, b, replies[j]) /\ run \in [Job -> RunRecord] /\ Shaped(b)
  BY DEF GateInv
<1>2. Working(r) /\ \E q : Move(q, r) /\ run' = [run EXCEPT ![j] = q]
  BY <1>1, AdvanceMove DEF Gated, Work
<1>3. PICK q : Move(q, r) /\ run' = [run EXCEPT ![j] = q]
  BY <1>2
<1>4. /\ run'[j] = q /\ r.pc \notin {"none", "ended"}
      /\ q.pc # "none" /\ q.dir = d /\ q.pipeline = r.pipeline /\ d \in Dir
      /\ disk \in [Dir -> [Artifact -> Job \cup {NoJob}]]
  BY <1>1, <1>2, <1>3, TenantsGrow DEF Working, ArtifactInv
<1>5. /\ disk' \in [Dir -> [Artifact -> Job \cup {NoJob}]]
      /\ \A e \in Dir \ {d} : disk'[e] = disk[e]
      /\ \A a \in Artifact : disk'[d][a] \in {disk[d][a], j, NoJob}
      /\ r.pipeline = "sequential" =>
           \A a \in Made(q) :
             disk'[d][a] = j \/ (a \in Made(r) /\ disk'[d][a] = disk[d][a])
  BY <1>1, <1>2, <1>3, <1>4, AdvanceDisk DEF Work
<1>6. /\ \A i \in Job \ {j} : job'[i] = job[i]
      /\ \/ job'[j] = b
         \/ job'[j] = AtGate(b, q.stage, Collected(disk'[d]))
  BY <1>4 DEF Work, EnterGate, AtGate, GateInv
<1>7. ASSUME Tenants(run', d) = {j}, r.pipeline = "sequential"
      PROVE  \A a \in Made(q) : disk'[d][a] = j
  <2>1. Tenants(run, d) = {j}
    BY <1>4, <1>7, TenantsGrow DEF Tenants
  <2>2. \A a \in Made(r) : disk[d][a] = j
    BY <1>4, <1>7, <2>1 DEF ArtifactInv, Kept
  <2> QED BY <1>5, <1>7, <2>2
<1>8. b.status # "completed"
  BY <1>4 DEF ArtifactInv
<1>9. CASE job'[j] = b
  <2>0. /\ q.pc # "none" /\ q.dir \in Dir
        /\ \A i \in Job \ {j} : job'[i] \in {job[i], Unknown}
        /\ \A e \in Dir \ {q.dir} : disk'[e] = disk[e]
        /\ \A a \in Artifact : disk'[q.dir][a] \in {disk[q.dir][a], j, NoJob}
    BY <1>4, <1>5, <1>6
  <2> HIDE DEF b, d, r
  <2>1. b.status # "completed" /\ run[j].pc # "none" /\ b.artifacts = job[j].artifacts
    BY <1>4, <1>8 DEF b, r
  <2>2. Tenants(run', q.dir) = {j} /\ q.pipeline = "sequential" => \A a \in Made(q) : disk'[q.dir][a] = j
    BY <1>4, <1>7
  <2>3. KeepsTo(j, q, b)
    BY <1>5, <1>9, <2>0, <2>1, <2>2 DEF KeepsTo
  <2> QED BY <1>3, <2>3, ArtifactFrame
<1>10. CASE job'[j] = AtGate(b, q.stage, Collected(disk'[d]))
  <2>1. PICK x : x = Collected(disk'[d])
    OBVIOUS
  <2> DEFINE c == AtGate(b, q.stage, x)
  <2>2. c.artifacts = x /\ c.status # "completed"
    BY <1>1 DEF AtGate, Shaped
  <2>3. \A a \in Artifact : c.artifacts[a] \in {NoJob, disk'[d][a]}
    <3>1. disk'[d] \in [Artifact -> Job \cup {NoJob}]
      BY <1>4, <1>5
    <3> HIDE DEF c, d
    <3> QED BY <2>1, <2>2, <3>1 DEF Collected
  <2>4. /\ q.pc # "none" /\ q.dir \in Dir
        /\ \A i \in Job \ {j} : job'[i] \in {job[i], Unknown}
        /\ \A e \in Dir \ {q.dir} : disk'[e] = disk[e]
        /\ \A a \in Artifact : disk'[q.dir][a] \in {disk[q.dir][a], j, NoJob}
        /\ \A a \in Artifact : c.artifacts[a] \in {NoJob, disk'[q.dir][a]}
    BY <1>4, <1>5, <1>6, <2>3
  <2>5. job'[j] = c
    BY <1>10, <2>1
  <2> HIDE DEF b, c, d, r
  <2>6. Tenants(run', q.dir) = {j} /\ q.pipeline = "sequential" => \A a \in Made(q) : disk'[q.dir][a] = j
    BY <1>4, <1>7
  <2>7. KeepsTo(j, q, c)
    BY <1>5, <2>2, <2>4, <2>5, <2>6 DEF KeepsTo
  <2> QED BY <1>3, <2>7, ArtifactFrame
<1> QED BY <1>6, <1>9, <1>10

\* A gate that is passed.
LEMMA ArtifactPass ==
  ASSUME GateInv, ArtifactInv, [Next]_vars, NEW j \in Job, Pass(j), UNCHANGED jobVars
  PROVE  ArtifactInv'
<1> DEFINE r == run[j]
           q == Passed(r, r.stage)
<1>1. /\ r.stage \in Stage /\ r \in RunRecord /\ r.pc = "gate" /\ r.outcome # "completed"
      /\ job = [job EXCEPT ![j] = job[j]] /\ job' = job /\ disk' = disk
      /\ run' = [run EXCEPT ![j] = q] \/ run' = [run EXCEPT ![j] = Raised(r)]
  BY DEF Pass, GateInv, Gated, jobVars
<1>2. q.pc = NextStage[r.stage] /\ q.outcome = r.outcome
  BY <1>1, PassedRun
<1>3. /\ q.pc = CASE r.stage = "research" -> "architect" [] r.stage = "design" -> "files"
                   [] OTHER -> "devops"
  BY <1>1, <1>2 DEF NextStage, Stage
<1>4. job[j].status # "completed"
  BY <1>1 DEF ArtifactInv
<1> HIDE DEF q
<1>5. Made(q) \subseteq Made(r)
  BY <1>1, <1>2, <1>3 DEF Made, Debate, Stage
<1>6. Made(Raised(r)) \subseteq Made(r)
  BY <1>1, RaisedRun DEF Made, Debate
<1> HIDE DEF r
<1>7. r = run[j]
  BY DEF r
<1> QED BY <1>1, <1>4, <1>5, <1>6, <1>7, ArtifactQuiet

\* A gate that is not.
LEMMA ArtifactStop ==
  ASSUME GateInv, ArtifactInv, [Next]_vars, NEW j \in Job, Stop(j), NEW b,
         job' = [job EXCEPT ![j] = b], b.artifacts = job[j].artifacts, b.status = job[j].status
  PROVE  ArtifactInv'
<1> DEFINE r == run[j]
<1>1. /\ r \in RunRecord /\ r.pc = "gate" /\ run' = [run EXCEPT ![j] = Raised(r)] /\ disk' = disk
  BY DEF Stop, GateInv
<1>2. Made(Raised(r)) \subseteq Made(r)
  BY <1>1, RaisedRun DEF Made, Debate
<1>3. job[j].status # "completed"
  BY <1>1 DEF ArtifactInv
<1> HIDE DEF r
<1>4. r = run[j]
  BY DEF r
<1> QED BY <1>1, <1>2, <1>3, <1>4, ArtifactQuiet

\* The record of the end.
LEMMA ArtifactFinish ==
  ASSUME GateInv, ArtifactInv, [Next]_vars, NEW j \in Job, Finish(j)
  PROVE  ArtifactInv'
<1> DEFINE r == run[j]
           b == job[j]
           d == r.dir
           x == IF r.outcome = "completed" THEN Collected(disk[d]) ELSE b.artifacts
           c == Recorded(b, r.outcome, x)
           q == [r EXCEPT !.pc = "ended"]
<1>1. /\ r \in RunRecord /\ Shaped(b) /\ r.pc = "closing" /\ disk' = disk /\ d \in Dir
      /\ disk \in [Dir -> [Artifact -> Job \cup {NoJob}]]
      /\ run' = [run EXCEPT ![j] = q]
  BY DEF Finish, Returns, GateInv, ArtifactInv
<1>2. job' = [job EXCEPT ![j] = c]
  BY DEF Finish, Recorded, GateInv
<1>3. /\ q.pc = "ended" /\ q.outcome = r.outcome /\ q.dir = d /\ q.pipeline = r.pipeline
  BY <1>1, SetRun DEF PC, Kin
<1>4. c.status = r.outcome /\ c.artifacts = x
  <2> HIDE DEF x, b, r
  <2> QED BY <1>1, SetRecorded
<1>5. job'[j] = c /\ \A i \in Job \ {j} : job'[i] = job[i]
  BY <1>2 DEF GateInv
<1>6. r.outcome = "completed" =>
        \A a \in Artifact : x[a] = IF a = "plan" THEN NoJob ELSE disk[d][a]
  <2>1. disk[d] \in [Artifact -> Job \cup {NoJob}]
    BY <1>1
  <2> HIDE DEF d
  <2> QED BY <2>1 DEF Collected, Artifact
<1> HIDE DEF c, q
<1>7. ASSUME Tenants(run', d) = {j}, r.pipeline = "sequential"
      PROVE  /\ \A a \in Made(q) : disk[d][a] = j
             /\ r.outcome = "completed" => \A a \in Outputs("sequential") : x[a] = j
  <2>1. Tenants(run, d) = {j}
    BY <1>1, <1>7, TenantsGrow DEF Tenants
  <2>2. \A a \in Made(r) : disk[d][a] = j
    BY <1>1, <1>7, <2>1 DEF ArtifactInv, Kept
  <2>3. Made(q) \subseteq Made(r)
    BY <1>3 DEF Made, Debate
  <2>4. r.outcome = "completed" => Outputs("sequential") \subseteq Made(r)
    BY DEF Made, Outputs, Artifact
  <2> HIDE DEF x, d, r
  <2> QED BY <1>6, <2>2, <2>3, <2>4 DEF Outputs
<1>8. \A a \in Artifact :
        \/ x[a] \in {NoJob, disk'[d][a]}
        \/ run[j].pc # "none" /\ x[a] = job[j].artifacts[a]
  BY <1>1, <1>6
<1> HIDE DEF b, d, r, x
<1>9. /\ q.pc # "none" /\ q.dir \in Dir
      /\ \A e \in Dir \ {q.dir} : disk'[e] = disk[e]
      /\ \A a \in Artifact : disk'[q.dir][a] \in {disk[q.dir][a], j, NoJob}
      /\ disk' \in [Dir -> [Artifact -> Job \cup {NoJob}]]
      /\ \A a \in Artifact :
           \/ c.artifacts[a] \in {NoJob, disk'[q.dir][a]}
           \/ run[j].pc # "none" /\ c.artifacts[a] = job[j].artifacts[a]
  BY <1>1, <1>3, <1>4, <1>8
<1>10. Tenants(run', q.dir) = {j} /\ q.pipeline = "sequential" =>
         /\ \A a \in Made(q) : disk'[q.dir][a] = j
         /\ c.status = "completed" => \A a \in Outputs("sequential") : c.artifacts[a] = j
  BY <1>1, <1>3, <1>4, <1>7
<1>11. (\A i \in Job \ {j} : job'[i] \in {job[i], Unknown}) /\ (c.status = "completed" => q.pc = "ended")
  BY <1>3, <1>5
<1>12. KeepsTo(j, q, c)
  BY <1>5, <1>9, <1>10, <1>11 DEF KeepsTo
<1> QED BY <1>1, <1>12, ArtifactFrame

\* Every step keeps the artifacts where they belong.
LEMMA ArtifactStep ==
  ASSUME JobsAssumption, GateInv, ArtifactInv, [Next]_vars
  PROVE  ArtifactInv'
<1>1. ASSUME NEW j \in Job, NEW pipeline \in {"sequential", "e2e"}, NEW dir \in Dir,
             NEW gated \in BOOLEAN, Orchestrate(j, pipeline, dir, gated)
      PROVE  ArtifactInv'
  BY <1>1, ArtifactOrchestrate
<1>2. ASSUME NEW j \in Job, NEW verdict \in {"approved", "rejected"}, Answer(j, verdict)
      PROVE  ArtifactInv'
  <2> DEFINE b == job[j]
             x == b.rejected \/ verdict = "rejected"
             c == Answered(b, x)
  <2>1. Shaped(b) /\ Gated(run[j], b, replies[j]) /\ run = [run EXCEPT ![j] = run[j]]
    BY SameJob
  <2>2. /\ run' = run /\ disk' = disk /\ job' = [job EXCEPT ![j] = c]
        /\ b.status = "awaiting_approval"
    BY <1>2 DEF Answer, Answered, pipelineVars, GateInv
  <2>3. x \in BOOLEAN
    BY <2>1 DEF Shaped
  <2>4. c.status = "running" /\ c.artifacts = b.artifacts
    <3> HIDE DEF x, b
    <3> QED BY <2>1, <2>3, SetAnswered
  <2>5. run[j].pc # "none"
    BY <2>1, <2>2 DEF Gated
  <2>6. Made(run[j]) \subseteq Made(run[j])
    OBVIOUS
  <2> HIDE DEF c
  <2> QED BY <2>1, <2>2, <2>4, <2>5, <2>6, ArtifactQuiet
<1>3. ASSUME NEW j \in Job, Work(j) PROVE ArtifactInv'
  BY <1>3, ArtifactWork
<1>4. ASSUME NEW j \in Job, GateOpens(j) PROVE ArtifactInv'
  <2>1. job' = job /\ job = [job EXCEPT ![j] = job[j]]
    BY <1>4, SameJob DEF GateOpens, jobVars
  <2> QED BY <1>4, <2>1, ArtifactPass, ArtifactStop DEF GateOpens
<1>5. ASSUME NEW j \in Job, GateTimesOut(j) PROVE ArtifactInv'
  <2> DEFINE b == job[j]
  <2>1. Shaped(b)
    BY SameJob
  <2>2. Unawaited(b).status = b.status /\ Unawaited(b).artifacts = b.artifacts
    <3> HIDE DEF b
    <3> QED BY <2>1, SetUnawaited
  <2>3. Stop(j) /\ job' = [job EXCEPT ![j] = Unawaited(b)]
    BY <1>5 DEF GateTimesOut, Unawaited, GateInv
  <2> QED BY <2>2, <2>3, ArtifactStop
<1>6. ASSUME NEW j \in Job, Finish(j) PROVE ArtifactInv'
  BY <1>6, ArtifactFinish
<1>7. ASSUME UNCHANGED vars PROVE ArtifactInv'
  BY <1>7 DEF vars, pipelineVars, jobVars, ArtifactInv, Kept
<1> QED BY <1>1, <1>2, <1>3, <1>4, <1>5, <1>6, <1>7 DEF Next

\* Initially there are no artifacts.
LEMMA ArtifactInit == JobsInit => ArtifactInv
<1>1. NoRun.pc = "none" /\ Unknown.status # "completed"
  BY NewRunShape, NewJobShape
<1>2. JobsInit => /\ run = [j \in Job |-> NoRun] /\ job = [j \in Job |-> Unknown]
                  /\ disk = [d \in Dir |-> [a \in Artifact |-> NoJob]]
  BY DEF JobsInit, PipelineInit
<1> QED BY <1>1, <1>2 DEF ArtifactInv, Kept

\* What a job shows is work done in its workspace, and its own if it had that to itself
\* (mcp_server.py, orchestrate, _collect_artifacts and _run_orchestration).
THEOREM ArtifactsAreAlwaysOwn == Spec => []ArtifactsAreOwn
<1>1. JobsInit => GateInv /\ ArtifactInv
  BY GateInit, ArtifactInit
<1>2. GateInv /\ ArtifactInv /\ [Next]_vars => (GateInv /\ ArtifactInv)'
  BY GateStep, ArtifactStep, JobsAssumption
<1>3. ArtifactInv => ArtifactsAreOwn
  <2>1. \A j \in Job : Sharing(j) = Tenants(run, run[j].dir)
    BY DEF Sharing, Tenants
  <2> QED BY <2>1 DEF ArtifactInv, Kept, ArtifactsAreOwn
<1> QED BY <1>1, <1>2, <1>3, PTL DEF Spec

=============================================================================
