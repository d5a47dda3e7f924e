----------------------------- MODULE Pipeline -----------------------------
(***************************************************************************)
(* The pipelines of orchestrator.py: run_pipeline (research, design with a *)
(* debate, implementation of the designed files, deployment) and           *)
(* run_e2e_pipeline (plan, files), several runs at a time in one event     *)
(* loop.  A step is what a coroutine does between two suspensions; the     *)
(* publication of an artifact is taken with the writes that follow it.     *)
(*                                                                         *)
(* What an agent answers is open.  Of a draft of the design the model      *)
(* keeps its number and whether it parses; of a file, which version is on  *)
(* disk and what it was checked with; of an artifact, whose it is.         *)
(***************************************************************************)
EXTENDS Integers, Sequences, FiniteSets, SequencesExt

CONSTANTS
  Job,               \* runs of a pipeline
  NoJob,
  Dir,               \* workspaces
  File,              \* paths: sequences of names, a name is a sequence of words
  files_of,          \* the files the design of a job names; one that names none does not parse
  file_is_test,      \* paths that is_test_module calls a pytest module: by name or directory
  file_is_python,    \* paths that end in .py; a file under tests/ need not be one
  Semaphore,         \* files a run works on at a time (3)
  max_retries,       \* attempts per file
  max_debate_rounds,
  FORMAT_RETRIES     \* re-prompts for a design that does not parse (2)

ASSUME PipelineAssumption ==
  /\ files_of \in [Job -> (SUBSET File) \ {{}}]
  /\ file_is_test \in [File -> BOOLEAN]
  /\ file_is_python \in [File -> BOOLEAN]
  /\ {Semaphore, max_retries} \subseteq Nat \ {0}
  /\ {max_debate_rounds, FORMAT_RETRIES} \subseteq Nat

VARIABLES
  degraded,  \* GENIUS_DEGRADED_MODE, one value for the process
  run,       \* per job: where its coroutine is
  file,      \* per job and path: the self-healing loop
  tree,      \* per job and path of its project: <<what, for which file, which version>>
  disk       \* per workspace and artifact: the job that wrote it

pipelineVars == <<degraded, run, file, tree, disk>>

Artifact == {"research", "design", "review", "audit", "deploy", "plan"}
Outputs(pipeline) == IF pipeline = "e2e" THEN {"plan"} ELSE Artifact \ {"plan"}

\* "draft" numbers the designs of the architect, "published" is the one on the
\* message bus, "context" the one the coders are given; "claim" is what the run says of
\* its files: "all" of them are verified, or "some".
NewRun(pipeline, dir, gated) ==
  [pc |-> "called", stage |-> "none", pipeline |-> pipeline, dir |-> dir, gated |-> gated,
   draft |-> 0, parses |-> FALSE, published |-> 0, context |-> 0, round |-> 0, tries |-> 0,
   claim |-> "none", outcome |-> "none"]
NoRun == [NewRun("sequential", NoJob, FALSE) EXCEPT !.pc = "none"]

NewFile == [pc |-> "waiting", attempt |-> 0, code |-> 0, audit |-> 0, report |-> "none",
            ran |-> <<>>]

PipelineInit ==
  /\ degraded \in BOOLEAN
  /\ run = [j \in Job |-> NoRun]
  /\ file = [j \in Job |-> [f \in files_of[j] |-> NewFile]]
  /\ tree = [j \in Job |-> << >>]
  /\ disk = [d \in Dir |-> [a \in Artifact |-> NoJob]]

Write(j, a) == disk' = [disk EXCEPT ![run[j].dir][a] = j]
Present(j, a) == disk[run[j].dir][a] # NoJob

\* An exception leaves the pipeline through its finally block, which awaits aclose().
Raised(r) == [r EXCEPT !.pc = "closing", !.outcome = "failed"]

Succeeded(r) == [r EXCEPT !.pc = "closing", !.outcome = "completed"]

NextStage == [research |-> "architect", design |-> "files", code |-> "devops"]

\* The stage after a gate; the coders' design is fetched from the bus once.
Passed(r, stage) ==
  [r EXCEPT !.pc = NextStage[stage],
            !.context = IF stage = "design" THEN r.published ELSE @]

\* A stage of run_pipeline is complete: the gate, if the caller gave one.
Completed(r, stage) ==
  IF r.gated THEN [r EXCEPT !.pc = "gate", !.stage = stage] ELSE Passed(r, stage)
-----------------------------------------------------------------------------
(* Stages *)

\* Mutant of Begin: the outputs are looked for in every workspace.
BeginEverywhere(j) ==
  /\ run[j].pc = "called"
  /\ disk' = [d \in Dir |->
       [a \in Artifact |-> IF a \in Outputs(run[j].pipeline) THEN NoJob ELSE disk[d][a]]]
  /\ run' = [run EXCEPT ![j].pc = IF run[j].pipeline = "e2e" THEN "architect" ELSE "research"]
  /\ UNCHANGED <<degraded, file, tree>>

\* The coroutine gets its first step: old outputs are archived.
Begin(j) ==
  /\ run[j].pc = "called"
  /\ disk' = [disk EXCEPT ![run[j].dir] =
       [a \in Artifact |-> IF a \in Outputs(run[j].pipeline) THEN NoJob ELSE @[a]]]
  /\ run' = [run EXCEPT ![j].pc = IF run[j].pipeline = "e2e" THEN "architect" ELSE "research"]
  /\ UNCHANGED <<degraded, file, tree>>

\* A call, a publication or the check of an output raises.
Fails(j) ==
  /\ run[j].pc \in {"called", "research", "architect", "critic", "refine", "format", "devops"}
  /\ run' = [run EXCEPT ![j] = Raised(@)]
  /\ UNCHANGED <<degraded, file, tree, disk>>

\* The research, or in degraded mode a placeholder for it.
Researched(j) ==
  /\ run[j].pc = "research"
  /\ Write(j, "research")
  /\ run' = [run EXCEPT ![j] = Completed(@, "research")]
  /\ UNCHANGED <<degraded, file, tree>>

Plan(j) == IF run[j].pipeline = "e2e" THEN "plan" ELSE "design"

\* A design that parses is implemented; another one is asked for again
\* (run_pipeline) or ends the run.
Parsed(r) ==
  IF ~r.parses THEN IF r.pipeline = "sequential" /\ r.tries < FORMAT_RETRIES
                      THEN [r EXCEPT !.pc = "format", !.tries = @ + 1]
                      ELSE Raised(r)
  ELSE IF r.pipeline = "e2e" THEN [r EXCEPT !.pc = "files"]
  ELSE Completed(r, "design")

\* The debate is over: run_pipeline publishes the design.
Settled(r) ==
  Parsed([r EXCEPT !.published = IF r.pipeline = "sequential" THEN r.draft ELSE 0])

NewDraft(r, parses) == [r EXCEPT !.draft = @ + 1, !.parses = parses]

\* An answer of the architect is written at once, then debated.
Debated(r) ==
  IF r.round < max_debate_rounds THEN [r EXCEPT !.pc = "critic", !.round = @ + 1] ELSE Settled(r)

Designed(j) ==
  /\ run[j].pc \in {"architect", "refine"}
  /\ Write(j, Plan(j))
  /\ \E parses \in BOOLEAN : run' = [run EXCEPT ![j] = Debated(NewDraft(@, parses))]
  /\ UNCHANGED <<degraded, file, tree>>

\* The critic objects.
Criticised(j) ==
  /\ run[j].pc = "critic"
  /\ run' = [run EXCEPT ![j].pc = "refine"]
  /\ UNCHANGED <<degraded, file, tree, disk>>

\* The critic approves or, in degraded mode, a call of the debate fails: the design
\* stands as it is.
DebateStops(j) ==
  /\ \/ run[j].pc = "critic"
     \/ run[j].pc = "refine" /\ degraded
  /\ Write(j, Plan(j))
  /\ run' = [run EXCEPT ![j] = Settled(@)]
  /\ UNCHANGED <<degraded, file, tree>>

\* Another answer, to a prompt about the format: written, not published.
Reformatted(j) ==
  /\ run[j].pc = "format"
  /\ Write(j, "design")
  /\ \E parses \in BOOLEAN : run' = [run EXCEPT ![j] = Parsed(NewDraft(@, parses))]
  /\ UNCHANGED <<degraded, file, tree>>

\* The gate lets the run pass; the next stage first checks its input file.
Pass(j) ==
  LET stage == run[j].stage
      ready == CASE stage = "research" -> Present(j, "research")
                 [] stage = "code" -> Present(j, "audit")
                 [] OTHER -> TRUE
  IN /\ run[j].pc = "gate"
     /\ run' = [run EXCEPT ![j] = IF ready THEN Passed(@, stage) ELSE Raised(@)]
     /\ UNCHANGED <<degraded, file, tree, disk>>

\* The gate raises: rejected, or no answer in time.
Stop(j) ==
  /\ run[j].pc = "gate"
  /\ run' = [run EXCEPT ![j] = Raised(@)]
  /\ UNCHANGED <<degraded, file, tree, disk>>
-----------------------------------------------------------------------------
(* The self-healing loop of a file *)

In(j, f, pc) == run[j].pc = "files" /\ file[j][f].pc = pc

\* tests/test_<flat_name>.py: flatten_rel_path joins names by what joins the words
\* of a name.  run_pipeline takes what it calls a test module for its own test.
generated_path(f) == <<<<"tests">>, <<"test">> \o FlattenSeq(f)>>
test_file_path(f) == IF file_is_test[f] THEN f ELSE generated_path(f)

Code(f, v) == <<"code", f, v>>
Tests(f, v) == <<"tests", f, v>>
With(T, path, content) ==
  [p \in DOMAIN T \cup {path} |-> IF p = path THEN content ELSE T[p]]
Put(j, path, content) == tree' = [tree EXCEPT ![j] = With(@, path, content)]

Busy(j) == {f \in files_of[j] : file[j][f].pc \notin {"waiting", "verified", "failed"}}

Become(j, f, r) == file' = [file EXCEPT ![j][f] = r]

\* An attempt failed: the next one, or the end.
Retry(r, pc) ==
  IF r.attempt < max_retries THEN [r EXCEPT !.pc = pc, !.attempt = @ + 1]
                             ELSE [r EXCEPT !.pc = "failed"]

Acquire(j, f) ==
  /\ In(j, f, "waiting")
  /\ Cardinality(Busy(j)) < Semaphore
  /\ Become(j, f, [file[j][f] EXCEPT !.pc = "coding", !.attempt = 1])
  /\ UNCHANGED <<degraded, run, tree, disk>>

\* Codex failed, or its answer is not Python; or a write raised, which ends the file.
CodingFails(j, f) ==
  /\ In(j, f, "coding")
  /\ Become(j, f, Retry(file[j][f], "coding")) \/ Become(j, f, [file[j][f] EXCEPT !.pc = "failed"])
  /\ UNCHANGED <<degraded, run, tree, disk>>

\* Codex answered and its code is written.
Coded(j, f) ==
  /\ In(j, f, "coding")
  /\ Become(j, f, [file[j][f] EXCEPT
       !.code = @ + 1,
       !.pc = IF run[j].pipeline = "e2e" THEN "linting"
              ELSE IF file_is_test[f] THEN "testing" ELSE "checking"])
  /\ Put(j, f, Code(f, file[j][f].code + 1))
  /\ UNCHANGED <<degraded, run, disk>>

\* Mutant of CheckingFails: without usable tests the ones of an earlier attempt serve.
CheckingGoesOn(j, f) ==
  /\ In(j, f, "checking")
  /\ \/ Become(j, f, Retry(file[j][f], "coding"))
     \/ /\ file_is_python[f] /\ test_file_path(f) \in DOMAIN tree[j]
        /\ Become(j, f, [file[j][f] EXCEPT !.pc = "testing", !.audit = file[j][f].code,
                                           !.report = "clean"])
  /\ UNCHANGED <<degraded, run, tree, disk>>

\* A call failed or the tests are not Python; or a write raised.
CheckingFails(j, f) ==
  /\ In(j, f, "checking")
  /\ \/ Become(j, f, Retry(file[j][f], "coding"))
     \/ Become(j, f, [file[j][f] EXCEPT !.pc = "failed"])
  /\ UNCHANGED <<degraded, run, tree, disk>>

\* The auditor and, for a Python file, the tester have answered.
Checked(j, f) ==
  /\ In(j, f, "checking")
  /\ \E report \in {"clean", "blocking", "empty"} :
       Become(j, f, [file[j][f] EXCEPT !.pc = "testing", !.audit = file[j][f].code,
                                       !.report = report])
  /\ IF file_is_python[f] THEN Put(j, test_file_path(f), Tests(f, file[j][f].code))
                          ELSE UNCHANGED tree
  /\ UNCHANGED <<degraded, run, disk>>

\* Mutant of Tested: without a test run the file has passed, whatever its audit says.
TestedUnaudited(j, f) ==
  /\ run[j].pipeline = "sequential"
  /\ In(j, f, "testing")
  /\ LET r == [file[j][f] EXCEPT !.ran = IF file_is_python[f] THEN tree[j][test_file_path(f)]
                                         ELSE @]
         audited == file_is_test[f] \/ ~file_is_python[f] \/ r.report = "clean"
     IN \/ Become(j, f, IF audited THEN [r EXCEPT !.pc = "verified"] ELSE Retry(r, "coding"))
        \/ file_is_python[f] /\ Become(j, f, Retry(r, "coding"))
  /\ UNCHANGED <<degraded, run, tree, disk>>

\* pytest ends: what it ran is the test file of that moment.  It runs for Python files
\* only, and the audit counts for all but test modules: what is neither passes at once.
Tested(j, f) ==
  /\ run[j].pipeline = "sequential"
  /\ In(j, f, "testing")
  /\ LET r == [file[j][f] EXCEPT !.ran = IF file_is_python[f] THEN tree[j][test_file_path(f)]
                                         ELSE @]
         audited == file_is_test[f] \/ r.report = "clean"
     IN \/ Become(j, f, IF audited THEN [r EXCEPT !.pc = "verified"] ELSE Retry(r, "coding"))
        \/ file_is_python[f] /\ Become(j, f, Retry(r, "coding"))
  /\ UNCHANGED <<degraded, run, tree, disk>>

\* run_e2e_pipeline: flake8 and an earlier test file, then tests are generated.  A
\* subprocess that cannot be started ends the file.
Linted(j, f) ==
  /\ In(j, f, "linting")
  /\ \/ Become(j, f, [file[j][f] EXCEPT !.pc = "generating", !.attempt = 1])
     \/ file_is_python[f] /\ Become(j, f, Retry(file[j][f], "coding"))
     \/ file_is_python[f] /\ Become(j, f, [file[j][f] EXCEPT !.pc = "failed"])
  /\ UNCHANGED <<degraded, run, tree, disk>>

GenerationFails(j, f) ==
  /\ In(j, f, "generating")
  /\ \/ Become(j, f, Retry(file[j][f], "generating"))
     \/ Become(j, f, [file[j][f] EXCEPT !.pc = "failed"])
  /\ UNCHANGED <<degraded, run, tree, disk>>

Generated(j, f) ==
  /\ In(j, f, "generating")
  /\ Become(j, f, [file[j][f] EXCEPT !.pc = "testing"])
  /\ Put(j, generated_path(f), Tests(f, file[j][f].code))
  /\ UNCHANGED <<degraded, run, disk>>

TestedE2E(j, f) ==
  /\ run[j].pipeline = "e2e"
  /\ In(j, f, "testing")
  /\ LET r == [file[j][f] EXCEPT !.ran = tree[j][generated_path(f)]] IN
     \/ Become(j, f, [r EXCEPT !.pc = "verified"])
     \/ Become(j, f, Retry(r, "generating"))
     \/ Become(j, f, [file[j][f] EXCEPT !.pc = "failed"])
  /\ UNCHANGED <<degraded, run, tree, disk>>

FileStep(j) ==
  \E f \in files_of[j] :
    \/ Acquire(j, f) \/ CodingFails(j, f) \/ Coded(j, f)
    \/ CheckingFails(j, f) \/ Checked(j, f) \/ Tested(j, f)
    \/ Linted(j, f) \/ GenerationFails(j, f) \/ Generated(j, f) \/ TestedE2E(j, f)

\* Mutant of FilesDone: degraded mode forgives everything.
FilesDoneForgiving(j) ==
  LET failed == {f \in files_of[j] : file[j][f].pc = "failed"}
      claim == IF failed = {} THEN "all" ELSE "some"
  IN
  /\ run[j].pc = "files"
  /\ \A f \in files_of[j] : file[j][f].pc \in {"verified", "failed"}
  /\ IF failed # {} /\ ~degraded
       THEN run' = [run EXCEPT ![j] = Raised(@)] /\ disk' = disk
       ELSE /\ run' = [run EXCEPT ![j] = Completed([@ EXCEPT !.claim = claim], "code")]
            /\ disk' = [disk EXCEPT ![run[j].dir] = [@ EXCEPT !.review = j, !.audit = j]]
  /\ UNCHANGED <<degraded, file, tree>>

\* The fan-out is joined; gather_or_raise too lets every file finish.  Failed files end a
\* strict run, and any run without a verified one; run_pipeline then writes its review and
\* the audits.
FilesDone(j) ==
  LET failed == {f \in files_of[j] : file[j][f].pc = "failed"}
      short == failed # {} /\ (~degraded \/ failed = files_of[j])
      r == [run[j] EXCEPT !.claim = IF failed = {} THEN "all" ELSE "some"]
  IN
  /\ run[j].pc = "files"
  /\ \A f \in files_of[j] : file[j][f].pc \in {"verified", "failed"}
  /\ \/ /\ short \/ run[j].pipeline = "sequential"
        /\ run' = [run EXCEPT ![j] = Raised(@)] /\ disk' = disk
     \/ /\ ~short /\ run[j].pipeline = "e2e"
        /\ run' = [run EXCEPT ![j] = Succeeded(r)] /\ disk' = disk
     \/ /\ ~short /\ run[j].pipeline = "sequential"
        /\ run' = [run EXCEPT ![j] = Completed(r, "code")]
        /\ disk' = [disk EXCEPT ![run[j].dir] = [@ EXCEPT !.review = j, !.audit = j]]
  /\ UNCHANGED <<degraded, file, tree>>

\* The deployment, or in degraded mode a placeholder for it.
Deployed(j) ==
  /\ run[j].pc = "devops"
  /\ Write(j, "deploy")
  /\ run' = [run EXCEPT ![j] = Succeeded(@)]
  /\ UNCHANGED <<degraded, file, tree>>

\* aclose() returns, and so does the pipeline.
Returns(j) ==
  /\ run[j].pc = "closing"
  /\ run' = [run EXCEPT ![j].pc = "ended"]
  /\ UNCHANGED <<degraded, file, tree, disk>>

\* What a run does by itself, gates and its end aside.
Advance(j) ==
  \/ Begin(j) \/ Fails(j) \/ Researched(j) \/ Designed(j) \/ Criticised(j)
  \/ DebateStops(j) \/ Reformatted(j) \/ FileStep(j) \/ FilesDone(j) \/ Deployed(j)
-----------------------------------------------------------------------------
(* Properties *)

PipelineTypeOK ==
  /\ degraded \in BOOLEAN
  /\ \A j \in Job :
       /\ run[j].draft \in 0..(1 + max_debate_rounds + FORMAT_RETRIES)
       /\ {run[j].published, run[j].context} \subseteq 0..run[j].draft
       /\ \A f \in files_of[j] : file[j][f].attempt \in 0..max_retries
  /\ disk \in [Dir -> [Artifact -> Job \cup {NoJob}]]

\* No other file of the design is written where f or its generated tests are.
Apart(j, f) ==
  /\ generated_path(f) # f
  /\ \A g \in files_of[j] \ {f} : {f, generated_path(f)} \cap {g, generated_path(g)} = {}

\* A file that passed, and does not share its paths, was checked as it is on disk.
\* run_e2e_pipeline: pytest ran the tests of this version.  run_pipeline: of a Python file
\* pytest ran the tests of this version, or the test module itself; of a file that is not
\* a test module the audit is of this version and clean.  Nothing is asked of a test
\* module that is not Python, a data file under tests/: it skips both checks
\* (orchestrator.py:1471, 1622), though 1620-1621 says of files that are not Python that
\* the audit alone verifies them.
VerifiedAsWritten ==
  \A j \in Job : \A f \in files_of[j] :
    LET r == file[j][f]
        sequential == run[j].pipeline = "sequential"
    IN
    r.pc = "verified" /\ Apart(j, f) =>
      /\ tree[j][f] = Code(f, r.code)
      /\ ~sequential => r.ran = Tests(f, r.code)
      /\ sequential /\ file_is_python[f] =>
           r.ran = IF file_is_test[f] THEN Code(f, r.code) ELSE Tests(f, r.code)
      /\ sequential /\ ~file_is_test[f] => r.audit = r.code /\ r.report = "clean"

\* A run that succeeds delivers verified files, and says so truthfully; without
\* degraded mode all of them.
SuccessIsVerified ==
  \A j \in Job :
    LET verified == {f \in files_of[j] : file[j][f].pc = "verified"} IN
    run[j].outcome = "completed" =>
      /\ verified # {}
      /\ ~degraded => verified = files_of[j]
      /\ run[j].claim = "all" <=> verified = files_of[j]

\* What docs/history/Genius_Comprehensive_Report.md:31 says of Codex, that its code
\* matches the specifications of design.md: the design it is given is the one whose
\* files it implements.
CodersSeeTheDesign ==
  \A j \in Job :
    run[j].pc = "files" /\ run[j].pipeline = "sequential" => run[j].context = run[j].draft

=============================================================================
