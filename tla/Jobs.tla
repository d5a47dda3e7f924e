------------------------------- MODULE Jobs -------------------------------
(***************************************************************************)
(* The MCP server's background jobs (mcp_server.py): orchestrate starts a  *)
(* pipeline as a task of its own and returns; a job that asked for it is   *)
(* held at a gate after each stage until orchestrate_approve or            *)
(* orchestrate_reject, or until the gate's timeout.  Tool calls, job       *)
(* coroutines and timers interleave in one event loop.                     *)
(***************************************************************************)
EXTENDS Pipeline

CONSTANTS
  Own(_),            \* the directory .genius_jobs/<job_id>
  Explicit,          \* workspaces a client may name
  MAX_FINISHED_JOBS  \* finished jobs kept (200)

ASSUME JobsAssumption ==
  /\ \A j \in Job : Own(j) \in Dir
  /\ Explicit \subseteq Dir
  /\ MAX_FINISHED_JOBS \in Nat

VARIABLES
  job,       \* ORCHESTRATION_JOBS
  finished,  \* the finished jobs of it, in the order of finished_at
  replies    \* what clients were told of the gates: <<stage, verdict>>

jobVars == <<job, finished, replies>>
vars == <<pipelineVars, jobVars>>

NoArtifacts == [a \in Artifact |-> NoJob]
NewJob == [status |-> "running", awaiting_stage |-> "none", approval_event |-> FALSE,
           rejected |-> FALSE, artifacts |-> NoArtifacts]
Unknown == [NewJob EXCEPT !.status = "unknown"]

JobsInit ==
  /\ PipelineInit
  /\ job = [j \in Job |-> Unknown]
  /\ finished = <<>>
  /\ replies = [j \in Job |-> {}]
-----------------------------------------------------------------------------
(* Tools *)

\* _prune_finished_jobs: the oldest finished jobs beyond the cap.
Pruned == SubSeq(finished, 1, Len(finished) - MAX_FINISHED_JOBS)

Orchestrate(j, pipeline, dir, gated) ==
  /\ run[j].pc = "none"
  /\ pipeline = "e2e" => ~gated
  /\ dir = Own(j) \/ dir \in Explicit
  /\ run' = [run EXCEPT ![j] = NewRun(pipeline, dir, gated)]
  /\ job' = [i \in Job |-> IF i = j THEN NewJob ELSE IF i \in ToSet(Pruned) THEN Unknown ELSE job[i]]
  /\ finished' = SubSeq(finished, Len(Pruned) + 1, Len(finished))
  /\ UNCHANGED <<degraded, file, tree, disk, replies>>

\* orchestrate_approve and orchestrate_reject.
Answer(j, verdict) ==
  /\ job[j].status = "awaiting_approval"
  /\ job' = [job EXCEPT ![j].status = "running", ![j].awaiting_stage = "none",
                        ![j].rejected = @ \/ verdict = "rejected", ![j].approval_event = TRUE]
  /\ replies' = [replies EXCEPT ![j] = @ \cup {<<job[j].awaiting_stage, verdict>>}]
  /\ UNCHANGED <<pipelineVars, finished>>
-----------------------------------------------------------------------------
(* The coroutine of a job *)

\* _collect_artifacts: what the workspace holds, but for the plan.
Collected(held) == [held EXCEPT !.plan = NoJob]

\* Mutant of EnterGate: the event is not cleared.
EnterGateKeepsEvent(j) ==
  job' = IF run'[j].pc = "gate"
           THEN [job EXCEPT ![j].status = "awaiting_approval", ![j].awaiting_stage = run'[j].stage,
                            ![j].artifacts = Collected(disk'[run[j].dir])]
           ELSE job

\* _approval_gate is entered as soon as its stage is complete.
EnterGate(j) ==
  job' = IF run'[j].pc = "gate"
           THEN [job EXCEPT ![j].status = "awaiting_approval", ![j].awaiting_stage = run'[j].stage,
                            ![j].approval_event = FALSE,
                            ![j].artifacts = Collected(disk'[run[j].dir])]
           ELSE job

Work(j) == Advance(j) /\ EnterGate(j) /\ UNCHANGED <<finished, replies>>

GateOpens(j) ==
  /\ job[j].approval_event
  /\ IF job[j].rejected THEN Stop(j) ELSE Pass(j)
  /\ UNCHANGED jobVars

\* Mutant of GateTimesOut: the wait has no timeout.
GateWaits(j) ==
  /\ job[j].approval_event
  /\ Stop(j)
  /\ job' = [job EXCEPT ![j].awaiting_stage = "none"]
  /\ UNCHANGED <<finished, replies>>

\* The timer fires.  It may do so after an answer, before the coroutine has run again.
GateTimesOut(j) ==
  /\ Stop(j)
  /\ job' = [job EXCEPT ![j].awaiting_stage = "none"]
  /\ UNCHANGED <<finished, replies>>

\* _run_orchestration records the end.
Finish(j) ==
  /\ Returns(j)
  /\ job' = [job EXCEPT ![j].status = run[j].outcome,
                        ![j].artifacts = IF run[j].outcome = "completed"
                                           THEN Collected(disk[run[j].dir]) ELSE @]
  /\ finished' = Append(finished, j)
  /\ UNCHANGED replies

Next ==
  \E j \in Job :
    \/ \E pipeline \in {"sequential", "e2e"}, dir \in Dir, gated \in BOOLEAN :
         Orchestrate(j, pipeline, dir, gated)
    \/ \E verdict \in {"approved", "rejected"} : Answer(j, verdict)
    \/ Work(j) \/ GateOpens(j) \/ GateTimesOut(j) \/ Finish(j)

Spec == JobsInit /\ [][Next]_vars

\* The event loop runs every coroutine that can go on, calls end at the latest at their
\* deadline, and so does a wait at a gate.  No client has to answer.
Fairness ==
  \A j \in Job : WF_vars(Work(j)) /\ WF_vars(GateOpens(j) \/ GateTimesOut(j)) /\ WF_vars(Finish(j))

FairSpec == Spec /\ Fairness
-----------------------------------------------------------------------------
(* Properties *)

\* Every variable keeps the shape its comment gives it.
JobsTypeOK ==
  /\ PipelineTypeOK
  /\ \A j \in Job :
       /\ job[j].status \in {"unknown", "running", "awaiting_approval", "completed", "failed"}
       /\ job[j].artifacts \in [Artifact -> Job \cup {NoJob}]
  /\ ToSet(finished) \subseteq Job

\* The stages a run has behind it.
Behind(j) ==
  CASE run[j].outcome = "completed" \/ run[j].pc = "devops" -> {"research", "design", "code"}
    [] run[j].pc = "files" -> {"research", "design"}
    [] run[j].pc \in {"architect", "critic", "refine", "format"} -> {"research"}
    [] OTHER -> {}

\* No work of a stage without an approval of the stage before, given for that very
\* stage: an answer never opens two gates, and a rejected job never goes on.
GateHolds ==
  \A j \in Job :
    /\ run[j].gated => \A stage \in Behind(j) : <<stage, "approved">> \in replies[j]
    /\ \A stage \in {"research", "design", "code"} :
         <<stage, "rejected">> \in replies[j] => stage \notin Behind(j)

\* The jobs that were given the workspace of j.
Sharing(j) == {i \in Job : run[i].pc # "none" /\ run[i].dir = run[j].dir}

\* What a job shows at a gate or at its end is work done in its workspace: jobs in
\* directories of their own do not touch each other.  A pipeline that had its workspace
\* to itself ends with all of its artifacts, made by itself.
ArtifactsAreOwn ==
  \A j \in Job : run[j].pc # "none" =>
    /\ \A a \in Artifact : job[j].artifacts[a] \in Sharing(j) \cup {NoJob}
    /\ Sharing(j) = {j} /\ job[j].status = "completed" /\ run[j].pipeline = "sequential"
         => \A a \in Outputs("sequential") : job[j].artifacts[a] = j

\* Every job ends, though no client ever comes back to it.
JobEnds == \A j \in Job : run[j].pc = "called" ~> job[j].status \in {"completed", "failed"}
=============================================================================
