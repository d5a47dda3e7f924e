------------------------------- MODULE Hub -------------------------------
(***************************************************************************)
(* The central hub of the distributed mode (ag_core/distributed/hub.py):   *)
(* the worker table, the task store, the FIFO backlog, the detached        *)
(* coroutines that hand a task to its worker, and the sweeper.             *)
(*                                                                         *)
(* The hub is one asyncio program.  Its lock is never held across a real   *)
(* suspension point, so every endpoint of handle_request and the locked    *)
(* half of sweep is one atomic step.  What really interleaves is listed in *)
(* three sets: dispatch coroutines that were spawned but have not run,     *)
(* those suspended in a send, and cancel notices a sweep has still to send.*)
(*                                                                         *)
(* The environment is arbitrary: any worker may register, beat, report or  *)
(* leave at any moment.  Requests the hub refuses without changing state   *)
(* (400, 401, 403, 404) are not steps of this module.                      *)
(***************************************************************************)
EXTENDS Integers, FiniteSets

CONSTANTS
  Worker,           \* worker ids
  NoWorker,         \* task["worker_id"] is None
  RoleName,         \* the role strings workers and clients use
  NoRole,           \* the role of an id with no record
  canonical_role,   \* function on RoleName: provider_factory.canonical_role
  RoleLists,        \* the role lists workers register with
  Sweeper,          \* the loops that call sweep: _sweeper_loop and serve.prune_stale_workers
  MaxWorkerValues,  \* the max_workers values /update_config may set
  MAX_TASKS,        \* BoundedTasks.MAX_TASKS
  MAX_QUEUED_TASKS, \* CentralHub.MAX_QUEUED_TASKS
  MaxId             \* bound on task_counter

ASSUME HubAssumption ==
  /\ NoWorker \notin Worker
  /\ NoRole \notin RoleName
  /\ canonical_role \in [RoleName -> RoleName]
  /\ RoleLists \subseteq SUBSET RoleName
  /\ MaxWorkerValues \subseteq Nat
  /\ MAX_TASKS \in Nat \ {0}
  /\ MAX_QUEUED_TASKS \in Nat
  /\ MaxId \in Nat

VARIABLES
  workers,      \* worker table: "absent", or idle/busy with roles and heartbeat age
  tasks,        \* task store; status "none" is an id with no record
  task_queue,   \* backlog; ids are appended as they are drawn, so id order is FIFO order
  task_counter,
  max_workers,  \* config["max_workers"]
  spawned,      \* <<w, t>>: _dispatch_to_worker(w, t) is created, not yet run
  sending,      \* <<w, t>>: it is suspended in its send
  notices       \* <<s, w, t>>: cancel notices the sweep of loop s has still to send

hubVars == <<workers, tasks, task_queue, task_counter, max_workers,
             spawned, sending, notices>>

TaskId == 1..MaxId
Terminal == {"completed", "failed"}

\* The age of last_heartbeat against heartbeat_timeout.  The sweeper prunes
\* 10ms before the timeout, the matcher still serves up to it: "margin" lies
\* between the two.
Age == {"fresh", "margin", "stale"}

WorkerRecord == [status : {"absent", "idle", "busy"}, roles : SUBSET RoleName, age : Age]
TaskRecord == [status : {"none", "pending", "running"} \cup Terminal,
               role : RoleName \cup {NoRole}, worker_id : Worker \cup {NoWorker}]

Absent == [status |-> "absent", roles |-> {}, age |-> "fresh"]
NoTask == [status |-> "none", role |-> NoRole, worker_id |-> NoWorker]

Registered(ws) == {w \in Worker : ws[w].status # "absent"}
RunningOn(ts, w) == {t \in TaskId : ts[t].status = "running" /\ ts[t].worker_id = w}

Init ==
  /\ workers = [w \in Worker |-> Absent]
  /\ tasks = [t \in TaskId |-> NoTask]
  /\ task_queue = {}
  /\ task_counter = 0
  /\ max_workers \in MaxWorkerValues
  /\ spawned = {} /\ sending = {} /\ notices = {}

-----------------------------------------------------------------------------
(* Matching and the backlog *)

\* Aliases of one role match each other: both sides are canonicalised.
CanTake(info, name) ==
  /\ info.status = "idle"
  /\ info.age # "stale"
  /\ \E r \in info.roles : canonical_role[r] = canonical_role[name]

\* Mutant of Passes: the newest task is served first.
PassesNewestFirst(ws, ts, waiting) ==
  {a \in [waiting -> Worker \cup {NoWorker}] :
     /\ \A t \in waiting : a[t] # NoWorker => CanTake(ws[a[t]], ts[t].role)
     /\ \A t, u \in waiting : a[t] = a[u] /\ a[t] # NoWorker => t = u
     /\ \A t \in waiting, w \in Worker :
          a[t] = NoWorker /\ CanTake(ws[w], ts[t].role)
            => \E u \in waiting : u > t /\ a[u] = w}

\* One pass over the backlog, oldest first: a task takes an idle worker that
\* serves its role unless older tasks took them all.  Which one of several it
\* takes (the registration order of the code) is left open.
Passes(ws, ts, waiting) ==
  {a \in [waiting -> Worker \cup {NoWorker}] :
     /\ \A t \in waiting : a[t] # NoWorker => CanTake(ws[a[t]], ts[t].role)
     /\ \A t, u \in waiting : a[t] = a[u] /\ a[t] # NoWorker => t = u
     /\ \A t \in waiting, w \in Worker :
          a[t] = NoWorker /\ CanTake(ws[w], ts[t].role)
            => \E u \in waiting : u < t /\ a[u] = w}

Backlog(ts) == {t \in task_queue : ts[t].status = "pending"}
Given(a) == {t \in DOMAIN a : a[t] # NoWorker}

\* The table and the store once a pass has handed out the tasks of a.
Occupy(ws, a) ==
  [w \in Worker |-> IF \E t \in Given(a) : a[t] = w THEN [ws[w] EXCEPT !.status = "busy"]
                                                   ELSE ws[w]]
Start(ts, a) ==
  [t \in TaskId |-> IF t \in Given(a) THEN [ts[t] EXCEPT !.status = "running", !.worker_id = a[t]]
                                      ELSE ts[t]]

\* _process_queue, run at the end of a handler that left the worker table ws
\* and the store ts: purge what is no longer pending, then assign and spawn.
ProcessQueue(ws, ts) ==
  \E a \in Passes(ws, ts, Backlog(ts)) :
    /\ workers' = Occupy(ws, a)
    /\ tasks' = Start(ts, a)
    /\ task_queue' = Backlog(ts) \ Given(a)
    /\ spawned' = spawned \cup {<<a[t], t>> : t \in Given(a)}

\* Mutant of Fail: the task goes back to waiting, to be tried elsewhere.
FailRequeues(ts, S) ==
  [t \in TaskId |-> IF t \in S THEN [ts[t] EXCEPT !.status = "pending", !.worker_id = NoWorker]
                              ELSE ts[t]]
Fail(ts, S) ==
  [t \in TaskId |-> IF t \in S THEN [ts[t] EXCEPT !.status = "failed"] ELSE ts[t]]
SetStatus(ws, S, s) ==
  [w \in Worker |-> IF w \in S THEN [ws[w] EXCEPT !.status = s] ELSE ws[w]]
Remove(ws, S) == [w \in Worker |-> IF w \in S THEN Absent ELSE ws[w]]

-----------------------------------------------------------------------------
(* Worker endpoints of handle_request *)

\* /register: refused (503) for a new id once the table is full; a worker that
\* was busy, or that still has a running task, stays busy.
Register(w, roles) ==
  /\ workers[w].status = "absent" => Cardinality(Registered(workers)) < max_workers
  /\ LET status == IF workers[w].status = "busy" \/ RunningOn(tasks, w) # {}
                     THEN "busy" ELSE "idle"
     IN ProcessQueue([workers EXCEPT ![w] = [status |-> status, roles |-> roles, age |-> "fresh"]],
                     tasks)
  /\ UNCHANGED <<task_counter, max_workers, sending, notices>>

\* /heartbeat: 404 for an unknown worker.  The backlog is not looked at.
Heartbeat(w) ==
  /\ workers[w].status # "absent"
  /\ workers' = [workers EXCEPT ![w].age = "fresh"]
  /\ UNCHANGED <<tasks, task_queue, task_counter, max_workers, spawned, sending, notices>>

\* Mutant of Deregister: the worker's tasks are forgotten.
DeregisterForgets(w) ==
  /\ workers[w].status # "absent"
  /\ ProcessQueue(Remove(workers, {w}), tasks)
  /\ UNCHANGED <<task_counter, max_workers, sending, notices>>

\* /deregister: the running tasks of the worker fail, then the table forgets it.
Deregister(w) ==
  /\ workers[w].status # "absent"
  /\ ProcessQueue(Remove(workers, {w}), Fail(tasks, RunningOn(tasks, w)))
  /\ UNCHANGED <<task_counter, max_workers, sending, notices>>

\* Mutants of ReportResult: the status guard is dropped; the ownership check is,
\* and the reporter is recorded; the backlog is not looked at.
ReportOverwrites(w, t, s) ==
  /\ workers[w].status # "absent"
  /\ tasks[t].status # "none"
  /\ tasks[t].worker_id = w
  /\ ProcessQueue(SetStatus(workers, {w}, "idle"), [tasks EXCEPT ![t].status = s])
  /\ UNCHANGED <<task_counter, max_workers, sending, notices>>
ReportFromAnyone(w, t, s) ==
  /\ workers[w].status # "absent"
  /\ tasks[t].status = "running"
  /\ ProcessQueue(SetStatus(workers, {w}, "idle"),
                  [tasks EXCEPT ![t].status = s, ![t].worker_id = w])
  /\ UNCHANGED <<task_counter, max_workers, sending, notices>>
ReportLeavesBacklog(w, t, s) ==
  /\ workers[w].status # "absent"
  /\ tasks[t].status # "none"
  /\ tasks[t].worker_id = w
  /\ workers' = SetStatus(workers, {w}, "idle")
  /\ tasks' = IF tasks[t].status = "running" THEN [tasks EXCEPT ![t].status = s] ELSE tasks
  /\ UNCHANGED <<task_queue, spawned, task_counter, max_workers, sending, notices>>

\* /report_result: accepted from the worker the record names.  The record
\* changes only while it runs; the worker becomes idle in any case.
ReportResult(w, t, s) ==
  /\ workers[w].status # "absent"
  /\ tasks[t].status # "none"
  /\ tasks[t].worker_id = w
  /\ ProcessQueue(SetStatus(workers, {w}, "idle"),
                  IF tasks[t].status = "running" THEN [tasks EXCEPT ![t].status = s] ELSE tasks)
  /\ UNCHANGED <<task_counter, max_workers, sending, notices>>

-----------------------------------------------------------------------------
(* Client endpoints of handle_request *)

\* Mutant of Evict: whatever does not run goes, waiting tasks included.
EvictWaiting(ts) ==
  IF Cardinality({t \in TaskId : ts[t].status # "none"}) >= MAX_TASKS
    THEN [t \in TaskId |-> IF ts[t].status # "running" THEN NoTask ELSE ts[t]]
    ELSE ts

\* BoundedTasks.__setitem__: at MAX_TASKS records every terminal one goes.
Evict(ts) ==
  IF Cardinality({t \in TaskId : ts[t].status # "none"}) >= MAX_TASKS
    THEN [t \in TaskId |-> IF ts[t].status \in Terminal THEN NoTask ELSE ts[t]]
    ELSE ts

\* /dispatch to an idle worker: the task runs at once, past the backlog.
DispatchNow(name, w) ==
  LET t == task_counter + 1 IN
  /\ t \in TaskId
  /\ CanTake(workers[w], name)
  /\ task_counter' = t
  /\ workers' = SetStatus(workers, {w}, "busy")
  /\ tasks' = [Evict(tasks) EXCEPT
                 ![t] = [status |-> "running", role |-> name, worker_id |-> w]]
  /\ spawned' = spawned \cup {<<w, t>>}
  /\ UNCHANGED <<task_queue, max_workers, sending, notices>>

\* /dispatch with nobody idle: the backlog takes it.
DispatchLater(name) ==
  LET t == task_counter + 1 IN
  /\ t \in TaskId
  /\ \A w \in Worker : ~CanTake(workers[w], name)
  /\ Cardinality(task_queue) < MAX_QUEUED_TASKS
  /\ task_counter' = t
  /\ tasks' = [Evict(tasks) EXCEPT
                 ![t] = [status |-> "pending", role |-> name, worker_id |-> NoWorker]]
  /\ task_queue' = task_queue \cup {t}
  /\ UNCHANGED <<workers, max_workers, spawned, sending, notices>>

\* Mutant of DispatchFull: the record is not popped.
DispatchFullKeeps(name) ==
  LET t == task_counter + 1 IN
  /\ t \in TaskId
  /\ \A w \in Worker : ~CanTake(workers[w], name)
  /\ Cardinality(task_queue) >= MAX_QUEUED_TASKS
  /\ task_counter' = t
  /\ tasks' = [Evict(tasks) EXCEPT
                 ![t] = [status |-> "pending", role |-> name, worker_id |-> NoWorker]]
  /\ UNCHANGED <<workers, task_queue, max_workers, spawned, sending, notices>>

\* /dispatch against a full backlog (503): the record is popped again, the id
\* is spent and whatever the insertion evicted stays evicted.
DispatchFull(name) ==
  /\ task_counter + 1 \in TaskId
  /\ \A w \in Worker : ~CanTake(workers[w], name)
  /\ Cardinality(task_queue) >= MAX_QUEUED_TASKS
  /\ task_counter' = task_counter + 1
  /\ tasks' = Evict(tasks)
  /\ UNCHANGED <<workers, task_queue, max_workers, spawned, sending, notices>>

\* /dispatch without a role or data (400): the counter was already advanced.
DispatchInvalid ==
  /\ task_counter + 1 \in TaskId
  /\ task_counter' = task_counter + 1
  /\ UNCHANGED <<workers, tasks, task_queue, max_workers, spawned, sending, notices>>

\* /update_config: a new heartbeat_timeout moves every age the same way; neither
\* value is applied to the workers already registered, and the backlog is not
\* looked at.
UpdateConfig(m) ==
  /\ max_workers' = m
  /\ \E age \in [Registered(workers) -> Age] :
       LET older(a, b) == a = b \/ a = "stale" \/ b = "fresh" IN
       /\ \/ \A w \in Registered(workers) : older(age[w], workers[w].age)
          \/ \A w \in Registered(workers) : older(workers[w].age, age[w])
       /\ workers' = [w \in Worker |->
                        IF w \in Registered(workers) THEN [workers[w] EXCEPT !.age = age[w]]
                                                     ELSE workers[w]]
  /\ UNCHANGED <<tasks, task_queue, task_counter, spawned, sending, notices>>

-----------------------------------------------------------------------------
(* The detached coroutine _dispatch_to_worker(w, t) *)

\* It runs after the handler that spawned it: the record may be gone by then, or
\* there is no socket and no network to send through.  The task then stays as it is.
DispatchSkip(w, t) ==
  /\ <<w, t>> \in spawned
  /\ spawned' = spawned \ {<<w, t>>}
  /\ UNCHANGED <<workers, tasks, task_queue, task_counter, max_workers, sending, notices>>

DispatchSend(w, t) ==
  /\ <<w, t>> \in spawned
  /\ tasks[t].status # "none"
  /\ spawned' = spawned \ {<<w, t>>}
  /\ sending' = sending \cup {<<w, t>>}
  /\ UNCHANGED <<workers, tasks, task_queue, task_counter, max_workers, notices>>

DispatchSent(w, t) ==
  /\ <<w, t>> \in sending
  /\ sending' = sending \ {<<w, t>>}
  /\ UNCHANGED <<workers, tasks, task_queue, task_counter, max_workers, spawned, notices>>

\* The send raised, or the worker answered other than 200: _fail_if_still_ours
\* looks at the owner and not at the status, the worker becomes idle in any case.
DispatchError(w, t) ==
  /\ <<w, t>> \in sending
  /\ sending' = sending \ {<<w, t>>}
  /\ ProcessQueue(SetStatus(workers, {w} \cap Registered(workers), "idle"),
                  IF tasks[t].status # "none" /\ tasks[t].worker_id \in {w, NoWorker}
                    THEN Fail(tasks, {t}) ELSE tasks)
  /\ UNCHANGED <<task_counter, max_workers, notices>>

-----------------------------------------------------------------------------
(* Time and the sweeper *)

\* Time passes without a heartbeat.
Grow(w) ==
  /\ workers[w].status # "absent"
  /\ \/ workers[w].age = "fresh" /\ workers' = [workers EXCEPT ![w].age = "margin"]
     \/ workers[w].age = "margin" /\ workers' = [workers EXCEPT ![w].age = "stale"]
  /\ UNCHANGED <<tasks, task_queue, task_counter, max_workers, spawned, sending, notices>>

Sending(s) == \E w \in Worker, t \in TaskId : <<s, w, t>> \in notices

\* Mutants of Sweep: overdue tasks fail, their workers stay busy; overdue tasks are
\* not looked for at all.
SweepKeepsBusy(s, expired) ==
  LET dead == {w \in Registered(workers) : workers[w].age # "fresh"}
      orphans == UNION {RunningOn(tasks, w) : w \in dead}
  IN
  /\ ~Sending(s)
  /\ dead \cup expired # {}
  /\ expired \subseteq {t \in TaskId : tasks[t].status = "running"} \ orphans
  /\ ProcessQueue(Remove(workers, dead), Fail(tasks, orphans \cup expired))
  /\ UNCHANGED <<task_counter, max_workers, sending, notices>>
SweepOnlyWorkers(s, expired) ==
  LET dead == {w \in Registered(workers) : workers[w].age # "fresh"} IN
  /\ ~Sending(s) /\ dead # {} /\ expired = {}
  /\ ProcessQueue(Remove(workers, dead), Fail(tasks, UNION {RunningOn(tasks, w) : w \in dead}))
  /\ UNCHANGED <<task_counter, max_workers, sending, notices>>

\* The locked half of sweep: prune the workers whose heartbeat is too old and
\* fail what they ran, fail the running tasks older than task_timeout and free
\* their workers.  A loop sweeps again only when its notices are sent.
Sweep(s, expired) ==
  LET dead == {w \in Registered(workers) : workers[w].age # "fresh"}
      orphans == UNION {RunningOn(tasks, w) : w \in dead}
      freed == {tasks[t].worker_id : t \in expired} \cap (Registered(workers) \ dead)
  IN
  /\ ~Sending(s)
  /\ dead \cup expired # {}
  /\ expired \subseteq {t \in TaskId : tasks[t].status = "running"} \ orphans
  /\ ProcessQueue(SetStatus(Remove(workers, dead), freed, "idle"),
                  Fail(tasks, orphans \cup expired))
  /\ notices' = notices \cup
       {<<s, tasks[t].worker_id, t>> : t \in {u \in expired : tasks[u].worker_id \in freed}}
  /\ UNCHANGED <<task_counter, max_workers, sending>>

\* After the lock: one cancel notice goes out, or its send fails.
SendNotice(s, w, t) ==
  /\ <<s, w, t>> \in notices
  /\ notices' = notices \ {<<s, w, t>>}
  /\ UNCHANGED <<workers, tasks, task_queue, task_counter, max_workers, spawned, sending>>

-----------------------------------------------------------------------------
WorkerStep ==
  \E w \in Worker :
    \/ \E roles \in RoleLists : Register(w, roles)
    \/ Heartbeat(w)
    \/ Deregister(w)
    \/ \E t \in TaskId, s \in Terminal : ReportResult(w, t, s)

ClientStep ==
  \/ \E name \in RoleName :
       \/ \E w \in Worker : DispatchNow(name, w)
       \/ DispatchLater(name)
       \/ DispatchFull(name)
  \/ DispatchInvalid
  \/ \E m \in MaxWorkerValues : UpdateConfig(m)

CoroutineStep ==
  \E w \in Worker, t \in TaskId :
    DispatchSkip(w, t) \/ DispatchSend(w, t) \/ DispatchSent(w, t) \/ DispatchError(w, t)

SweeperStep ==
  \/ \E w \in Worker : Grow(w)
  \/ \E s \in Sweeper, expired \in SUBSET TaskId : Sweep(s, expired)
  \/ \E s \in Sweeper, w \in Worker, t \in TaskId : SendNotice(s, w, t)

Next == SweeperStep \/ WorkerStep \/ ClientStep \/ CoroutineStep

Spec == Init /\ [][Next]_hubVars

\* A sweep that settles the running task t: it is overdue, or its worker is dead.
SweepSettles(t) ==
  \E s \in Sweeper, expired \in SUBSET TaskId :
    /\ t \in expired \/ \E w \in Worker : t \in RunningOn(tasks, w) /\ workers[w].age # "fresh"
    /\ Sweep(s, expired)

\* A sweeper loop runs for ever, time passes for every started task, and each
\* pending send of a sweep ends, in success or not.  Nothing is assumed of
\* workers and clients.
Fairness ==
  /\ \A t \in TaskId : WF_hubVars(SweepSettles(t))
  /\ \A s \in Sweeper, w \in Worker, t \in TaskId : WF_hubVars(SendNotice(s, w, t))

FairSpec == Spec /\ Fairness
-----------------------------------------------------------------------------
(* Properties *)

\* Every variable keeps the shape its comment gives it.
TypeOK ==
  /\ workers \in [Worker -> WorkerRecord]
  /\ tasks \in [TaskId -> TaskRecord]
  /\ task_queue \subseteq TaskId
  /\ task_counter \in 0..MaxId
  /\ max_workers \in Nat
  /\ spawned \subseteq Worker \X TaskId
  /\ sending \subseteq Worker \X TaskId
  /\ notices \subseteq Sweeper \X Worker \X TaskId

\* After every handler the backlog holds exactly the pending tasks: none is
\* lost to a path that forgets to enqueue it, and no dead id stays behind.
BacklogIsPending == task_queue = {t \in TaskId : tasks[t].status = "pending"}

\* A running task belongs to a registered worker: however the worker left the
\* table (sweep, /deregister), its tasks were settled in the same step.
RunningIsOwned ==
  \A t \in TaskId : tasks[t].status = "running" =>
    tasks[t].worker_id \in Registered(workers)

\* No worker is lost to a stale flag: whoever is marked busy has a running
\* task, hence something that will mark it idle again.
NoBusyLeak ==
  \A w \in Worker : workers[w].status = "busy" => RunningOn(tasks, w) # {}

\* A dispatch coroutine never speaks for a task that waits or that another
\* worker owns: a stale failure cannot clobber a different attempt.
DispatchSpeaksForOwner ==
  \A p \in spawned \cup sending :
    \/ tasks[p[2]].status = "none"
    \/ tasks[p[2]].status # "pending" /\ tasks[p[2]].worker_id = p[1]

\* A settled task is never run again, and no report turns a failed one into a
\* completed one: what sweep, /deregister or a failed send decided stands.
NoResurrection ==
  [][\A t \in TaskId :
       /\ tasks[t].status \in Terminal => tasks'[t].status \in Terminal \cup {"none"}
       /\ tasks[t].status = "failed" => tasks'[t].status # "completed"]_hubVars

\* Eviction at MAX_TASKS drops settled records only: a live task stays stored
\* until something settles it.
LiveNeverEvicted ==
  [][\A t \in TaskId : tasks[t].status \in {"pending", "running"} => tasks'[t].status # "none"]_hubVars

\* Of two waiting tasks of one role the older one starts first, whatever alias
\* of the role they were dispatched under.
FifoPerRole ==
  [][\A t, u \in task_queue :
       (/\ t < u
        /\ canonical_role[tasks[t].role] = canonical_role[tasks[u].role]
        /\ tasks'[u].status = "running")
       => tasks'[t].status = "running"]_hubVars

\* A waiting task that an idle, live worker could take.
MatchWaiting == \E t \in task_queue, w \in Worker : CanTake(workers[w], tasks[t].role)

\* Every handler that makes a match possible also makes it, except when a
\* stale worker becomes live again: /heartbeat and /update_config do not look at
\* the backlog.
WorkConserving ==
  [][MatchWaiting' /\ ~MatchWaiting =>
       \E w \in Worker : /\ workers[w].status = "idle" /\ workers[w].age = "stale"
                         /\ workers'[w] \in [status : {"idle"}, roles : {workers[w].roles},
                                            age : {"fresh", "margin"}]]_hubVars

\* No task runs for ever, whatever its worker does: the sweeper ends it.
RunningEnds == \A t \in TaskId : tasks[t].status = "running" ~> tasks[t].status # "running"

\* The store implements the task board: ids are issued once, a task keeps its
\* worker from start to end, and a settled one only stays settled or is evicted.
Board == INSTANCE TaskBoard WITH
  Id <- TaskId,
  board <- [t \in TaskId |-> [status |-> tasks[t].status, worker_id |-> tasks[t].worker_id]],
  issued <- task_counter
ImplementsTaskBoard == Board!Spec
=============================================================================
