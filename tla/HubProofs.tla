---------------------------- MODULE HubProofs ----------------------------
(***************************************************************************)
(* Safety of Hub for every set of workers, every role table and every      *)
(* bound; what a step may never do to a task; and Hub as a TaskBoard.      *)
(***************************************************************************)
EXTENDS Hub, TLAPS

\* The invariants, as predicates of a worker table ws and a store ts: a handler
\* first builds the two, then runs ProcessQueue on them.
Typed(ws, ts) ==
  /\ ws \in [Worker -> WorkerRecord]
  /\ ts \in [TaskId -> TaskRecord]
Owned(ws, ts) ==
  \A t \in TaskId : ts[t].status = "running" =>
    ts[t].worker_id \in Worker /\ ws[ts[t].worker_id].status # "absent"
BusyRuns(ws, ts) ==
  \A w \in Worker : ws[w].status = "busy" =>
    \E t \in TaskId : ts[t].status = "running" /\ ts[t].worker_id = w
Unowned(ts) ==
  \A t \in TaskId : ts[t].status \in {"none", "pending"} => ts[t].worker_id = NoWorker
BlankRecords(ts) == \A t \in TaskId : ts[t].status = "none" => ts[t] = NoTask
Speaks(ts, pairs) ==
  \A w \in Worker, t \in TaskId : <<w, t>> \in pairs =>
    \/ ts[t].status = "none"
    \/ ts[t].status # "pending" /\ ts[t].worker_id = w

Sound(ws, ts, pairs) ==
  /\ Typed(ws, ts) /\ Owned(ws, ts) /\ BusyRuns(ws, ts)
  /\ Unowned(ts) /\ BlankRecords(ts) /\ Speaks(ts, pairs)

\* Ids beyond the counter have no record and no coroutine.
Unissued ==
  \A t \in TaskId : t > task_counter =>
    /\ tasks[t].status = "none"
    /\ \A w \in Worker : <<w, t>> \notin spawned \cup sending

IInv ==
  /\ TypeOK
  /\ BacklogIsPending
  /\ Sound(workers, tasks, spawned \cup sending)
  /\ Unissued

USE DEF TaskId, Terminal

-----------------------------------------------------------------------------
\* Assigning to fields of a worker or task record changes those fields only.
LEMMA WorkerAssign ==
  ASSUME NEW r \in WorkerRecord, NEW s \in {"absent", "idle", "busy"}
  PROVE  /\ [r EXCEPT !.status = s] \in WorkerRecord
         /\ [r EXCEPT !.status = s].status = s
         /\ [r EXCEPT !.status = s].roles = r.roles
         /\ [r EXCEPT !.status = s].age = r.age
BY DEF WorkerRecord

\* The same of the age of a worker.
LEMMA WorkerAge ==
  ASSUME NEW r \in WorkerRecord, NEW a \in Age
  PROVE  /\ [r EXCEPT !.age = a] \in WorkerRecord
         /\ [r EXCEPT !.age = a].status = r.status
         /\ [r EXCEPT !.age = a].roles = r.roles
BY DEF WorkerRecord

\* The same of the status of a task.
LEMMA TaskAssign ==
  ASSUME NEW r \in TaskRecord, NEW s \in {"pending", "running"} \cup Terminal
  PROVE  /\ [r EXCEPT !.status = s] \in TaskRecord
         /\ [r EXCEPT !.status = s].status = s
         /\ [r EXCEPT !.status = s].worker_id = r.worker_id
BY DEF TaskRecord

\* Starting a task sets its status and its worker.
LEMMA TaskStart ==
  ASSUME NEW r \in TaskRecord, NEW w \in Worker
  PROVE  /\ [r EXCEPT !.status = "running", !.worker_id = w] \in TaskRecord
         /\ [r EXCEPT !.status = "running", !.worker_id = w].status = "running"
         /\ [r EXCEPT !.status = "running", !.worker_id = w].worker_id = w
BY DEF TaskRecord

-----------------------------------------------------------------------------
\* The backlog q holds exactly the pending tasks of the store ts.
Exact(q, ts) == q = {t \in TaskId : ts[t].status = "pending"}

\* What a pass over the backlog makes of a store ts: W, T, Q and P are the worker table,
\* the store, the backlog and the spawned coroutines after it.
Passed(ts, W, T, Q, P) ==
  /\ Sound(W, T, P \cup sending)
  /\ Exact(Q, T)
  /\ Q \subseteq TaskId
  /\ P \subseteq Worker \X TaskId
  /\ \A t \in TaskId : t > task_counter =>
       /\ T[t].status = "none"
       /\ \A w \in Worker : <<w, t>> \notin P
  /\ spawned \subseteq P
  /\ \A t \in TaskId :
       \/ T[t] = ts[t] /\ \A w \in Worker : <<w, t>> \in P => <<w, t>> \in spawned
       \/ /\ ts[t].status = "pending" /\ T[t].status = "running"
          /\ T[t].worker_id \in Worker /\ <<T[t].worker_id, t>> \in P

\* One pass of the backlog keeps a sound table and store sound, and leaves
\* exactly the pending tasks in the backlog.
LEMMA PassSound ==
  ASSUME TypeOK, Unissued, NEW ws, NEW ts,
         Sound(ws, ts, spawned \cup sending),
         \A t \in TaskId : ts[t].status = "pending" => t \in task_queue,
         \A t \in TaskId : t > task_counter => ts[t].status = "none",
         NEW a \in Passes(ws, ts, Backlog(ts))
  PROVE  Passed(ts, Occupy(ws, a), Start(ts, a), Backlog(ts) \ Given(a),
                spawned \cup {<<a[t], t>> : t \in Given(a)})
<1> DEFINE W == Occupy(ws, a)
           T == Start(ts, a)
           Q == Backlog(ts) \ Given(a)
           P == spawned \cup {<<a[t], t>> : t \in Given(a)}
<1> DEFINE waiting == Backlog(ts)
           given == Given(a)
<1>1. /\ a \in Passes(ws, ts, waiting)
      /\ W = Occupy(ws, a) /\ T = Start(ts, a) /\ Q = waiting \ Given(a)
      /\ P = spawned \cup {<<a[t], t>> : t \in Given(a)}
  OBVIOUS
<1> HIDE DEF W, T, Q, P
<1>2. /\ ws \in [Worker -> WorkerRecord] /\ ts \in [TaskId -> TaskRecord]
      /\ waiting \subseteq TaskId /\ task_queue \subseteq TaskId
  BY DEF Sound, Typed, TypeOK, Backlog
<1>3. \A t \in given : /\ t \in waiting /\ a[t] \in Worker /\ t \in TaskId
                       /\ ts[t].status = "pending" /\ ws[a[t]].status = "idle"
  <2>1. /\ a \in [waiting -> Worker \cup {NoWorker}]
        /\ \A t \in waiting : a[t] # NoWorker => CanTake(ws[a[t]], ts[t].role)
    BY DEF Passes
  <2>2. \A t \in given : t \in waiting /\ a[t] # NoWorker /\ a[t] \in Worker
    BY <2>1 DEF Given
  <2>3. \A t \in waiting : ts[t].status = "pending"
    BY DEF Backlog
  <2>4. QED
    BY <1>2, <2>1, <2>2, <2>3 DEF CanTake
<1>4. \A t \in TaskId :
        IF t \in given
          THEN T[t] = [ts[t] EXCEPT !.status = "running", !.worker_id = a[t]]
          ELSE T[t] = ts[t]
  BY <1>1 DEF Start
<1>5. \A w \in Worker :
        IF \E t \in given : a[t] = w
          THEN W[w] = [ws[w] EXCEPT !.status = "busy"]
          ELSE W[w] = ws[w]
  BY <1>1 DEF Occupy
<1>6. ASSUME NEW t \in given
      PROVE  T[t].status = "running" /\ T[t].worker_id = a[t]
  <2>1. ts[t] \in TaskRecord
    BY <1>2, <1>3
  <2>2. /\ a[t] \in Worker
        /\ T[t] = [ts[t] EXCEPT !.status = "running", !.worker_id = a[t]]
    BY <1>3, <1>4
  <2>3. QED
    BY <2>1, <2>2 DEF TaskRecord
<1>7. Typed(W, T)
  <2>1. ASSUME NEW w \in Worker PROVE W[w] \in WorkerRecord
    <3>1. ws[w] \in WorkerRecord
      BY <1>2
    <3>2. [ws[w] EXCEPT !.status = "busy"] \in WorkerRecord
      BY <3>1, WorkerAssign
    <3>3. QED
      BY <1>5, <3>1, <3>2
  <2>2. ASSUME NEW t \in TaskId PROVE T[t] \in TaskRecord
    <3>1. ts[t] \in TaskRecord
      BY <1>2
    <3>2. t \in given => [ts[t] EXCEPT !.status = "running", !.worker_id = a[t]] \in TaskRecord
      BY <1>3, <3>1, TaskStart
    <3>3. QED
      BY <1>4, <3>1, <3>2
  <2>3. QED
    BY <1>1, <2>1, <2>2 DEF Typed, Occupy, Start
<1>8. Owned(W, T)
  <2> SUFFICES ASSUME NEW t \in TaskId, T[t].status = "running"
               PROVE  /\ T[t].worker_id \in Worker
                      /\ W[T[t].worker_id].status # "absent"
    BY DEF Owned
  <2>1. CASE t \in given
    <3>1. W[a[t]] = [ws[a[t]] EXCEPT !.status = "busy"]
      BY <1>3, <1>5, <2>1
    <3>2. W[a[t]].status = "busy"
      <4>1. ws[a[t]] \in WorkerRecord
        BY <1>2, <1>3, <2>1
      <4>2. QED
        BY <3>1, <4>1, WorkerAssign
    <3>3. QED
      BY <1>3, <1>6, <2>1, <3>2
  <2>2. CASE t \notin given
    <3>1. /\ T[t] = ts[t] /\ ts[t].worker_id \in Worker
          /\ ws[ts[t].worker_id].status # "absent"
      BY <1>4, <2>2 DEF Sound, Owned
    <3>2. ws[ts[t].worker_id] \in WorkerRecord
      BY <1>2, <3>1
    <3>3. [ws[ts[t].worker_id] EXCEPT !.status = "busy"].status = "busy"
      BY <3>2, WorkerAssign
    <3>4. W[ts[t].worker_id].status # "absent"
      BY <1>5, <3>1, <3>3
    <3>5. QED
      BY <3>1, <3>4
  <2>3. QED
    BY <2>1, <2>2
<1>9. BusyRuns(W, T)
  <2> SUFFICES ASSUME NEW w \in Worker, W[w].status = "busy"
               PROVE  \E t \in TaskId : T[t].status = "running" /\ T[t].worker_id = w
    BY DEF BusyRuns
  <2>1. CASE \E t \in given : a[t] = w
    BY <1>3, <1>6, <2>1
  <2>2. CASE ~\E t \in given : a[t] = w
    <3>1. PICK t \in TaskId : ts[t].status = "running" /\ ts[t].worker_id = w
      BY <1>5, <2>2 DEF Sound, BusyRuns
    <3>2. t \notin given
      BY <1>3, <3>1
    <3>3. QED
      BY <1>4, <3>1, <3>2
  <2>3. QED
    BY <2>1, <2>2
<1>10. Unowned(T) /\ BlankRecords(T)
  <2> SUFFICES ASSUME NEW t \in TaskId
               PROVE  /\ T[t].status \in {"none", "pending"} => T[t].worker_id = NoWorker
                      /\ T[t].status = "none" => T[t] = NoTask
    BY DEF Unowned, BlankRecords
  <2>1. CASE t \in given
    BY <1>6, <2>1
  <2>2. CASE t \notin given
    BY <1>4, <2>2 DEF Sound, Unowned, BlankRecords
  <2> QED BY <2>1, <2>2
<1>11. Speaks(T, P \cup sending)
  <2> SUFFICES ASSUME NEW w \in Worker, NEW t \in TaskId, <<w, t>> \in P \cup sending
               PROVE  \/ T[t].status = "none"
                      \/ T[t].status # "pending" /\ T[t].worker_id = w
    BY DEF Speaks
  <2>1. CASE <<w, t>> \in spawned \cup sending
    <3>1. t \notin given
      BY <1>2, <1>3, <2>1, HubAssumption DEF Sound, Speaks, Unowned
    <3>2. QED
      BY <1>4, <2>1, <3>1 DEF Sound, Speaks
  <2>2. CASE <<w, t>> \notin spawned \cup sending
    <3>1. t \in given /\ a[t] = w
      BY <1>1, <2>2
    <3>2. QED
      BY <1>6, <3>1
  <2>3. QED
    BY <2>1, <2>2
<1>12. Exact(Q, T) /\ Q \subseteq TaskId
  <2>1. \A t \in TaskId : t \in waiting <=> ts[t].status = "pending"
    BY DEF Backlog
  <2>2. \A t \in TaskId : t \in Q <=> t \in waiting /\ t \notin given
    BY <1>1
  <2>3. \A t \in TaskId : t \in Q <=> T[t].status = "pending"
    <3> HIDE DEF waiting, given
    <3> QED
      BY <1>4, <1>6, <2>1, <2>2
  <2>4. Q \subseteq TaskId
    BY <1>1, <1>2
  <2>5. QED
    BY <2>3, <2>4 DEF Exact
<1>13. P \subseteq Worker \X TaskId
  <2>1. spawned \subseteq Worker \X TaskId
    BY DEF TypeOK
  <2>2. \A t \in given : <<a[t], t>> \in Worker \X TaskId
    BY <1>3
  <2>3. QED
    BY <1>1, <2>1, <2>2
<1>14. \A t \in TaskId : t > task_counter =>
         /\ T[t].status = "none"
         /\ \A w \in Worker : <<w, t>> \notin P
  BY <1>1, <1>3, <1>4 DEF Unissued
<1>15. ASSUME NEW t \in TaskId
       PROVE  \/ T[t] = ts[t] /\ \A w \in Worker : <<w, t>> \in P => <<w, t>> \in spawned
              \/ /\ ts[t].status = "pending" /\ T[t].status = "running"
                 /\ T[t].worker_id \in Worker /\ <<T[t].worker_id, t>> \in P
  <2>1. CASE t \in given
    BY <1>1, <1>3, <1>6, <2>1
  <2>2. CASE t \notin given
    BY <1>1, <1>4, <2>2
  <2> QED BY <2>1, <2>2
<1>16. Sound(W, T, P \cup sending)
  BY <1>7, <1>8, <1>9, <1>10, <1>11 DEF Sound
<1>17. Passed(ts, W, T, Q, P)
  BY <1>1, <1>12, <1>13, <1>14, <1>15, <1>16 DEF Passed
<1> QED BY <1>17 DEF W, T, Q, P

\* The same of the pass at the end of a handler.
LEMMA ProcessQueueSound ==
  ASSUME TypeOK, Unissued, NEW ws, NEW ts,
         Sound(ws, ts, spawned \cup sending),
         \A t \in TaskId : ts[t].status = "pending" => t \in task_queue,
         \A t \in TaskId : t > task_counter => ts[t].status = "none",
         ProcessQueue(ws, ts)
  PROVE  Passed(ts, workers', tasks', task_queue', spawned')
<1>1. PICK a \in Passes(ws, ts, Backlog(ts)) :
        /\ workers' = Occupy(ws, a)
        /\ tasks' = Start(ts, a)
        /\ task_queue' = Backlog(ts) \ Given(a)
        /\ spawned' = spawned \cup {<<a[t], t>> : t \in Given(a)}
  BY DEF ProcessQueue
<1> QED BY <1>1, PassSound

\* A pass, and nothing else but ends of sends and new notices, keeps the invariant.
LEMMA PassKeepsIInv ==
  ASSUME IInv, NEW ts, Passed(ts, workers', tasks', task_queue', spawned'),
         task_counter' = task_counter, max_workers' = max_workers,
         sending' \subseteq sending, notices' \subseteq Sweeper \X Worker \X TaskId
  PROVE  IInv'
<1>1. TypeOK /\ Unissued
  BY DEF IInv
<1>2. /\ Sound(workers', tasks', spawned' \cup sending)
      /\ BacklogIsPending'
      /\ task_queue' \subseteq TaskId
      /\ spawned' \subseteq Worker \X TaskId
      /\ \A t \in TaskId : t > task_counter =>
           /\ tasks'[t].status = "none"
           /\ \A w \in Worker : <<w, t>> \notin spawned'
  BY DEF Passed, Exact, BacklogIsPending
<1>3. TypeOK'
  BY <1>1, <1>2 DEF TypeOK, Sound, Typed
<1>4. Sound(workers', tasks', spawned' \cup sending')
  BY <1>2 DEF Sound, Speaks
<1>5. Unissued'
  BY <1>1, <1>2 DEF Unissued
<1>6. QED
  BY <1>2, <1>3, <1>4, <1>5 DEF IInv

\* A handler that hands a sound table and store to ProcessQueue keeps the
\* invariant.
LEMMA HandlerKeepsIInv ==
  ASSUME IInv, NEW ws, NEW ts,
         Sound(ws, ts, spawned \cup sending),
         \A t \in TaskId : ts[t].status = "pending" => t \in task_queue,
         \A t \in TaskId : t > task_counter => ts[t].status = "none",
         ProcessQueue(ws, ts),
         task_counter' = task_counter, max_workers' = max_workers,
         sending' \subseteq sending, notices' \subseteq Sweeper \X Worker \X TaskId
  PROVE  IInv'
<1>1. TypeOK /\ Unissued
  BY DEF IInv
<1>2. Passed(ts, workers', tasks', task_queue', spawned')
  BY <1>1, ProcessQueueSound
<1>3. QED
  BY <1>2, PassKeepsIInv

\* A handler that leaves the task records alone and only redates a worker.
LEMMA RedatingKeepsSound ==
  ASSUME NEW ws, NEW ts, NEW pairs, NEW f, Sound(ws, ts, pairs),
         f \in [Worker -> WorkerRecord],
         \A w \in Worker : f[w].status = ws[w].status
  PROVE  Sound(f, ts, pairs)
BY DEF Sound, Typed, Owned, BusyRuns

\* From workers and tasks to ws and ts, the tasks in S are settled and their
\* workers are removed or made idle; no other worker with a running task leaves.
Settles(S, ws, ts) ==
  /\ S \subseteq TaskId
  /\ Typed(ws, ts)
  /\ \A t \in S : tasks[t].status # "none" /\ tasks[t].worker_id \in Worker
  /\ \A w \in Worker : (\E t \in S : tasks[t].worker_id = w) => ws[w].status # "busy"
  /\ \A w \in Worker : ws[w].status = "busy" => workers[w].status = "busy"
  /\ \A t \in TaskId : tasks[t].status = "running" /\ t \notin S =>
       ws[tasks[t].worker_id].status # "absent"
  /\ \A t \in TaskId : /\ ts[t].worker_id = tasks[t].worker_id
                       /\ t \in S => ts[t].status \in Terminal
                       /\ t \notin S => ts[t] = tasks[t]

\* A handler that settles tasks keeps the store sound: no worker is left busy with them.
LEMMA SettlingKeepsSound ==
  ASSUME IInv, NEW S, NEW ws, NEW ts, Settles(S, ws, ts)
  PROVE  /\ Sound(ws, ts, spawned \cup sending)
         /\ \A t \in TaskId : ts[t].status = "pending" => t \in task_queue
         /\ \A t \in TaskId : t > task_counter => ts[t].status = "none"
<1>1. Sound(workers, tasks, spawned \cup sending)
  BY DEF IInv
<1>2. Owned(ws, ts)
  BY <1>1 DEF Sound, Owned, Settles
<1>3. BusyRuns(ws, ts)
  <2> SUFFICES ASSUME NEW w \in Worker, ws[w].status = "busy"
               PROVE  \E t \in TaskId : ts[t].status = "running" /\ ts[t].worker_id = w
    BY DEF BusyRuns
  <2>1. PICK t \in TaskId : tasks[t].status = "running" /\ tasks[t].worker_id = w
    BY <1>1 DEF Sound, BusyRuns, Settles
  <2>2. t \notin S
    BY <2>1 DEF Settles
  <2>3. QED
    BY <2>1, <2>2 DEF Settles
<1>4. Unowned(ts) /\ BlankRecords(ts)
  BY <1>1 DEF Sound, Unowned, BlankRecords, Settles
<1>5. Speaks(ts, spawned \cup sending)
  BY <1>1 DEF Sound, Speaks, Settles
<1>6. \A t \in TaskId : ts[t].status = "pending" => t \in task_queue
  BY DEF IInv, BacklogIsPending, Settles
<1>7. \A t \in TaskId : t > task_counter => ts[t].status = "none"
  BY DEF IInv, Unissued, Settles
<1>8. QED
  BY <1>2, <1>3, <1>4, <1>5, <1>6, <1>7 DEF Sound, Settles

\* Failing a set of tasks settles them and no others.
LEMMA FailTasks ==
  ASSUME TypeOK, NEW S \in SUBSET TaskId
  PROVE  /\ Fail(tasks, S) \in [TaskId -> TaskRecord]
         /\ \A t \in TaskId :
              /\ Fail(tasks, S)[t].worker_id = tasks[t].worker_id
              /\ t \in S => Fail(tasks, S)[t].status = "failed"
              /\ t \notin S => Fail(tasks, S)[t] = tasks[t]
<1>1. \A t \in TaskId : tasks[t] \in TaskRecord
  BY DEF TypeOK
<1>2. \A t \in TaskId :
        /\ [tasks[t] EXCEPT !.status = "failed"] \in TaskRecord
        /\ [tasks[t] EXCEPT !.status = "failed"].status = "failed"
        /\ [tasks[t] EXCEPT !.status = "failed"].worker_id = tasks[t].worker_id
  BY <1>1 DEF TaskRecord
<1>3. QED
  BY <1>1, <1>2 DEF Fail

\* Giving a set of workers a status leaves the others alone.
LEMMA SetWorkers ==
  ASSUME NEW ws \in [Worker -> WorkerRecord], NEW S, NEW s \in {"idle", "busy"}
  PROVE  /\ SetStatus(ws, S, s) \in [Worker -> WorkerRecord]
         /\ \A w \in Worker :
              /\ w \in S => SetStatus(ws, S, s)[w].status = s
              /\ w \notin S => SetStatus(ws, S, s)[w] = ws[w]
<1>1. \A w \in Worker : /\ [ws[w] EXCEPT !.status = s] \in WorkerRecord
                        /\ [ws[w] EXCEPT !.status = s].status = s
  BY DEF WorkerRecord
<1>2. QED
  BY <1>1 DEF SetStatus

\* Removing workers leaves the others alone.
LEMMA RemoveWorkers ==
  ASSUME NEW ws \in [Worker -> WorkerRecord], NEW S
  PROVE  /\ Remove(ws, S) \in [Worker -> WorkerRecord]
         /\ \A w \in Worker :
              /\ w \in S => Remove(ws, S)[w].status = "absent"
              /\ w \notin S => Remove(ws, S)[w] = ws[w]
<1>1. Absent \in WorkerRecord /\ Absent.status = "absent"
  BY DEF Absent, WorkerRecord, Age
<1>2. QED
  BY <1>1 DEF Remove

-----------------------------------------------------------------------------
(* Each handler keeps the invariant *)

\* The table of a /register: a worker is added, or replaced with the status its tasks
\* call for.
ServingStatus(w) == IF workers[w].status = "busy" \/ RunningOn(tasks, w) # {} THEN "busy" ELSE "idle"
WithWorker(w, roles) ==
  [workers EXCEPT ![w] = [status |-> ServingStatus(w), roles |-> roles, age |-> "fresh"]]

LEMMA RegisterSound ==
  ASSUME IInv, NEW w \in Worker, NEW roles \in RoleLists
  PROVE  /\ Sound(WithWorker(w, roles), tasks, spawned \cup sending)
         /\ WithWorker(w, roles) \in [Worker -> WorkerRecord]
         /\ \A v \in Worker : /\ v = w => WithWorker(w, roles)[v].status = ServingStatus(w)
                              /\ v # w => WithWorker(w, roles)[v] = workers[v]
         /\ \A t \in TaskId : tasks[t].status = "pending" => t \in task_queue
         /\ \A t \in TaskId : t > task_counter => tasks[t].status = "none"
<1> DEFINE status == ServingStatus(w)
           new == [status |-> status, roles |-> roles, age |-> "fresh"]
           ws == WithWorker(w, roles)
<1>1. Sound(workers, tasks, spawned \cup sending) /\ TypeOK
  BY DEF IInv
<1>2. new \in WorkerRecord /\ new.status = status
  BY HubAssumption DEF WorkerRecord, Age, ServingStatus
<1> HIDE DEF new
<1>3. ws \in [Worker -> WorkerRecord] /\ \A v \in Worker : ws[v] = IF v = w THEN new ELSE workers[v]
  BY <1>1, <1>2 DEF TypeOK, WithWorker, new
<1> HIDE DEF ws
<1>4. \A v \in Worker : /\ v = w => ws[v].status = status
                        /\ v # w => ws[v] = workers[v]
  BY <1>2, <1>3
<1>5. Owned(ws, tasks)
  BY <1>1, <1>4 DEF Sound, Owned, ServingStatus
<1>6. BusyRuns(ws, tasks)
  <2> SUFFICES ASSUME NEW v \in Worker, ws[v].status = "busy"
               PROVE  \E t \in TaskId : tasks[t].status = "running" /\ tasks[t].worker_id = v
    BY DEF BusyRuns
  <2>1. CASE workers[v].status = "busy"
    BY <1>1, <2>1 DEF Sound, BusyRuns
  <2>2. CASE workers[v].status # "busy"
    <3>1. v = w /\ RunningOn(tasks, w) # {}
      BY <1>4, <2>2 DEF ServingStatus
    <3>2. QED
      BY <3>1 DEF RunningOn
  <2>3. QED
    BY <2>1, <2>2
<1>7. Sound(ws, tasks, spawned \cup sending)
  BY <1>1, <1>3, <1>5, <1>6 DEF Sound, Typed
<1>8. /\ \A t \in TaskId : tasks[t].status = "pending" => t \in task_queue
      /\ \A t \in TaskId : t > task_counter => tasks[t].status = "none"
  BY DEF IInv, BacklogIsPending, Unissued
<1> QED BY <1>3, <1>4, <1>7, <1>8 DEF ws

LEMMA RegisterKeepsIInv ==
  ASSUME IInv, NEW w \in Worker, NEW roles \in RoleLists, Register(w, roles)
  PROVE  IInv'
<1> DEFINE ws == WithWorker(w, roles)
<1>1. /\ ProcessQueue(ws, tasks)
      /\ task_counter' = task_counter /\ max_workers' = max_workers
      /\ sending' = sending /\ notices' = notices
  BY DEF Register, WithWorker, ServingStatus
<1>2. TypeOK
  BY DEF IInv
<1> HIDE DEF ws
<1>3. /\ Sound(ws, tasks, spawned \cup sending)
      /\ \A t \in TaskId : tasks[t].status = "pending" => t \in task_queue
      /\ \A t \in TaskId : t > task_counter => tasks[t].status = "none"
  BY RegisterSound DEF ws
<1> QED BY <1>1, <1>2, <1>3, HandlerKeepsIInv DEF TypeOK

\* /deregister: a worker leaves and its running tasks fail.
LEMMA DeregisterKeepsIInv ==
  ASSUME IInv, NEW w \in Worker, Deregister(w)
  PROVE  IInv'
<1> DEFINE ws == Remove(workers, {w})
           S == RunningOn(tasks, w)
           ts == Fail(tasks, S)
<1>1. /\ ProcessQueue(ws, ts)
      /\ task_counter' = task_counter /\ max_workers' = max_workers
      /\ sending' = sending /\ notices' = notices
  BY DEF Deregister
<1>2. TypeOK /\ S \in SUBSET TaskId
  BY DEF IInv, RunningOn
<1>3. /\ ws \in [Worker -> WorkerRecord]
      /\ \A v \in Worker : /\ v = w => ws[v].status = "absent"
                           /\ v # w => ws[v] = workers[v]
  BY <1>2, RemoveWorkers DEF TypeOK
<1>4. /\ ts \in [TaskId -> TaskRecord]
      /\ \A t \in TaskId : /\ ts[t].worker_id = tasks[t].worker_id
                           /\ t \in S => ts[t].status = "failed"
                           /\ t \notin S => ts[t] = tasks[t]
  BY <1>2, FailTasks
<1>5. \A t \in S : tasks[t].status = "running" /\ tasks[t].worker_id = w
  BY DEF RunningOn
<1>6. \A t \in TaskId : tasks[t].status = "running" /\ t \notin S =>
        ws[tasks[t].worker_id].status # "absent"
  BY <1>3 DEF IInv, Sound, Owned, RunningOn
<1>7. Settles(S, ws, ts)
  <2> HIDE DEF ws, ts, S
  <2>1. \A t \in TaskId : t \in S => ts[t].status \in Terminal
    BY <1>4
  <2>2. QED
    BY <1>2, <1>3, <1>4, <1>5, <1>6, <2>1 DEF Settles, Typed
<1>8. QED
  <2> HIDE DEF ws, ts, S
  <2> QED
    BY <1>1, <1>2, <1>7, SettlingKeepsSound, HandlerKeepsIInv DEF TypeOK

\* The table and the store of a /report_result: a task is settled and its worker set free.
WithFree(w) == SetStatus(workers, {w}, "idle")
WithResult(t, s) == IF tasks[t].status = "running" THEN [tasks EXCEPT ![t].status = s] ELSE tasks

LEMMA ReportSound ==
  ASSUME IInv, NEW w \in Worker, NEW t \in TaskId, NEW s \in Terminal,
         workers[w].status # "absent", tasks[t].worker_id = w
  PROVE  /\ Sound(WithFree(w), WithResult(t, s), spawned \cup sending)
         /\ WithFree(w) \in [Worker -> WorkerRecord]
         /\ \A v \in Worker : /\ v = w => WithFree(w)[v].status = "idle"
                              /\ v # w => WithFree(w)[v] = workers[v]
         /\ WithResult(t, s) \in [TaskId -> TaskRecord]
         /\ \A u \in TaskId :
              IF u = t /\ tasks[t].status = "running"
                THEN WithResult(t, s)[u].status = s /\ WithResult(t, s)[u].worker_id = tasks[u].worker_id
                ELSE WithResult(t, s)[u] = tasks[u]
         /\ \A u \in TaskId : WithResult(t, s)[u].status = "pending" => u \in task_queue
         /\ \A u \in TaskId : u > task_counter => WithResult(t, s)[u].status = "none"
<1> DEFINE ws == WithFree(w)
           ts == WithResult(t, s)
           S == IF tasks[t].status = "running" THEN {t} ELSE {}
<1>1. TypeOK
  BY DEF IInv
<1>2. /\ ws \in [Worker -> WorkerRecord]
      /\ \A v \in Worker : /\ v = w => ws[v].status = "idle"
                           /\ v # w => ws[v] = workers[v]
  BY <1>1, SetWorkers DEF TypeOK, WithFree
<1>3. /\ ts \in [TaskId -> TaskRecord]
      /\ \A u \in TaskId :
           IF u = t /\ tasks[t].status = "running"
             THEN ts[u].status = s /\ ts[u].worker_id = tasks[u].worker_id
             ELSE ts[u] = tasks[u]
  <2> DEFINE q == [tasks[t] EXCEPT !.status = s]
  <2>1. tasks \in [TaskId -> TaskRecord]
    BY <1>1 DEF TypeOK
  <2>2. q \in TaskRecord /\ q.status = s /\ q.worker_id = tasks[t].worker_id
    BY <2>1, TaskAssign
  <2> HIDE DEF q
  <2>3. ts = IF tasks[t].status = "running" THEN [tasks EXCEPT ![t] = q] ELSE tasks
    BY DEF WithResult, q
  <2> HIDE DEF ts
  <2> QED BY <2>1, <2>2, <2>3
<1>4. \A u \in TaskId : /\ ts[u].worker_id = tasks[u].worker_id
                        /\ u \in S => ts[u].status \in Terminal
                        /\ u \notin S => ts[u] = tasks[u]
  <2> HIDE DEF ts
  <2> QED BY <1>3
<1>5. \A u \in TaskId : tasks[u].status = "running" /\ u \notin S =>
        ws[tasks[u].worker_id].status # "absent"
  BY <1>2 DEF IInv, Sound, Owned
<1>6. Settles(S, ws, ts)
  <2>1. \A u \in S : u = t /\ tasks[u].status = "running" /\ tasks[u].worker_id = w
    OBVIOUS
  <2> HIDE DEF ws, ts, S
  <2>2. S \subseteq TaskId
    BY <2>1
  <2>3. QED
    BY <1>2, <1>3, <1>4, <1>5, <2>1, <2>2 DEF Settles, Typed
<1> HIDE DEF ws, ts, S
<1>7. /\ Sound(ws, ts, spawned \cup sending)
      /\ \A u \in TaskId : ts[u].status = "pending" => u \in task_queue
      /\ \A u \in TaskId : u > task_counter => ts[u].status = "none"
  BY <1>6, SettlingKeepsSound
<1> QED BY <1>2, <1>3, <1>7 DEF ws, ts

LEMMA ReportKeepsIInv ==
  ASSUME IInv, NEW w \in Worker, NEW t \in TaskId, NEW s \in Terminal, ReportResult(w, t, s)
  PROVE  IInv'
<1> DEFINE ws == WithFree(w)
           ts == WithResult(t, s)
<1>1. /\ ProcessQueue(ws, ts) /\ tasks[t].worker_id = w /\ workers[w].status # "absent"
      /\ task_counter' = task_counter /\ max_workers' = max_workers
      /\ sending' = sending /\ notices' = notices
  BY DEF ReportResult, WithFree, WithResult
<1>2. TypeOK
  BY DEF IInv
<1>3. /\ Sound(ws, ts, spawned \cup sending)
      /\ \A u \in TaskId : ts[u].status = "pending" => u \in task_queue
      /\ \A u \in TaskId : u > task_counter => ts[u].status = "none"
  <2>1. tasks[t].worker_id = w /\ workers[w].status # "absent"
    BY <1>1
  <2>2. Sound(ws, ts, spawned \cup sending)
    BY <2>1, ReportSound
  <2>3. \A u \in TaskId : ts[u].status = "pending" => u \in task_queue
    BY <2>1, ReportSound
  <2>4. \A u \in TaskId : u > task_counter => ts[u].status = "none"
    BY <2>1, ReportSound
  <2> QED BY <2>2, <2>3, <2>4
<1> HIDE DEF ws, ts
<1> QED BY <1>1, <1>2, <1>3, HandlerKeepsIInv DEF TypeOK

\* A failed send: its worker is set free and its task fails, unless it is of another worker.
LEMMA DispatchErrorKeepsIInv ==
  ASSUME IInv, NEW w \in Worker, NEW t \in TaskId, DispatchError(w, t)
  PROVE  IInv'
<1> DEFINE ws == SetStatus(workers, {w} \cap Registered(workers), "idle")
           mine == tasks[t].status # "none" /\ tasks[t].worker_id \in {w, NoWorker}
           S == IF mine THEN {t} ELSE {}
           ts == IF mine THEN Fail(tasks, {t}) ELSE tasks
<1>1. /\ ProcessQueue(ws, ts) /\ <<w, t>> \in sending
      /\ task_counter' = task_counter /\ max_workers' = max_workers
      /\ sending' = sending \ {<<w, t>>} /\ notices' = notices
  BY DEF DispatchError
<1>2. TypeOK
  BY DEF IInv
<1>3. /\ ws \in [Worker -> WorkerRecord]
      /\ \A v \in Worker :
           /\ v = w /\ workers[v].status # "absent" => ws[v].status = "idle"
           /\ v # w \/ workers[v].status = "absent" => ws[v] = workers[v]
  BY <1>2, SetWorkers DEF TypeOK, Registered
<1>4. /\ ts \in [TaskId -> TaskRecord]
      /\ \A u \in TaskId : /\ ts[u].worker_id = tasks[u].worker_id
                           /\ u \in S => ts[u].status = "failed"
                           /\ u \notin S => ts[u] = tasks[u]
  <2>1. CASE mine
    BY <1>2, <2>1, FailTasks
  <2>2. CASE ~mine
    BY <1>2, <2>2 DEF TypeOK
  <2>3. QED
    BY <2>1, <2>2
\* The coroutine of a task never outlives its ownership: None is not reached.
<1>5. \A u \in S : u = t /\ tasks[u].status # "none" /\ tasks[u].worker_id = w
  BY <1>1 DEF IInv, Sound, Speaks
<1>6. \A u \in TaskId : tasks[u].status = "running" /\ u \notin S =>
        ws[tasks[u].worker_id].status # "absent"
  BY <1>3 DEF IInv, Sound, Owned
<1>7. Settles(S, ws, ts)
  <2> HIDE DEF ws, ts, S
  <2>1. S \subseteq TaskId /\ \A u \in S : ts[u].status \in Terminal
    BY <1>4, <1>5
  <2>2. QED
    BY <1>3, <1>4, <1>5, <1>6, <2>1 DEF Settles, Typed
<1>8. QED
  <2> HIDE DEF ws, ts, S
  <2> QED
    BY <1>1, <1>2, <1>7, SettlingKeepsSound, HandlerKeepsIInv DEF TypeOK

\* A sweep: dead workers leave, their tasks and the overdue ones fail.
LEMMA SweepKeepsIInv ==
  ASSUME IInv, NEW s \in Sweeper, NEW expired \in SUBSET TaskId, Sweep(s, expired)
  PROVE  IInv'
<1> DEFINE dead == {w \in Registered(workers) : workers[w].age # "fresh"}
           orphans == UNION {RunningOn(tasks, w) : w \in dead}
           freed == {tasks[t].worker_id : t \in expired} \cap (Registered(workers) \ dead)
           ws == SetStatus(Remove(workers, dead), freed, "idle")
           S == orphans \cup expired
           ts == Fail(tasks, S)
<1>1. /\ ProcessQueue(ws, ts)
      /\ expired \subseteq {t \in TaskId : tasks[t].status = "running"} \ orphans
      /\ task_counter' = task_counter /\ max_workers' = max_workers /\ sending' = sending
      /\ notices' = notices \cup
           {<<s, tasks[t].worker_id, t>> : t \in {u \in expired : tasks[u].worker_id \in freed}}
  BY DEF Sweep
<1>2. TypeOK /\ dead \subseteq Worker /\ freed \subseteq Worker
  BY DEF IInv, Registered
<1>3. \A t \in S : /\ t \in TaskId /\ tasks[t].status = "running"
                   /\ tasks[t].worker_id \in dead \cup freed
  <2>1. \A t \in orphans : /\ t \in TaskId /\ tasks[t].status = "running"
                           /\ tasks[t].worker_id \in dead
    BY DEF RunningOn
  <2>2. \A t \in expired : /\ t \in TaskId /\ tasks[t].status = "running"
                           /\ tasks[t].worker_id \in Registered(workers)
    BY <1>1 DEF IInv, Sound, Owned, Registered
  <2>3. \A t \in expired : tasks[t].worker_id \notin dead
    BY <1>1, <2>2 DEF RunningOn
  <2>4. QED
    BY <2>1, <2>2, <2>3
<1>4. \A t \in TaskId : tasks[t].status = "running" /\ t \notin S => tasks[t].worker_id \notin dead
  BY DEF RunningOn
<1>5. /\ ws \in [Worker -> WorkerRecord]
      /\ \A w \in Worker : /\ w \in dead => ws[w].status \in {"absent", "idle"}
                           /\ w \in freed => ws[w].status = "idle"
                           /\ w \notin dead \cup freed => ws[w] = workers[w]
  <2> HIDE DEF dead, freed
  <2>1. workers \in [Worker -> WorkerRecord]
    BY <1>2 DEF TypeOK
  <2>2. /\ Remove(workers, dead) \in [Worker -> WorkerRecord]
        /\ \A w \in Worker : /\ w \in dead => Remove(workers, dead)[w].status = "absent"
                             /\ w \notin dead => Remove(workers, dead)[w] = workers[w]
    BY <2>1, RemoveWorkers
  <2>3. QED
    BY <2>2, SetWorkers
<1>6. /\ ts \in [TaskId -> TaskRecord]
      /\ \A t \in TaskId : /\ ts[t].worker_id = tasks[t].worker_id
                           /\ t \in S => ts[t].status = "failed"
                           /\ t \notin S => ts[t] = tasks[t]
  <2>1. S \in SUBSET TaskId
    BY <1>3
  <2>2. QED
    BY <1>2, <2>1, FailTasks
<1>7. Settles(S, ws, ts)
  <2>1. \A w \in Worker : (\E t \in S : tasks[t].worker_id = w) => ws[w].status # "busy"
    BY <1>3, <1>5
  <2>2. \A w \in Worker : ws[w].status = "busy" => workers[w].status = "busy"
    BY <1>5
  <2>3. \A t \in TaskId : tasks[t].status = "running" /\ t \notin S =>
          ws[tasks[t].worker_id].status # "absent"
    BY <1>4, <1>5 DEF IInv, Sound, Owned
  <2>4. /\ \A t \in S : tasks[t].status # "none" /\ tasks[t].worker_id \in Worker
        /\ S \subseteq TaskId /\ \A t \in S : ts[t].status \in Terminal
    BY <1>2, <1>3, <1>6
  <2> HIDE DEF ws, ts, S
  <2>5. QED
    BY <1>5, <1>6, <2>1, <2>2, <2>3, <2>4 DEF Settles, Typed
<1>8. notices' \subseteq Sweeper \X Worker \X TaskId
  BY <1>1, <1>2 DEF TypeOK
<1>9. /\ Sound(ws, ts, spawned \cup sending)
      /\ \A t \in TaskId : ts[t].status = "pending" => t \in task_queue
      /\ \A t \in TaskId : t > task_counter => ts[t].status = "none"
  <2> HIDE DEF ws, ts, S
  <2> QED
    BY <1>7, SettlingKeepsSound
<1>10. /\ ProcessQueue(ws, ts) /\ task_counter' = task_counter
       /\ max_workers' = max_workers /\ sending' \subseteq sending
  BY <1>1
<1>11. QED
  <2> HIDE DEF ws, ts, S
  <2> QED
    BY <1>8, <1>9, <1>10, HandlerKeepsIInv

-----------------------------------------------------------------------------
(* Each /dispatch keeps the invariant *)

\* Eviction drops terminal records only, each entirely.
LEMMA EvictTasks ==
  ASSUME TypeOK
  PROVE  /\ Evict(tasks) \in [TaskId -> TaskRecord]
         /\ \A t \in TaskId :
              \/ Evict(tasks)[t] = tasks[t]
              \/ Evict(tasks)[t] = NoTask /\ tasks[t].status \in Terminal
<1>1. NoTask \in TaskRecord
  BY DEF NoTask, TaskRecord
<1>2. QED
  BY <1>1 DEF Evict, TypeOK

\* Dropping terminal records keeps a sound store sound: no worker runs them.
LEMMA EvictKeepsSound ==
  ASSUME IInv
  PROVE  /\ Sound(workers, Evict(tasks), spawned \cup sending)
         /\ \A t \in TaskId : Evict(tasks)[t].status = "pending" <=> tasks[t].status = "pending"
         /\ \A t \in TaskId : t > task_counter => Evict(tasks)[t].status = "none"
<1> DEFINE ts == Evict(tasks)
<1>1. /\ ts \in [TaskId -> TaskRecord]
      /\ \A t \in TaskId : \/ ts[t] = tasks[t]
                           \/ ts[t] = NoTask /\ tasks[t].status \in Terminal
  BY EvictTasks DEF IInv
<1>2. NoTask.status = "none" /\ NoTask.worker_id = NoWorker
  BY DEF NoTask
<1>3. Sound(workers, tasks, spawned \cup sending)
  BY DEF IInv
<1> HIDE DEF ts
<1>4. Typed(workers, ts)
  BY <1>1, <1>3 DEF Sound, Typed
<1>5. Owned(workers, ts)
  BY <1>1, <1>2, <1>3 DEF Sound, Owned
<1>6. BusyRuns(workers, ts)
  BY <1>1, <1>3 DEF Sound, BusyRuns
<1>7. Unowned(ts) /\ BlankRecords(ts)
  BY <1>1, <1>2, <1>3 DEF Sound, Unowned, BlankRecords
<1>8. Speaks(ts, spawned \cup sending)
  BY <1>1, <1>2, <1>3 DEF Sound, Speaks
<1>9. \A t \in TaskId : ts[t].status = "pending" <=> tasks[t].status = "pending"
  BY <1>1, <1>2
<1>10. \A t \in TaskId : t > task_counter => ts[t].status = "none"
  BY <1>1, <1>2 DEF IInv, Unissued
<1>11. QED
  BY <1>4, <1>5, <1>6, <1>7, <1>8, <1>9, <1>10 DEF Sound, ts

\* /dispatch to an idle worker.
LEMMA DispatchNowKeepsIInv ==
  ASSUME IInv, NEW name \in RoleName, NEW w \in Worker, DispatchNow(name, w)
  PROVE  IInv'
<1> DEFINE n == task_counter + 1
           ts == Evict(tasks)
           new == [status |-> "running", role |-> name, worker_id |-> w]
<1>1. /\ n \in TaskId /\ workers[w].status = "idle" /\ task_counter' = n
      /\ workers' = SetStatus(workers, {w}, "busy") /\ tasks' = [ts EXCEPT ![n] = new]
      /\ spawned' = spawned \cup {<<w, n>>} /\ sending' = sending
      /\ task_queue' = task_queue /\ max_workers' = max_workers /\ notices' = notices
  BY DEF DispatchNow, CanTake
<1>2. TypeOK /\ BacklogIsPending /\ Unissued
  BY DEF IInv
<1>3. /\ Sound(workers, ts, spawned \cup sending)
      /\ \A t \in TaskId : ts[t].status = "pending" <=> tasks[t].status = "pending"
      /\ \A t \in TaskId : t > task_counter => ts[t].status = "none"
  BY EvictKeepsSound
<1>4. /\ workers' \in [Worker -> WorkerRecord] /\ workers'[w].status = "busy"
      /\ \A v \in Worker : v # w => workers'[v] = workers[v]
  BY <1>1, <1>2, SetWorkers DEF TypeOK
<1>5. new \in TaskRecord /\ new.status = "running" /\ new.worker_id = w
  BY DEF TaskRecord
<1> HIDE DEF ts, new
<1>6. /\ tasks' \in [TaskId -> TaskRecord] /\ tasks'[n] = new
      /\ \A t \in TaskId : t # n => tasks'[t] = ts[t]
  BY <1>1, <1>3, <1>5 DEF Sound, Typed
<1> HIDE DEF n
<1>7. ts[n].status = "none" /\ \A v \in Worker : <<v, n>> \notin spawned \cup sending
  BY <1>1, <1>2, <1>3 DEF n, Unissued, TypeOK
<1>8. Typed(workers', tasks')
  BY <1>4, <1>6 DEF Typed
<1>9. Owned(workers', tasks')
  BY <1>3, <1>4, <1>5, <1>6 DEF Sound, Owned
<1>10. BusyRuns(workers', tasks')
  <2> SUFFICES ASSUME NEW v \in Worker, workers'[v].status = "busy"
               PROVE  \E t \in TaskId : tasks'[t].status = "running" /\ tasks'[t].worker_id = v
    BY DEF BusyRuns
  <2>1. CASE v = w
    BY <1>1, <1>5, <1>6, <2>1
  <2>2. CASE v # w
    BY <1>3, <1>4, <1>6, <1>7, <2>2 DEF Sound, BusyRuns
  <2>3. QED
    BY <2>1, <2>2
<1>11. Unowned(tasks') /\ BlankRecords(tasks')
  BY <1>3, <1>5, <1>6 DEF Sound, Unowned, BlankRecords
<1>12. Speaks(tasks', spawned' \cup sending')
  BY <1>1, <1>3, <1>5, <1>6, <1>7 DEF Sound, Speaks
<1>13. BacklogIsPending'
  BY <1>1, <1>2, <1>3, <1>5, <1>6, <1>7 DEF BacklogIsPending
<1>14. \A t \in TaskId : t > n => t # n /\ t > task_counter
  BY <1>2 DEF n, TypeOK
<1>15. Unissued'
  BY <1>1, <1>2, <1>3, <1>6, <1>14 DEF Unissued
<1>16. TypeOK'
  <2>1. task_counter' \in 0..MaxId
    BY <1>1
  <2>2. spawned' \subseteq Worker \X TaskId
    BY <1>1, <1>2 DEF TypeOK
  <2>3. QED
    BY <1>1, <1>2, <1>4, <1>6, <2>1, <2>2 DEF TypeOK
<1>17. QED
  BY <1>8, <1>9, <1>10, <1>11, <1>12, <1>13, <1>15, <1>16 DEF IInv, Sound

\* /dispatch into the backlog.
LEMMA DispatchLaterKeepsIInv ==
  ASSUME IInv, NEW name \in RoleName, DispatchLater(name)
  PROVE  IInv'
<1> DEFINE n == task_counter + 1
           ts == Evict(tasks)
           new == [status |-> "pending", role |-> name, worker_id |-> NoWorker]
<1>1. /\ n \in TaskId /\ task_counter' = n
      /\ workers' = workers /\ tasks' = [ts EXCEPT ![n] = new]
      /\ spawned' = spawned /\ sending' = sending
      /\ task_queue' = task_queue \cup {n} /\ max_workers' = max_workers /\ notices' = notices
  BY DEF DispatchLater
<1>2. TypeOK /\ BacklogIsPending /\ Unissued
  BY DEF IInv
<1>3. /\ Sound(workers, ts, spawned \cup sending)
      /\ \A t \in TaskId : ts[t].status = "pending" <=> tasks[t].status = "pending"
      /\ \A t \in TaskId : t > task_counter => ts[t].status = "none"
  BY EvictKeepsSound
<1>4. new \in TaskRecord /\ new.status = "pending" /\ new.worker_id = NoWorker
  BY DEF TaskRecord
<1> HIDE DEF ts, new
<1>5. /\ tasks' \in [TaskId -> TaskRecord] /\ tasks'[n] = new
      /\ \A t \in TaskId : t # n => tasks'[t] = ts[t]
  BY <1>1, <1>3, <1>4 DEF Sound, Typed
<1> HIDE DEF n
<1>6. ts[n].status = "none" /\ \A v \in Worker : <<v, n>> \notin spawned \cup sending
  BY <1>1, <1>2, <1>3 DEF n, Unissued, TypeOK
<1>7. Typed(workers', tasks')
  BY <1>1, <1>3, <1>5 DEF Sound, Typed
<1>8. Owned(workers', tasks') /\ BusyRuns(workers', tasks')
  BY <1>1, <1>3, <1>4, <1>5, <1>6 DEF Sound, Owned, BusyRuns
<1>9. Unowned(tasks') /\ BlankRecords(tasks')
  BY <1>3, <1>4, <1>5 DEF Sound, Unowned, BlankRecords
<1>10. Speaks(tasks', spawned' \cup sending')
  BY <1>1, <1>3, <1>5, <1>6 DEF Sound, Speaks
<1>11. BacklogIsPending'
  BY <1>1, <1>2, <1>3, <1>4, <1>5 DEF BacklogIsPending
<1>12. \A t \in TaskId : t > n => t # n /\ t > task_counter
  BY <1>2 DEF n, TypeOK
<1>13. Unissued'
  BY <1>1, <1>2, <1>3, <1>5, <1>12 DEF Unissued
<1>14. TypeOK'
  BY <1>1, <1>2, <1>5 DEF TypeOK
<1>15. QED
  BY <1>7, <1>8, <1>9, <1>10, <1>11, <1>13, <1>14 DEF IInv, Sound

\* /dispatch refused, as invalid or by a full backlog after its eviction.
LEMMA DispatchRefusedKeepsIInv ==
  ASSUME IInv, DispatchInvalid \/ \E name \in RoleName : DispatchFull(name)
  PROVE  IInv'
<1>1. /\ task_counter + 1 \in TaskId /\ task_counter' = task_counter + 1
      /\ tasks' \in {tasks, Evict(tasks)} /\ workers' = workers
      /\ UNCHANGED <<task_queue, max_workers, spawned, sending, notices>>
  BY DEF DispatchInvalid, DispatchFull
<1>2. /\ Sound(workers, tasks', spawned \cup sending)
      /\ \A t \in TaskId : tasks'[t].status = "pending" <=> tasks[t].status = "pending"
      /\ \A t \in TaskId : t > task_counter => tasks'[t].status = "none"
  <2>1. CASE tasks' = tasks
    BY <2>1 DEF IInv, Unissued
  <2>2. CASE tasks' = Evict(tasks)
    BY <2>2, EvictKeepsSound
  <2>3. QED
    BY <1>1, <2>1, <2>2
<1>3. TypeOK /\ BacklogIsPending /\ Unissued
  BY DEF IInv
<1>4. TypeOK'
  BY <1>1, <1>2, <1>3 DEF TypeOK, Sound, Typed
<1>5. Unissued'
  BY <1>1, <1>2, <1>3 DEF Unissued, TypeOK
<1>6. QED
  BY <1>1, <1>2, <1>3, <1>4, <1>5 DEF IInv, BacklogIsPending

-----------------------------------------------------------------------------
(* The steps that only redate workers or move coroutines *)

\* A step that only redates a worker.
LEMMA RedatingKeepsIInv ==
  ASSUME IInv,
         workers' \in [Worker -> WorkerRecord],
         \A w \in Worker : workers'[w].status = workers[w].status,
         max_workers' \in Nat,
         UNCHANGED <<tasks, task_queue, task_counter, spawned, sending, notices>>
  PROVE  IInv'
<1>1. Sound(workers', tasks, spawned \cup sending)
  BY RedatingKeepsSound DEF IInv
<1>2. QED
  BY <1>1 DEF IInv, TypeOK, BacklogIsPending, Unissued

\* Heartbeats, /update_config and the passing of time redate workers and no more.
LEMMA TimeRedates ==
  ASSUME TypeOK,
         \/ \E w \in Worker : Heartbeat(w) \/ Grow(w)
         \/ \E m \in MaxWorkerValues : UpdateConfig(m)
  PROVE  /\ workers' \in [Worker -> WorkerRecord]
         /\ \A w \in Worker : /\ workers'[w].status = workers[w].status
                              /\ workers'[w].roles = workers[w].roles
         /\ max_workers' \in Nat
         /\ UNCHANGED <<tasks, task_queue, task_counter, spawned, sending, notices>>
<1>1. workers \in [Worker -> WorkerRecord] /\ max_workers \in Nat
  BY DEF TypeOK
<1>2. ASSUME NEW w \in Worker, Heartbeat(w) \/ Grow(w)
      PROVE  /\ workers' \in [Worker -> WorkerRecord]
             /\ \A v \in Worker : /\ workers'[v].status = workers[v].status
                                  /\ workers'[v].roles = workers[v].roles
             /\ max_workers' \in Nat
             /\ UNCHANGED <<tasks, task_queue, task_counter, spawned, sending, notices>>
  <2>1. PICK a \in Age : workers' = [workers EXCEPT ![w].age = a]
    BY <1>2 DEF Heartbeat, Grow, Age
  <2> DEFINE q == [workers[w] EXCEPT !.age = a]
  <2>2. q \in WorkerRecord /\ q.status = workers[w].status /\ q.roles = workers[w].roles
    BY <1>1, WorkerAge
  <2>3. workers' = [workers EXCEPT ![w] = q]
    BY <2>1
  <2> HIDE DEF q
  <2> QED BY <1>1, <1>2, <2>2, <2>3 DEF Heartbeat, Grow
<1>3. ASSUME NEW m \in MaxWorkerValues, UpdateConfig(m)
      PROVE  /\ workers' \in [Worker -> WorkerRecord]
             /\ \A v \in Worker : /\ workers'[v].status = workers[v].status
                                  /\ workers'[v].roles = workers[v].roles
             /\ max_workers' \in Nat
             /\ UNCHANGED <<tasks, task_queue, task_counter, spawned, sending, notices>>
  <2>1. PICK age \in [Registered(workers) -> Age] :
          workers' = [w \in Worker |->
                        IF w \in Registered(workers) THEN [workers[w] EXCEPT !.age = age[w]]
                                                     ELSE workers[w]]
    BY <1>3 DEF UpdateConfig
  <2>2. ASSUME NEW w \in Worker
        PROVE  /\ workers'[w] \in WorkerRecord /\ workers'[w].status = workers[w].status
               /\ workers'[w].roles = workers[w].roles
    <3>1. CASE w \in Registered(workers)
      <4>1. age[w] \in Age /\ workers'[w] = [workers[w] EXCEPT !.age = age[w]]
        BY <2>1, <3>1
      <4>2. QED
        BY <1>1, <4>1, WorkerAge
    <3>2. CASE w \notin Registered(workers)
      BY <1>1, <2>1, <3>2
    <3>3. QED
      BY <3>1, <3>2
  <2>3. workers' \in [Worker -> WorkerRecord]
    BY <2>1, <2>2
  <2>4. max_workers' \in Nat
    BY <1>3, HubAssumption DEF UpdateConfig
  <2> QED BY <1>3, <2>2, <2>3, <2>4 DEF UpdateConfig
<1>4. QED
  BY <1>2, <1>3

\* They keep the invariant.
LEMMA TimeKeepsIInv ==
  ASSUME IInv,
         \/ \E w \in Worker : Heartbeat(w) \/ Grow(w)
         \/ \E m \in MaxWorkerValues : UpdateConfig(m)
  PROVE  IInv'
<1>1. TypeOK
  BY DEF IInv
<1>2. QED
  BY <1>1, TimeRedates, RedatingKeepsIInv

\* The steps that move coroutines and notices and write nothing else.
LEMMA CoroutineKeepsIInv ==
  ASSUME IInv,
         UNCHANGED <<workers, tasks, task_queue, task_counter, max_workers>>,
         spawned' \subseteq spawned, sending' \subseteq sending \cup spawned,
         notices' \subseteq notices
  PROVE  IInv'
<1>1. Sound(workers, tasks, spawned' \cup sending')
  BY DEF IInv, Sound, Speaks
<1>2. TypeOK'
  BY DEF IInv, TypeOK
<1>3. Unissued'
  BY DEF IInv, Unissued
<1>4. QED
  BY <1>1, <1>2, <1>3 DEF IInv, BacklogIsPending

\* The hub starts with an empty table, store and backlog.
LEMMA InitIInv == Init => IInv
<1> SUFFICES ASSUME Init PROVE IInv
  OBVIOUS
<1>1. /\ Absent \in WorkerRecord /\ Absent.status = "absent"
      /\ NoTask \in TaskRecord /\ NoTask.status = "none" /\ NoTask.worker_id = NoWorker
  BY DEF Absent, WorkerRecord, Age, NoTask, TaskRecord
<1>2. /\ \A w \in Worker : workers[w] = Absent
      /\ \A t \in TaskId : tasks[t] = NoTask
      /\ workers \in [Worker -> WorkerRecord] /\ tasks \in [TaskId -> TaskRecord]
  BY <1>1 DEF Init
<1>3. TypeOK
  BY <1>2, HubAssumption DEF Init, TypeOK
<1>4. BacklogIsPending
  BY <1>1, <1>2 DEF Init, BacklogIsPending
<1>5. Sound(workers, tasks, spawned \cup sending)
  <2>1. Owned(workers, tasks) /\ BusyRuns(workers, tasks)
    BY <1>1, <1>2 DEF Owned, BusyRuns
  <2>2. Unowned(tasks) /\ BlankRecords(tasks)
    BY <1>1, <1>2 DEF Unowned, BlankRecords
  <2>3. Speaks(tasks, spawned \cup sending)
    BY DEF Init, Speaks
  <2>4. QED
    BY <1>2, <2>1, <2>2, <2>3 DEF Sound, Typed
<1>6. Unissued
  BY <1>1, <1>2 DEF Init, Unissued
<1>7. QED
  BY <1>3, <1>4, <1>5, <1>6 DEF IInv

\* Every step keeps the invariant.
LEMMA NextKeepsIInv == IInv /\ [Next]_hubVars => IInv'
<1> SUFFICES ASSUME IInv, [Next]_hubVars PROVE IInv'
  OBVIOUS
<1>1. CASE WorkerStep
  <2>1. PICK w \in Worker :
          \/ \E roles \in RoleLists : Register(w, roles)
          \/ Heartbeat(w)
          \/ Deregister(w)
          \/ \E t \in TaskId, s \in Terminal : ReportResult(w, t, s)
    BY <1>1 DEF WorkerStep
  <2>2. QED
    BY <2>1, RegisterKeepsIInv, TimeKeepsIInv, DeregisterKeepsIInv, ReportKeepsIInv
<1>2. CASE ClientStep
  <2>1. CASE \E name \in RoleName, w \in Worker : DispatchNow(name, w)
    BY <2>1, DispatchNowKeepsIInv
  <2>2. CASE \E name \in RoleName : DispatchLater(name)
    BY <2>2, DispatchLaterKeepsIInv
  <2>3. CASE DispatchInvalid \/ \E name \in RoleName : DispatchFull(name)
    BY <2>3, DispatchRefusedKeepsIInv
  <2>4. CASE \E m \in MaxWorkerValues : UpdateConfig(m)
    BY <2>4, TimeKeepsIInv
  <2>5. QED
    BY <1>2, <2>1, <2>2, <2>3, <2>4 DEF ClientStep
<1>3. CASE CoroutineStep
  <2>1. PICK w \in Worker, t \in TaskId :
          DispatchSkip(w, t) \/ DispatchSend(w, t) \/ DispatchSent(w, t) \/ DispatchError(w, t)
    BY <1>3 DEF CoroutineStep
  <2>2. CASE DispatchError(w, t)
    BY <2>2, DispatchErrorKeepsIInv
  <2>3. CASE DispatchSkip(w, t)
    BY <2>3, CoroutineKeepsIInv DEF DispatchSkip
  <2>4. CASE DispatchSend(w, t)
    BY <2>4, CoroutineKeepsIInv DEF DispatchSend
  <2>5. CASE DispatchSent(w, t)
    BY <2>5, CoroutineKeepsIInv DEF DispatchSent
  <2>6. QED
    BY <2>1, <2>2, <2>3, <2>4, <2>5
<1>4. CASE SweeperStep
  <2>1. CASE \E w \in Worker : Grow(w)
    BY <2>1, TimeKeepsIInv
  <2>2. CASE \E s \in Sweeper, expired \in SUBSET TaskId : Sweep(s, expired)
    BY <2>2, SweepKeepsIInv
  <2>3. CASE \E s \in Sweeper, w \in Worker, t \in TaskId : SendNotice(s, w, t)
    BY <2>3, CoroutineKeepsIInv DEF SendNotice
  <2>4. QED
    BY <1>4, <2>1, <2>2, <2>3 DEF SweeperStep
<1>5. CASE UNCHANGED hubVars
  BY <1>5, CoroutineKeepsIInv DEF hubVars
<1>6. QED
  BY <1>1, <1>2, <1>3, <1>4, <1>5 DEF Next

-----------------------------------------------------------------------------
(* The theorems *)

\* What the hub does keeps the inductive invariant for ever.
THEOREM Inductive == Spec => []IInv
<1>1. Init => IInv
  BY InitIInv
<1>2. IInv /\ [Next]_hubVars => IInv'
  BY NextKeepsIInv
<1>3. QED
  BY <1>1, <1>2, PTL DEF Spec

\* Every variable keeps its shape, through every handler of hub.py.
THEOREM TypeCorrect == Spec => []TypeOK
<1>1. IInv => TypeOK
  BY DEF IInv
<1>2. QED
  BY <1>1, Inductive, PTL

\* The backlog is exact: _process_queue and /dispatch between them neither lose
\* a pending task nor keep a settled one.
THEOREM BacklogExact == Spec => []BacklogIsPending
<1>1. IInv => BacklogIsPending
  BY DEF IInv
<1>2. QED
  BY <1>1, Inductive, PTL

\* However a worker leaves the table, no running task is left without an owner.
THEOREM NoOrphan == Spec => []RunningIsOwned
<1>1. IInv => RunningIsOwned
  BY DEF IInv, Sound, Owned, RunningIsOwned, Registered
<1>2. QED
  BY <1>1, Inductive, PTL

\* No busy worker without a running task, whatever was reported, failed or swept.
THEOREM BusyWorkersRun == Spec => []NoBusyLeak
<1>1. IInv => NoBusyLeak
  BY DEF IInv, Sound, BusyRuns, NoBusyLeak, RunningOn
<1>2. QED
  BY <1>1, Inductive, PTL

\* A dispatch coroutine speaks for the attempt it was spawned for or for nothing.
THEOREM CoroutinesSpeakForOwner == Spec => []DispatchSpeaksForOwner
<1>1. IInv => DispatchSpeaksForOwner
  <2> SUFFICES ASSUME IInv, NEW p \in spawned \cup sending
               PROVE  \/ tasks[p[2]].status = "none"
                      \/ tasks[p[2]].status # "pending" /\ tasks[p[2]].worker_id = p[1]
    BY DEF DispatchSpeaksForOwner
  <2>1. PICK w \in Worker, t \in TaskId : p = <<w, t>>
    BY DEF IInv, TypeOK
  <2>2. QED
    BY <2>1 DEF IInv, Sound, Speaks
<1>2. QED
  BY <1>1, Inductive, PTL

-----------------------------------------------------------------------------
(* The shapes of a step *)

\* What a handler makes of a record before the backlog is served: it may settle it.
Closes(r, q) ==
  \/ q = r
  \/ r.status = "running" /\ q.status \in Terminal /\ q.worker_id = r.worker_id
  \/ r.status = "completed" /\ q.status = "failed" /\ q.worker_id = r.worker_id

Closing(ts) ==
  /\ ts \in [TaskId -> TaskRecord]
  /\ \A t \in TaskId : Closes(tasks[t], ts[t])

\* A handler that serves the backlog, in general and when at least the workers of V leave.
Handles(ws, ts) ==
  /\ ws \in [Worker -> WorkerRecord] /\ Closing(ts)
  /\ ProcessQueue(ws, ts) /\ task_counter' = task_counter
HandlerShape == \E ws, ts : Handles(ws, ts)
Leaving(V) ==
  \E ws, ts : /\ Handles(ws, ts)
              /\ \A v \in Worker : ws[v].status # "absent" => workers[v].status # "absent" /\ v \notin V

\* A /dispatch: some settled records go, and the new id may get one.
DispatchShape ==
  /\ task_counter' = task_counter + 1
  /\ \A t \in TaskId :
       \/ tasks'[t] = tasks[t]
       \/ tasks'[t] = NoTask /\ tasks[t].status \in Terminal
       \/ /\ t = task_counter + 1 /\ tasks[t] = NoTask
          /\ \/ tasks'[t].status = "pending" /\ tasks'[t].worker_id = NoWorker
             \/ tasks'[t].status = "running" /\ tasks'[t].worker_id \in Worker

QuietShape == UNCHANGED <<tasks, task_counter>>

\* The handlers after which a worker may be gone, and a failed send.
LEMMA DeregisterShape ==
  ASSUME IInv, NEW w \in Worker, Deregister(w)
  PROVE  Leaving({w})
<1>1. tasks \in [TaskId -> TaskRecord] /\ workers \in [Worker -> WorkerRecord] /\ TypeOK
  BY DEF IInv, TypeOK
<1> DEFINE S == RunningOn(tasks, w)
<1>2. S \in SUBSET TaskId /\ \A t \in S : tasks[t].status = "running"
  BY DEF RunningOn
<1> HIDE DEF S
<1>3. Closing(Fail(tasks, S))
  BY <1>1, <1>2, FailTasks DEF Closing, Closes
<1> DEFINE ws == Remove(workers, {w})
           ts == Fail(tasks, S)
<1>4. ws \in [Worker -> WorkerRecord]
  BY <1>1, RemoveWorkers
<1>5. ProcessQueue(ws, ts) /\ task_counter' = task_counter
  BY DEF Deregister, S
<1>6. \A v \in Worker : ws[v].status # "absent" => workers[v].status # "absent" /\ v # w
  BY <1>1, RemoveWorkers
<1> HIDE DEF ws, ts
<1>7. Closing(ts)
  BY <1>3 DEF ts
<1> QED BY <1>4, <1>5, <1>6, <1>7 DEF Leaving, Handles

LEMMA SweepShape ==
  ASSUME IInv, NEW s \in Sweeper, NEW expired \in SUBSET TaskId, Sweep(s, expired)
  PROVE  Leaving({w \in Worker : workers[w].age # "fresh"})
<1>1. tasks \in [TaskId -> TaskRecord] /\ workers \in [Worker -> WorkerRecord] /\ TypeOK
  BY DEF IInv, TypeOK
<1> DEFINE dead == {w \in Registered(workers) : workers[w].age # "fresh"}
           orphans == UNION {RunningOn(tasks, w) : w \in dead}
           freed == {tasks[t].worker_id : t \in expired} \cap (Registered(workers) \ dead)
           S == orphans \cup expired
<1>2. /\ expired \subseteq {t \in TaskId : tasks[t].status = "running"} \ orphans
      /\ ProcessQueue(SetStatus(Remove(workers, dead), freed, "idle"), Fail(tasks, S))
  BY DEF Sweep
<1>3. S \in SUBSET TaskId /\ \A t \in S : tasks[t].status = "running"
  <2>1. \A t \in orphans : t \in TaskId /\ tasks[t].status = "running"
    BY DEF RunningOn
  <2> HIDE DEF orphans
  <2> QED BY <1>2, <2>1
<1> DEFINE ws == SetStatus(Remove(workers, dead), freed, "idle")
           ts == Fail(tasks, S)
<1>4. ws \in [Worker -> WorkerRecord] /\ ProcessQueue(ws, ts)
  <2>1. Remove(workers, dead) \in [Worker -> WorkerRecord]
    <3> HIDE DEF dead
    <3> QED BY <1>1, RemoveWorkers
  <2>2. ws \in [Worker -> WorkerRecord]
    <3> HIDE DEF dead, freed
    <3> QED BY <2>1, SetWorkers
  <2> QED BY <1>2, <2>2
<1>5. \A v \in Worker : ws[v].status # "absent" => workers[v].status # "absent" /\ workers[v].age = "fresh"
  <2>1. /\ Remove(workers, dead) \in [Worker -> WorkerRecord]
        /\ \A v \in Worker : /\ v \in dead => Remove(workers, dead)[v].status = "absent"
                             /\ v \notin dead => Remove(workers, dead)[v] = workers[v]
    <3> HIDE DEF dead
    <3> QED BY <1>1, RemoveWorkers
  <2>2. \A v \in Worker : v \in freed => v \notin dead /\ workers[v].status # "absent"
    BY DEF Registered
  <2>3. \A v \in Worker : /\ v \in dead => workers[v].age # "fresh"
                          /\ workers[v].status # "absent" /\ v \notin dead => workers[v].age = "fresh"
    BY DEF Registered
  <2> HIDE DEF dead, freed
  <2>4. \A v \in Worker : v \notin freed => ws[v] = Remove(workers, dead)[v]
    BY <2>1, SetWorkers
  <2> HIDE DEF ws
  <2> QED BY <2>1, <2>2, <2>3, <2>4
<1>6. task_counter' = task_counter
  BY DEF Sweep
<1> HIDE DEF S, ws
<1>7. Closing(ts)
  BY <1>1, <1>3, FailTasks DEF Closing, Closes
<1> HIDE DEF ts
<1> QED BY <1>4, <1>5, <1>6, <1>7 DEF Leaving, Handles

LEMMA ErrorShape ==
  ASSUME IInv, NEW w \in Worker, NEW t \in TaskId, DispatchError(w, t)
  PROVE  Leaving({})
<1>1. tasks \in [TaskId -> TaskRecord] /\ workers \in [Worker -> WorkerRecord] /\ TypeOK
  BY DEF IInv, TypeOK
<1>2. tasks[t].status = "none" \/ (tasks[t].status # "pending" /\ tasks[t].worker_id = w)
  BY DEF DispatchError, IInv, Sound, Speaks
<1>3. tasks[t].status # "none" => Closing(Fail(tasks, {t}))
  <2> SUFFICES ASSUME tasks[t].status # "none" PROVE Closing(Fail(tasks, {t}))
    OBVIOUS
  <2>1. tasks[t].status \in {"running", "completed", "failed"}
    BY <1>1, <1>2 DEF TaskRecord
  <2>2. tasks[t].status = "failed" => Fail(tasks, {t})[t] = tasks[t]
    <3> SUFFICES ASSUME tasks[t].status = "failed" PROVE [tasks[t] EXCEPT !.status = "failed"] = tasks[t]
      BY DEF Fail
    <3> QED BY <1>1 DEF TaskRecord
  <2>3. {t} \in SUBSET TaskId
    OBVIOUS
  <2> QED BY <1>1, <2>1, <2>2, <2>3, FailTasks DEF Closing, Closes
<1>4. Closing(tasks)
  BY <1>1 DEF Closing, Closes
<1> DEFINE ws == SetStatus(workers, {w} \cap Registered(workers), "idle")
           ts == IF tasks[t].status # "none" /\ tasks[t].worker_id \in {w, NoWorker}
                   THEN Fail(tasks, {t}) ELSE tasks
<1>5. Closing(ts)
  BY <1>3, <1>4
<1>6. ws \in [Worker -> WorkerRecord]
  BY <1>1, SetWorkers
<1>7. ProcessQueue(ws, ts) /\ task_counter' = task_counter
  BY DEF DispatchError
<1>8. \A v \in Worker : ws[v].status # "absent" => workers[v].status # "absent"
  BY <1>1, SetWorkers DEF Registered
<1> HIDE DEF ws, ts
<1> QED BY <1>5, <1>6, <1>7, <1>8 DEF Leaving, Handles

\* The worker endpoints serve the backlog, or are heartbeats.
LEMMA WorkerShape ==
  ASSUME IInv, WorkerStep
  PROVE  HandlerShape \/ (QuietShape /\ \E w \in Worker : Heartbeat(w))
<1>0. tasks \in [TaskId -> TaskRecord] /\ workers \in [Worker -> WorkerRecord] /\ TypeOK
  BY DEF IInv, TypeOK
<1>1. PICK w \in Worker :
        \/ \E roles \in RoleLists : Register(w, roles)
        \/ Heartbeat(w)
        \/ Deregister(w)
        \/ \E t \in TaskId, s \in Terminal : ReportResult(w, t, s)
  BY DEF WorkerStep
<1>2. Closing(tasks)
  BY <1>0 DEF Closing, Closes
<1>3. ASSUME NEW roles \in RoleLists, Register(w, roles) PROVE HandlerShape
  <2> DEFINE status == IF workers[w].status = "busy" \/ RunningOn(tasks, w) # {}
                         THEN "busy" ELSE "idle"
             new == [status |-> status, roles |-> roles, age |-> "fresh"]
             ws == [workers EXCEPT ![w] = new]
  <2>1. new \in WorkerRecord
    BY HubAssumption DEF WorkerRecord, Age
  <2>2. ws \in [Worker -> WorkerRecord]
    <3> HIDE DEF new
    <3> QED BY <1>0, <2>1
  <2>3. ProcessQueue(ws, tasks) /\ task_counter' = task_counter
    BY <1>3 DEF Register
  <2> HIDE DEF ws
  <2> QED BY <1>2, <2>2, <2>3 DEF HandlerShape, Handles
<1>4. CASE Heartbeat(w)
  BY <1>4 DEF Heartbeat, QuietShape
<1>5. CASE Deregister(w)
  BY <1>5, DeregisterShape DEF Leaving, HandlerShape
<1>6. ASSUME NEW t \in TaskId, NEW s \in Terminal, ReportResult(w, t, s)
      PROVE  HandlerShape
  <2> DEFINE ws == SetStatus(workers, {w}, "idle")
  <2>0. ws \in [Worker -> WorkerRecord]
    BY <1>0, SetWorkers
  <2>1. CASE tasks[t].status = "running"
    <3> DEFINE r == [tasks[t] EXCEPT !.status = s]
               ts == [tasks EXCEPT ![t] = r]
    <3>1. r \in TaskRecord /\ r.status = s /\ r.worker_id = tasks[t].worker_id
      BY <1>0, TaskAssign
    <3> HIDE DEF r
    <3>2. Closing(ts)
      BY <1>0, <2>1, <3>1 DEF Closing, Closes
    <3>3. ts = [tasks EXCEPT ![t].status = s]
      BY DEF r
    <3> HIDE DEF ts
    <3>4. ProcessQueue(ws, ts) /\ task_counter' = task_counter
      BY <1>6, <2>1, <3>3 DEF ReportResult
    <3> HIDE DEF ws
    <3> QED BY <2>0, <3>2, <3>4 DEF HandlerShape, Handles
  <2>2. CASE tasks[t].status # "running"
    <3>1. ProcessQueue(ws, tasks) /\ task_counter' = task_counter
      BY <1>6, <2>2 DEF ReportResult
    <3> HIDE DEF ws
    <3> QED BY <1>2, <2>0, <3>1 DEF HandlerShape, Handles
  <2> QED BY <2>1, <2>2
<1> QED BY <1>1, <1>3, <1>4, <1>5, <1>6

\* The client endpoints issue an id, or set the configuration.
LEMMA ClientShape ==
  ASSUME IInv, ClientStep
  PROVE  DispatchShape \/ QuietShape
<1> DEFINE n == task_counter + 1
<1>0. task_counter \in Nat /\ tasks \in [TaskId -> TaskRecord] /\ TypeOK
  BY HubAssumption DEF IInv, TypeOK
<1>1. n \in TaskId => tasks[n] = NoTask
  BY <1>0 DEF IInv, Unissued, Sound, BlankRecords
<1>2. /\ Evict(tasks) \in [TaskId -> TaskRecord]
      /\ \A t \in TaskId : \/ Evict(tasks)[t] = tasks[t]
                           \/ Evict(tasks)[t] = NoTask /\ tasks[t].status \in Terminal
  BY <1>0, EvictTasks
<1>3. ASSUME NEW name \in RoleName, NEW w \in Worker, DispatchNow(name, w) PROVE DispatchShape
  <2> DEFINE r == [status |-> "running", role |-> name, worker_id |-> w]
  <2>1. n \in TaskId /\ task_counter' = n /\ tasks' = [Evict(tasks) EXCEPT ![n] = r]
    BY <1>3 DEF DispatchNow
  <2>2. r.status = "running" /\ r.worker_id \in Worker
    OBVIOUS
  <2> HIDE DEF r
  <2> QED BY <1>1, <1>2, <2>1, <2>2 DEF DispatchShape
<1>4. ASSUME NEW name \in RoleName, DispatchLater(name) PROVE DispatchShape
  <2> DEFINE r == [status |-> "pending", role |-> name, worker_id |-> NoWorker]
  <2>1. n \in TaskId /\ task_counter' = n /\ tasks' = [Evict(tasks) EXCEPT ![n] = r]
    BY <1>4 DEF DispatchLater
  <2>2. r.status = "pending" /\ r.worker_id = NoWorker
    OBVIOUS
  <2> HIDE DEF r
  <2> QED BY <1>1, <1>2, <2>1, <2>2 DEF DispatchShape
<1>5. ASSUME NEW name \in RoleName, DispatchFull(name) PROVE DispatchShape
  BY <1>2, <1>5 DEF DispatchFull, DispatchShape
<1>6. CASE DispatchInvalid
  BY <1>6 DEF DispatchInvalid, DispatchShape
<1>7. ASSUME NEW m \in MaxWorkerValues, UpdateConfig(m) PROVE QuietShape
  BY <1>7 DEF UpdateConfig, QuietShape
<1> QED BY <1>3, <1>4, <1>5, <1>6, <1>7 DEF ClientStep

\* A failed send and a sweep serve the backlog, the rest leaves the store alone.
LEMMA OtherShape ==
  ASSUME IInv, CoroutineStep \/ SweeperStep
  PROVE  HandlerShape \/ (QuietShape /\ (UNCHANGED <<workers, task_queue>> \/ \E w \in Worker : Grow(w)))
<1>1. CASE CoroutineStep
  BY <1>1, ErrorShape DEF Leaving, HandlerShape, CoroutineStep, DispatchSkip, DispatchSend, DispatchSent,
                          QuietShape
<1>2. CASE SweeperStep
  <2>1. ASSUME NEW s \in Sweeper, NEW expired \in SUBSET TaskId, Sweep(s, expired) PROVE HandlerShape
    BY <2>1, SweepShape DEF Leaving, HandlerShape
  <2> QED BY <1>2, <2>1 DEF SweeperStep, Grow, SendNotice, QuietShape
<1> QED BY <1>1, <1>2

\* Every step has one of the three shapes.
LEMMA StepShape ==
  ASSUME IInv, [Next]_hubVars
  PROVE  HandlerShape \/ DispatchShape \/ QuietShape
  BY WorkerShape, ClientShape, OtherShape DEF Next, hubVars, QuietShape

\* One pass starts pending tasks of the backlog on workers that can take them.
LEMMA PassStarts ==
  ASSUME NEW ws, NEW ts \in [TaskId -> TaskRecord], task_queue \subseteq TaskId,
         NEW a \in Passes(ws, ts, Backlog(ts)), tasks' = Start(ts, a)
  PROVE  \A t \in TaskId :
           IF t \in Given(a)
             THEN /\ ts[t].status = "pending" /\ tasks'[t].status = "running"
                  /\ tasks'[t].worker_id = a[t] /\ a[t] \in Worker
             ELSE tasks'[t] = ts[t]
<1> SUFFICES ASSUME NEW t \in TaskId
             PROVE  IF t \in Given(a)
                      THEN /\ ts[t].status = "pending" /\ tasks'[t].status = "running"
                           /\ tasks'[t].worker_id = a[t] /\ a[t] \in Worker
                      ELSE tasks'[t] = ts[t]
  OBVIOUS
<1>1. CASE t \in Given(a)
  <2>1. a \in [Backlog(ts) -> Worker \cup {NoWorker}]
    BY DEF Passes
  <2>2. t \in Backlog(ts) /\ a[t] \in Worker
    BY <1>1, <2>1 DEF Given
  <2>3. tasks'[t] = [ts[t] EXCEPT !.status = "running", !.worker_id = a[t]]
    BY <1>1 DEF Start
  <2>4. ts[t] \in TaskRecord /\ ts[t].status = "pending"
    BY <2>2 DEF Backlog
  <2> DEFINE q == [ts[t] EXCEPT !.status = "running", !.worker_id = a[t]]
  <2>5. q.status = "running" /\ q.worker_id = a[t]
    BY <2>2, <2>4, TaskStart
  <2> HIDE DEF q
  <2>6. tasks'[t] = q
    BY <2>3 DEF q
  <2> QED BY <1>1, <2>2, <2>4, <2>5, <2>6
<1>2. CASE t \notin Given(a)
  BY <1>2 DEF Start
<1> QED BY <1>1, <1>2

-----------------------------------------------------------------------------
(* What becomes of a task *)

\* A step leaves a task as it is, starts it, settles it, drops it, or issues it.
TaskMoves(t) ==
  \/ tasks'[t].status = tasks[t].status /\ tasks'[t].worker_id = tasks[t].worker_id
  \/ tasks[t].status = "pending" /\ tasks'[t].status = "running" /\ tasks'[t].worker_id \in Worker
  \/ /\ tasks[t].status = "running" /\ tasks'[t].status \in Terminal
     /\ tasks'[t].worker_id = tasks[t].worker_id
  \/ /\ tasks[t].status = "completed" /\ tasks'[t].status = "failed"
     /\ tasks'[t].worker_id = tasks[t].worker_id
  \/ tasks[t].status \in Terminal /\ tasks'[t] = NoTask
  \/ /\ t = task_counter + 1 /\ task_counter' = t /\ tasks[t] = NoTask
     /\ \/ tasks'[t].status = "pending" /\ tasks'[t].worker_id = NoWorker
        \/ tasks'[t].status = "running" /\ tasks'[t].worker_id \in Worker

\* Every step of the hub moves every task so, and draws at most one id.
LEMMA EveryTaskMoves ==
  ASSUME IInv, [Next]_hubVars
  PROVE  /\ task_counter' \in {task_counter, task_counter + 1}
         /\ \A t \in TaskId : TaskMoves(t)
<1>1. CASE HandlerShape
  <2>1. PICK ws, ts : Handles(ws, ts)
    BY <1>1 DEF HandlerShape
  <2>2. PICK a \in Passes(ws, ts, Backlog(ts)) : tasks' = Start(ts, a)
    BY <2>1 DEF Handles, ProcessQueue
  <2>3. ts \in [TaskId -> TaskRecord] /\ task_queue \subseteq TaskId
    BY <2>1 DEF Handles, Closing, IInv, TypeOK
  <2>4. ASSUME NEW t \in TaskId PROVE TaskMoves(t)
    <3>1. \/ tasks'[t] = ts[t]
          \/ ts[t].status = "pending" /\ tasks'[t].status = "running" /\ tasks'[t].worker_id \in Worker
      BY <2>2, <2>3, PassStarts
    <3>2. Closes(tasks[t], ts[t])
      BY <2>1 DEF Handles, Closing
    <3> QED BY <3>1, <3>2 DEF Closes, TaskMoves
  <2> QED BY <1>1, <2>4 DEF HandlerShape, Handles
<1>2. CASE DispatchShape
  BY <1>2 DEF DispatchShape, TaskMoves
<1>3. CASE QuietShape
  BY <1>3 DEF QuietShape, TaskMoves
<1> QED BY <1>1, <1>2, <1>3, StepShape

-----------------------------------------------------------------------------
(* The theorems *)

\* A settled task is never run again, and a failed one never completes.
THEOREM SettledStays == Spec => NoResurrection
<1> DEFINE A == \A t \in TaskId :
       /\ tasks[t].status \in Terminal => tasks'[t].status \in Terminal \cup {"none"}
       /\ tasks[t].status = "failed" => tasks'[t].status # "completed"
<1>1. IInv /\ [Next]_hubVars => [A]_hubVars
  BY EveryTaskMoves DEF TaskMoves, NoTask
<1>2. QED
  BY <1>1, Inductive, PTL DEF Spec, NoResurrection

\* A live task is never dropped, whatever /dispatch evicts.
THEOREM LiveStays == Spec => LiveNeverEvicted
<1> DEFINE A == \A t \in TaskId :
       tasks[t].status \in {"pending", "running"} => tasks'[t].status # "none"
<1>1. IInv /\ [Next]_hubVars => [A]_hubVars
  BY EveryTaskMoves DEF TaskMoves, NoTask
<1>2. QED
  BY <1>1, Inductive, PTL DEF Spec, LiveNeverEvicted

\* Of two waiting tasks of one role the newer one never starts alone.
THEOREM RolesAreFifo == Spec => FifoPerRole
<1> DEFINE A == \A t, u \in task_queue :
       (/\ t < u
        /\ canonical_role[tasks[t].role] = canonical_role[tasks[u].role]
        /\ tasks'[u].status = "running")
       => tasks'[t].status = "running"
<1>1. IInv /\ [Next]_hubVars => [A]_hubVars
  <2> SUFFICES ASSUME IInv, [Next]_hubVars, NEW t \in task_queue, NEW u \in task_queue, t < u,
                      canonical_role[tasks[t].role] = canonical_role[tasks[u].role],
                      tasks'[u].status = "running"
               PROVE  tasks'[t].status = "running"
    OBVIOUS
  <2>1. /\ t \in TaskId /\ u \in TaskId /\ task_queue \subseteq TaskId
        /\ tasks[t].status = "pending" /\ tasks[u].status = "pending"
    BY DEF IInv, TypeOK, BacklogIsPending
  <2>2. CASE HandlerShape
    <3>1. PICK ws, ts : Handles(ws, ts)
      BY <2>2 DEF HandlerShape
    <3>2. PICK a \in Passes(ws, ts, Backlog(ts)) : tasks' = Start(ts, a)
      BY <3>1 DEF Handles, ProcessQueue
    <3>3. ts[t] = tasks[t] /\ ts[u] = tasks[u] /\ ts \in [TaskId -> TaskRecord]
      BY <2>1, <3>1 DEF Handles, Closing, Closes
    <3>4. t \in Backlog(ts) /\ u \in Backlog(ts) /\ Backlog(ts) \subseteq TaskId
      BY <2>1, <3>3 DEF Backlog
    <3>5. u \in Given(a) /\ a[u] \in Worker
      <4>1. task_queue \subseteq TaskId /\ ts \in [TaskId -> TaskRecord]
        BY <2>1, <3>3
      <4>2. u \in Given(a)
        BY <2>1, <3>2, <3>3 DEF Start
      <4> QED BY <2>1, <3>2, <4>1, <4>2, PassStarts
    <3>6. CanTake(ws[a[u]], ts[t].role)
      <4>1. CanTake(ws[a[u]], ts[u].role)
        BY <3>4, <3>5 DEF Passes, Given
      <4> QED BY <4>1, <3>3 DEF CanTake
    <3>7. a[t] # NoWorker
      <4> SUFFICES ASSUME a[t] = NoWorker PROVE FALSE
        OBVIOUS
      <4>1. PICK v \in Backlog(ts) : v < t /\ a[v] = a[u]
        BY <3>4, <3>5, <3>6 DEF Passes
      <4>2. v = u
        BY <3>4, <3>5, <4>1 DEF Passes, Given
      <4> QED BY <3>4, <4>1, <4>2
    <3>8. t \in Given(a)
      BY <3>4, <3>7 DEF Given, Passes
    <3> QED BY <2>1, <3>2, <3>3, <3>8, PassStarts
  <2>3. CASE DispatchShape
    BY <2>1, <2>3 DEF DispatchShape, NoTask
  <2>4. CASE QuietShape
    BY <2>1, <2>4 DEF QuietShape
  <2> QED BY <2>2, <2>3, <2>4, StepShape
<1>2. QED
  BY <1>1, Inductive, PTL DEF Spec, FifoPerRole

\* After a pass nothing waits that an idle, live worker could take.
LEMMA PassLeavesNoMatch ==
  ASSUME NEW ws \in [Worker -> WorkerRecord], NEW ts \in [TaskId -> TaskRecord],
         task_queue \subseteq TaskId, ProcessQueue(ws, ts)
  PROVE  ~MatchWaiting'
<1>1. PICK a \in Passes(ws, ts, Backlog(ts)) :
        /\ workers' = Occupy(ws, a) /\ tasks' = Start(ts, a)
        /\ task_queue' = Backlog(ts) \ Given(a)
  BY DEF ProcessQueue
<1> SUFFICES ASSUME NEW t \in task_queue', NEW w \in Worker, CanTake(workers'[w], tasks'[t].role)
             PROVE  FALSE
  BY DEF MatchWaiting
<1>2. t \in Backlog(ts) /\ t \notin Given(a) /\ t \in TaskId
  BY <1>1 DEF Backlog
<1>3. a[t] = NoWorker /\ tasks'[t] = ts[t]
  <2>1. DOMAIN a = Backlog(ts)
    BY <1>1 DEF Passes
  <2>2. a[t] = NoWorker
    BY <1>2, <2>1 DEF Given
  <2>3. tasks'[t] = ts[t]
    BY <1>1, <1>2 DEF Start
  <2> QED BY <2>2, <2>3
<1>4. CASE \E u \in Given(a) : a[u] = w
  <2> DEFINE q == [ws[w] EXCEPT !.status = "busy"]
  <2>1. q.status = "busy"
    BY WorkerAssign
  <2>2. workers'[w] = q
    BY <1>1, <1>4 DEF Occupy
  <2> HIDE DEF q
  <2> QED BY <2>1, <2>2 DEF CanTake
<1>5. CASE ~\E u \in Given(a) : a[u] = w
  <2>1. workers'[w] = ws[w]
    BY <1>1, <1>5 DEF Occupy
  <2>2. CanTake(ws[w], ts[t].role)
    BY <1>3, <2>1
  <2>3. PICK u \in Backlog(ts) : u < t /\ a[u] = w
    BY <1>2, <1>3, <2>2 DEF Passes
  <2>4. u \in Given(a)
    BY <2>3, HubAssumption DEF Given, Passes
  <2> QED BY <1>5, <2>3, <2>4
<1> QED BY <1>4, <1>5

\* A stale worker comes back to life, idle.
Revived(w) ==
  /\ workers[w].status = "idle" /\ workers[w].age = "stale"
  /\ workers'[w] \in [status : {"idle"}, roles : {workers[w].roles}, age : {"fresh", "margin"}]

\* The steps that redate workers make a match only by reviving one.
LEMMA RedatingMatches ==
  ASSUME TypeOK, MatchWaiting', ~MatchWaiting, workers' \in [Worker -> WorkerRecord],
         \A w \in Worker : /\ workers'[w].status = workers[w].status
                          /\ workers'[w].roles = workers[w].roles,
         UNCHANGED <<tasks, task_queue>>
  PROVE  \E w \in Worker : Revived(w)
<1>1. PICK t \in task_queue, w \in Worker : CanTake(workers'[w], tasks[t].role)
  BY DEF MatchWaiting
<1>2. ~CanTake(workers[w], tasks[t].role)
  BY DEF MatchWaiting
<1>3. /\ workers[w] \in WorkerRecord /\ workers'[w] \in WorkerRecord
      /\ workers'[w].status = workers[w].status /\ workers'[w].roles = workers[w].roles
  BY DEF TypeOK
<1>4. workers[w].status = "idle" /\ workers[w].age = "stale" /\ workers'[w].age # "stale"
  BY <1>1, <1>2, <1>3 DEF CanTake
<1>5. workers'[w].age \in {"fresh", "margin"}
  BY <1>3, <1>4 DEF WorkerRecord, Age
<1>6. workers'[w] \in [status : {"idle"}, roles : {workers[w].roles}, age : {"fresh", "margin"}]
  BY <1>3, <1>4, <1>5 DEF WorkerRecord
<1> QED BY <1>4, <1>6 DEF Revived

\* A /dispatch makes no match: it occupies a worker, or no worker can take its task.
LEMMA DispatchMatches ==
  ASSUME IInv, MatchWaiting',
         \/ \E name \in RoleName : \/ \E w \in Worker : DispatchNow(name, w)
                                  \/ DispatchLater(name)
                                  \/ DispatchFull(name)
         \/ DispatchInvalid
  PROVE  MatchWaiting
<1> DEFINE n == task_counter + 1
           ts == Evict(tasks)
<1>1. PICK t \in task_queue', w \in Worker : CanTake(workers'[w], tasks'[t].role)
  BY DEF MatchWaiting
<1>2. /\ TypeOK /\ workers \in [Worker -> WorkerRecord] /\ tasks \in [TaskId -> TaskRecord]
      /\ \A u \in task_queue : u \in TaskId /\ tasks[u].status = "pending"
  BY DEF IInv, TypeOK, BacklogIsPending
<1>3. /\ ts \in [TaskId -> TaskRecord]
      /\ \A u \in task_queue : ts[u] = tasks[u]
  BY <1>2, EvictTasks
<1>4. n \in TaskId => n \notin task_queue
  BY <1>2 DEF IInv, Unissued, TypeOK
<1> HIDE DEF ts, n
<1>5. ASSUME t \in task_queue, tasks'[t] = tasks[t], CanTake(workers[w], tasks'[t].role)
      PROVE  MatchWaiting
  BY <1>5 DEF MatchWaiting
<1>6. ASSUME NEW name \in RoleName, NEW v \in Worker, DispatchNow(name, v) PROVE MatchWaiting
  <2> DEFINE new == [status |-> "running", role |-> name, worker_id |-> v]
  <2>1. /\ n \in TaskId /\ tasks' = [ts EXCEPT ![n] = new] /\ task_queue' = task_queue
        /\ workers' = SetStatus(workers, {v}, "busy")
    BY <1>6 DEF DispatchNow, n, ts
  <2> HIDE DEF new
  <2>2. t \in task_queue /\ tasks'[t] = tasks[t]
    BY <1>1, <1>2, <1>3, <1>4, <2>1
  <2>3. w # v /\ workers'[w] = workers[w]
    BY <1>1, <1>2, <2>1, SetWorkers DEF CanTake
  <2> QED BY <1>1, <1>5, <2>2, <2>3
<1>7. ASSUME NEW name \in RoleName, DispatchLater(name) PROVE MatchWaiting
  <2> DEFINE new == [status |-> "pending", role |-> name, worker_id |-> NoWorker]
  <2>1. /\ n \in TaskId /\ tasks' = [ts EXCEPT ![n] = new] /\ task_queue' = task_queue \cup {n}
        /\ workers' = workers /\ ~CanTake(workers[w], name)
    BY <1>7 DEF DispatchLater, n, ts
  <2>2. new.role = name
    OBVIOUS
  <2> HIDE DEF new
  <2>3. t # n
    BY <1>1, <1>3, <2>1, <2>2
  <2>4. t \in task_queue /\ tasks'[t] = tasks[t]
    BY <1>1, <1>2, <1>3, <1>4, <2>1, <2>3
  <2> QED BY <1>1, <1>5, <2>1, <2>4
<1>8. ASSUME NEW name \in RoleName, DispatchFull(name) PROVE MatchWaiting
  <2>1. tasks' = ts /\ task_queue' = task_queue /\ workers' = workers
    BY <1>8 DEF DispatchFull, ts
  <2> QED BY <1>1, <1>3, <1>5, <2>1
<1>9. CASE DispatchInvalid
  BY <1>1, <1>5, <1>9 DEF DispatchInvalid
<1> QED BY <1>6, <1>7, <1>8, <1>9

\* Whoever makes a match possible makes it: only a stale worker that comes back to life
\* leaves a task waiting that it could take.
THEOREM WorkIsConserved == Spec => WorkConserving
<1> DEFINE A == MatchWaiting' /\ ~MatchWaiting =>
       \E w \in Worker : /\ workers[w].status = "idle" /\ workers[w].age = "stale"
                         /\ workers'[w] \in [status : {"idle"}, roles : {workers[w].roles},
                                            age : {"fresh", "margin"}]
<1>1. IInv /\ [Next]_hubVars => [A]_hubVars
  <2> SUFFICES ASSUME IInv, [Next]_hubVars, MatchWaiting', ~MatchWaiting
               PROVE  \E w \in Worker : Revived(w)
    BY DEF Revived
  <2>0. TypeOK /\ task_queue \subseteq TaskId
    BY DEF IInv, TypeOK
  <2>1. ~HandlerShape
    BY <2>0, PassLeavesNoMatch DEF HandlerShape, Handles, Closing
  <2>2. ~UNCHANGED <<workers, tasks, task_queue>>
    BY DEF MatchWaiting
  <2>3. CASE \/ \E w \in Worker : Heartbeat(w) \/ Grow(w)
             \/ \E m \in MaxWorkerValues : UpdateConfig(m)
    BY <2>0, <2>3, TimeRedates, RedatingMatches
  <2>4. CASE ClientStep
    BY <2>3, <2>4, DispatchMatches DEF ClientStep
  <2>5. CASE WorkerStep
    BY <2>1, <2>3, <2>5, WorkerShape
  <2>6. CASE CoroutineStep \/ SweeperStep
    BY <2>1, <2>2, <2>3, <2>6, OtherShape DEF QuietShape
  <2> QED BY <2>2, <2>4, <2>5, <2>6 DEF Next, hubVars
<1>2. QED
  BY <1>1, Inductive, PTL DEF Spec, WorkConserving

\* The hub implements the task board: whatever workers, sweeps, failed sends and the
\* eviction do, a task makes only the moves the board allows.
THEOREM HubImplementsBoard == Spec => ImplementsTaskBoard
<1>1. Init => Board!Init
  BY DEF Init, Board!Init, NoTask, Board!Blank
<1>2. IInv /\ [Next]_hubVars => [Board!Next]_<<[t \in TaskId |-> [status |-> tasks[t].status, worker_id |-> tasks[t].worker_id]], task_counter>>
  <2> SUFFICES ASSUME IInv, [Next]_hubVars PROVE Board!Next
    OBVIOUS
  <2> DEFINE card(t) == [status |-> tasks[t].status, worker_id |-> tasks[t].worker_id]
             new(t) == [status |-> tasks'[t].status, worker_id |-> tasks'[t].worker_id]
  <2>1. ASSUME NEW t \in TaskId
        PROVE  \/ Board!Moves(card(t), new(t))
               \/ /\ t = task_counter + 1 /\ task_counter' = t
                  /\ card(t) = Board!Blank /\ Board!Accepted(new(t))
    <3>1. TaskMoves(t)
      BY EveryTaskMoves
    <3> QED BY <3>1 DEF TaskMoves, Board!Moves, Board!Accepted, Board!Blank, NoTask
  <2> QED BY <2>1, EveryTaskMoves DEF Board!Next
<1>3. QED
  BY <1>1, <1>2, Inductive, PTL DEF Spec, ImplementsTaskBoard, Board!Spec

=============================================================================
