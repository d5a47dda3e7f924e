----------------------------- MODULE WsCalls -----------------------------
(***************************************************************************)
(* Skill calls of an orchestrator that runs inside the hub's process: the  *)
(* in-memory branch of orchestrator.call_api, on top of HubServer.  A call *)
(* selects an idle worker, registers a task for it, sends it through the   *)
(* worker's socket, awaits the future of the task and dispatches again     *)
(* when the worker is lost.                                                *)
(*                                                                         *)
(* The pcs are the awaits of the call: between two of them it runs         *)
(* atomically.  registry_lock is held across one real await only, the send *)
(* of a cancel message.  Task ids (random in the code) are drawn from the  *)
(* hub's counter, so that they are fresh.  Nobody uses /dispatch here.     *)
(***************************************************************************)
EXTENDS HubServer

CONSTANTS
  Call,                    \* calls of call_api
  role_of,                 \* the role a call needs, from its URL or its slash command
  contains,                \* select_idle_worker's wider match: for a wanted canonical
                           \* role, the canonical names that count as it
  NoTaskId,                \* the call has no task yet
  GENIUS_DISPATCH_RETRIES  \* dispatch attempts per call

ASSUME WsCallsAssumption ==
  /\ role_of \in [Call -> RoleName]
  /\ contains \in [RoleName -> SUBSET RoleName]
  /\ \A n \in RoleName : n \in contains[n]
  /\ NoTaskId \notin TaskId
  /\ GENIUS_DISPATCH_RETRIES \in Nat \ {0}

VARIABLE call  \* per call: where it is, its worker, task and attempt

callVars == <<vars, call>>

\* held: the record the call took from the registry is still the one in it.
Raised == {"no_worker", "lost", "error", "timeout", "cancelled"}
Ended == {"output"} \cup Raised
CallRecord ==
  [pc : {"ready", "selecting", "selected", "sending", "send_failed", "waiting", "giving_up",
         "cancel_send"} \cup Ended,
   worker : Worker \cup {NoWorker}, task : TaskId \cup {NoTaskId},
   attempt : 1..GENIUS_DISPATCH_RETRIES, held : BOOLEAN, why : {"none", "timeout", "cancelled"}]

CallsInit ==
  /\ ServerInit
  /\ call = [c \in Call |-> [pc |-> "ready", worker |-> NoWorker, task |-> NoTaskId,
                             attempt |-> 1, held |-> FALSE, why |-> "none"]]

RegistryLocked == \E c \in Call : call[c].pc = "cancel_send"
Goto(c, pc) == call' = [call EXCEPT ![c].pc = pc]

\* WorkerDisconnectedError out of _dispatch_once: another attempt if one is left.
WorkerLost(c) ==
  IF call[c].attempt < GENIUS_DISPATCH_RETRIES
    THEN [call EXCEPT ![c] = [pc |-> "selecting", worker |-> NoWorker, task |-> NoTaskId,
                              attempt |-> call[c].attempt + 1, held |-> FALSE, why |-> "none"]]
    ELSE [call EXCEPT ![c].pc = "lost"]

\* Mutant of FailRecord: a record that was evicted is written again.
FailRecordAnyway(t, why) ==
  /\ tasks' = Fail(tasks, {t})
  /\ cause' = [cause EXCEPT ![t] = why]

\* A record of the task store is overwritten as failed, if it is still there.
FailRecord(t, why) ==
  /\ tasks' = IF tasks[t].status # "none" THEN Fail(tasks, {t}) ELSE tasks
  /\ cause' = IF tasks[t].status # "none" THEN [cause EXCEPT ![t] = why] ELSE cause

-----------------------------------------------------------------------------
(* Dispatch *)

\* The in-memory branch is taken when the registry has a worker.
Begin(c) ==
  /\ call[c].pc = "ready"
  /\ Registered(workers) # {}
  /\ Goto(c, "selecting")
  /\ UNCHANGED vars

\* select_idle_worker matches a longer name of the role too ("claude_architect").
Selectable(info, name) ==
  /\ info.status = "idle"
  /\ info.age # "stale"
  /\ \E r \in info.roles : canonical_role[r] \in contains[canonical_role[name]]

\* select_idle_worker: the worker is marked busy before it has a task.
Select(c, w) ==
  /\ call[c].pc = "selecting"
  /\ ~RegistryLocked
  /\ Selectable(workers[w], role_of[c])
  /\ workers' = SetStatus(workers, {w}, "busy")
  /\ call' = [call EXCEPT ![c].pc = "selected", ![c].worker = w]
  /\ UNCHANGED <<tasks, task_queue, task_counter, max_workers, spawned, sending, notices, serverVars>>

\* Mutant of NoWorkerInTime: the deadline is looked at before the first dispatch only.
NoWorkerInTimeOnce(c) ==
  /\ call[c].pc = "selecting"
  /\ ~RegistryLocked
  /\ \A w \in Worker : ~Selectable(workers[w], role_of[c])
  /\ call[c].attempt = 1
  /\ Goto(c, "no_worker")
  /\ UNCHANGED vars

\* Nobody is idle and the deadline has passed.
NoWorkerInTime(c) ==
  /\ call[c].pc = "selecting"
  /\ ~RegistryLocked
  /\ \A w \in Worker : ~Selectable(workers[w], role_of[c])
  /\ Goto(c, IF call[c].attempt > 1 THEN "lost" ELSE "no_worker")
  /\ UNCHANGED vars

\* _dispatch_once, up to the send.  It may have waited for the lock meanwhile.
ClaimGone(c) ==
  /\ call[c].pc = "selected"
  /\ ~RegistryLocked
  /\ workers[call[c].worker].status = "absent"
  /\ call' = WorkerLost(c)
  /\ UNCHANGED vars

NewRecord(t, w, role) ==
  [Evict(tasks) EXCEPT ![t] = [status |-> "running", role |-> role, worker_id |-> w]]

\* A worker without a socket: the record stays behind as running.
ClaimNoSocket(c) ==
  LET w == call[c].worker
      t == task_counter + 1
  IN
  /\ call[c].pc = "selected"
  /\ ~RegistryLocked
  /\ workers[w].status # "absent"
  /\ socket[w] = NoConn
  /\ t \in TaskId
  /\ task_counter' = t
  /\ tasks' = NewRecord(t, w, role_of[c])
  /\ workers' = SetStatus(workers, {w}, "idle")
  /\ call' = WorkerLost(c)
  /\ UNCHANGED <<task_queue, max_workers, spawned, sending, notices, serverVars>>

ClaimSend(c) ==
  LET w == call[c].worker
      t == task_counter + 1
  IN
  /\ call[c].pc = "selected"
  /\ ~RegistryLocked
  /\ workers[w].status # "absent"
  /\ socket[w] # NoConn
  /\ t \in TaskId
  /\ task_counter' = t
  /\ tasks' = NewRecord(t, w, role_of[c])
  /\ workers' = SetStatus(workers, {w}, "busy")
  /\ pending' = pending \cup {t}
  /\ future' = [future EXCEPT ![t] = "waiting"]
  /\ call' = [call EXCEPT ![c].pc = "sending", ![c].task = t, ![c].held = TRUE]
  /\ UNCHANGED <<task_queue, max_workers, spawned, sending, notices, socket, endpoint, cause>>

Sent(c) ==
  /\ call[c].pc = "sending"
  /\ Goto(c, "waiting")
  /\ UNCHANGED vars

\* The send raised.
SendFails(c) ==
  /\ call[c].pc = "sending"
  /\ pending' = pending \ {call[c].task}
  /\ Goto(c, "send_failed")
  /\ UNCHANGED <<hubVars, socket, endpoint, future, cause>>

\* Under the lock the worker is freed through the record taken before the send: one
\* that registered again meanwhile has a new record.  A task that was evicted meanwhile
\* raises KeyError instead of WorkerDisconnectedError.
RecordSendFailure(c) ==
  LET t == call[c].task IN
  /\ call[c].pc = "send_failed"
  /\ ~RegistryLocked
  /\ workers' = IF call[c].held THEN SetStatus(workers, {call[c].worker}, "idle") ELSE workers
  /\ FailRecord(t, "error")
  /\ IF tasks[t].status = "none" THEN Goto(c, "error") ELSE call' = WorkerLost(c)
  /\ UNCHANGED <<task_queue, task_counter, max_workers, spawned, sending, notices,
                 socket, endpoint, pending, future>>

-----------------------------------------------------------------------------
(* The answer, the timeout and the cancellation *)

\* wait_for returns or raises what the future holds; finally pops the task.
Answered(c) ==
  LET t == call[c].task IN
  /\ call[c].pc = "waiting"
  /\ pending' = pending \ {t}
  /\ \/ future[t] \in {"output", "error"} /\ Goto(c, future[t])
     \/ future[t] = "lost" /\ call' = WorkerLost(c)
  /\ UNCHANGED <<hubVars, socket, endpoint, future, cause>>

\* wait_for timed out, or the pruner put a TimeoutError into the future.
Timeout(c) ==
  LET t == call[c].task IN
  /\ call[c].pc = "waiting"
  /\ future[t] \in {"waiting", "timeout"}
  /\ future' = [future EXCEPT ![t] = IF @ = "waiting" THEN "cancelled" ELSE @]
  /\ FailRecord(t, "timeout")
  /\ call' = [call EXCEPT ![c].pc = "giving_up", ![c].why = "timeout"]
  /\ UNCHANGED <<workers, task_queue, task_counter, max_workers, spawned, sending, notices,
                 socket, endpoint, pending>>

\* The task of the call is cancelled.  While it waits for its answer the call
\* still cleans up; at any other await it just ends.
Cancel(c) ==
  LET t == call[c].task IN
  \/ /\ call[c].pc = "waiting"
     /\ future' = [future EXCEPT ![t] = IF @ = "waiting" THEN "cancelled" ELSE @]
     /\ FailRecord(t, "error")
     /\ call' = [call EXCEPT ![c].pc = "giving_up", ![c].why = "cancelled"]
     /\ UNCHANGED <<workers, task_queue, task_counter, max_workers, spawned, sending, notices,
                    socket, endpoint, pending>>
  \/ /\ call[c].pc \in {"selecting", "selected", "sending", "send_failed"}
     /\ Goto(c, "cancelled")
     /\ UNCHANGED vars
  \/ /\ call[c].pc \in {"giving_up", "cancel_send"}
     /\ Goto(c, "cancelled")
     /\ pending' = pending \ {t}
     /\ UNCHANGED <<hubVars, socket, endpoint, future, cause>>

\* Under the lock the worker is looked up again by its id and freed, and told to
\* cancel if it has a socket.
GiveUp(c) ==
  LET w == call[c].worker IN
  /\ call[c].pc = "giving_up"
  /\ ~RegistryLocked
  /\ workers' = SetStatus(workers, {w} \cap Registered(workers), "idle")
  /\ IF socket[w] # NoConn
       THEN Goto(c, "cancel_send") /\ pending' = pending
       ELSE Goto(c, call[c].why) /\ pending' = pending \ {call[c].task}
  /\ UNCHANGED <<tasks, task_queue, task_counter, max_workers, spawned, sending, notices,
                 socket, endpoint, future, cause>>

CancelSent(c) ==
  /\ call[c].pc = "cancel_send"
  /\ Goto(c, call[c].why)
  /\ pending' = pending \ {call[c].task}
  /\ UNCHANGED <<hubVars, socket, endpoint, future, cause>>

-----------------------------------------------------------------------------
\* /register over HTTP: a worker without a socket, or one that keeps it.
RegisterOverHttp(w, roles) ==
  Register(w, roles) /\ UNCHANGED serverVars

\* Every registration, and every removal, puts another record in the registry.
Replaced(w) == \/ workers'[w].status = "absent"
               \/ socket'[w] # socket[w]

LoseHold(ws) ==
  call' = [c \in Call |-> IF call[c].worker \in ws THEN [call[c] EXCEPT !.held = FALSE] ELSE call[c]]

WorkerMsg ==
  \/ \E k \in Conn, w \in Worker : Connect(k, w) /\ call' = call
  \/ \E k \in Conn, roles \in RoleLists : RegisterMsg(k, roles) /\ LoseHold({endpoint[k].worker})
  \/ \E k \in Conn : RegisterRefused(k) /\ call' = call
  \/ \E k \in Conn : HeartbeatMsg(k) /\ call' = call
  \/ \E k \in Conn, t \in TaskId, s \in Terminal : ResultMsg(k, t, s) /\ call' = call
  \/ \E k \in Conn : Close(k) /\ LoseHold({w \in Worker : Replaced(w)})
  \/ \E w \in Worker, roles \in RoleLists : RegisterOverHttp(w, roles) /\ LoseHold({w})

\* What a call does by itself once it has begun.
Progress(c) ==
  \/ \E w \in Worker : Select(c, w)
  \/ NoWorkerInTime(c)
  \/ ClaimGone(c) \/ ClaimNoSocket(c) \/ ClaimSend(c)
  \/ Sent(c) \/ SendFails(c) \/ RecordSendFailure(c)
  \/ Answered(c) \/ Timeout(c) \/ GiveUp(c) \/ CancelSent(c)

CallStep ==
  \E c \in Call :
    \/ Begin(c)
    \/ Progress(c)
    \/ Cancel(c)

CallsNext ==
  \/ CallStep
  \/ WorkerMsg
  \/ ServerSweeperStep /\ LoseHold({w \in Worker : Replaced(w)})
  \/ Prune /\ call' = call

CallsSpec == CallsInit /\ [][CallsNext]_callVars

\* A sweep of SweepSockets that settles the running task t.
ServerSweepSettles(t) ==
  \E s \in Sweeper, expired \in SUBSET TaskId :
    /\ t \in expired \/ \E w \in Worker : t \in RunningOn(tasks, w) /\ workers[w].age # "fresh"
    /\ SweepSockets(s, expired)
    /\ LoseHold({w \in Worker : Replaced(w)})

\* The two sweeper loops run for ever; a send ends, since the server closes a
\* socket whose peer answers no ping; a call has a deadline for every wait.
\* Nothing is assumed of workers, and no call has to be cancelled.
CallsFairness ==
  /\ \A t \in TaskId : WF_callVars(ServerSweepSettles(t))
  /\ \A s \in Sweeper, w \in Worker, t \in TaskId :
       WF_callVars(SendNotice(s, w, t) /\ UNCHANGED <<serverVars, call>>)
  /\ WF_callVars(Prune /\ call' = call)
  /\ \A c \in Call : WF_callVars(Progress(c))

FairCallsSpec == CallsSpec /\ CallsFairness
-----------------------------------------------------------------------------
(* Properties *)

\* Every variable keeps the shape its comment gives it.
CallsTypeOK == ServerTypeOK /\ call \in [Call -> CallRecord]

\* No lost wakeup: the future a call awaits is in the table, where a result, the
\* end of the socket or the pruner finds it, and none of them has passed it by.
NoLostWakeup ==
  \A c \in Call :
    LET t == call[c].task IN
    call[c].pc = "waiting" /\ future[t] = "waiting"
      => t \in pending /\ tasks[t].status # "completed"

\* A call is dispatched again only when its worker was lost: the task it leaves
\* behind is not completed and did not time out.
RetryOnlyAfterLoss ==
  [][\A c \in Call :
       LET t == call[c].task IN
       call'[c].attempt > call[c].attempt /\ t # NoTaskId
         => tasks'[t].status \in {"failed", "none"} /\ cause'[t] # "timeout"]_callVars

\* Every call ends, whatever the workers do.
CallEnds == \A c \in Call : call[c].pc = "selecting" ~> call[c].pc \in Ended

\* No entry stays in pending_tasks for ever, not even the one of a call that was
\* cancelled during its send, unless its record is evicted before the pruner looks.
PendingDrains == \A t \in TaskId : t \in pending ~> t \notin pending \/ tasks[t].status = "none"
=============================================================================
