---------------------------- MODULE HubServer ----------------------------
(***************************************************************************)
(* The hub server (serve.py): the worker registry and the WebSocket        *)
(* endpoints on top of the hub, the table of futures that in-process       *)
(* callers wait on, and the pruner that settles futures of failed tasks.   *)
(*                                                                         *)
(* A connection is one run of websocket_endpoint.  Its handler awaits      *)
(* nothing but its own receives and sends, so the handling of one message  *)
(* is one step.  The workers are arbitrary: a connection may send any      *)
(* message at any time and may end at any time, and a worker may open a    *)
(* new one before the hub notices that the old one is gone.                *)
(*                                                                         *)
(* Token checks, identity spoofing (both close the socket) and results     *)
(* without a valid checksum, which no worker of the project sends, are     *)
(* left out.                                                               *)
(***************************************************************************)
EXTENDS Hub

CONSTANTS
  Conn,    \* connections
  NoConn,  \* worker["ws"] is None
  Pruner   \* the element of Sweeper that is prune_stale_workers

ASSUME HubServerAssumption == NoConn \notin Conn /\ Pruner \in Sweeper

VARIABLES
  socket,    \* worker["ws"] of each registered worker
  endpoint,  \* per connection: the worker of its token and how far it is
  pending,   \* the task ids in pending_tasks
  future,    \* the state of the future created for a task id
  cause      \* what the "error" of a failed task somebody waits for says, as the
             \* pruner reads it

serverVars == <<socket, endpoint, pending, future, cause>>
vars == <<hubVars, serverVars>>

EndpointRecord == [worker : Worker \cup {NoWorker}, status : {"new", "open", "registered", "closed"}]
FutureState == {"none", "waiting", "output", "error", "lost", "timeout", "cancelled"}
Cause == {"none", "error", "lost", "timeout"}

ServerInit ==
  /\ Init
  /\ socket = [w \in Worker |-> NoConn]
  /\ endpoint = [k \in Conn |-> [worker |-> NoWorker, status |-> "new"]]
  /\ pending = {}
  /\ future = [t \in TaskId |-> "none"]
  /\ cause = [t \in TaskId |-> "none"]

\* fut.set_result / fut.set_exception for the tasks of S still in the table,
\* which leave it; a future that is done already keeps its state.
Settle(S, value) ==
  /\ pending' = pending \ S
  /\ future' = [t \in TaskId |->
                  IF t \in S \cap pending /\ future[t] = "waiting" THEN value[t] ELSE future[t]]

\* Handlers that overwrite the status of w after the hub ran its backlog pass.
ProcessQueueThenSet(ws, ts, w, s) ==
  \E a \in Passes(ws, ts, Backlog(ts)) :
    /\ workers' = SetStatus(Occupy(ws, a), {w}, s)
    /\ tasks' = Start(ts, a)
    /\ task_queue' = Backlog(ts) \ Given(a)
    /\ spawned' = spawned \cup {<<a[t], t>> : t \in Given(a)}

-----------------------------------------------------------------------------
(* websocket_endpoint *)

\* The token is accepted: the endpoint waits for its first message.
Connect(k, w) ==
  /\ endpoint[k].status = "new"
  /\ endpoint' = [endpoint EXCEPT ![k] = [worker |-> w, status |-> "open"]]
  /\ UNCHANGED <<hubVars, socket, pending, future, cause>>

\* WorkerRegistry.register: the status is read before /register runs the backlog
\* pass and written back after it.
RegisterMsg(k, roles) ==
  LET w == endpoint[k].worker
      current_status == IF workers[w].status = "busy" \/ RunningOn(tasks, w) # {}
                          THEN "busy" ELSE "idle"
  IN
  /\ endpoint[k].status \in {"open", "registered"}
  /\ workers[w].status = "absent" => Cardinality(Registered(workers)) < max_workers
  /\ ProcessQueueThenSet(
       [workers EXCEPT ![w] = [status |-> current_status, roles |-> roles, age |-> "fresh"]],
       tasks, w, current_status)
  /\ socket' = [socket EXCEPT ![w] = k]
  /\ endpoint' = [endpoint EXCEPT ![k].status = "registered"]
  /\ UNCHANGED <<task_counter, max_workers, sending, notices, pending, future, cause>>

\* The table is full: the hub answers 503, the endpoint "success".
RegisterRefused(k) ==
  /\ endpoint[k].status \in {"open", "registered"}
  /\ workers[endpoint[k].worker].status = "absent"
  /\ Cardinality(Registered(workers)) >= max_workers
  /\ endpoint' = [endpoint EXCEPT ![k].status = "registered"]
  /\ UNCHANGED <<hubVars, socket, pending, future, cause>>

HeartbeatMsg(k) ==
  /\ endpoint[k].status = "registered"
  /\ Heartbeat(endpoint[k].worker)
  /\ UNCHANGED serverVars

\* Mutant of ResultMsg: the future is resolved only while the record still runs.
ResultMsgIfRunning(k, t, s) ==
  LET w == endpoint[k].worker IN
  /\ endpoint[k].status = "registered"
  /\ workers[w].status # "absent"
  /\ tasks[t].worker_id = w /\ tasks[t].status = "running"
  /\ ProcessQueueThenSet(SetStatus(workers, {w}, "idle"), [tasks EXCEPT ![t].status = s], w, "idle")
  /\ cause' = [cause EXCEPT ![t] = IF s = "failed" /\ t \in pending THEN "error" ELSE @]
  /\ UNCHANGED <<task_counter, max_workers, sending, notices, socket, endpoint, pending, future>>

\* A result the hub accepts (200): /report_result, then the worker is marked
\* idle once more, after the backlog pass, and the future gets what the message
\* says.  A result the hub refuses (400, 403, 404) changes nothing.
ResultMsg(k, t, s) ==
  LET w == endpoint[k].worker
      runs == tasks[t].status = "running"
  IN
  /\ endpoint[k].status = "registered"
  /\ workers[w].status # "absent"
  /\ tasks[t].status # "none"
  /\ tasks[t].worker_id = w
  /\ ProcessQueueThenSet(SetStatus(workers, {w}, "idle"),
                         IF runs THEN [tasks EXCEPT ![t].status = s] ELSE tasks, w, "idle")
  /\ cause' = [cause EXCEPT ![t] = IF runs /\ s = "failed" /\ t \in pending
                                     THEN "error" ELSE @]
  /\ Settle({t}, [u \in TaskId |-> IF s = "completed" THEN "output" ELSE "error"])
  /\ UNCHANGED <<task_counter, max_workers, sending, notices, socket, endpoint>>

\* Mutant of Close: the worker is unregistered by whichever endpoint of it ends.
CloseAny(k) ==
  LET w == endpoint[k].worker
      active_tasks == RunningOn(tasks, w)
  IN
  /\ endpoint[k].status = "registered"
  /\ endpoint' = [endpoint EXCEPT ![k].status = "closed"]
  /\ workers[w].status # "absent"
  /\ Deregister(w)
  /\ socket' = [socket EXCEPT ![w] = NoConn]
  /\ cause' = [t \in TaskId |-> IF t \in active_tasks \cap pending THEN "lost" ELSE cause[t]]
  /\ Settle(active_tasks, [t \in TaskId |-> "lost"])

\* The endpoint ends, for whatever reason; WorkerRegistry.unregister runs if the
\* worker is still registered through this socket.
Close(k) ==
  LET w == endpoint[k].worker
      active_tasks == RunningOn(tasks, w)
  IN
  /\ endpoint[k].status \in {"open", "registered"}
  /\ endpoint' = [endpoint EXCEPT ![k].status = "closed"]
  /\ \/ /\ endpoint[k].status = "registered" /\ socket[w] = k
        /\ Deregister(w)
        /\ socket' = [socket EXCEPT ![w] = NoConn]
        /\ cause' = [t \in TaskId |-> IF t \in active_tasks \cap pending THEN "lost" ELSE cause[t]]
        /\ Settle(active_tasks, [t \in TaskId |-> "lost"])
     \/ /\ endpoint[k].status = "open" \/ socket[w] # k
        /\ UNCHANGED <<hubVars, socket, pending, future, cause>>

-----------------------------------------------------------------------------
(* The hub's own steps, with what the server adds *)

\* A sweep also forgets the sockets of the workers it prunes.
SweepSockets(s, expired) ==
  /\ Sweep(s, expired)
  /\ socket' = [w \in Worker |-> IF workers[w].age # "fresh" THEN NoConn ELSE socket[w]]
  /\ cause' = [t \in TaskId |-> IF t \notin pending THEN cause[t]
                                ELSE IF t \in expired THEN "timeout"
                                ELSE IF /\ tasks[t].status = "running"
                                        /\ workers[tasks[t].worker_id].age # "fresh"
                                       THEN "lost" ELSE cause[t]]
  /\ UNCHANGED <<endpoint, pending, future>>

\* Mutants of Prune: every failure counts as a lost worker; only the tasks that timed
\* out are looked for.
PruneAsLost ==
  LET failed == {t \in pending : tasks[t].status = "failed"} IN
  /\ ~Sending(Pruner)
  /\ failed # {}
  /\ Settle(failed, [t \in TaskId |-> "lost"])
  /\ UNCHANGED <<hubVars, socket, endpoint, cause>>
PruneTimeouts ==
  LET failed == {t \in pending : tasks[t].status = "failed" /\ cause[t] = "timeout"} IN
  /\ ~Sending(Pruner)
  /\ failed # {}
  /\ Settle(failed, cause)
  /\ UNCHANGED <<hubVars, socket, endpoint, cause>>

\* The rest of a round of prune_stale_workers, after its sweep.
Prune ==
  LET failed == {t \in pending : tasks[t].status = "failed"} IN
  /\ ~Sending(Pruner)
  /\ failed # {}
  /\ Settle(failed, cause)
  /\ UNCHANGED <<hubVars, socket, endpoint, cause>>

\* _dispatch_to_worker sends through the socket the registration holds by then;
\* without one, or without a record, it gives up silently.
DispatchThroughSocket(w, t) ==
  \/ DispatchSkip(w, t) /\ (tasks[t].status = "none" \/ socket[w] = NoConn)
  \/ DispatchSend(w, t) /\ socket[w] # NoConn
  \/ DispatchSent(w, t)
  \/ DispatchError(w, t)

SocketStep ==
  \E k \in Conn :
    \/ \E w \in Worker : Connect(k, w)
    \/ \E roles \in RoleLists : RegisterMsg(k, roles)
    \/ RegisterRefused(k)
    \/ HeartbeatMsg(k)
    \/ \E t \in TaskId, s \in Terminal : ResultMsg(k, t, s)
    \/ Close(k)

ServerSweeperStep ==
  \/ \E s \in Sweeper, expired \in SUBSET TaskId : SweepSockets(s, expired)
  \/ /\ \/ \E w \in Worker : Grow(w)
        \/ \E s \in Sweeper, w \in Worker, t \in TaskId : SendNotice(s, w, t)
     /\ UNCHANGED serverVars

\* The clients of this mode are other processes, over HTTP: nobody waits on a
\* future, so Prune has nothing to do.
ServerNext ==
  \/ SocketStep
  \/ ServerSweeperStep
  \/ ClientStep /\ UNCHANGED serverVars
  \/ \E w \in Worker, t \in TaskId : DispatchThroughSocket(w, t) /\ UNCHANGED serverVars

ServerSpec == ServerInit /\ [][ServerNext]_vars
-----------------------------------------------------------------------------
(* Properties *)

\* Every variable of the server keeps the shape its comment gives it.
ServerTypeOK ==
  /\ TypeOK
  /\ socket \in [Worker -> Conn \cup {NoConn}]
  /\ endpoint \in [Conn -> EndpointRecord]
  /\ pending \subseteq TaskId
  /\ future \in [TaskId -> FutureState]
  /\ cause \in [TaskId -> Cause]

\* A worker that reconnected keeps its registration, its new socket and its
\* tasks when the endpoint of an older socket ends.
OldSocketEndsQuietly ==
  [][\A k \in Conn :
       LET w == endpoint[k].worker IN
       /\ endpoint[k].status # "closed" /\ endpoint'[k].status = "closed"
       /\ socket[w] \notin {k, NoConn}
       => /\ socket'[w] = socket[w]
          /\ workers'[w] = workers[w] /\ RunningOn(tasks', w) = RunningOn(tasks, w)]_vars

\* What docs/history/Genius_Comprehensive_Report.md:74 says of a hand-out: the hub
\* marks the chosen worker busy and records the task as running.
AssignedIsBusy ==
  [][\A t \in TaskId :
       tasks[t].status = "pending" /\ tasks'[t].status = "running"
         => workers'[tasks'[t].worker_id].status = "busy"]_vars
=============================================================================
