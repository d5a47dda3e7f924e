---------------------------- MODULE WorkerNode ----------------------------
(***************************************************************************)
(* The worker nodes (ag_core/distributed/worker.py, ClientWorker in its    *)
(* production loop) and the wires between them and the hub.  This module   *)
(* has the workers' steps only; Cluster composes them with the hub.        *)
(*                                                                         *)
(* A node is an asyncio program of four kinds of coroutines: the main loop *)
(* (connect, clean up, back off), the heartbeat loop, the loop that reads  *)
(* messages, and one execute_task per accepted task.  Handling a message   *)
(* is one step; an execution is suspended while the agent runs, while it   *)
(* cleans up after a cancellation, and before its result is sent.          *)
(*                                                                         *)
(* Checksums are always valid here and the agent's work is one step whose  *)
(* outcome is open.                                                        *)
(***************************************************************************)
EXTENDS Integers, Sequences

CONSTANTS
  Worker,  \* worker processes; one restarts under the id it had (--worker-id)
  Task,    \* task ids
  Conn,    \* connections, each used once
  NoConn   \* worker.ws is None

VARIABLES
  wire,          \* per connection: "free", "up" or "down"
  toHub,         \* messages on their way to the hub's endpoint
  toWorker,      \* messages on their way to the worker
  ws,            \* worker.ws
  active_tasks,  \* what worker.status looks at
  running_tasks, \* the executions a cancellation can reach
  execution      \* per worker and task: how far execute_task is

nodeVars == <<wire, toHub, toWorker, ws, active_tasks, running_tasks, execution>>

\* "dying": cancelled, but the agent has not unwound yet.  "never": cancelled before
\* its first step.  "gone": lost with the process.
ExecutionRecord ==
  [pc : {"none", "created", "running", "dying", "reporting", "done", "never", "gone"},
   outcome : {"none", "completed", "failed"}]

RegisterWire == [type |-> "register"]
NotRegisteredWire == [type |-> "not_registered"]
ResultWire(t, s) == [type |-> "result", task |-> t, status |-> s]
RunTaskWire(t) == [type |-> "run_task", task |-> t]
CancelWire(t) == [type |-> "cancel", task |-> t]

NodeInit ==
  /\ wire = [k \in Conn |-> "free"]
  /\ toHub = [k \in Conn |-> <<>>]
  /\ toWorker = [k \in Conn |-> <<>>]
  /\ ws = [w \in Worker |-> NoConn]
  /\ active_tasks = [w \in Worker |-> {}]
  /\ running_tasks = [w \in Worker |-> {}]
  /\ execution = [w \in Worker |-> [t \in Task |-> [pc |-> "none", outcome |-> "none"]]]

\* What is sent on a wire that is down is lost, whether the send raises or not.
Put(channel, k, m) ==
  IF k # NoConn /\ wire[k] = "up" THEN [channel EXCEPT ![k] = Append(@, m)] ELSE channel

\* asyncio's Task.cancel() on the executions of S.
CancelAll(w, S) ==
  [execution EXCEPT ![w] =
     [t \in Task |-> IF t \in S /\ @[t].pc = "created" THEN [@[t] EXCEPT !.pc = "never"]
                     ELSE IF t \in S /\ @[t].pc = "running" THEN [@[t] EXCEPT !.pc = "dying"]
                     ELSE @[t]]]

-----------------------------------------------------------------------------
(* Connection *)

\* run_production_loop connects and registers.
Open(w, k) ==
  /\ ws[w] = NoConn
  /\ wire[k] = "free"
  /\ wire' = [wire EXCEPT ![k] = "up"]
  /\ ws' = [ws EXCEPT ![w] = k]
  /\ toHub' = [toHub EXCEPT ![k] = <<RegisterWire>>]
  /\ UNCHANGED <<toWorker, active_tasks, running_tasks, execution>>

\* The wire breaks; of what is on it each side may still read a prefix.
Drop(k) ==
  /\ wire[k] = "up"
  /\ wire' = [wire EXCEPT ![k] = "down"]
  /\ \E n \in 0..Len(toHub[k]) : toHub' = [toHub EXCEPT ![k] = SubSeq(@, 1, n)]
  /\ \E n \in 0..Len(toWorker[k]) : toWorker' = [toWorker EXCEPT ![k] = SubSeq(@, 1, n)]
  /\ UNCHANGED <<ws, active_tasks, running_tasks, execution>>

\* Mutant of Disconnect: the executions go on.
DisconnectKeepsTasks(w) ==
  /\ ws[w] # NoConn
  /\ wire[ws[w]] = "down"
  /\ \A t \in running_tasks[w] : execution[w][t].pc # "created"
  /\ ws' = [ws EXCEPT ![w] = NoConn]
  /\ running_tasks' = [running_tasks EXCEPT ![w] = {}]
  /\ toWorker' = [toWorker EXCEPT ![ws[w]] = <<>>]
  /\ UNCHANGED <<wire, toHub, active_tasks, execution>>

\* The loop notices: it forgets the socket and cancels every execution.  The event
\* loop has given each created one its first step by then.
Disconnect(w) ==
  /\ ws[w] # NoConn
  /\ wire[ws[w]] = "down"
  /\ \A t \in running_tasks[w] : execution[w][t].pc # "created"
  /\ ws' = [ws EXCEPT ![w] = NoConn]
  /\ execution' = CancelAll(w, running_tasks[w])
  /\ running_tasks' = [running_tasks EXCEPT ![w] = {}]
  /\ toWorker' = [toWorker EXCEPT ![ws[w]] = <<>>]
  /\ UNCHANGED <<wire, toHub, active_tasks>>

\* The process dies and is started again.
Crash(w) ==
  /\ ws' = [ws EXCEPT ![w] = NoConn]
  /\ wire' = [k \in Conn |-> IF k = ws[w] THEN "down" ELSE wire[k]]
  /\ toWorker' = [k \in Conn |-> IF k = ws[w] THEN <<>> ELSE toWorker[k]]
  /\ active_tasks' = [active_tasks EXCEPT ![w] = {}]
  /\ running_tasks' = [running_tasks EXCEPT ![w] = {}]
  /\ execution' = [execution EXCEPT ![w] =
       [t \in Task |-> IF @[t].pc \in {"created", "running", "dying", "reporting"}
                         THEN [@[t] EXCEPT !.pc = "gone"] ELSE @[t]]]
  /\ UNCHANGED toHub

\* _heartbeat_loop beats as long as there is a socket.
Beats(w) == ws[w] # NoConn /\ wire[ws[w]] = "up"

-----------------------------------------------------------------------------
(* Messages from the hub *)

Incoming(w, type) ==
  /\ ws[w] # NoConn
  /\ toWorker[ws[w]] # <<>>
  /\ Head(toWorker[ws[w]]).type = type
  /\ toWorker' = [toWorker EXCEPT ![ws[w]] = Tail(@)]

ReceiveNotRegistered(w) ==
  /\ Incoming(w, "not_registered")
  /\ toHub' = Put(toHub, ws[w], RegisterWire)
  /\ UNCHANGED <<wire, ws, active_tasks, running_tasks, execution>>

\* Mutant of RejectTask: the hub is not told.
RejectSilently(w) ==
  /\ active_tasks[w] # {}
  /\ Incoming(w, "run_task")
  /\ UNCHANGED <<wire, toHub, ws, active_tasks, running_tasks, execution>>

\* A busy worker answers with a failed result.
RejectTask(w) ==
  /\ active_tasks[w] # {}
  /\ Incoming(w, "run_task")
  /\ toHub' = Put(toHub, ws[w], ResultWire(Head(toWorker[ws[w]]).task, "failed"))
  /\ UNCHANGED <<wire, ws, active_tasks, running_tasks, execution>>

AcceptTask(w) ==
  /\ active_tasks[w] = {}
  /\ Incoming(w, "run_task")
  /\ LET t == Head(toWorker[ws[w]]).task IN
     /\ active_tasks' = [active_tasks EXCEPT ![w] = @ \cup {t}]
     /\ running_tasks' = [running_tasks EXCEPT ![w] = @ \cup {t}]
     /\ execution' = [execution EXCEPT ![w][t].pc = "created"]
  /\ UNCHANGED <<wire, toHub, ws>>

\* A cancel message, whichever task it names, clears active_tasks (status = "idle").
ReceiveCancel(w) ==
  /\ Incoming(w, "cancel")
  /\ execution' = CancelAll(w, {Head(toWorker[ws[w]]).task} \cap running_tasks[w])
  /\ active_tasks' = [active_tasks EXCEPT ![w] = {}]
  /\ UNCHANGED <<wire, toHub, ws, running_tasks>>

-----------------------------------------------------------------------------
(* execute_task *)

Start(w, t) ==
  /\ execution[w][t].pc = "created"
  /\ execution' = [execution EXCEPT ![w][t].pc = "running"]
  /\ active_tasks' = [active_tasks EXCEPT ![w] = @ \cup {t}]
  /\ UNCHANGED <<wire, toHub, toWorker, ws, running_tasks>>

\* Mutant of Finish: the finally block forgets active_tasks.
FinishLeavesBusy(w, t) ==
  /\ \/ /\ execution[w][t].pc = "running"
        /\ \E s \in {"completed", "failed"} :
             execution' = [execution EXCEPT ![w][t] = [pc |-> "reporting", outcome |-> s]]
     \/ /\ execution[w][t].pc = "dying"
        /\ execution' = [execution EXCEPT ![w][t] = [pc |-> "reporting", outcome |-> "failed"]]
  /\ running_tasks' = [running_tasks EXCEPT ![w] = @ \ {t}]
  /\ UNCHANGED <<wire, toHub, toWorker, ws, active_tasks>>

\* The agent returns, raises, or has unwound after a cancellation.  The finally
\* block sets status = "idle", which clears active_tasks altogether.
Finish(w, t) ==
  /\ \/ /\ execution[w][t].pc = "running"
        /\ \E s \in {"completed", "failed"} :
             execution' = [execution EXCEPT ![w][t] = [pc |-> "reporting", outcome |-> s]]
     \/ /\ execution[w][t].pc = "dying"
        /\ execution' = [execution EXCEPT ![w][t] = [pc |-> "reporting", outcome |-> "failed"]]
  /\ running_tasks' = [running_tasks EXCEPT ![w] = @ \ {t}]
  /\ active_tasks' = [active_tasks EXCEPT ![w] = {}]
  /\ UNCHANGED <<wire, toHub, toWorker, ws>>

\* report(): over the socket the worker has now.  Without one the HTTP fallback has
\* no network in the production loop, and the result is lost.
Report(w, t) ==
  /\ execution[w][t].pc = "reporting"
  /\ execution' = [execution EXCEPT ![w][t].pc = "done"]
  /\ toHub' = Put(toHub, ws[w], ResultWire(t, execution[w][t].outcome))
  /\ UNCHANGED <<wire, toWorker, ws, active_tasks, running_tasks>>

ExecutionStep(w) == \E t \in Task : Start(w, t) \/ Finish(w, t) \/ Report(w, t)
ReceiveStep(w) ==
  ReceiveNotRegistered(w) \/ RejectTask(w) \/ AcceptTask(w) \/ ReceiveCancel(w)
-----------------------------------------------------------------------------
(* Properties of a node *)

NodeTypeOK ==
  /\ wire \in [Conn -> {"free", "up", "down"}]
  /\ ws \in [Worker -> Conn \cup {NoConn}]
  /\ active_tasks \in [Worker -> SUBSET Task]
  /\ running_tasks \in [Worker -> SUBSET Task]
  /\ execution \in [Worker -> [Task -> ExecutionRecord]]

\* A worker that calls itself busy has an execution that will end and clear it: no
\* order of cancellations, disconnections and late ends leaves it refusing work
\* for ever.
NeverStuckBusy ==
  \A w \in Worker : \A t \in active_tasks[w] :
    execution[w][t].pc \in {"created", "running", "dying"}

\* Every execution that can still work is one a cancellation can reach, or is
\* already being cancelled: a disconnection leaves nothing running unseen.
CancelReachesAll ==
  \A w \in Worker : \A t \in Task :
    execution[w][t].pc \in {"created", "running"} => t \in running_tasks[w]
=============================================================================
