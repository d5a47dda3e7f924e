------------------------------ MODULE Cluster ------------------------------
(***************************************************************************)
(* The hub server and real worker nodes: HubServer's endpoints read what   *)
(* WorkerNode's processes sent, and the hub's messages travel the same     *)
(* wires back.  Wires are FIFO, may break at any time with what is on      *)
(* them, and each end notices on its own; processes may die and restart.   *)
(***************************************************************************)
EXTENDS HubServer, Sequences

VARIABLES
  wire, toHub, toWorker, ws, active_tasks, running_tasks, execution,  \* WorkerNode
  via,     \* the socket a task was sent through
  notify   \* the socket the cancel notice of an expired task will go through

Node == INSTANCE WorkerNode WITH Task <- TaskId

nodeVars == <<wire, toHub, toWorker, ws, active_tasks, running_tasks, execution>>
linkVars == <<via, notify>>
clusterVars == <<vars, nodeVars, linkVars>>

ClusterInit ==
  /\ ServerInit
  /\ Node!NodeInit
  /\ via = [t \in TaskId |-> NoConn]
  /\ notify = [t \in TaskId |-> NoConn]

\* The hub's side of a wire touches no process.
NodesUnchanged == UNCHANGED <<wire, ws, active_tasks, running_tasks, execution>>
-----------------------------------------------------------------------------
(* Connections *)

Open(w, k) == Node!Open(w, k) /\ Connect(k, w) /\ UNCHANGED linkVars

\* The endpoint ends when its socket is gone and it has read what was left.
EndpointEnds(k) ==
  /\ wire[k] = "down"
  /\ toHub[k] = <<>>
  /\ Close(k)
  /\ UNCHANGED <<nodeVars, linkVars>>

ConnStep ==
  \/ \E w \in Worker, k \in Conn : Open(w, k)
  \/ \E k \in Conn : EndpointEnds(k)
  \/ /\ \/ \E k \in Conn : Node!Drop(k)
        \/ \E w \in Worker : Node!Disconnect(w) \/ Node!Crash(w)
     /\ UNCHANGED <<vars, linkVars>>

\* A beat travels at once, but does not overtake a registration.  The hub answers
\* not_registered to a worker it does not know; one such answer is on a wire at a time.
BeatStep(w) ==
  LET k == ws[w] IN
  /\ Node!Beats(w)
  /\ endpoint[k].status = "registered"
  /\ \A i \in DOMAIN toHub[k] : toHub[k][i] # Node!RegisterWire
  /\ \/ HeartbeatMsg(k) /\ UNCHANGED toWorker
     \/ /\ workers[w].status = "absent"
        /\ \A i \in DOMAIN toWorker[k] : toWorker[k][i] # Node!NotRegisteredWire
        /\ toWorker' = Node!Put(toWorker, k, Node!NotRegisteredWire)
        /\ UNCHANGED vars
  /\ UNCHANGED <<toHub, linkVars>> /\ NodesUnchanged

NodeStep ==
  \E w \in Worker :
    \/ BeatStep(w)
    \/ (Node!ReceiveStep(w) \/ Node!ExecutionStep(w)) /\ UNCHANGED <<vars, linkVars>>

-----------------------------------------------------------------------------
(* The hub's end of the wires *)

Incoming(k, type) ==
  /\ endpoint[k].status \in {"open", "registered"}
  /\ toHub[k] # <<>>
  /\ Head(toHub[k]).type = type
  /\ toHub' = [toHub EXCEPT ![k] = Tail(@)]

HubRegister(k) ==
  /\ Incoming(k, "register")
  /\ (\E roles \in RoleLists : RegisterMsg(k, roles)) \/ RegisterRefused(k)
  /\ UNCHANGED <<toWorker, linkVars>> /\ NodesUnchanged

\* A result the hub refuses: 400 or 403, 404 for a record that is gone.
Refused(w, t) == \/ workers[w].status = "absent"
                 \/ tasks[t].status = "none"
                 \/ tasks[t].worker_id # w

HubResult(k) ==
  /\ Incoming(k, "result")
  /\ LET m == Head(toHub[k]) IN
     \/ ResultMsg(k, m.task, m.status)
     \/ Refused(endpoint[k].worker, m.task) /\ UNCHANGED vars
  /\ UNCHANGED <<toWorker, linkVars>> /\ NodesUnchanged

\* Mutant of HubDispatch: a send that raises is made again, on the worker's socket.
HubDispatchResends(w, t) ==
  \/ /\ DispatchSend(w, t)
     /\ socket[w] # NoConn
     /\ via' = [via EXCEPT ![t] = socket[w]]
     /\ toWorker' = Node!Put(toWorker, socket[w], Node!RunTaskWire(t))
  \/ DispatchSent(w, t) /\ UNCHANGED <<via, toWorker>>
  \/ /\ <<w, t>> \in sending
     /\ wire[via[t]] = "down"
     /\ socket[w] \notin {via[t], NoConn}
     /\ via' = [via EXCEPT ![t] = socket[w]]
     /\ toWorker' = Node!Put(toWorker, socket[w], Node!RunTaskWire(t))
     /\ UNCHANGED hubVars

\* The dispatch coroutine writes to the socket; the send may raise only when the
\* socket turns out to be gone.
HubDispatch(w, t) ==
  \/ /\ DispatchSkip(w, t)
     /\ tasks[t].status = "none" \/ socket[w] = NoConn
     /\ UNCHANGED <<via, toWorker>>
  \/ /\ DispatchSend(w, t)
     /\ socket[w] # NoConn
     /\ via' = [via EXCEPT ![t] = socket[w]]
     /\ toWorker' = Node!Put(toWorker, socket[w], Node!RunTaskWire(t))
  \/ DispatchSent(w, t) /\ UNCHANGED <<via, toWorker>>
  \/ /\ DispatchError(w, t)
     /\ wire[via[t]] = "down"
     /\ UNCHANGED <<via, toWorker>>

DispatchStep ==
  \E w \in Worker, t \in TaskId :
    /\ HubDispatch(w, t)
    /\ UNCHANGED <<serverVars, toHub, notify>> /\ NodesUnchanged

\* The notices of a sweep go to the sockets it saw under its lock.  It also closes
\* the sockets of the workers it prunes: to the nodes that is one more Drop.  No task
\* gets overdue before its dispatch coroutine has had its first step.
ClusterSweep(s, expired) ==
  /\ \A p \in spawned : p[2] \notin expired
  /\ SweepSockets(s, expired)
  /\ notify' = [t \in TaskId |-> IF t \in expired THEN socket[tasks[t].worker_id] ELSE notify[t]]
  /\ UNCHANGED <<nodeVars, via>>

CancelNotice(s, w, t) ==
  /\ SendNotice(s, w, t)
  /\ toWorker' = Node!Put(toWorker, notify[t], Node!CancelWire(t))
  /\ notify' = [notify EXCEPT ![t] = NoConn]
  /\ UNCHANGED <<serverVars, toHub, via>> /\ NodesUnchanged

\* No worker gets older than the margin here: one so old is pruned already.
ClusterSweeperStep ==
  \/ \E s \in Sweeper, expired \in SUBSET TaskId : ClusterSweep(s, expired)
  \/ \E s \in Sweeper, w \in Worker, t \in TaskId : CancelNotice(s, w, t)
  \/ \E w \in Worker : workers[w].age = "fresh" /\ Grow(w) /\ UNCHANGED <<serverVars, nodeVars, linkVars>>

ReceiveStep == \E k \in Conn : HubRegister(k) \/ HubResult(k)

\* Orchestrators in other processes, over HTTP.
Clients ==
  /\ \E name \in RoleName :
       \/ \E w \in Worker : DispatchNow(name, w)
       \/ DispatchLater(name)
       \/ DispatchFull(name)
  /\ UNCHANGED <<serverVars, nodeVars, linkVars>>

ClusterNext ==
  ConnStep \/ NodeStep \/ ReceiveStep \/ DispatchStep \/ ClusterSweeperStep \/ Clients

ClusterSpec == ClusterInit /\ [][ClusterNext]_clusterVars
-----------------------------------------------------------------------------
(* Properties *)

\* Every variable keeps the shape its comment gives it.
ClusterTypeOK ==
  /\ ServerTypeOK
  /\ Node!NodeTypeOK
  /\ via \in [TaskId -> Conn \cup {NoConn}]
  /\ notify \in [TaskId -> Conn \cup {NoConn}]

\* A worker that calls itself busy has an execution that will end and clear it: no
\* order of cancellations, disconnections and late ends leaves it refusing work for
\* ever.
NeverStuckBusy == Node!NeverStuckBusy

\* Whatever still executes can be cancelled: a disconnection leaves nothing running
\* unseen.
CancelReachesAll == Node!CancelReachesAll

InFlight(channel, k, m) == k # NoConn /\ \E i \in DOMAIN channel[k] : channel[k][i] = m

\* Somebody still works on t for w, or the news of its end is on its way.
Carried(w, t) ==
  \/ <<w, t>> \in spawned \cup sending
  \/ InFlight(toWorker, via[t], Node!RunTaskWire(t))
  \/ execution[w][t].pc \in {"created", "running", "dying", "reporting"}
  \/ \E k \in Conn, s \in Terminal : InFlight(toHub, k, Node!ResultWire(t, s))

\* As long as a worker keeps the connection a task was sent through, the hub's
\* belief that it runs the task is true: nothing is dropped between the two without
\* a report, so a client waits for work that is being done.
RunningHasCarrier ==
  \A t \in TaskId :
    LET w == tasks[t].worker_id IN
    /\ tasks[t].status = "running"
    /\ via[t] # NoConn => wire[via[t]] = "up" /\ ws[w] = via[t]
    => Carried(w, t)

\* A task is executed at most once, through losses, late answers and reconnections.
ExecutedOnce ==
  [][\A w \in Worker, t \in TaskId :
       execution[w][t].pc # "created" /\ execution'[w][t].pc = "created"
         => \A u \in Worker : execution[u][t].pc = "none"]_clusterVars

=============================================================================
