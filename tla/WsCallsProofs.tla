-------------------------- MODULE WsCallsProofs --------------------------
(***************************************************************************)
(* Safety of WsCalls for every set of workers, connections and calls: the  *)
(* future a call awaits can still be found, a call is dispatched again     *)
(* only after a loss, and the store that calls write by themselves is      *)
(* still a TaskBoard.                                                      *)
(***************************************************************************)
EXTENDS WsCalls, HubProofs

-----------------------------------------------------------------------------
(* The invariant *)

\* Nobody uses /dispatch, so no task waits for a worker and no coroutine sends one.
NothingWaits ==
  /\ task_queue = {} /\ spawned = {} /\ sending = {}
  /\ \A t \in TaskId : tasks[t].status # "pending"

\* What holds of a task id and its future: an id beyond the counter is blank; a future
\* that says "lost" is that of a task that failed for another reason than its time; every
\* task somebody can wait for has a future, and a failed one says why.
Kept(t) ==
  /\ t > task_counter => tasks[t] = NoTask /\ future[t] = "none"
  /\ future[t] = "lost" => tasks[t].status \in {"failed", "none"} /\ cause[t] # "timeout"
  /\ t \in pending => future[t] # "none"
  /\ t \in pending /\ tasks[t].status = "failed" => cause[t] # "none"

\* What holds of a call: it has a worker and a task when it needs them, and the future
\* it awaits, or will await after its send, can wake it or has.
Before == {"ready", "selecting", "selected"}
Awaiting == {"sending", "waiting"}
Carrying == Awaiting \cup {"send_failed", "giving_up", "cancel_send"}
Answerable == {"waiting", "output", "error", "lost", "timeout"}
Placed(c) ==
  LET t == call[c].task IN
  /\ call[c].pc \in Before => t = NoTaskId
  /\ call[c].pc \in Carrying => t \in TaskId
  /\ call[c].pc \in {"selected"} \cup Carrying => call[c].worker \in Worker
  /\ t \in TaskId => t <= task_counter
  /\ call[c].pc \in {"giving_up", "cancel_send"} => call[c].why # "none"
  /\ call[c].pc \in Awaiting =>
       /\ future[t] \in Answerable
       /\ future[t] = "waiting" => t \in pending /\ tasks[t].status # "completed"

\* No two calls have a task in common.
Apart ==
  \A c, d \in Call : call[c].task = call[d].task /\ call[c].task \in TaskId => c = d

CallsInv ==
  /\ CallsTypeOK /\ NothingWaits
  /\ \A t \in TaskId : Kept(t)
  /\ \A c \in Call : Placed(c)
  /\ Apart

-----------------------------------------------------------------------------
(* Steps of the server *)

\* A pass over an empty backlog hands out nothing.
LEMMA NothingGiven ==
  ASSUME NothingWaits, NEW info \in [Worker -> WorkerRecord], NEW ts \in [TaskId -> TaskRecord],
         NEW a \in Passes(info, ts, Backlog(ts))
  PROVE  /\ Occupy(info, a) = info /\ Start(ts, a) = ts
         /\ Backlog(ts) \ Given(a) = {} /\ spawned \cup {<<a[t], t>> : t \in Given(a)} = {}
<1>1. Backlog(ts) = {}
  BY DEF Backlog, NothingWaits
<1>2. Given(a) = {}
  BY <1>1 DEF Given, Passes
<1>3. Occupy(info, a) = info
  BY <1>2 DEF Occupy
<1>4. Start(ts, a) = ts
  BY <1>2 DEF Start
<1> QED BY <1>1, <1>2, <1>3, <1>4 DEF NothingWaits

LEMMA EmptyPass ==
  ASSUME NothingWaits, NEW info \in [Worker -> WorkerRecord], NEW ts \in [TaskId -> TaskRecord],
         ProcessQueue(info, ts)
  PROVE  workers' = info /\ tasks' = ts /\ task_queue' = {} /\ spawned' = {}
BY NothingGiven DEF ProcessQueue

LEMMA EmptyPassThenSet ==
  ASSUME NothingWaits, NEW info \in [Worker -> WorkerRecord], NEW ts \in [TaskId -> TaskRecord],
         NEW w, NEW s, ProcessQueueThenSet(info, ts, w, s)
  PROVE  workers' = SetStatus(info, {w}, s) /\ tasks' = ts /\ task_queue' = {} /\ spawned' = {}
BY NothingGiven DEF ProcessQueueThenSet

\* What a step of the server may do to a task: it settles a running one, and a future
\* only together with taking it out of the table or not at all.
Settled(t) ==
  \/ tasks'[t] = tasks[t]
  \/ /\ tasks[t].status = "running" /\ tasks'[t].status \in Terminal
     /\ tasks'[t].worker_id = tasks[t].worker_id
Serves(t) ==
  /\ Settled(t)
  /\ \/ future'[t] = future[t]
     \/ t \in pending /\ future[t] = "waiting" /\ future'[t] \in Answerable \ {"waiting"}
  /\ t \in pending' => t \in pending
  /\ t \in pending /\ t \notin pending' => future'[t] # "waiting"
  /\ tasks'[t].status = "completed" /\ future'[t] = "waiting" /\ t \in pending
       => tasks[t].status = "completed"
  /\ future'[t] = "lost" => tasks'[t].status \in {"failed", "none"} /\ cause'[t] # "timeout"
  /\ t \in pending' /\ tasks'[t].status = "failed" => cause'[t] # "none"

\* Calls at most learn that the registry has another record of their worker.
SameCalls ==
  \A c \in Call : /\ call'[c].pc = call[c].pc /\ call'[c].task = call[c].task
                  /\ call'[c].worker = call[c].worker /\ call'[c].attempt = call[c].attempt
                  /\ call'[c].why = call[c].why

ServerMoves ==
  /\ task_counter' = task_counter
  /\ NothingWaits' /\ CallsTypeOK'
  /\ \A t \in TaskId : Serves(t)
  /\ SameCalls

LEMMA ServerKeeps ==
  ASSUME CallsInv, ServerMoves
  PROVE  CallsInv'
<1>1. ASSUME NEW t \in TaskId PROVE Kept(t)'
  <2>1. Kept(t) /\ Serves(t) /\ task_counter' = task_counter
    BY DEF CallsInv, ServerMoves
  <2>2. t > task_counter => tasks'[t] = NoTask /\ future'[t] = "none"
    BY <2>1 DEF Kept, Serves, Settled, NoTask
  <2>3. t \in pending' => future'[t] # "none"
    BY <2>1 DEF Kept, Serves, Answerable
  <2> QED BY <2>1, <2>2, <2>3 DEF Kept, Serves
<1>2. ASSUME NEW c \in Call PROVE Placed(c)'
  <2> DEFINE t == call[c].task
  <2>1. /\ Placed(c) /\ task_counter' = task_counter
        /\ call'[c].pc = call[c].pc /\ call'[c].task = t /\ call'[c].worker = call[c].worker
        /\ call'[c].why = call[c].why
    BY DEF CallsInv, ServerMoves, SameCalls
  <2>2. ASSUME call[c].pc \in Awaiting
        PROVE  /\ future'[t] \in Answerable
               /\ future'[t] = "waiting" => t \in pending' /\ tasks'[t].status # "completed"
    <3>1. t \in TaskId /\ future[t] \in Answerable
          /\ (future[t] = "waiting" => t \in pending /\ tasks[t].status # "completed")
      BY <2>1, <2>2 DEF Placed, Carrying
    <3>2. Serves(t)
      BY <3>1 DEF ServerMoves
    <3> QED BY <3>1, <3>2 DEF Serves, Answerable
  <2> QED BY <2>1, <2>2 DEF Placed
<1>3. Apart'
  BY DEF CallsInv, ServerMoves, SameCalls, Apart
<1> QED BY <1>1, <1>2, <1>3 DEF CallsInv, ServerMoves

LEMMA LosesHold ==
  ASSUME CallsTypeOK, NEW W, LoseHold(W)
  PROVE  SameCalls /\ call' \in [Call -> CallRecord]
<1>1. ASSUME NEW c \in Call
      PROVE  /\ call'[c] \in CallRecord
             /\ call'[c].pc = call[c].pc /\ call'[c].task = call[c].task
             /\ call'[c].worker = call[c].worker /\ call'[c].attempt = call[c].attempt
             /\ call'[c].why = call[c].why
  <2>1. call[c] \in CallRecord
    BY DEF CallsTypeOK
  <2>2. call'[c] = IF call[c].worker \in W THEN [call[c] EXCEPT !.held = FALSE] ELSE call[c]
    BY DEF LoseHold
  <2> QED BY <2>1, <2>2 DEF CallRecord
<1> QED BY <1>1 DEF LoseHold, SameCalls

\* What a step of the server leaves behind: a worker table and a store of the right
\* types, no waiting task, and everything else as it was or of its type.
ServerTyped ==
  /\ workers' \in [Worker -> WorkerRecord] /\ tasks' \in [TaskId -> TaskRecord]
  /\ task_queue' = {} /\ spawned' = {} /\ sending' = {}
  /\ notices' \subseteq Sweeper \X Worker \X TaskId
  /\ UNCHANGED <<task_counter, max_workers>>
  /\ socket' \in [Worker -> Conn \cup {NoConn}]
  /\ endpoint' \in [Conn -> EndpointRecord]
  /\ pending' \subseteq TaskId
  /\ future' \in [TaskId -> FutureState]
  /\ cause' \in [TaskId -> Cause]

LEMMA ServerMovesSo ==
  ASSUME CallsInv, ServerTyped, \A t \in TaskId : Serves(t), SameCalls, call' \in [Call -> CallRecord]
  PROVE  ServerMoves
<1>1. CallsTypeOK'
  BY DEF ServerTyped, CallsTypeOK, ServerTypeOK, TypeOK, CallsInv
<1>2. \A t \in TaskId : tasks'[t].status # "pending"
  BY DEF Serves, Settled, CallsInv, NothingWaits, Terminal
<1> QED BY <1>1, <1>2 DEF ServerMoves, NothingWaits, ServerTyped

\* Handlers that leave the store and the futures alone.
LEMMA QuietServerStep ==
  ASSUME CallsInv, ServerTyped, UNCHANGED <<tasks, pending, future, cause>>,
         SameCalls, call' \in [Call -> CallRecord]
  PROVE  ServerMoves
<1>1. ASSUME NEW t \in TaskId PROVE Serves(t)
  BY DEF Serves, Settled, CallsInv, Kept
<1> QED BY <1>1, ServerMovesSo

LEMMA CallsStay ==
  ASSUME CallsInv, call' = call
  PROVE  SameCalls /\ call' \in [Call -> CallRecord]
BY DEF SameCalls, CallsInv, CallsTypeOK

LEMMA RegisterMsgMoves ==
  ASSUME CallsInv, NEW k \in Conn, NEW roles \in RoleLists, RegisterMsg(k, roles),
         LoseHold({endpoint[k].worker})
  PROVE  ServerMoves
<1> DEFINE w == endpoint[k].worker
           status == ServingStatus(w)
           info == [workers EXCEPT ![w] = [status |-> status, roles |-> roles, age |-> "fresh"]]
<1>1. CallsTypeOK /\ NothingWaits
  BY DEF CallsInv
<1>2. info \in [Worker -> WorkerRecord] /\ tasks \in [TaskId -> TaskRecord] /\ status \in {"idle", "busy"}
  <2>1. [status |-> status, roles |-> roles, age |-> "fresh"] \in WorkerRecord
    BY HubAssumption DEF WorkerRecord, Age, ServingStatus
  <2> QED BY <1>1, <2>1 DEF CallsTypeOK, ServerTypeOK, TypeOK, ServingStatus
<1>3. ProcessQueueThenSet(info, tasks, w, status)
  BY DEF RegisterMsg, ServingStatus
<1> HIDE DEF info, status
<1>4. workers' = SetStatus(info, {w}, status) /\ tasks' = tasks /\ task_queue' = {} /\ spawned' = {}
  BY <1>1, <1>2, <1>3, EmptyPassThenSet
<1>5. workers' \in [Worker -> WorkerRecord]
  BY <1>2, <1>4, SetWorkers
<1>6. endpoint' \in [Conn -> EndpointRecord] /\ socket' \in [Worker -> Conn \cup {NoConn}]
  BY <1>1 DEF CallsTypeOK, ServerTypeOK, EndpointRecord, RegisterMsg
<1>7. ServerTyped
  BY <1>1, <1>4, <1>5, <1>6 DEF ServerTyped, RegisterMsg, CallsTypeOK, ServerTypeOK, TypeOK, NothingWaits
<1>8. SameCalls /\ call' \in [Call -> CallRecord]
  BY <1>1, LosesHold
<1> QED BY <1>4, <1>7, <1>8, QuietServerStep DEF RegisterMsg

LEMMA RegisterOverHttpMoves ==
  ASSUME CallsInv, NEW w \in Worker, NEW roles \in RoleLists, RegisterOverHttp(w, roles), LoseHold({w})
  PROVE  ServerMoves
<1> DEFINE status == ServingStatus(w)
           info == [workers EXCEPT ![w] = [status |-> status, roles |-> roles, age |-> "fresh"]]
<1>1. CallsTypeOK /\ NothingWaits
  BY DEF CallsInv
<1>2. info \in [Worker -> WorkerRecord] /\ tasks \in [TaskId -> TaskRecord]
  <2>1. [status |-> status, roles |-> roles, age |-> "fresh"] \in WorkerRecord
    BY HubAssumption DEF WorkerRecord, Age, ServingStatus
  <2> QED BY <1>1, <2>1 DEF CallsTypeOK, ServerTypeOK, TypeOK
<1>3. ProcessQueue(info, tasks)
  BY DEF RegisterOverHttp, Register, ServingStatus
<1> HIDE DEF info, status
<1>4. workers' = info /\ tasks' = tasks /\ task_queue' = {} /\ spawned' = {}
  BY <1>1, <1>2, <1>3, EmptyPass
<1>5. UNCHANGED <<socket, endpoint, pending, future, cause, task_counter, max_workers, sending, notices>>
  BY DEF RegisterOverHttp, Register, serverVars
<1>7. ServerTyped
  BY <1>1, <1>2, <1>4, <1>5 DEF ServerTyped, CallsTypeOK, ServerTypeOK, TypeOK, NothingWaits
<1>8. SameCalls /\ call' \in [Call -> CallRecord]
  BY <1>1, LosesHold
<1> QED BY <1>4, <1>5, <1>7, <1>8, QuietServerStep

\* Connections that open or are refused, heartbeats, the passing of time, and a notice.
LEMMA SmallServerMoves ==
  ASSUME CallsInv, SameCalls, call' \in [Call -> CallRecord],
         \/ \E k \in Conn, w \in Worker : Connect(k, w)
         \/ \E k \in Conn : RegisterRefused(k) \/ HeartbeatMsg(k)
         \/ \E w \in Worker : Grow(w) /\ UNCHANGED serverVars
         \/ \E s \in Sweeper, w \in Worker, t \in TaskId : SendNotice(s, w, t) /\ UNCHANGED serverVars
  PROVE  ServerMoves
<1>1. CallsTypeOK /\ NothingWaits
  BY DEF CallsInv
<1>2. UNCHANGED <<tasks, pending, future, cause, task_queue, spawned, sending, task_counter, max_workers, socket>>
  BY DEF Connect, RegisterRefused, HeartbeatMsg, Heartbeat, Grow, SendNotice, serverVars, hubVars
<1>3. endpoint' \in [Conn -> EndpointRecord]
  BY <1>1 DEF Connect, RegisterRefused, HeartbeatMsg, serverVars, hubVars, CallsTypeOK, ServerTypeOK, EndpointRecord
<1>4. workers' \in [Worker -> WorkerRecord]
  <2>1. ASSUME NEW w, NEW a \in Age, workers' = [workers EXCEPT ![w].age = a]
        PROVE  workers' \in [Worker -> WorkerRecord]
    BY <1>1, <2>1 DEF CallsTypeOK, ServerTypeOK, TypeOK, WorkerRecord
  <2> QED BY <1>1, <2>1 DEF Connect, RegisterRefused, HeartbeatMsg, Heartbeat, Grow, SendNotice,
                            hubVars, Age, CallsTypeOK, ServerTypeOK, TypeOK
<1>5. notices' \subseteq notices
  BY DEF Connect, RegisterRefused, HeartbeatMsg, Heartbeat, Grow, SendNotice, hubVars
<1>6. ServerTyped
  BY <1>1, <1>2, <1>3, <1>4, <1>5 DEF ServerTyped, CallsTypeOK, ServerTypeOK, TypeOK, NothingWaits
<1> QED BY <1>2, <1>6, QuietServerStep

\* The table of futures has its shape.
FuturesTyped ==
  /\ pending \subseteq TaskId
  /\ future \in [TaskId -> FutureState]
  /\ cause \in [TaskId -> Cause]

\* What Settle makes of one future: none but those of S change, and those leave the table.
LEMMA SettleMoves ==
  ASSUME FuturesTyped, NEW S, NEW value, Settle(S, value),
         \A t \in S \cap pending : value[t] \in Answerable \ {"waiting"}
  PROVE  /\ pending' \subseteq TaskId /\ future' \in [TaskId -> FutureState]
         /\ \A t \in TaskId :
              IF t \in S \cap pending /\ future[t] = "waiting"
                THEN future'[t] = value[t] /\ future'[t] \in Answerable \ {"waiting"}
                ELSE future'[t] = future[t]
         /\ \A t \in TaskId : t \in pending' <=> t \in pending /\ t \notin S
<1>1. Answerable \subseteq FutureState
  BY DEF Answerable, FutureState
<1> QED BY <1>1 DEF Settle, FuturesTyped

LEMMA PruneMoves ==
  ASSUME CallsInv, Prune, call' = call
  PROVE  ServerMoves
<1> DEFINE failed == {t \in pending : tasks[t].status = "failed"}
<1>1. /\ CallsTypeOK /\ NothingWaits /\ FuturesTyped /\ failed \subseteq pending
      /\ pending \subseteq TaskId /\ cause \in [TaskId -> Cause]
  BY DEF CallsInv, CallsTypeOK, ServerTypeOK, FuturesTyped
<1>2. \A t \in failed : tasks[t].status = "failed" /\ cause[t] \in Answerable \ {"waiting"}
  BY <1>1 DEF CallsInv, Kept, Cause, Answerable
<1>3. Settle(failed, cause) /\ UNCHANGED <<hubVars, socket, endpoint, cause>>
  BY DEF Prune
<1> HIDE DEF failed
<1>4. /\ pending' \subseteq TaskId /\ future' \in [TaskId -> FutureState]
      /\ \A t \in TaskId :
              IF t \in failed \cap pending /\ future[t] = "waiting"
                THEN future'[t] = cause[t] /\ future'[t] \in Answerable \ {"waiting"}
                ELSE future'[t] = future[t]
      /\ \A t \in TaskId : t \in pending' <=> t \in pending /\ t \notin failed
  BY <1>1, <1>2, <1>3, SettleMoves
<1>5. ServerTyped
  BY <1>1, <1>3, <1>4 DEF hubVars, ServerTyped, CallsTypeOK, ServerTypeOK, TypeOK, NothingWaits
<1>6. ASSUME NEW t \in TaskId PROVE Serves(t)
  <2>1. Kept(t) /\ tasks'[t] = tasks[t] /\ cause'[t] = cause[t]
    BY <1>3 DEF CallsInv, hubVars
  <2>2. CASE t \in failed
    BY <1>1, <1>2, <1>4, <2>1, <2>2 DEF Serves, Settled, Kept, Answerable
  <2>3. CASE t \notin failed
    BY <1>1, <1>4, <2>1, <2>3 DEF Serves, Settled, Kept
  <2> QED BY <2>2, <2>3
<1> QED BY <1>5, <1>6, CallsStay, ServerMovesSo

LEMMA ResultMsgMoves ==
  ASSUME CallsInv, NEW k \in Conn, NEW t \in TaskId, NEW s \in Terminal, ResultMsg(k, t, s), call' = call
  PROVE  ServerMoves
<1> DEFINE w == endpoint[k].worker
           info == SetStatus(workers, {w}, "idle")
           ts == IF tasks[t].status = "running" THEN [tasks EXCEPT ![t].status = s] ELSE tasks
           value == [u \in TaskId |-> IF s = "completed" THEN "output" ELSE "error"]
<1>1. /\ CallsTypeOK /\ NothingWaits /\ FuturesTyped
      /\ workers \in [Worker -> WorkerRecord] /\ tasks \in [TaskId -> TaskRecord]
      /\ cause \in [TaskId -> Cause]
  BY DEF CallsInv, CallsTypeOK, ServerTypeOK, TypeOK, FuturesTyped
<1>2. info \in [Worker -> WorkerRecord]
  BY <1>1, SetWorkers
<1>3. /\ ts \in [TaskId -> TaskRecord]
      /\ \A u \in TaskId : u # t => ts[u] = tasks[u]
      /\ IF tasks[t].status = "running"
           THEN ts[t].status = s /\ ts[t].worker_id = tasks[t].worker_id
           ELSE ts[t] = tasks[t]
  <2>1. [tasks[t] EXCEPT !.status = s] \in TaskRecord /\ [tasks[t] EXCEPT !.status = s].status = s
        /\ [tasks[t] EXCEPT !.status = s].worker_id = tasks[t].worker_id
    BY <1>1, TaskAssign
  <2>2. ts = IF tasks[t].status = "running" THEN [tasks EXCEPT ![t] = [tasks[t] EXCEPT !.status = s]] ELSE tasks
    BY <1>1
  <2> QED BY <1>1, <2>1, <2>2
<1>4. ProcessQueueThenSet(info, ts, w, "idle") /\ Settle({t}, value) /\ tasks[t].status # "none"
  BY DEF ResultMsg
<1>5. /\ cause' = [cause EXCEPT ![t] = IF tasks[t].status = "running" /\ s = "failed" /\ t \in pending
                                        THEN "error" ELSE @]
      /\ UNCHANGED <<task_counter, max_workers, sending, notices, socket, endpoint>>
  BY DEF ResultMsg
<1>6. \A u \in TaskId : value[u] \in {"output", "error"}
  OBVIOUS
<1> HIDE DEF info, ts, value
<1>7. workers' = SetStatus(info, {w}, "idle") /\ tasks' = ts /\ task_queue' = {} /\ spawned' = {}
  BY <1>1, <1>2, <1>3, <1>4, EmptyPassThenSet
<1>8. workers' \in [Worker -> WorkerRecord]
  BY <1>2, <1>7, SetWorkers
<1>9. /\ pending' \subseteq TaskId /\ future' \in [TaskId -> FutureState]
      /\ \A u \in TaskId :
              IF u \in {t} \cap pending /\ future[u] = "waiting"
                THEN future'[u] = value[u] /\ future'[u] \in Answerable \ {"waiting"}
                ELSE future'[u] = future[u]
      /\ \A u \in TaskId : u \in pending' <=> u \in pending /\ u \notin {t}
  BY <1>1, <1>4, <1>6, SettleMoves DEF Answerable
<1>10. cause' \in [TaskId -> Cause]
  BY <1>1, <1>5 DEF Cause
<1>11. ServerTyped
  BY <1>1, <1>3, <1>5, <1>7, <1>8, <1>9, <1>10 DEF ServerTyped, CallsTypeOK, ServerTypeOK, TypeOK, NothingWaits
<1>12. ASSUME NEW u \in TaskId, u # t PROVE Serves(u)
  <2>1. Kept(u) /\ tasks'[u] = tasks[u] /\ cause'[u] = cause[u]
        /\ future'[u] = future[u] /\ (u \in pending' <=> u \in pending)
    BY <1>1, <1>3, <1>5, <1>7, <1>9, <1>12 DEF CallsInv
  <2> QED BY <2>1 DEF Serves, Settled, Kept
<1>13. Serves(t)
  <2>1. Kept(t) /\ t \notin pending' /\ Settled(t)
    BY <1>3, <1>7, <1>9 DEF CallsInv, Settled
  <2>2. \/ future'[t] = future[t] /\ (t \in pending => future[t] # "waiting")
        \/ t \in pending /\ future[t] = "waiting" /\ future'[t] \in {"output", "error"}
    BY <1>6, <1>9
  <2>3. future[t] = "lost" => tasks'[t] = tasks[t] /\ cause'[t] = cause[t]
    BY <1>1, <1>3, <1>5, <1>7, <2>1 DEF Kept
  <2> QED BY <2>1, <2>2, <2>3 DEF Serves, Settled, Kept, Answerable
<1> QED BY <1>11, <1>12, <1>13, CallsStay, ServerMovesSo

LEMMA CloseMoves ==
  ASSUME CallsInv, NEW k \in Conn, NEW W, Close(k), LoseHold(W)
  PROVE  ServerMoves
<1> DEFINE w == endpoint[k].worker
           active == RunningOn(tasks, w)
           lost == [t \in TaskId |-> "lost"]
           info == Remove(workers, {w})
           ts == Fail(tasks, active)
<1>1. /\ CallsTypeOK /\ NothingWaits /\ FuturesTyped
      /\ workers \in [Worker -> WorkerRecord] /\ tasks \in [TaskId -> TaskRecord]
      /\ cause \in [TaskId -> Cause] /\ TypeOK
      /\ active \subseteq TaskId
  BY DEF CallsInv, CallsTypeOK, ServerTypeOK, TypeOK, FuturesTyped, RunningOn
<1>2. SameCalls /\ call' \in [Call -> CallRecord]
  BY <1>1, LosesHold
<1>3. endpoint' \in [Conn -> EndpointRecord]
  BY <1>1 DEF Close, CallsTypeOK, ServerTypeOK, EndpointRecord
<1>4. CASE UNCHANGED <<hubVars, socket, pending, future, cause>>
  <2>1. ServerTyped
    BY <1>1, <1>3, <1>4 DEF hubVars, ServerTyped, CallsTypeOK, ServerTypeOK, TypeOK, NothingWaits
  <2> QED BY <1>2, <1>4, <2>1, QuietServerStep DEF hubVars
<1>5. CASE /\ Deregister(w)
           /\ socket' = [socket EXCEPT ![w] = NoConn]
           /\ cause' = [t \in TaskId |-> IF t \in active \cap pending THEN "lost" ELSE cause[t]]
           /\ Settle(active, lost)
  <2>1. ProcessQueue(info, ts) /\ UNCHANGED <<task_counter, max_workers, sending, notices>>
    BY <1>5 DEF Deregister
  <2>2. info \in [Worker -> WorkerRecord]
    BY <1>1, RemoveWorkers
  <2>3. /\ ts \in [TaskId -> TaskRecord]
        /\ \A t \in TaskId : /\ ts[t].worker_id = tasks[t].worker_id
                             /\ t \in active => ts[t].status = "failed"
                             /\ t \notin active => ts[t] = tasks[t]
    BY <1>1, FailTasks
  <2>4. \A t \in active : tasks[t].status = "running"
    BY DEF RunningOn
  <2>5. \A t \in active \cap pending : lost[t] = "lost"
    BY <1>1
  <2>6. Settle(active, lost) /\ \A t \in active \cap pending : lost[t] \in Answerable \ {"waiting"}
    BY <1>5, <2>5 DEF Answerable
  <2> HIDE DEF active, info, ts, lost
  <2>7. workers' = info /\ tasks' = ts /\ task_queue' = {} /\ spawned' = {}
    BY <1>1, <2>1, <2>2, <2>3, EmptyPass
  <2>8. /\ pending' \subseteq TaskId /\ future' \in [TaskId -> FutureState]
        /\ \A t \in TaskId :
              IF t \in active \cap pending /\ future[t] = "waiting"
                THEN future'[t] = lost[t] /\ future'[t] \in Answerable \ {"waiting"}
                ELSE future'[t] = future[t]
        /\ \A t \in TaskId : t \in pending' <=> t \in pending /\ t \notin active
    BY <1>1, <2>6, SettleMoves
  <2>9. cause' \in [TaskId -> Cause]
    BY <1>1, <1>5 DEF Cause
  <2>10. socket' \in [Worker -> Conn \cup {NoConn}]
    BY <1>1, <1>5 DEF CallsTypeOK, ServerTypeOK
  <2>11. ServerTyped
    BY <1>1, <1>3, <2>1, <2>2, <2>3, <2>7, <2>8, <2>9, <2>10 DEF ServerTyped, TypeOK, NothingWaits
  <2>12. ASSUME NEW t \in TaskId, t \in active PROVE Serves(t)
    <3>1. tasks[t].status = "running" /\ tasks'[t].status = "failed"
          /\ tasks'[t].worker_id = tasks[t].worker_id /\ t \notin pending' /\ Kept(t)
      BY <2>3, <2>4, <2>7, <2>8, <2>12 DEF CallsInv
    <3>2. t \in pending => cause'[t] = "lost"
      BY <1>5, <2>12
    <3>3. IF t \in pending /\ future[t] = "waiting" THEN future'[t] = "lost" ELSE future'[t] = future[t]
      BY <2>5, <2>8, <2>12
    <3> QED BY <3>1, <3>2, <3>3 DEF Serves, Settled, Kept, Answerable, Terminal
  <2>13. ASSUME NEW t \in TaskId, t \notin active PROVE Serves(t)
    <3>1. Kept(t) /\ tasks'[t] = tasks[t] /\ cause'[t] = cause[t]
          /\ future'[t] = future[t] /\ (t \in pending' <=> t \in pending)
      BY <1>5, <2>3, <2>7, <2>8, <2>13 DEF CallsInv
    <3> QED BY <3>1 DEF Serves, Settled, Kept
  <2> QED BY <1>2, <2>11, <2>12, <2>13, ServerMovesSo
<1> QED BY <1>4, <1>5 DEF Close

LEMMA SweepSocketsMoves ==
  ASSUME CallsInv, NEW s \in Sweeper, NEW expired \in SUBSET TaskId, NEW W,
         SweepSockets(s, expired), LoseHold(W)
  PROVE  ServerMoves
<1> DEFINE dead == {w \in Registered(workers) : workers[w].age # "fresh"}
           orphans == UNION {RunningOn(tasks, w) : w \in dead}
           freed == {tasks[t].worker_id : t \in expired} \cap (Registered(workers) \ dead)
           ended == orphans \cup expired
           info == SetStatus(Remove(workers, dead), freed, "idle")
           ts == Fail(tasks, ended)
<1>1. /\ CallsTypeOK /\ NothingWaits /\ FuturesTyped
      /\ workers \in [Worker -> WorkerRecord] /\ tasks \in [TaskId -> TaskRecord]
      /\ cause \in [TaskId -> Cause] /\ TypeOK
  BY DEF CallsInv, CallsTypeOK, ServerTypeOK, TypeOK, FuturesTyped
<1>2. SameCalls /\ call' \in [Call -> CallRecord]
  BY <1>1, LosesHold
<1>3. /\ ProcessQueue(info, ts) /\ UNCHANGED <<task_counter, max_workers, sending>>
      /\ notices' = notices \cup
           {<<s, tasks[t].worker_id, t>> : t \in {u \in expired : tasks[u].worker_id \in freed}}
      /\ \A t \in expired : tasks[t].status = "running"
  BY DEF SweepSockets, Sweep
<1>4. /\ socket' = [w \in Worker |-> IF workers[w].age # "fresh" THEN NoConn ELSE socket[w]]
      /\ cause' = [t \in TaskId |-> IF t \notin pending THEN cause[t]
                                ELSE IF t \in expired THEN "timeout"
                                ELSE IF /\ tasks[t].status = "running"
                                        /\ workers[tasks[t].worker_id].age # "fresh"
                                       THEN "lost" ELSE cause[t]]
      /\ UNCHANGED <<endpoint, pending, future>>
  BY DEF SweepSockets
<1>5. /\ \A t \in orphans : /\ t \in TaskId /\ tasks[t].status = "running"
                            /\ workers[tasks[t].worker_id].age # "fresh"
      /\ ended \subseteq TaskId
  BY DEF RunningOn
<1>6. notices' \subseteq Sweeper \X Worker \X TaskId
  BY <1>1, <1>3 DEF TypeOK, Registered
<1>7. info \in [Worker -> WorkerRecord]
  BY <1>1, RemoveWorkers, SetWorkers
<1>8. /\ ts \in [TaskId -> TaskRecord]
      /\ \A t \in TaskId : /\ ts[t].worker_id = tasks[t].worker_id
                           /\ t \in ended => ts[t].status = "failed"
                           /\ t \notin ended => ts[t] = tasks[t]
  BY <1>1, <1>5, FailTasks
<1>9. \A t \in ended : tasks[t].status = "running"
  BY <1>3, <1>5
<1>10. \A t \in ended : t \in expired \/ workers[tasks[t].worker_id].age # "fresh"
  BY <1>5
<1> HIDE DEF ended, info, ts, orphans, freed, dead
<1>11. workers' = info /\ tasks' = ts /\ task_queue' = {} /\ spawned' = {}
  BY <1>1, <1>3, <1>7, <1>8, EmptyPass
<1>12. cause' \in [TaskId -> Cause] /\ socket' \in [Worker -> Conn \cup {NoConn}]
  BY <1>1, <1>4 DEF CallsTypeOK, ServerTypeOK, Cause
<1>13. ServerTyped
  BY <1>1, <1>3, <1>4, <1>6, <1>7, <1>8, <1>11, <1>12
     DEF ServerTyped, CallsTypeOK, ServerTypeOK, TypeOK, NothingWaits
<1>14. ASSUME NEW t \in TaskId PROVE Serves(t)
  <2>1. Kept(t) /\ future'[t] = future[t] /\ (t \in pending' <=> t \in pending)
    BY <1>4 DEF CallsInv
  <2>2. t \in ended /\ t \in pending => cause'[t] \in {"timeout", "lost"}
    BY <1>4, <1>9, <1>10
  <2>3. tasks[t].status # "running" => cause'[t] = cause[t]
    BY <1>3, <1>4
  <2>4. IF t \in ended
          THEN tasks[t].status = "running" /\ tasks'[t].status = "failed" /\ tasks'[t].worker_id = tasks[t].worker_id
          ELSE tasks'[t] = tasks[t]
    BY <1>8, <1>9, <1>11
  <2> QED BY <2>1, <2>2, <2>3, <2>4 DEF Serves, Settled, Kept, Terminal
<1> QED BY <1>2, <1>13, <1>14, ServerMovesSo

\* Every step that is not a call's own moves the server so.
LEMMA ServerStepMoves ==
  ASSUME CallsInv, CallsNext, ~CallStep
  PROVE  ServerMoves
<1>1. CASE WorkerMsg
  BY <1>1, CallsStay, RegisterMsgMoves, RegisterOverHttpMoves, SmallServerMoves, ResultMsgMoves,
     CloseMoves DEF WorkerMsg
<1>2. CASE ServerSweeperStep /\ LoseHold({w \in Worker : Replaced(w)})
  <2>1. SameCalls /\ call' \in [Call -> CallRecord]
    BY <1>2, LosesHold DEF CallsInv
  <2> QED BY <1>2, <2>1, SweepSocketsMoves, SmallServerMoves DEF ServerSweeperStep
<1>3. CASE Prune /\ call' = call
  BY <1>3, PruneMoves
<1> QED BY <1>1, <1>2, <1>3 DEF CallsNext

-----------------------------------------------------------------------------
(* Steps of a call *)

\* A step of one call goes by as far as a task is concerned; at most its settled record
\* is evicted.
Untouched(t) ==
  /\ \/ tasks'[t] = tasks[t]
     \/ tasks[t].status \in Terminal /\ tasks'[t] = NoTask
  /\ t \in pending' <=> t \in pending
  /\ future'[t] = future[t] /\ cause'[t] = cause[t]

\* What a step of call c does: it concerns the task it has or the one it draws.
CallMoves(c) ==
  /\ CallsTypeOK' /\ NothingWaits'
  /\ \A d \in Call \ {c} : call'[d] = call[d]
  /\ \/ /\ task_counter' = task_counter /\ call'[c].task \in {call[c].task, NoTaskId}
        /\ \A t \in TaskId \ {call[c].task} : Untouched(t)
     \/ /\ task_counter' = task_counter + 1 /\ call[c].task = NoTaskId
        /\ call'[c].task \in {task_counter', NoTaskId}
        /\ \A t \in TaskId \ {task_counter'} : Untouched(t)
  /\ \A t \in TaskId : TaskMoves(t) /\ (t \in {call[c].task, task_counter'} => Kept(t)')
  /\ Placed(c)'

LEMMA CallKeeps ==
  ASSUME CallsInv, NEW c \in Call, CallMoves(c)
  PROVE  CallsInv'
<1>1. /\ CallsTypeOK /\ Placed(c) /\ Apart
      /\ \A t \in TaskId : Kept(t)
      /\ task_counter \in Nat /\ TaskId \subseteq Nat /\ NoTaskId \notin TaskId
      /\ task_counter' \in {task_counter, task_counter + 1}
  <2>1. TaskId \subseteq Nat /\ task_counter \in Nat /\ NoTaskId \notin TaskId
    BY WsCallsAssumption, HubAssumption DEF CallsInv, CallsTypeOK, ServerTypeOK, TypeOK, TaskId
  <2> QED BY <2>1 DEF CallsInv, CallMoves
<1>2. ASSUME NEW t \in TaskId, t # call[c].task, t = task_counter' => task_counter' = task_counter
      PROVE  Untouched(t)
  BY <1>1, <1>2 DEF CallMoves
<1>3. ASSUME NEW t \in TaskId PROVE Kept(t)'
  <2>1. CASE t \in {call[c].task, task_counter'}
    BY <2>1 DEF CallMoves
  <2>2. CASE t \notin {call[c].task, task_counter'}
    <3>1. Untouched(t) /\ Kept(t)
      BY <1>1, <1>2, <2>2
    <3>2. t > task_counter' => t > task_counter
      BY <1>1
    <3> QED BY <3>1, <3>2 DEF Untouched, Kept, NoTask, Terminal
  <2> QED BY <2>1, <2>2
<1>4. ASSUME NEW d \in Call, d # c PROVE Placed(d)'
  <2> DEFINE t == call[d].task
  <2>1. Placed(d) /\ call'[d] = call[d]
    BY <1>4 DEF CallsInv, CallMoves
  <2>2. t \in TaskId =>
          /\ t # call[c].task
          /\ t <= task_counter' /\ (t = task_counter' => task_counter' = task_counter)
    <3>1. t \in TaskId => t # call[c].task
      BY <1>1, <1>4 DEF Apart
    <3>2. t \in TaskId => t <= task_counter
      BY <2>1 DEF Placed
    <3>3. ASSUME NEW u \in TaskId, u <= task_counter
          PROVE  u <= task_counter' /\ (u = task_counter' => task_counter' = task_counter)
      BY <1>1, <3>3
    <3> QED BY <3>1, <3>2, <3>3
  <2>3. t \in TaskId => Untouched(t)
    BY <1>2, <2>2
  <2>4. ASSUME call[d].pc \in Awaiting
        PROVE  /\ future'[t] \in Answerable
               /\ future'[t] = "waiting" => t \in pending' /\ tasks'[t].status # "completed"
    <3>1. t \in TaskId /\ future[t] \in Answerable
          /\ (future[t] = "waiting" => t \in pending /\ tasks[t].status # "completed")
      BY <2>1, <2>4 DEF Placed, Carrying
    <3> QED BY <2>3, <3>1 DEF Untouched, NoTask
  <2> QED BY <2>1, <2>2, <2>4 DEF Placed
<1>5. ASSUME NEW d \in Call, NEW e \in Call, call'[d].task = call'[e].task, call'[d].task \in TaskId
      PROVE  d = e
  <2>1. CASE d # c /\ e # c
    BY <1>1, <1>5, <2>1 DEF CallMoves, Apart
  <2>2. ASSUME NEW f \in Call, f # c, call'[c].task = call'[f].task, call'[f].task \in TaskId PROVE FALSE
    <3>1. call'[f] = call[f] /\ Placed(f)
      BY <2>2 DEF CallMoves, CallsInv
    <3>2. call[f].task # call[c].task /\ call[f].task <= task_counter
      BY <1>1, <2>2, <3>1 DEF Apart, Placed
    <3> QED BY <1>1, <2>2, <3>1, <3>2 DEF CallMoves
  <2> QED BY <1>5, <2>1, <2>2
<1> QED BY <1>3, <1>4, <1>5 DEF CallsInv, CallMoves, Apart

\* The record of call c is replaced by r.
Becomes(c, r) ==
  /\ call' \in [Call -> CallRecord]
  /\ \A d \in Call \ {c} : call'[d] = call[d]
  /\ call'[c] = r

LEMMA Goes ==
  ASSUME CallsTypeOK, NEW c \in Call, NEW p, Goto(c, p),
         p \in Before \cup Carrying \cup Ended
  PROVE  /\ Becomes(c, [call[c] EXCEPT !.pc = p])
         /\ call'[c].pc = p /\ call'[c].task = call[c].task
         /\ call'[c].worker = call[c].worker /\ call'[c].attempt = call[c].attempt
         /\ call'[c].why = call[c].why
<1>1. call[c] \in CallRecord
  BY DEF CallsTypeOK
<1>2. [call[c] EXCEPT !.pc = p] \in CallRecord
  BY <1>1 DEF CallRecord, Before, Carrying, Awaiting
<1>3. call' = [call EXCEPT ![c] = [call[c] EXCEPT !.pc = p]]
  BY DEF Goto
<1> QED BY <1>1, <1>2, <1>3 DEF Becomes, CallsTypeOK, CallRecord

LEMMA Loses ==
  ASSUME CallsTypeOK, NEW c \in Call, call' = WorkerLost(c)
  PROVE  /\ Becomes(c, call'[c])
         /\ \/ call'[c].pc = "selecting" /\ call'[c].task = NoTaskId
            \/ call'[c].pc = "lost" /\ call'[c].task = call[c].task
<1>1. call[c] \in CallRecord
  BY DEF CallsTypeOK
<1> DEFINE again == [pc |-> "selecting", worker |-> NoWorker, task |-> NoTaskId,
                     attempt |-> call[c].attempt + 1, held |-> FALSE, why |-> "none"]
<1>2. CASE call[c].attempt < GENIUS_DISPATCH_RETRIES
  <2>1. again \in CallRecord
    BY <1>1, <1>2, WsCallsAssumption DEF CallRecord
  <2>2. call' = [call EXCEPT ![c] = again]
    BY <1>2 DEF WorkerLost
  <2> QED BY <2>1, <2>2 DEF Becomes, CallsTypeOK
<1>3. CASE ~(call[c].attempt < GENIUS_DISPATCH_RETRIES)
  <2>1. Goto(c, "lost")
    BY <1>3 DEF WorkerLost, Goto
  <2> QED BY <2>1, Goes DEF Ended, Raised, Becomes
<1> QED BY <1>2, <1>3

\* A step of a call that leaves the store and the futures alone; it may take its task
\* out of the table.
StoreStays ==
  UNCHANGED <<tasks, task_queue, task_counter, max_workers, spawned, sending, notices,
              socket, endpoint, future, cause>>

LEMMA StayingMoves ==
  ASSUME CallsInv, NEW c \in Call, StoreStays, workers' \in [Worker -> WorkerRecord],
         pending' \in {pending, pending \ {call[c].task}},
         NEW r, Becomes(c, r), r.task \in {call[c].task, NoTaskId}, Placed(c)'
  PROVE  CallMoves(c)
<1>1. CallsTypeOK' /\ NothingWaits'
  BY DEF StoreStays, Becomes, CallsInv, CallsTypeOK, ServerTypeOK, TypeOK, NothingWaits
<1>2. \A t \in TaskId \ {call[c].task} : Untouched(t)
  BY DEF StoreStays, Untouched
<1>3. ASSUME NEW t \in TaskId PROVE Kept(t)'
  BY DEF StoreStays, CallsInv, Kept
<1>4. \A t \in TaskId : TaskMoves(t)
  BY DEF TaskMoves, StoreStays
<1> QED BY <1>1, <1>2, <1>3, <1>4 DEF CallMoves, StoreStays, Becomes

LEMMA WorkersTyped ==
  ASSUME CallsInv
  PROVE  /\ workers \in [Worker -> WorkerRecord]
         /\ \A S : SetStatus(workers, S, "idle") \in [Worker -> WorkerRecord]
         /\ \A S : SetStatus(workers, S, "busy") \in [Worker -> WorkerRecord]
<1>1. workers \in [Worker -> WorkerRecord]
  BY DEF CallsInv, CallsTypeOK, ServerTypeOK, TypeOK
<1> QED BY <1>1, SetWorkers

\* Moves of a call that touch no task: the future it awaits is as it was.
LEMMA QuietCallMoves ==
  ASSUME CallsInv, NEW c \in Call,
         \/ Begin(c) \/ NoWorkerInTime(c) \/ ClaimGone(c) \/ Sent(c)
         \/ \E w \in Worker : Select(c, w)
  PROVE  CallMoves(c)
<1>1. CallsTypeOK /\ Placed(c)
  BY DEF CallsInv
<1>2. CASE Begin(c) \/ NoWorkerInTime(c) \/ Sent(c)
  <2>1. StoreStays /\ workers' = workers /\ pending' = pending
    BY <1>2 DEF Begin, NoWorkerInTime, Sent, StoreStays, vars, hubVars, serverVars
  <2>2. PICK p : /\ Goto(c, p)
                 /\ \/ call[c].pc = "ready" /\ p = "selecting"
                    \/ call[c].pc = "selecting" /\ p \in {"lost", "no_worker"}
                    \/ call[c].pc = "sending" /\ p = "waiting"
    BY <1>2 DEF Begin, NoWorkerInTime, Sent
  <2>3. p \in Before \cup Carrying \cup Ended
    BY <2>2 DEF Before, Carrying, Awaiting, Ended, Raised
  <2>4. /\ Becomes(c, [call[c] EXCEPT !.pc = p]) /\ call'[c].pc = p
        /\ call'[c].task = call[c].task /\ call'[c].worker = call[c].worker
    BY <1>1, <2>2, <2>3, Goes
  <2>5. Placed(c)'
    BY <1>1, <2>1, <2>2, <2>4 DEF Placed, StoreStays, Before, Carrying, Awaiting
  <2>6. call'[c] = [call[c] EXCEPT !.pc = p]
    BY <2>4 DEF Becomes
  <2> QED BY <2>1, <2>4, <2>5, <2>6, StayingMoves, WorkersTyped
<1>3. CASE ClaimGone(c)
  <2>1. StoreStays /\ workers' = workers /\ pending' = pending /\ call' = WorkerLost(c)
    BY <1>3 DEF ClaimGone, StoreStays, vars, hubVars, serverVars
  <2>2. /\ Becomes(c, call'[c])
        /\ \/ call'[c].pc = "selecting" /\ call'[c].task = NoTaskId
           \/ call'[c].pc = "lost" /\ call'[c].task = call[c].task
    BY <1>1, <2>1, Loses
  <2>3. Placed(c)'
    BY <1>1, <2>1, <2>2, WsCallsAssumption DEF Placed, StoreStays, Before, Carrying, Awaiting
  <2> QED BY <2>1, <2>2, <2>3, StayingMoves, WorkersTyped
<1>4. ASSUME NEW w \in Worker, Select(c, w) PROVE CallMoves(c)
  <2> DEFINE r == [call[c] EXCEPT !.pc = "selected", !.worker = w]
  <2>1. /\ StoreStays /\ workers' = SetStatus(workers, {w}, "busy") /\ pending' = pending
        /\ call' = [call EXCEPT ![c].pc = "selected", ![c].worker = w] /\ call[c].pc = "selecting"
    BY <1>4 DEF Select, StoreStays, serverVars
  <2>2. call[c] \in CallRecord
    BY <1>1 DEF CallsTypeOK
  <2>3. r \in CallRecord /\ r.pc = "selected" /\ r.worker = w /\ r.task = call[c].task
    BY <2>2 DEF CallRecord
  <2>4. call' = [call EXCEPT ![c] = r]
    BY <1>1, <2>1 DEF CallsTypeOK
  <2> HIDE DEF r
  <2>5. Becomes(c, r) /\ call'[c] = r
    BY <1>1, <2>3, <2>4 DEF Becomes, CallsTypeOK
  <2>6. Placed(c)'
    BY <1>1, <2>1, <2>3, <2>5 DEF Placed, StoreStays, Before, Carrying, Awaiting
  <2> QED BY <2>1, <2>3, <2>5, <2>6, StayingMoves, WorkersTyped
<1> QED BY <1>2, <1>3, <1>4

\* Moves that end the wait of a call, or its clean-up.
LEMMA EndingMoves ==
  ASSUME CallsInv, NEW c \in Call, StoreStays, workers' \in [Worker -> WorkerRecord],
         pending' \in {pending, pending \ {call[c].task}}, NEW p, Goto(c, p),
         \/ call[c].pc = "sending" /\ p = "send_failed"
         \/ call[c].pc = "giving_up" /\ p = "cancel_send"
         \/ p \in Ended
  PROVE  CallMoves(c)
<1>1. CallsTypeOK /\ Placed(c)
  BY DEF CallsInv
<1>2. p \in Before \cup Carrying \cup Ended
  BY DEF Carrying
<1>3. /\ Becomes(c, [call[c] EXCEPT !.pc = p]) /\ call'[c].pc = p
      /\ call'[c].task = call[c].task /\ call'[c].worker = call[c].worker
      /\ call'[c].why = call[c].why
  BY <1>1, <1>2, Goes
<1>4. Placed(c)'
  BY <1>1, <1>3 DEF Placed, StoreStays, Before, Carrying, Awaiting, Ended, Raised
<1>5. call'[c] = [call[c] EXCEPT !.pc = p]
  BY <1>3 DEF Becomes
<1> QED BY <1>3, <1>4, <1>5, StayingMoves

LEMMA AnsweredMoves ==
  ASSUME CallsInv, NEW c \in Call, Answered(c)
  PROVE  CallMoves(c)
<1>1. StoreStays /\ workers' = workers /\ pending' = pending \ {call[c].task}
  BY DEF Answered, StoreStays, hubVars
<1>2. ASSUME NEW p \in {"output", "error"}, Goto(c, p) PROVE CallMoves(c)
  BY <1>1, <1>2, WorkersTyped, EndingMoves DEF Ended, Raised
<1>3. CASE call' = WorkerLost(c)
  <2>1. CallsTypeOK /\ Placed(c)
    BY DEF CallsInv
  <2>2. /\ Becomes(c, call'[c])
        /\ \/ call'[c].pc = "selecting" /\ call'[c].task = NoTaskId
           \/ call'[c].pc = "lost" /\ call'[c].task = call[c].task
    BY <1>3, <2>1, Loses
  <2>3. Placed(c)'
    BY <1>1, <2>1, <2>2, WsCallsAssumption DEF Placed, StoreStays, Before, Carrying, Awaiting
  <2> QED BY <1>1, <2>2, <2>3, StayingMoves, WorkersTyped
<1> QED BY <1>2, <1>3 DEF Answered

LEMMA GiveUpMoves ==
  ASSUME CallsInv, NEW c \in Call, GiveUp(c) \/ CancelSent(c)
  PROVE  CallMoves(c)
<1>1. call[c].why \in Ended
  <2>1. call[c].why \in {"none", "timeout", "cancelled"} /\ call[c].pc \in {"giving_up", "cancel_send"}
    BY DEF CallsInv, CallsTypeOK, CallRecord, GiveUp, CancelSent
  <2> QED BY <2>1 DEF CallsInv, Placed, Ended, Raised
<1>2. StoreStays /\ pending' \in {pending, pending \ {call[c].task}}
  BY DEF GiveUp, CancelSent, StoreStays, hubVars
<1>3. workers' \in [Worker -> WorkerRecord]
  BY WorkersTyped DEF GiveUp, CancelSent, hubVars
<1>4. (Goto(c, "cancel_send") /\ call[c].pc = "giving_up") \/ Goto(c, call[c].why)
  BY DEF GiveUp, CancelSent
<1> QED BY <1>1, <1>2, <1>3, <1>4, EndingMoves

\* Call c fails the record of its task t and leaves the future at f.
Fails(c, t, why, f) ==
  /\ t = call[c].task
  /\ FailRecord(t, why) /\ why \in {"error", "timeout"}
  /\ UNCHANGED <<task_queue, task_counter, max_workers, spawned, sending, notices, socket, endpoint>>
  /\ workers' \in [Worker -> WorkerRecord]
  /\ pending' \in {pending, pending \ {t}}
  /\ future' = [future EXCEPT ![t] = f] /\ f \in FutureState
  /\ f = "none" => future[t] = "none"
  /\ f = "lost" => why # "timeout" /\ future[t] = "lost"
  /\ Becomes(c, call'[c]) /\ call'[c].task \in {t, NoTaskId} /\ Placed(c)'

LEMMA FailingMoves ==
  ASSUME CallsInv, NEW c \in Call, NEW t \in TaskId, NEW why, NEW f, Fails(c, t, why, f)
  PROVE  CallMoves(c)
<1> USE DEF Fails
<1>1. /\ CallsTypeOK /\ NothingWaits /\ TypeOK /\ Kept(t)
      /\ tasks \in [TaskId -> TaskRecord] /\ cause \in [TaskId -> Cause]
      /\ future \in [TaskId -> FutureState]
      /\ t <= task_counter /\ task_counter \in Nat /\ TaskId \subseteq Nat
  <2>1. TaskId \subseteq Nat /\ task_counter \in Nat
    BY HubAssumption DEF CallsInv, CallsTypeOK, ServerTypeOK, TypeOK, TaskId
  <2> QED BY <2>1 DEF CallsInv, CallsTypeOK, ServerTypeOK, TypeOK, Placed
<1>2. IF tasks[t].status = "none"
        THEN tasks' = tasks /\ cause' = cause
        ELSE /\ tasks' \in [TaskId -> TaskRecord] /\ tasks'[t].status = "failed"
             /\ \A u \in TaskId \ {t} : tasks'[u] = tasks[u]
             /\ cause' = [cause EXCEPT ![t] = why]
  <2>1. /\ Fail(tasks, {t}) \in [TaskId -> TaskRecord]
        /\ \A u \in TaskId : /\ u \in {t} => Fail(tasks, {t})[u].status = "failed"
                             /\ u \notin {t} => Fail(tasks, {t})[u] = tasks[u]
    BY <1>1, FailTasks
  <2> QED BY <2>1 DEF FailRecord
<1>7. /\ tasks' \in [TaskId -> TaskRecord] /\ cause' \in [TaskId -> Cause]
      /\ \A u \in TaskId \ {t} : tasks'[u] = tasks[u] /\ cause'[u] = cause[u]
      /\ tasks'[t].status \in {"failed", "none"}
      /\ tasks'[t].status = "failed" => cause'[t] = why
      /\ f = "lost" => cause'[t] # "timeout"
  <2>1. why \in Cause
    BY DEF Cause
  <2>2. CASE tasks[t].status = "none"
    BY <1>1, <1>2, <2>2 DEF Kept
  <2>3. CASE tasks[t].status # "none"
    BY <1>1, <1>2, <2>1, <2>3
  <2> QED BY <2>2, <2>3
<1>8. /\ future' \in [TaskId -> FutureState] /\ future'[t] = f
      /\ \A u \in TaskId \ {t} : future'[u] = future[u]
  BY <1>1
<1>3. CallsTypeOK'
  BY <1>1, <1>7, <1>8 DEF Becomes, CallsTypeOK, ServerTypeOK, TypeOK
<1>4. NothingWaits'
  BY <1>1, <1>7 DEF NothingWaits
<1>5. \A u \in TaskId \ {t} : Untouched(u)
  BY <1>7, <1>8 DEF Untouched
<1>6. ASSUME NEW u \in TaskId PROVE Kept(u)'
  <2>1. CASE u = t
    <3>1. ASSUME t > task_counter PROVE FALSE
      BY <1>1, <3>1
    <3>2. t \in pending' => future'[t] # "none"
      BY <1>1, <1>8 DEF Kept
    <3>3. t \in pending' /\ tasks'[t].status = "failed" => cause'[t] # "none"
      BY <1>7
    <3>4. Kept(t)'
      BY <1>1, <1>7, <1>8, <3>1, <3>2, <3>3 DEF Kept
    <3> QED BY <2>1, <3>4
  <2>2. CASE u # t
    BY <1>7, <1>8, <2>2 DEF CallsInv, Kept
  <2> QED BY <2>1, <2>2
<1>9. TaskMoves(t)
  <2>1. tasks[t].status # "none" => tasks' = Fail(tasks, {t})
    BY DEF FailRecord
  <2>2. CASE tasks[t].status = "none"
    BY <1>2, <2>2 DEF TaskMoves
  <2>3. CASE tasks[t].status # "none"
    <3>1. tasks[t] \in TaskRecord /\ tasks'[t] = [tasks[t] EXCEPT !.status = "failed"]
      BY <1>1, <2>1, <2>3 DEF Fail
    <3>2. tasks[t].status \in {"running", "completed", "failed"}
      BY <1>1, <2>3, <3>1 DEF NothingWaits, TaskRecord, Terminal
    <3>3. tasks'[t].status = "failed" /\ tasks'[t].worker_id = tasks[t].worker_id
          /\ (tasks[t].status = "failed" => tasks'[t] = tasks[t])
      BY <3>1 DEF TaskRecord
    <3> QED BY <3>2, <3>3 DEF TaskMoves, Terminal
  <2> QED BY <2>2, <2>3
<1>10. \A u \in TaskId : TaskMoves(u)
  BY <1>7, <1>9 DEF TaskMoves
<1> QED BY <1>3, <1>4, <1>5, <1>6, <1>10 DEF CallMoves, Becomes

LEMMA SendFailsMoves ==
  ASSUME CallsInv, NEW c \in Call, SendFails(c)
  PROVE  CallMoves(c)
<1>1. /\ StoreStays /\ workers' = workers /\ pending' = pending \ {call[c].task}
      /\ Goto(c, "send_failed") /\ call[c].pc = "sending"
  BY DEF SendFails, StoreStays, hubVars
<1> QED BY <1>1, WorkersTyped, EndingMoves

LEMMA RecordSendFailureMoves ==
  ASSUME CallsInv, NEW c \in Call, RecordSendFailure(c)
  PROVE  CallMoves(c)
<1> SUFFICES ASSUME NEW t \in TaskId, t = call[c].task
             PROVE  CallMoves(c)
  BY DEF RecordSendFailure, CallsInv, Placed, Carrying, Awaiting
<1>1. /\ CallsTypeOK /\ Placed(c) /\ call[c].pc = "send_failed"
      /\ future \in [TaskId -> FutureState]
  BY DEF CallsInv, CallsTypeOK, ServerTypeOK, RecordSendFailure
<1>2. /\ FailRecord(t, "error") /\ pending' = pending /\ future' = future
      /\ UNCHANGED <<task_queue, task_counter, max_workers, spawned, sending, notices, socket, endpoint>>
  BY DEF RecordSendFailure
<1>3. workers' \in [Worker -> WorkerRecord]
  BY WorkersTyped DEF RecordSendFailure
<1>4. Becomes(c, call'[c]) /\ call'[c].task \in {t, NoTaskId} /\ Placed(c)'
  <2>1. CASE Goto(c, "error")
    <3>1. /\ Becomes(c, [call[c] EXCEPT !.pc = "error"]) /\ call'[c].pc = "error"
          /\ call'[c].task = t
      BY <1>1, <2>1, Goes DEF Ended, Raised
    <3> QED BY <1>1, <1>2, <3>1 DEF Becomes, Placed, Before, Carrying, Awaiting
  <2>2. CASE call' = WorkerLost(c)
    <3>1. /\ Becomes(c, call'[c])
          /\ \/ call'[c].pc = "selecting" /\ call'[c].task = NoTaskId
             \/ call'[c].pc = "lost" /\ call'[c].task = t
      BY <1>1, <2>2, Loses
    <3> QED BY <1>1, <1>2, <3>1, WsCallsAssumption DEF Placed, Before, Carrying, Awaiting
  <2> QED BY <2>1, <2>2 DEF RecordSendFailure
<1>5. future' = [future EXCEPT ![t] = future[t]] /\ future[t] \in FutureState
  BY <1>1, <1>2
<1>6. Fails(c, t, "error", future[t])
  BY <1>1, <1>2, <1>3, <1>4, <1>5 DEF Fails
<1> QED BY <1>6, FailingMoves

\* A call that gives up its wait: it timed out, or was cancelled.
LEMMA AbandonMoves ==
  ASSUME CallsInv, NEW c \in Call, call[c].pc = "waiting",
         NEW why \in {"error", "timeout"}, FailRecord(call[c].task, why),
         NEW reason \in {"timeout", "cancelled"}, why = "timeout" => future[call[c].task] # "lost",
         future' = [future EXCEPT ![call[c].task] = IF @ = "waiting" THEN "cancelled" ELSE @],
         call' = [call EXCEPT ![c].pc = "giving_up", ![c].why = reason],
         UNCHANGED <<workers, task_queue, task_counter, max_workers, spawned, sending, notices,
                     socket, endpoint, pending>>
  PROVE  CallMoves(c)
<1> SUFFICES ASSUME NEW t \in TaskId, t = call[c].task
             PROVE  CallMoves(c)
  BY DEF CallsInv, Placed, Carrying, Awaiting
<1> DEFINE f == IF future[t] = "waiting" THEN "cancelled" ELSE future[t]
           r == [call[c] EXCEPT !.pc = "giving_up", !.why = reason]
<1>1. /\ CallsTypeOK /\ Placed(c) /\ call[c].worker \in Worker
      /\ future[t] \in Answerable /\ future \in [TaskId -> FutureState] /\ call[c] \in CallRecord
  BY DEF CallsInv, CallsTypeOK, ServerTypeOK, Placed, Carrying, Awaiting
<1>2. f \in FutureState \ {"none"} /\ (f = "lost" => future[t] = "lost")
  BY <1>1 DEF Answerable, FutureState
<1>3. future' = [future EXCEPT ![t] = f]
  BY <1>1
<1>4. r \in CallRecord /\ r.pc = "giving_up" /\ r.task = t /\ r.worker = call[c].worker /\ r.why = reason
  BY <1>1 DEF CallRecord
<1>5. call' = [call EXCEPT ![c] = r]
  BY <1>1 DEF CallsTypeOK
<1> HIDE DEF r, f
<1>6. Becomes(c, r) /\ call'[c] = r
  BY <1>1, <1>4, <1>5 DEF Becomes, CallsTypeOK
<1>7. Placed(c)'
  BY <1>1, <1>4, <1>6 DEF Placed, Before, Carrying, Awaiting
<1>8. workers' \in [Worker -> WorkerRecord]
  BY WorkersTyped
<1>9. FailRecord(t, why) /\ pending' = pending
  OBVIOUS
<1>10. f = "lost" => why # "timeout" /\ future[t] = "lost"
  BY <1>2
<1>11. Fails(c, t, why, f)
  BY <1>1, <1>2, <1>3, <1>4, <1>6, <1>7, <1>8, <1>9, <1>10 DEF Fails
<1> QED BY <1>11, FailingMoves

LEMMA TimeoutMoves ==
  ASSUME CallsInv, NEW c \in Call, Timeout(c)
  PROVE  CallMoves(c)
<1>1. future[call[c].task] # "lost" /\ call[c].pc = "waiting"
  BY DEF Timeout
<1> QED BY <1>1, AbandonMoves DEF Timeout

LEMMA CancelMoves ==
  ASSUME CallsInv, NEW c \in Call, Cancel(c)
  PROVE  CallMoves(c)
<1>1. CASE call[c].pc = "waiting"
  BY <1>1, AbandonMoves DEF Cancel
<1>2. CASE call[c].pc # "waiting"
  <2>1. Goto(c, "cancelled") /\ pending' \in {pending, pending \ {call[c].task}} /\ StoreStays
        /\ workers' = workers
    BY <1>2 DEF Cancel, StoreStays, vars, hubVars, serverVars
  <2> QED BY <2>1, WorkersTyped, EndingMoves DEF Ended, Raised
<1> QED BY <1>1, <1>2

-----------------------------------------------------------------------------
\* The store a call writes a new record into: settled records may go.
LEMMA NewRecords ==
  ASSUME CallsInv, NEW t \in TaskId, NEW w \in Worker, NEW role \in RoleName,
         tasks' = NewRecord(t, w, role)
  PROVE  /\ tasks' \in [TaskId -> TaskRecord]
         /\ tasks'[t].status = "running" /\ tasks'[t].worker_id = w
         /\ \A u \in TaskId \ {t} : \/ tasks'[u] = tasks[u]
                                    \/ tasks[u].status \in Terminal /\ tasks'[u] = NoTask
<1>1. tasks \in [TaskId -> TaskRecord]
  BY DEF CallsInv, CallsTypeOK, ServerTypeOK, TypeOK
<1>2. /\ Evict(tasks) \in [TaskId -> TaskRecord]
      /\ \A u \in TaskId : \/ Evict(tasks)[u] = tasks[u]
                           \/ tasks[u].status \in Terminal /\ Evict(tasks)[u] = NoTask
  <2>1. NoTask \in TaskRecord
    BY DEF NoTask, TaskRecord
  <2> QED BY <1>1, <2>1 DEF Evict
<1> DEFINE r == [status |-> "running", role |-> role, worker_id |-> w]
<1>3. r \in TaskRecord
  BY DEF TaskRecord
<1>4. tasks' = [Evict(tasks) EXCEPT ![t] = r] /\ r.status = "running" /\ r.worker_id = w
  BY DEF NewRecord
<1> HIDE DEF r
<1> QED BY <1>1, <1>2, <1>3, <1>4

\* The id a call draws is blank, and no other call has it.
LEMMA DrawnId ==
  ASSUME CallsInv, task_counter + 1 \in TaskId
  PROVE  /\ task_counter + 1 \in 0..MaxId /\ tasks[task_counter + 1] = NoTask
         /\ future[task_counter + 1] = "none" /\ task_counter + 1 \notin pending
<1>1. task_counter \in 0..MaxId /\ MaxId \in Nat
  BY HubAssumption DEF CallsInv, CallsTypeOK, ServerTypeOK, TypeOK
<1>2. task_counter + 1 > task_counter /\ task_counter + 1 \in 0..MaxId
  BY <1>1 DEF TaskId
<1>3. Kept(task_counter + 1)
  BY DEF CallsInv
<1> QED BY <1>2, <1>3 DEF Kept

LEMMA ClaimNoSocketMoves ==
  ASSUME CallsInv, NEW c \in Call, ClaimNoSocket(c)
  PROVE  CallMoves(c)
<1> SUFFICES ASSUME NEW t \in TaskId, t = task_counter + 1, NEW w \in Worker, w = call[c].worker
             PROVE  CallMoves(c)
  BY DEF ClaimNoSocket, CallsInv, Placed
<1>1. /\ CallsTypeOK /\ Placed(c) /\ NothingWaits /\ t \in TaskId
      /\ call[c].pc = "selected" /\ call[c].task = NoTaskId
  BY DEF CallsInv, ClaimNoSocket, Placed, Before
<1>2. /\ task_counter' = t /\ tasks' = NewRecord(t, w, role_of[c])
      /\ workers' = SetStatus(workers, {w}, "idle") /\ call' = WorkerLost(c)
      /\ UNCHANGED <<task_queue, max_workers, spawned, sending, notices, socket, endpoint, pending, future, cause>>
  BY DEF ClaimNoSocket, serverVars
<1>3. t \in 0..MaxId /\ tasks[t] = NoTask /\ future[t] = "none" /\ t \notin pending
  BY <1>1, DrawnId
<1>4. role_of[c] \in RoleName /\ NoTaskId \notin TaskId
  BY WsCallsAssumption
<1>5. /\ tasks' \in [TaskId -> TaskRecord]
      /\ tasks'[t].status = "running" /\ tasks'[t].worker_id = w
      /\ \A u \in TaskId \ {t} : \/ tasks'[u] = tasks[u]
                                 \/ tasks[u].status \in Terminal /\ tasks'[u] = NoTask
  BY <1>1, <1>2, <1>4, NewRecords
<1>6. /\ Becomes(c, call'[c])
      /\ \/ call'[c].pc = "selecting" /\ call'[c].task = NoTaskId
         \/ call'[c].pc = "lost" /\ call'[c].task = NoTaskId
  BY <1>1, <1>2, Loses
<1>7. workers' \in [Worker -> WorkerRecord]
  BY <1>2, WorkersTyped
<1>8. t \in Int /\ ~(t > t)
  BY <1>3
<1>9. CallsTypeOK'
  BY <1>1, <1>2, <1>3, <1>5, <1>6, <1>7 DEF Becomes, CallsTypeOK, ServerTypeOK, TypeOK
<1>10. NothingWaits'
  BY <1>1, <1>2, <1>5 DEF NothingWaits, NoTask
<1>11. \A u \in TaskId \ {t} : Untouched(u)
  BY <1>2, <1>5 DEF Untouched
<1>12. Kept(t)'
  BY <1>2, <1>3, <1>5, <1>8 DEF Kept
<1>13. Placed(c)'
  BY <1>4, <1>6 DEF Placed, Before, Carrying, Awaiting
<1>14. task_counter' = task_counter + 1
  BY <1>2
<1>15. \A u \in TaskId : TaskMoves(u)
  BY <1>2, <1>3, <1>5, <1>14 DEF TaskMoves
<1> QED BY <1>1, <1>2, <1>4, <1>6, <1>9, <1>10, <1>11, <1>12, <1>13, <1>14, <1>15
        DEF CallMoves, Becomes

LEMMA ClaimSendMoves ==
  ASSUME CallsInv, NEW c \in Call, ClaimSend(c)
  PROVE  CallMoves(c)
<1> SUFFICES ASSUME NEW t \in TaskId, t = task_counter + 1, NEW w \in Worker, w = call[c].worker
             PROVE  CallMoves(c)
  BY DEF ClaimSend, CallsInv, Placed
<1> DEFINE r == [call[c] EXCEPT !.pc = "sending", !.task = t, !.held = TRUE]
<1>1. /\ CallsTypeOK /\ Placed(c) /\ NothingWaits /\ t \in TaskId
      /\ call[c].pc = "selected" /\ call[c].task = NoTaskId /\ call[c] \in CallRecord
  BY DEF CallsInv, CallsTypeOK, ClaimSend, Placed, Before
<1>2. /\ task_counter' = t /\ tasks' = NewRecord(t, w, role_of[c])
      /\ workers' = SetStatus(workers, {w}, "busy")
      /\ pending' = pending \cup {t} /\ future' = [future EXCEPT ![t] = "waiting"]
      /\ call' = [call EXCEPT ![c].pc = "sending", ![c].task = t, ![c].held = TRUE]
      /\ UNCHANGED <<task_queue, max_workers, spawned, sending, notices, socket, endpoint, cause>>
  BY DEF ClaimSend
<1>3. t \in 0..MaxId /\ tasks[t] = NoTask
  BY <1>1, DrawnId
<1>4. role_of[c] \in RoleName /\ NoTaskId \notin TaskId
  BY WsCallsAssumption
<1>5. /\ tasks' \in [TaskId -> TaskRecord]
      /\ tasks'[t].status = "running" /\ tasks'[t].worker_id = w
      /\ \A u \in TaskId \ {t} : \/ tasks'[u] = tasks[u]
                                 \/ tasks[u].status \in Terminal /\ tasks'[u] = NoTask
  BY <1>1, <1>2, <1>4, NewRecords
<1>6. r \in CallRecord /\ r.pc = "sending" /\ r.task = t /\ r.worker = w
  BY <1>1 DEF CallRecord
<1>7. call' = [call EXCEPT ![c] = r]
  BY <1>1, <1>2 DEF CallsTypeOK
<1>8. workers' \in [Worker -> WorkerRecord]
  BY <1>2, WorkersTyped
<1>9. t \in Int /\ ~(t > t)
  BY <1>3
<1>10. task_counter' = task_counter + 1
  BY <1>2
<1> HIDE DEF r
<1>11. Becomes(c, r) /\ call'[c] = r
  BY <1>1, <1>6, <1>7 DEF Becomes, CallsTypeOK
<1>12. /\ future' \in [TaskId -> FutureState] /\ future'[t] = "waiting"
       /\ \A u \in TaskId \ {t} : future'[u] = future[u]
  BY <1>1, <1>2 DEF CallsTypeOK, ServerTypeOK, FutureState
<1>13. CallsTypeOK'
  BY <1>1, <1>2, <1>3, <1>5, <1>8, <1>11, <1>12 DEF Becomes, CallsTypeOK, ServerTypeOK, TypeOK
<1>14. NothingWaits'
  BY <1>1, <1>2, <1>5 DEF NothingWaits, NoTask
<1>15. \A u \in TaskId \ {t} : Untouched(u)
  BY <1>2, <1>5, <1>12 DEF Untouched
<1>16. Kept(t)'
  BY <1>2, <1>5, <1>9, <1>12 DEF Kept
<1>17. Placed(c)'
  BY <1>1, <1>2, <1>5, <1>6, <1>9, <1>11, <1>12 DEF Placed, Before, Carrying, Awaiting, Answerable
<1>18. \A u \in TaskId : TaskMoves(u)
  BY <1>2, <1>3, <1>5, <1>10 DEF TaskMoves
<1> QED BY <1>1, <1>2, <1>4, <1>6, <1>10, <1>11, <1>13, <1>14, <1>15, <1>16, <1>17, <1>18
        DEF CallMoves, Becomes

-----------------------------------------------------------------------------
(* The theorems *)

\* One step of the call c.
StepOf(c) == Begin(c) \/ Progress(c) \/ Cancel(c)

LEMMA CallStepMoves ==
  ASSUME CallsInv, NEW c \in Call, StepOf(c)
  PROVE  CallMoves(c)
<1>1. CASE Begin(c)
  BY <1>1, QuietCallMoves
<1>2. CASE Progress(c)
  BY <1>2, QuietCallMoves, ClaimNoSocketMoves, ClaimSendMoves, SendFailsMoves,
     RecordSendFailureMoves, AnsweredMoves, TimeoutMoves, GiveUpMoves DEF Progress
<1>3. CASE Cancel(c)
  BY <1>3, CancelMoves
<1> QED BY <1>1, <1>2, <1>3 DEF StepOf

LEMMA InitCallsInv == CallsInit => CallsInv
<1> SUFFICES ASSUME CallsInit PROVE CallsInv
  OBVIOUS
<1>1. IInv
  BY InitIInv DEF CallsInit, ServerInit
<1>2. ServerTypeOK
  BY <1>1 DEF IInv, CallsInit, ServerInit, ServerTypeOK, EndpointRecord, FutureState, Cause
<1>3. call \in [Call -> CallRecord]
  BY WsCallsAssumption DEF CallsInit, CallRecord
<1>4. NothingWaits
  BY DEF CallsInit, ServerInit, Init, NothingWaits, NoTask
<1>5. ASSUME NEW t \in TaskId PROVE Kept(t)
  BY DEF CallsInit, ServerInit, Init, Kept, NoTask
<1>6. ASSUME NEW c \in Call PROVE Placed(c)
  BY WsCallsAssumption DEF CallsInit, Placed, Before, Carrying, Awaiting
<1>7. Apart
  BY WsCallsAssumption DEF CallsInit, Apart
<1> QED BY <1>2, <1>3, <1>4, <1>5, <1>6, <1>7 DEF CallsInv, CallsTypeOK

LEMMA NothingHappens ==
  ASSUME CallsInv, UNCHANGED callVars
  PROVE  CallsInv'
BY DEF callVars, vars, hubVars, serverVars, CallsInv, CallsTypeOK, ServerTypeOK, TypeOK, NothingWaits,
       Kept, Placed, Apart

LEMMA NextCallsInv == CallsInv /\ [CallsNext]_callVars => CallsInv'
BY NothingHappens, CallStepMoves, CallKeeps, ServerStepMoves, ServerKeeps DEF CallStep, StepOf

\* The inductive invariant of the calls.
THEOREM CallsInductive == CallsSpec => []CallsInv
BY InitCallsInv, NextCallsInv, PTL DEF CallsSpec

\* Every variable of the server and of its calls keeps the shape its comment gives it.
THEOREM CallTypesAreKept == CallsSpec => []CallsTypeOK
<1>1. CallsInv => CallsTypeOK
  BY DEF CallsInv
<1> QED BY <1>1, CallsInductive, PTL

\* While a call awaits a future that nobody has set, a result, the end of the socket or the
\* pruner will still find it, and none of them has passed it by.
THEOREM WakeupsAreNotLost == CallsSpec => []NoLostWakeup
<1>1. CallsInv => NoLostWakeup
  BY DEF CallsInv, Placed, Awaiting, NoLostWakeup
<1> QED BY <1>1, CallsInductive, PTL

\* A call with a task is dispatched again only after a send that failed, or when the
\* future says that the worker is lost.
LEMMA Retries ==
  ASSUME CallsInv, NEW c \in Call, StepOf(c), call'[c].attempt > call[c].attempt, call[c].task # NoTaskId
  PROVE  \/ RecordSendFailure(c) /\ tasks[call[c].task].status # "none"
         \/ Answered(c) /\ future[call[c].task] = "lost"
<1>1. call[c] \in CallRecord /\ call[c].attempt \in Nat /\ call \in [Call -> CallRecord]
  BY WsCallsAssumption DEF CallsInv, CallsTypeOK, CallRecord
<1>2. call'[c].attempt # call[c].attempt
  BY <1>1
<1>3. ASSUME NEW p, Goto(c, p) PROVE FALSE
  BY <1>1, <1>2, <1>3 DEF Goto, CallRecord
<1>4. call[c].pc \notin Before
  BY DEF CallsInv, Placed
<1>5. ~\E w \in Worker : Select(c, w)
  BY <1>4 DEF Select, Before
<1>6. ~Begin(c) /\ ~NoWorkerInTime(c) /\ ~ClaimGone(c) /\ ~ClaimNoSocket(c) /\ ~ClaimSend(c)
  BY <1>4 DEF Begin, NoWorkerInTime, ClaimGone, ClaimNoSocket, ClaimSend, Before
<1>7. ~Sent(c) /\ ~SendFails(c) /\ ~GiveUp(c) /\ ~CancelSent(c)
  BY <1>3 DEF Sent, SendFails, GiveUp, CancelSent
<1>8. ASSUME NEW why, call' = [call EXCEPT ![c].pc = "giving_up", ![c].why = why] PROVE FALSE
  BY <1>1, <1>2, <1>8 DEF CallRecord
<1>9. ~Timeout(c) /\ ~Cancel(c)
  BY <1>3, <1>8 DEF Timeout, Cancel
<1>10. RecordSendFailure(c) => tasks[call[c].task].status # "none"
  BY <1>3 DEF RecordSendFailure
<1>11. Answered(c) => future[call[c].task] = "lost"
  BY <1>3 DEF Answered
<1> QED BY <1>5, <1>6, <1>7, <1>9, <1>10, <1>11 DEF StepOf, Progress

\* A call is dispatched again only when its worker was lost.
THEOREM RetriesFollowLosses == CallsSpec => RetryOnlyAfterLoss
<1> DEFINE A(c) == LET t == call[c].task IN
       call'[c].attempt > call[c].attempt /\ t # NoTaskId
         => tasks'[t].status \in {"failed", "none"} /\ cause'[t] # "timeout"
<1>1. ASSUME CallsInv, CallsNext, NEW c \in Call PROVE A(c)
  <2> SUFFICES ASSUME NEW t \in TaskId, t = call[c].task, call'[c].attempt > call[c].attempt
               PROVE  tasks'[t].status \in {"failed", "none"} /\ cause'[t] # "timeout"
    BY <1>1 DEF CallsInv, CallsTypeOK, CallRecord
  <2>1. CallsTypeOK /\ tasks \in [TaskId -> TaskRecord] /\ cause \in [TaskId -> Cause]
        /\ call[c].attempt \in Nat /\ t # NoTaskId /\ Kept(t) /\ TypeOK
    BY <1>1, WsCallsAssumption DEF CallsInv, CallsTypeOK, ServerTypeOK, TypeOK, CallRecord
  <2>2. PICK d \in Call : StepOf(d)
    <3>1. CASE ~CallStep
      <4>1. call'[c].attempt = call[c].attempt
        BY <1>1, <3>1, ServerStepMoves DEF ServerMoves, SameCalls
      <4> QED BY <2>1, <4>1
    <3> QED BY <3>1 DEF CallStep, StepOf
  <2>3. d = c
    <3>1. CallMoves(d)
      BY <1>1, <2>2, CallStepMoves
    <3>2. d # c => call'[c].attempt = call[c].attempt
      BY <3>1 DEF CallMoves
    <3> QED BY <2>1, <3>2
  <2>4. CASE RecordSendFailure(c) /\ tasks[t].status # "none"
    <3>1. tasks' = Fail(tasks, {t}) /\ cause' = [cause EXCEPT ![t] = "error"]
      BY <2>4 DEF RecordSendFailure, FailRecord
    <3>2. tasks'[t].status = "failed"
      BY <2>1, <3>1, FailTasks
    <3> QED BY <2>1, <3>1, <3>2
  <2>5. CASE Answered(c) /\ future[t] = "lost"
    BY <2>1, <2>5 DEF Answered, hubVars, Kept
  <2> QED BY <1>1, <2>1, <2>2, <2>3, <2>4, <2>5, Retries
<1>2. CallsInv /\ [CallsNext]_callVars => [\A c \in Call : A(c)]_callVars
  BY <1>1
<1> HIDE DEF A
<1>3. CallsSpec => [][\A c \in Call : A(c)]_callVars
  BY <1>2, CallsInductive, PTL DEF CallsSpec
<1> QED BY <1>3 DEF A, RetryOnlyAfterLoss

LEMMA CallTaskMoves ==
  ASSUME CallsInv, CallsNext
  PROVE  /\ task_counter' \in {task_counter, task_counter + 1}
         /\ \A t \in TaskId : TaskMoves(t)
<1>1. CASE ~CallStep
  <2>1. ServerMoves
    BY <1>1, ServerStepMoves
  <2> QED BY <2>1 DEF ServerMoves, Serves, Settled, TaskMoves
<1>2. CASE CallStep
  <2>1. PICK c \in Call : StepOf(c)
    BY <1>2 DEF CallStep, StepOf
  <2>2. CallMoves(c)
    BY <2>1, CallStepMoves
  <2> QED BY <2>2 DEF CallMoves
<1> QED BY <1>1, <1>2

\* The store implements the task board although calls write it without the hub: a call
\* that fails its record by itself never does so to one that another attempt owns.
THEOREM CallsImplementBoard == CallsSpec => ImplementsTaskBoard
<1>1. CallsInit => Board!Init
  BY DEF CallsInit, ServerInit, Init, Board!Init, NoTask, Board!Blank
<1>2. CallsInv /\ [CallsNext]_callVars => [Board!Next]_<<[t \in TaskId |-> [status |-> tasks[t].status, worker_id |-> tasks[t].worker_id]], task_counter>>
  <2>1. CASE UNCHANGED callVars
    BY <2>1 DEF callVars, vars, hubVars
  <2> SUFFICES ASSUME CallsInv, CallsNext PROVE Board!Next
    BY <2>1
  <2> DEFINE card(t) == [status |-> tasks[t].status, worker_id |-> tasks[t].worker_id]
             new(t) == [status |-> tasks'[t].status, worker_id |-> tasks'[t].worker_id]
  <2>2. ASSUME NEW t \in TaskId
        PROVE  \/ Board!Moves(card(t), new(t))
               \/ /\ t = task_counter + 1 /\ task_counter' = t
                  /\ card(t) = Board!Blank /\ Board!Accepted(new(t))
    <3>1. TaskMoves(t)
      BY CallTaskMoves
    <3> QED BY <3>1 DEF TaskMoves, Board!Moves, Board!Accepted, Board!Blank, NoTask, Terminal
  <2> QED BY <2>2, CallTaskMoves DEF Board!Next
<1>3. QED
  BY <1>1, <1>2, CallsInductive, PTL DEF CallsSpec, ImplementsTaskBoard, Board!Spec
=============================================================================
