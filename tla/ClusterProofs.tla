-------------------------- MODULE ClusterProofs --------------------------
(***************************************************************************)
(* Safety of Cluster for every set of workers, connections and tasks: a    *)
(* node never refuses work for ever, whatever executes can be cancelled,   *)
(* a task the hub believes running is carried by somebody as long as its   *)
(* connection lives, and is executed at most once.                         *)
(***************************************************************************)
EXTENDS Cluster, HubProofs

-----------------------------------------------------------------------------
(* The invariants *)

\* The hub's end of the connections.
EndpointsTyped ==
  /\ socket \in [Worker -> Conn \cup {NoConn}]
  /\ endpoint \in [Conn -> EndpointRecord]

\* A connection in use has an endpoint, of the worker that opened it; a worker is
\* registered through a connection of its own.
SocketInv ==
  /\ \A k \in Conn :
       /\ endpoint[k].status = "new" <=> wire[k] = "free"
       /\ IF endpoint[k].status = "new" THEN endpoint[k].worker = NoWorker ELSE endpoint[k].worker \in Worker
  /\ \A w \in Worker :
       /\ socket[w] # NoConn => endpoint[socket[w]].status # "new" /\ endpoint[socket[w]].worker = w
       /\ ws[w] # NoConn => endpoint[ws[w]].status # "new" /\ endpoint[ws[w]].worker = w
       /\ workers[w].status # "absent" => socket[w] # NoConn

\* What the channels carry.
HubMessage == [type : {"register"}] \cup [type : {"result"}, task : TaskId, status : Terminal]
WorkerMessage == [type : {"not_registered"}] \cup [type : {"run_task", "cancel"}, task : TaskId]
WiresTyped ==
  /\ toHub \in [Conn -> Seq(HubMessage)]
  /\ toWorker \in [Conn -> Seq(WorkerMessage)]

On(s, m) == \E i \in DOMAIN s : s[i] = m
Once(s, m) == \A i, j \in DOMAIN s : s[i] = m /\ s[j] = m => i = j

\* No coroutine was ever spawned for t.  It has been, and t does not run any more.
Unsent(t) == t > task_counter \/ tasks[t].status = "pending"
Over(t) == ~Unsent(t) /\ tasks[t].status # "running"
Noticed(t) == \E s \in Sweeper, w \in Worker : <<s, w, t>> \in notices

\* A task is sent at most once, to the worker its record names.
SentOnce(t) ==
  /\ Unsent(t) => via[t] = NoConn
  /\ \A w \in Worker : <<w, t>> \in spawned => via[t] = NoConn
  /\ tasks[t].status = "running" /\ via[t] = NoConn => <<tasks[t].worker_id, t>> \in spawned
  /\ via[t] # NoConn => endpoint[via[t]].status # "new"
  /\ tasks[t].status = "running" /\ via[t] # NoConn => endpoint[via[t]].worker = tasks[t].worker_id

\* Its message lies on that connection only, once, and nobody has executed it by then.
MessageOnce(t) ==
  \A k \in Conn :
    /\ Once(toWorker[k], Node!RunTaskWire(t))
    /\ On(toWorker[k], Node!RunTaskWire(t))
         => via[t] = k /\ \A w \in Worker : execution[w][t].pc = "none"

\* Only the worker it was sent to executes it and answers.
WorkedByOne(t) ==
  /\ \A w \in Worker : execution[w][t].pc # "none" => via[t] # NoConn /\ endpoint[via[t]].worker = w
  /\ \A k \in Conn, s \in Terminal : On(toHub[k], Node!ResultWire(t, s))
       => via[t] # NoConn /\ endpoint[via[t]].worker = endpoint[k].worker

\* Nobody cancels a task that runs.
CancelledLate(t) ==
  /\ Noticed(t) => Over(t)
  /\ \A k \in Conn : On(toWorker[k], Node!CancelWire(t)) => Over(t)

\* A task that runs over a live connection is with its worker, or the answer is on it.
Working == {"created", "running", "dying", "reporting"}
Borne(t) ==
  LET k == via[t]
      w == tasks[t].worker_id
  IN tasks[t].status = "running" /\ k # NoConn /\ wire[k] = "up" /\ ws[w] = k
       => \/ On(toWorker[k], Node!RunTaskWire(t))
          \/ execution[w][t].pc \in Working
          \/ \E s \in Terminal : On(toHub[k], Node!ResultWire(t, s))

Traced(t) == SentOnce(t) /\ MessageOnce(t) /\ WorkedByOne(t) /\ CancelledLate(t) /\ Borne(t)

\* An execution that is to report has an outcome.
Outcomes(e) ==
  \A w \in Worker, t \in TaskId : e[w][t].pc = "reporting" => e[w][t].outcome \in Terminal

NodeInv == Node!NodeTypeOK /\ Outcomes(execution) /\ NeverStuckBusy /\ CancelReachesAll

ClusterInv ==
  /\ IInv
  /\ NodeInv
  /\ EndpointsTyped /\ WiresTyped
  /\ via \in [TaskId -> Conn \cup {NoConn}]
  /\ notify \in [TaskId -> Conn \cup {NoConn}]
  /\ SocketInv
  /\ \A t \in TaskId : Traced(t)

-----------------------------------------------------------------------------
(* Channels *)

\* What a channel carries after a message is added, read, or lost.
LEMMA Adds ==
  ASSUME NEW S, NEW s \in Seq(S), NEW x \in S, NEW m
  PROVE  /\ Append(s, x) \in Seq(S)
         /\ On(Append(s, x), m) <=> On(s, m) \/ x = m
         /\ Once(s, m) /\ (x # m \/ ~On(s, m)) => Once(Append(s, x), m)
<1> DEFINE q == Append(s, x)
           n == Len(s)
<1>1. /\ q \in Seq(S) /\ DOMAIN q = 1..(n + 1) /\ DOMAIN s = 1..n /\ n \in Nat
      /\ \A i \in 1..n : q[i] = s[i]
      /\ q[n + 1] = x
  OBVIOUS
<1> HIDE DEF q, n
<1>2. \A i \in 1..(n + 1) : i \in 1..n \/ i = n + 1
  BY <1>1
<1>3. On(q, m) <=> On(s, m) \/ x = m
  <2>0. 1..n \subseteq 1..(n + 1) /\ n + 1 \in 1..(n + 1)
    BY <1>1
  <2>1. On(q, m) => On(s, m) \/ x = m
    BY <1>1, <1>2 DEF On
  <2>2. On(s, m) => On(q, m)
    BY <1>1, <2>0 DEF On
  <2>3. x = m => On(q, m)
    BY <1>1, <2>0 DEF On
  <2> QED BY <2>1, <2>2, <2>3
<1>4. Once(s, m) /\ (x # m \/ ~On(s, m)) => Once(q, m)
  BY <1>1, <1>2 DEF On, Once
<1> QED BY <1>1, <1>3, <1>4 DEF q

LEMMA Reads ==
  ASSUME NEW S, NEW s \in Seq(S), s # <<>>, NEW m
  PROVE  /\ Tail(s) \in Seq(S) /\ Head(s) \in S
         /\ On(s, Head(s))
         /\ On(s, m) <=> On(Tail(s), m) \/ Head(s) = m
         /\ Once(s, m) => Once(Tail(s), m)
         /\ Once(s, m) /\ Head(s) = m => ~On(Tail(s), m)
<1> DEFINE q == Tail(s)
           n == Len(s)
           h == Head(s)
<1>1. /\ q \in Seq(S) /\ DOMAIN s = 1..n /\ n \in Nat /\ n > 0
      /\ DOMAIN q = 1..(n - 1)
      /\ \A i \in 1..(n - 1) : q[i] = s[i + 1]
      /\ h = s[1] /\ h \in S
  OBVIOUS
<1> HIDE DEF q, n, h
<1>2. /\ \A i \in 1..(n - 1) : i + 1 \in 1..n /\ i + 1 # 1
      /\ \A i \in 1..n : i = 1 \/ (i - 1 \in 1..(n - 1) /\ (i - 1) + 1 = i)
      /\ 1 \in 1..n
  BY <1>1
<1>3. On(s, h)
  BY <1>1, <1>2 DEF On
<1>4. On(q, m) => On(s, m)
  BY <1>1, <1>2 DEF On
<1>5. On(s, m) => On(q, m) \/ h = m
  <2> SUFFICES ASSUME NEW i \in 1..n, s[i] = m, h # m PROVE On(q, m)
    BY <1>1 DEF On
  <2>1. i - 1 \in 1..(n - 1) /\ (i - 1) + 1 = i
    BY <1>1, <1>2
  <2>2. q[i - 1] = m
    BY <1>1, <2>1
  <2> QED BY <1>1, <2>1, <2>2 DEF On
<1>6. Once(s, m) => Once(q, m)
  <2> SUFFICES ASSUME Once(s, m), NEW i \in 1..(n - 1), NEW j \in 1..(n - 1), q[i] = m, q[j] = m
               PROVE  i = j
    BY <1>1 DEF Once
  <2>1. i + 1 \in 1..n /\ j + 1 \in 1..n /\ s[i + 1] = m /\ s[j + 1] = m
    BY <1>1, <1>2
  <2>2. i + 1 = j + 1
    BY <1>1, <2>1 DEF Once
  <2> QED BY <2>2
<1>7. Once(s, m) /\ h = m => ~On(q, m)
  <2> SUFFICES ASSUME Once(s, m), h = m, NEW i \in 1..(n - 1), q[i] = m PROVE FALSE
    BY <1>1 DEF On
  <2>1. i + 1 \in 1..n /\ s[i + 1] = m /\ i + 1 # 1 /\ s[1] = m
    BY <1>1, <1>2
  <2> QED BY <1>1, <1>2, <2>1 DEF Once
<1> QED BY <1>1, <1>3, <1>4, <1>5, <1>6, <1>7 DEF q, h

LEMMA Loses ==
  ASSUME NEW S, NEW s \in Seq(S), NEW n \in 0..Len(s), NEW m
  PROVE  /\ SubSeq(s, 1, n) \in Seq(S)
         /\ On(SubSeq(s, 1, n), m) => On(s, m)
         /\ Once(s, m) => Once(SubSeq(s, 1, n), m)
<1> DEFINE q == SubSeq(s, 1, n)
<1>1. /\ q \in Seq(S) /\ DOMAIN q = 1..n /\ DOMAIN s = 1..Len(s)
      /\ \A i \in 1..n : i \in 1..Len(s) /\ q[i] = s[i]
  OBVIOUS
<1> HIDE DEF q
<1>2. On(q, m) => On(s, m)
  BY <1>1 DEF On
<1>3. Once(s, m) => Once(q, m)
  BY <1>1 DEF Once
<1> QED BY <1>1, <1>2, <1>3 DEF q

LEMMA Nothing ==
  ASSUME NEW S, NEW m
  PROVE  <<>> \in Seq(S) /\ ~On(<<>>, m) /\ Once(<<>>, m)
BY DEF On, Once

LEMMA Alone ==
  ASSUME NEW S, NEW x \in S, NEW m
  PROVE  <<x>> \in Seq(S) /\ (On(<<x>>, m) <=> x = m) /\ Once(<<x>>, m)
BY DEF On, Once

\* One message more on a channel, if the wire is up.
Delivered(old, new, k, x) ==
  \A c \in Conn : \A m :
    /\ On(old[c], m) => On(new[c], m)
    /\ On(new[c], m) => On(old[c], m) \/ (c = k /\ x = m)
    /\ k = c /\ wire[k] = "up" => On(new[k], x)
    /\ Once(old[c], m) /\ (x # m \/ ~On(old[c], m)) => Once(new[c], m)

LEMMA PutDelivers ==
  ASSUME NEW S, NEW channel \in [Conn -> Seq(S)], NEW k \in Conn \cup {NoConn}, NEW x \in S
  PROVE  /\ Node!Put(channel, k, x) \in [Conn -> Seq(S)]
         /\ Delivered(channel, Node!Put(channel, k, x), k, x)
<1>1. CASE k \in Conn /\ wire[k] = "up"
  <2> DEFINE q == Append(channel[k], x)
             new == [channel EXCEPT ![k] = q]
  <2>1. q \in Seq(S) /\ On(q, x)
    BY <1>1, Adds
  <2>2. ASSUME NEW m
        PROVE  /\ On(q, m) <=> On(channel[k], m) \/ x = m
               /\ Once(channel[k], m) /\ (x # m \/ ~On(channel[k], m)) => Once(q, m)
    BY <1>1, Adds
  <2>3. Node!Put(channel, k, x) = new
    BY <1>1, HubServerAssumption DEF Node!Put
  <2> HIDE DEF q
  <2>4. new \in [Conn -> Seq(S)] /\ \A c \in Conn : new[c] = IF c = k THEN q ELSE channel[c]
    BY <1>1, <2>1
  <2> HIDE DEF new
  <2>5. Delivered(channel, new, k, x)
    BY <1>1, <2>1, <2>2, <2>4 DEF Delivered
  <2> QED BY <2>3, <2>4, <2>5
<1>2. CASE ~(k \in Conn /\ wire[k] = "up")
  BY <1>2 DEF Node!Put, Delivered
<1> QED BY <1>1, <1>2

\* What a node's end of the wire holds after a message is read.
Consumed(old, new, k) ==
  \A c \in Conn : \A m :
    /\ On(new[c], m) => On(old[c], m)
    /\ On(old[c], m) => On(new[c], m) \/ (c = k /\ Head(old[k]) = m)
    /\ Once(old[c], m) => Once(new[c], m)
    /\ Once(old[k], m) /\ Head(old[k]) = m => ~On(new[k], m)

LEMMA TailConsumes ==
  ASSUME NEW S, NEW channel \in [Conn -> Seq(S)], NEW k \in Conn, channel[k] # <<>>,
         NEW new, new = [channel EXCEPT ![k] = Tail(channel[k])]
  PROVE  new \in [Conn -> Seq(S)] /\ Consumed(channel, new, k) /\ On(channel[k], Head(channel[k]))
<1> DEFINE s == channel[k]
           q == Tail(s)
<1>1. s \in Seq(S) /\ s # <<>>
  OBVIOUS
<1>2. q \in Seq(S) /\ On(s, Head(s))
  BY <1>1, Reads
<1>3. ASSUME NEW m
      PROVE  /\ On(s, m) <=> On(q, m) \/ Head(s) = m
             /\ Once(s, m) => Once(q, m)
             /\ Once(s, m) /\ Head(s) = m => ~On(q, m)
  BY <1>1, Reads
<1> HIDE DEF q
<1>4. \A c \in Conn : new[c] = IF c = k THEN q ELSE channel[c]
  BY DEF q
<1>5. new \in [Conn -> Seq(S)]
  BY <1>2 DEF q
<1>6. Consumed(channel, new, k)
  BY <1>3, <1>4 DEF Consumed
<1> QED BY <1>2, <1>5, <1>6

-----------------------------------------------------------------------------
(* The executions of a node *)

\* What the node's operators make of the executions.
LEMMA Cancels ==
  ASSUME Node!NodeTypeOK, NEW w \in Worker, NEW S, NEW e, e = Node!CancelAll(w, S)
  PROVE  /\ e \in [Worker -> [TaskId -> Node!ExecutionRecord]]
         /\ \A u \in Worker, t \in TaskId :
              IF u = w /\ t \in S /\ execution[u][t].pc = "created" THEN e[u][t].pc = "never"
              ELSE IF u = w /\ t \in S /\ execution[u][t].pc = "running" THEN e[u][t].pc = "dying"
              ELSE e[u][t].pc = execution[u][t].pc
         /\ Outcomes(execution) => Outcomes(e)
<1> DEFINE q(t) == IF t \in S /\ execution[w][t].pc = "created" THEN [execution[w][t] EXCEPT !.pc = "never"]
                   ELSE IF t \in S /\ execution[w][t].pc = "running" THEN [execution[w][t] EXCEPT !.pc = "dying"]
                   ELSE execution[w][t]
           new == [t \in TaskId |-> q(t)]
<1>1. execution \in [Worker -> [TaskId -> Node!ExecutionRecord]]
  BY DEF Node!NodeTypeOK
<1>2. \A t \in TaskId :
        /\ q(t) \in Node!ExecutionRecord
        /\ IF t \in S /\ execution[w][t].pc = "created" THEN q(t).pc = "never"
           ELSE IF t \in S /\ execution[w][t].pc = "running" THEN q(t).pc = "dying"
           ELSE q(t).pc = execution[w][t].pc
        /\ q(t).pc = "reporting" => q(t) = execution[w][t]
  BY <1>1 DEF Node!ExecutionRecord
<1>3. e = [execution EXCEPT ![w] = new]
  BY DEF Node!CancelAll
<1> HIDE DEF q
<1>4. new \in [TaskId -> Node!ExecutionRecord] /\ \A t \in TaskId : new[t] = q(t)
  BY <1>2
<1> HIDE DEF new
<1>5. \A u \in Worker, t \in TaskId : e[u][t] = IF u = w THEN q(t) ELSE execution[u][t]
  BY <1>1, <1>3, <1>4
<1>6. Outcomes(execution) => Outcomes(e)
  BY <1>2, <1>5 DEF Outcomes
<1> QED BY <1>1, <1>2, <1>3, <1>4, <1>6

\* One execution moves on.
WithPc(w, t, pc) == [execution EXCEPT ![w][t].pc = pc]

LEMMA Cell ==
  ASSUME Node!NodeTypeOK, NEW w \in Worker, NEW t \in TaskId, NEW pc,
         pc \in Working \cup {"none", "done", "never", "gone"}
  PROVE  /\ WithPc(w, t, pc) \in [Worker -> [TaskId -> Node!ExecutionRecord]]
         /\ \A u \in Worker, v \in TaskId :
              WithPc(w, t, pc)[u][v].pc = IF u = w /\ v = t THEN pc ELSE execution[u][v].pc
         /\ Outcomes(execution) /\ pc # "reporting" => Outcomes(WithPc(w, t, pc))
<1> DEFINE r == [execution[w][t] EXCEPT !.pc = pc]
<1>1. execution \in [Worker -> [TaskId -> Node!ExecutionRecord]]
  BY DEF Node!NodeTypeOK
<1>2. r \in Node!ExecutionRecord /\ r.pc = pc
  BY <1>1 DEF Node!ExecutionRecord, Working
<1>3. WithPc(w, t, pc) = [execution EXCEPT ![w][t] = r]
  BY DEF WithPc
<1> HIDE DEF r
<1>4. \A u \in Worker, v \in TaskId :
        WithPc(w, t, pc)[u][v] = IF u = w /\ v = t THEN r ELSE execution[u][v]
  BY <1>1, <1>3
<1>5. Outcomes(execution) /\ pc # "reporting" => Outcomes(WithPc(w, t, pc))
  BY <1>2, <1>4 DEF Outcomes
<1> QED BY <1>1, <1>2, <1>3, <1>4, <1>5

\* The first step of an execution, its end and its report.
LEMMA ExecutionMoves ==
  ASSUME Node!NodeTypeOK, NEW w \in Worker, NEW t \in TaskId,
         Node!Start(w, t) \/ Node!Finish(w, t) \/ Node!Report(w, t)
  PROVE  /\ execution' \in [Worker -> [TaskId -> Node!ExecutionRecord]]
         /\ \A u \in Worker, v \in TaskId : u # w \/ v # t => execution'[u][v].pc = execution[u][v].pc
         /\ Node!Start(w, t) => execution[w][t].pc = "created" /\ execution'[w][t].pc = "running"
         /\ Node!Finish(w, t) => execution[w][t].pc \in {"running", "dying"} /\ execution'[w][t].pc = "reporting"
         /\ Node!Report(w, t) => execution[w][t].pc = "reporting" /\ execution'[w][t].pc = "done"
         /\ Outcomes(execution) => Outcomes(execution')
<1>1. execution \in [Worker -> [TaskId -> Node!ExecutionRecord]]
  BY DEF Node!NodeTypeOK
<1>0. /\ Node!Start(w, t) => execution[w][t].pc = "created"
      /\ Node!Finish(w, t) => execution[w][t].pc \in {"running", "dying"}
      /\ Node!Report(w, t) => execution[w][t].pc = "reporting"
  BY DEF Node!Start, Node!Finish, Node!Report
<1>2. CASE Node!Start(w, t)
  <2>1. execution[w][t].pc = "created" /\ execution' = WithPc(w, t, "running")
    BY <1>2 DEF Node!Start, WithPc
  <2>2. /\ execution' \in [Worker -> [TaskId -> Node!ExecutionRecord]]
        /\ \A u \in Worker, v \in TaskId :
             execution'[u][v].pc = IF u = w /\ v = t THEN "running" ELSE execution[u][v].pc
        /\ Outcomes(execution) => Outcomes(execution')
    BY <2>1, Cell DEF Working
  <2> QED BY <1>0, <2>1, <2>2
<1>3. CASE Node!Report(w, t)
  <2>1. execution[w][t].pc = "reporting" /\ execution' = WithPc(w, t, "done")
    BY <1>3 DEF Node!Report, WithPc
  <2>2. /\ execution' \in [Worker -> [TaskId -> Node!ExecutionRecord]]
        /\ \A u \in Worker, v \in TaskId :
             execution'[u][v].pc = IF u = w /\ v = t THEN "done" ELSE execution[u][v].pc
        /\ Outcomes(execution) => Outcomes(execution')
    BY <2>1, Cell DEF Working
  <2> QED BY <1>0, <2>1, <2>2
<1>4. CASE Node!Finish(w, t)
  <2>1. PICK s \in {"completed", "failed"} :
          execution' = [execution EXCEPT ![w][t] = [pc |-> "reporting", outcome |-> s]]
    BY <1>4 DEF Node!Finish
  <2> DEFINE r == [pc |-> "reporting", outcome |-> s]
  <2>2. r \in Node!ExecutionRecord /\ r.pc = "reporting" /\ r.outcome \in Terminal
    BY DEF Node!ExecutionRecord, Terminal
  <2> HIDE DEF r
  <2>3. execution' = [execution EXCEPT ![w][t] = r]
    BY <2>1 DEF r
  <2>4. execution[w][t].pc \in {"running", "dying"}
    BY <1>4 DEF Node!Finish
  <2>5. /\ execution' \in [Worker -> [TaskId -> Node!ExecutionRecord]]
        /\ \A u \in Worker, v \in TaskId : u # w \/ v # t => execution'[u][v].pc = execution[u][v].pc
        /\ execution'[w][t].pc = "reporting"
    BY <1>1, <2>2, <2>3
  <2>6. \A u \in Worker, v \in TaskId : execution'[u][v] = IF u = w /\ v = t THEN r ELSE execution[u][v]
    BY <1>1, <2>3
  <2>7. Outcomes(execution) => Outcomes(execution')
    BY <2>2, <2>6 DEF Outcomes
  <2> QED BY <1>0, <2>4, <2>5, <2>7
<1> QED BY <1>2, <1>3, <1>4

\* The process dies with everything that executes in it.
LEMMA CrashMoves ==
  ASSUME Node!NodeTypeOK, NEW w \in Worker, Node!Crash(w)
  PROVE  /\ execution' \in [Worker -> [TaskId -> Node!ExecutionRecord]]
         /\ \A u \in Worker, t \in TaskId :
              IF u = w /\ execution[u][t].pc \in Working THEN execution'[u][t].pc = "gone"
              ELSE execution'[u][t].pc = execution[u][t].pc
         /\ Outcomes(execution) => Outcomes(execution')
<1> DEFINE q(t) == IF execution[w][t].pc \in Working THEN [execution[w][t] EXCEPT !.pc = "gone"]
                   ELSE execution[w][t]
           new == [t \in TaskId |-> q(t)]
<1>1. execution \in [Worker -> [TaskId -> Node!ExecutionRecord]]
  BY DEF Node!NodeTypeOK
<1>2. \A t \in TaskId :
        /\ q(t) \in Node!ExecutionRecord
        /\ IF execution[w][t].pc \in Working THEN q(t).pc = "gone" ELSE q(t).pc = execution[w][t].pc
        /\ q(t).pc = "reporting" => q(t) = execution[w][t]
  BY <1>1 DEF Node!ExecutionRecord, Working
<1>3. execution' = [execution EXCEPT ![w] = new]
  BY DEF Node!Crash, Working
<1> HIDE DEF q
<1>4. new \in [TaskId -> Node!ExecutionRecord] /\ \A t \in TaskId : new[t] = q(t)
  BY <1>2
<1> HIDE DEF new
<1>5. \A u \in Worker, t \in TaskId : execution'[u][t] = IF u = w THEN q(t) ELSE execution[u][t]
  BY <1>1, <1>3, <1>4
<1>6. Outcomes(execution) => Outcomes(execution')
  BY <1>2, <1>5 DEF Outcomes
<1> QED BY <1>1, <1>2, <1>3, <1>4, <1>6

-----------------------------------------------------------------------------
(* A node by itself *)

\* A message that names a task names one of TaskId.
LEMMA HeadTask ==
  ASSUME WiresTyped, Node!NodeTypeOK, NEW w \in Worker, NEW type, Node!Incoming(w, type)
  PROVE  /\ ws[w] \in Conn /\ toWorker[ws[w]] \in Seq(WorkerMessage) /\ toWorker[ws[w]] # <<>>
         /\ Head(toWorker[ws[w]]) \in WorkerMessage /\ Head(toWorker[ws[w]]).type = type
         /\ toWorker' = [toWorker EXCEPT ![ws[w]] = Tail(toWorker[ws[w]])]
         /\ type = "run_task" => /\ Head(toWorker[ws[w]]).task \in TaskId
                                 /\ Head(toWorker[ws[w]]) = Node!RunTaskWire(Head(toWorker[ws[w]]).task)
         /\ type = "cancel" => /\ Head(toWorker[ws[w]]).task \in TaskId
                               /\ Head(toWorker[ws[w]]) = Node!CancelWire(Head(toWorker[ws[w]]).task)
<1> DEFINE s == toWorker[ws[w]]
<1>1. ws[w] \in Conn /\ s \in Seq(WorkerMessage) /\ s # <<>> /\ Head(s).type = type
      /\ toWorker' = [toWorker EXCEPT ![ws[w]] = Tail(s)]
  BY DEF WiresTyped, Node!NodeTypeOK, Node!Incoming
<1> HIDE DEF s
<1>2. Head(s) \in WorkerMessage
  BY <1>1
<1> DEFINE m == Head(s)
<1> HIDE DEF m
<1>3. m \in WorkerMessage /\ m.type = type
  BY <1>1, <1>2 DEF m
<1>4. type = "run_task" => m.task \in TaskId /\ m = Node!RunTaskWire(m.task)
  BY <1>3 DEF WorkerMessage, Node!RunTaskWire
<1>5. type = "cancel" => m.task \in TaskId /\ m = Node!CancelWire(m.task)
  BY <1>3 DEF WorkerMessage, Node!CancelWire
<1> QED BY <1>1, <1>2, <1>4, <1>5 DEF s, m

\* The wire breaks.
LEMMA DropKeepsNodeInv ==
  ASSUME NodeInv, NEW k \in Conn, Node!Drop(k)
  PROVE  NodeInv'
BY DEF Node!Drop, NodeInv, Node!NodeTypeOK, Outcomes, NeverStuckBusy, CancelReachesAll,
       Node!NeverStuckBusy, Node!CancelReachesAll

\* The connection comes and goes.
LEMMA ConnectionKeepsNodeInv ==
  ASSUME NodeInv, NEW w \in Worker,
         (\E k \in Conn : Node!Open(w, k)) \/ Node!Disconnect(w) \/ Node!Crash(w)
  PROVE  NodeInv'
<1>1. Node!NodeTypeOK /\ Outcomes(execution) /\ NeverStuckBusy /\ CancelReachesAll
  BY DEF NodeInv
<1>2. ASSUME NEW k \in Conn, Node!Open(w, k) PROVE NodeInv'
  BY <1>1, <1>2 DEF Node!Open, NodeInv, Node!NodeTypeOK, NeverStuckBusy, CancelReachesAll,
                    Node!NeverStuckBusy, Node!CancelReachesAll
<1>3. CASE Node!Disconnect(w)
  <2> DEFINE S == running_tasks[w]
  <2>1. /\ execution' = Node!CancelAll(w, S)
        /\ \A t \in S : execution[w][t].pc # "created"
        /\ ws' = [ws EXCEPT ![w] = NoConn] /\ running_tasks' = [running_tasks EXCEPT ![w] = {}]
        /\ UNCHANGED <<wire, active_tasks>>
    BY <1>3 DEF Node!Disconnect
  <2>2. /\ execution' \in [Worker -> [TaskId -> Node!ExecutionRecord]]
        /\ \A u \in Worker, t \in TaskId :
              IF u = w /\ t \in S /\ execution[u][t].pc = "created" THEN execution'[u][t].pc = "never"
              ELSE IF u = w /\ t \in S /\ execution[u][t].pc = "running" THEN execution'[u][t].pc = "dying"
              ELSE execution'[u][t].pc = execution[u][t].pc
        /\ Outcomes(execution')
    BY <1>1, <2>1, Cancels
  <2>3. Node!NodeTypeOK'
    BY <1>1, <2>1, <2>2 DEF Node!NodeTypeOK
  <2>4. NeverStuckBusy'
    BY <1>1, <2>1, <2>2 DEF NeverStuckBusy, Node!NeverStuckBusy, Node!NodeTypeOK
  <2>5. CancelReachesAll'
    BY <1>1, <2>1, <2>2 DEF CancelReachesAll, Node!CancelReachesAll, Node!NodeTypeOK
  <2> QED BY <2>2, <2>3, <2>4, <2>5 DEF NodeInv
<1>4. CASE Node!Crash(w)
  <2>1. /\ active_tasks' = [active_tasks EXCEPT ![w] = {}]
        /\ running_tasks' = [running_tasks EXCEPT ![w] = {}]
        /\ ws' = [ws EXCEPT ![w] = NoConn]
        /\ wire' = [c \in Conn |-> IF c = ws[w] THEN "down" ELSE wire[c]]
    BY <1>4 DEF Node!Crash
  <2>2. /\ execution' \in [Worker -> [TaskId -> Node!ExecutionRecord]]
        /\ \A u \in Worker, t \in TaskId :
             IF u = w /\ execution[u][t].pc \in Working THEN execution'[u][t].pc = "gone"
             ELSE execution'[u][t].pc = execution[u][t].pc
        /\ Outcomes(execution')
    BY <1>1, <1>4, CrashMoves
  <2>3. Node!NodeTypeOK'
    BY <1>1, <2>1, <2>2 DEF Node!NodeTypeOK
  <2>4. NeverStuckBusy'
    BY <1>1, <2>1, <2>2 DEF NeverStuckBusy, Node!NeverStuckBusy, Node!NodeTypeOK
  <2>5. CancelReachesAll'
    BY <1>1, <2>1, <2>2 DEF CancelReachesAll, Node!CancelReachesAll, Node!NodeTypeOK, Working
  <2> QED BY <2>2, <2>3, <2>4, <2>5 DEF NodeInv
<1> QED BY <1>2, <1>3, <1>4

\* What a message or an execution does to its node.
LEMMA WorkKeepsNodeInv ==
  ASSUME NodeInv, NEW w \in Worker, WiresTyped,
         Node!ReceiveStep(w) \/ Node!ExecutionStep(w)
  PROVE  NodeInv'
<1>1. Node!NodeTypeOK /\ Outcomes(execution) /\ NeverStuckBusy /\ CancelReachesAll
  BY DEF NodeInv
<1>2. CASE Node!ReceiveNotRegistered(w) \/ Node!RejectTask(w)
  BY <1>1, <1>2 DEF Node!ReceiveNotRegistered, Node!RejectTask, NodeInv, Node!NodeTypeOK, NeverStuckBusy,
                    CancelReachesAll, Node!NeverStuckBusy, Node!CancelReachesAll
<1>3. CASE Node!AcceptTask(w)
  <2>1. PICK t \in TaskId :
          /\ active_tasks[w] = {}
          /\ active_tasks' = [active_tasks EXCEPT ![w] = active_tasks[w] \cup {t}]
          /\ running_tasks' = [running_tasks EXCEPT ![w] = running_tasks[w] \cup {t}]
          /\ execution' = [execution EXCEPT ![w][t].pc = "created"]
          /\ UNCHANGED <<wire, ws>>
    <3>1. Node!Incoming(w, "run_task")
      BY <1>3 DEF Node!AcceptTask
    <3> DEFINE t == Head(toWorker[ws[w]]).task
    <3>2. t \in TaskId
      BY <1>1, <3>1, HeadTask
    <3> QED BY <1>3, <3>2 DEF Node!AcceptTask
  <2>2. /\ execution' \in [Worker -> [TaskId -> Node!ExecutionRecord]]
        /\ \A u \in Worker, v \in TaskId :
             execution'[u][v].pc = IF u = w /\ v = t THEN "created" ELSE execution[u][v].pc
        /\ Outcomes(execution')
    <3>1. execution' = WithPc(w, t, "created") /\ t \in TaskId
      BY <2>1 DEF WithPc
    <3> QED BY <1>1, <3>1, Cell DEF Working
  <2>3. Node!NodeTypeOK'
    BY <1>1, <2>1, <2>2 DEF Node!NodeTypeOK
  <2>4. NeverStuckBusy'
    BY <1>1, <2>1, <2>2 DEF NeverStuckBusy, Node!NeverStuckBusy, Node!NodeTypeOK
  <2>5. CancelReachesAll'
    BY <1>1, <2>1, <2>2 DEF CancelReachesAll, Node!CancelReachesAll, Node!NodeTypeOK
  <2> QED BY <2>2, <2>3, <2>4, <2>5 DEF NodeInv
<1>4. CASE Node!ReceiveCancel(w)
  <2> DEFINE S == {Head(toWorker[ws[w]]).task} \cap running_tasks[w]
  <2>1. /\ execution' = Node!CancelAll(w, S)
        /\ active_tasks' = [active_tasks EXCEPT ![w] = {}]
        /\ UNCHANGED <<wire, ws, running_tasks>>
    BY <1>4 DEF Node!ReceiveCancel
  <2> HIDE DEF S
  <2>2. /\ execution' \in [Worker -> [TaskId -> Node!ExecutionRecord]]
        /\ \A u \in Worker, t \in TaskId :
              IF u = w /\ t \in S /\ execution[u][t].pc = "created" THEN execution'[u][t].pc = "never"
              ELSE IF u = w /\ t \in S /\ execution[u][t].pc = "running" THEN execution'[u][t].pc = "dying"
              ELSE execution'[u][t].pc = execution[u][t].pc
        /\ Outcomes(execution')
    BY <1>1, <2>1, Cancels
  <2>3. Node!NodeTypeOK'
    BY <1>1, <2>1, <2>2 DEF Node!NodeTypeOK
  <2>4. NeverStuckBusy'
    <3> SUFFICES ASSUME NEW u \in Worker, NEW t \in active_tasks'[u]
                 PROVE  execution'[u][t].pc \in {"created", "running", "dying"}
      BY DEF NeverStuckBusy, Node!NeverStuckBusy
    <3>1. u # w /\ t \in active_tasks[u] /\ t \in TaskId
      BY <1>1, <2>1 DEF Node!NodeTypeOK
    <3>2. execution'[u][t].pc = execution[u][t].pc
      BY <2>2, <3>1
    <3> QED BY <1>1, <3>1, <3>2 DEF NeverStuckBusy, Node!NeverStuckBusy
  <2>5. CancelReachesAll'
    BY <1>1, <2>1, <2>2 DEF CancelReachesAll, Node!CancelReachesAll, Node!NodeTypeOK
  <2> QED BY <2>2, <2>3, <2>4, <2>5 DEF NodeInv
<1>5. ASSUME NEW t \in TaskId, Node!Start(w, t) \/ Node!Finish(w, t) \/ Node!Report(w, t)
      PROVE  NodeInv'
  <2>1. /\ execution' \in [Worker -> [TaskId -> Node!ExecutionRecord]]
        /\ \A u \in Worker, v \in TaskId : u # w \/ v # t => execution'[u][v].pc = execution[u][v].pc
        /\ Node!Start(w, t) => execution[w][t].pc = "created" /\ execution'[w][t].pc = "running"
        /\ Node!Finish(w, t) => execution[w][t].pc \in {"running", "dying"} /\ execution'[w][t].pc = "reporting"
        /\ Node!Report(w, t) => execution[w][t].pc = "reporting" /\ execution'[w][t].pc = "done"
        /\ Outcomes(execution')
    BY <1>1, <1>5, ExecutionMoves
  <2>2. /\ UNCHANGED <<wire, ws>>
        /\ Node!Start(w, t) => running_tasks' = running_tasks
                               /\ active_tasks' = [active_tasks EXCEPT ![w] = active_tasks[w] \cup {t}]
        /\ Node!Finish(w, t) => running_tasks' = [running_tasks EXCEPT ![w] = running_tasks[w] \ {t}]
                                /\ active_tasks' = [active_tasks EXCEPT ![w] = {}]
        /\ Node!Report(w, t) => UNCHANGED <<running_tasks, active_tasks>>
    BY <1>5 DEF Node!Start, Node!Finish, Node!Report
  <2>3. Node!NodeTypeOK'
    <3>1. /\ active_tasks' \in [Worker -> SUBSET TaskId]
          /\ running_tasks' \in [Worker -> SUBSET TaskId]
      <4>1. /\ active_tasks[w] \cup {t} \in SUBSET TaskId
            /\ running_tasks[w] \ {t} \in SUBSET TaskId
        BY <1>1 DEF Node!NodeTypeOK
      <4> DEFINE a == active_tasks[w] \cup {t}
                 r == running_tasks[w] \ {t}
      <4>2. /\ [active_tasks EXCEPT ![w] = a] \in [Worker -> SUBSET TaskId]
            /\ [active_tasks EXCEPT ![w] = {}] \in [Worker -> SUBSET TaskId]
            /\ [running_tasks EXCEPT ![w] = r] \in [Worker -> SUBSET TaskId]
        <5> HIDE DEF a, r
        <5> QED BY <1>1, <4>1 DEF Node!NodeTypeOK, a, r
      <4> QED BY <1>1, <1>5, <2>2, <4>2 DEF Node!NodeTypeOK
    <3> QED BY <1>1, <2>1, <2>2, <3>1 DEF Node!NodeTypeOK
  <2>4. NeverStuckBusy'
    BY <1>1, <1>5, <2>1, <2>2 DEF NeverStuckBusy, Node!NeverStuckBusy, Node!NodeTypeOK
  <2>5. CancelReachesAll'
    BY <1>1, <1>5, <2>1, <2>2 DEF CancelReachesAll, Node!CancelReachesAll, Node!NodeTypeOK
  <2> QED BY <2>1, <2>3, <2>4, <2>5 DEF NodeInv
<1> QED BY <1>2, <1>3, <1>4, <1>5 DEF Node!ReceiveStep, Node!ExecutionStep

-----------------------------------------------------------------------------
(* What the hub's steps do to a task *)

\* A task that was sent stays sent and is not run again; one that starts is given to a
\* coroutine.
HubMove(t) ==
  /\ Unsent(t)' => Unsent(t)
  /\ ~Unsent(t) => \A w \in Worker : <<w, t>> \in spawned' <=> <<w, t>> \in spawned
  /\ tasks'[t].status = "running" =>
       IF Unsent(t) THEN <<tasks'[t].worker_id, t>> \in spawned'
       ELSE tasks[t].status = "running" /\ tasks'[t].worker_id = tasks[t].worker_id

\* A handler that has settled tasks and then serves the backlog.
LEMMA PassMoves ==
  ASSUME IInv, NEW info, NEW ts, Closing(ts), NEW a \in Passes(info, ts, Backlog(ts)),
         tasks' = Start(ts, a), spawned' = spawned \cup {<<a[t], t>> : t \in Given(a)},
         task_counter' = task_counter, NEW t \in TaskId
  PROVE  HubMove(t)
<1>1. /\ ts \in [TaskId -> TaskRecord] /\ task_queue \subseteq TaskId
      /\ Closes(tasks[t], ts[t])
  BY DEF Closing, IInv, TypeOK
<1>2. IF t \in Given(a)
        THEN /\ ts[t].status = "pending" /\ tasks'[t].status = "running"
             /\ tasks'[t].worker_id = a[t] /\ a[t] \in Worker
        ELSE tasks'[t] = ts[t]
  BY <1>1, PassStarts
<1>3. ts[t].status = "pending" <=> tasks[t].status = "pending"
  BY <1>1 DEF Closes, Terminal
<1>4. \A w \in Worker : <<w, t>> \in spawned' <=> <<w, t>> \in spawned \/ (t \in Given(a) /\ a[t] = w)
  OBVIOUS
<1>5. t \notin Given(a) /\ tasks'[t].status = "running"
        => tasks[t].status = "running" /\ tasks'[t].worker_id = tasks[t].worker_id
  BY <1>1, <1>2 DEF Closes
<1>6. tasks[t].status = "running" => ~Unsent(t)
  BY DEF Unsent, IInv, Unissued
<1>7. Unsent(t)' => Unsent(t)
  BY <1>1, <1>2, <1>3 DEF Unsent
<1>8. t \in Given(a) => Unsent(t)
  BY <1>2, <1>3 DEF Unsent
<1> QED BY <1>2, <1>4, <1>5, <1>6, <1>7, <1>8 DEF HubMove

\* The workers that are registered after a pass were before it.
LEMMA PassKeepsAbsent ==
  ASSUME NEW info \in [Worker -> WorkerRecord], NEW ts, NEW a \in Passes(info, ts, Backlog(ts)), NEW v \in Worker
  PROVE  Occupy(info, a)[v].status # "absent" => info[v].status # "absent"
<1> SUFFICES ASSUME info[v].status = "absent" PROVE Occupy(info, a)[v].status = "absent"
  OBVIOUS
<1>1. \A t \in Given(a) : CanTake(info[a[t]], ts[t].role)
  BY DEF Given, Passes
<1>2. ~\E t \in Given(a) : a[t] = v
  BY <1>1 DEF CanTake
<1> QED BY <1>2 DEF Occupy

\* A handler after which workers may be gone.
LEMMA LeavingMoves ==
  ASSUME IInv, NEW V, Leaving(V)
  PROVE  /\ \A t \in TaskId : HubMove(t)
         /\ \A v \in Worker : workers'[v].status # "absent" => workers[v].status # "absent" /\ v \notin V
<1>1. PICK info, ts : /\ Handles(info, ts)
                    /\ \A v \in Worker : info[v].status # "absent" => workers[v].status # "absent" /\ v \notin V
  BY DEF Leaving
<1>2. PICK a \in Passes(info, ts, Backlog(ts)) :
        /\ workers' = Occupy(info, a) /\ tasks' = Start(ts, a)
        /\ spawned' = spawned \cup {<<a[t], t>> : t \in Given(a)}
  BY <1>1 DEF Handles, ProcessQueue
<1>3. info \in [Worker -> WorkerRecord] /\ Closing(ts) /\ task_counter' = task_counter
  BY <1>1 DEF Handles
<1>4. ASSUME NEW t \in TaskId PROVE HubMove(t)
  BY <1>2, <1>3, PassMoves
<1>5. \A v \in Worker : workers'[v].status # "absent" => info[v].status # "absent"
  BY <1>2, <1>3, PassKeepsAbsent
<1> QED BY <1>1, <1>4, <1>5

\* A /dispatch.
LEMMA DispatchMoves ==
  ASSUME IInv, NEW name \in RoleName,
         (\E w \in Worker : DispatchNow(name, w)) \/ DispatchLater(name) \/ DispatchFull(name)
  PROVE  /\ \A t \in TaskId : HubMove(t)
         /\ \A v \in Worker : workers'[v].status # "absent" => workers[v].status # "absent"
<1> DEFINE n == task_counter + 1
<1>1. /\ task_counter \in Nat /\ n \in TaskId /\ task_counter' = n
      /\ workers \in [Worker -> WorkerRecord] /\ tasks \in [TaskId -> TaskRecord]
  <2>1. task_counter \in Nat /\ workers \in [Worker -> WorkerRecord] /\ tasks \in [TaskId -> TaskRecord]
    BY HubAssumption DEF IInv, TypeOK
  <2>2. n \in TaskId /\ task_counter' = n
    BY DEF DispatchNow, DispatchLater, DispatchFull
  <2> QED BY <2>1, <2>2
<1>2. /\ Evict(tasks) \in [TaskId -> TaskRecord]
      /\ \A t \in TaskId : \/ Evict(tasks)[t] = tasks[t]
                           \/ Evict(tasks)[t] = NoTask /\ tasks[t].status \in Terminal
  BY EvictTasks DEF IInv
<1> DEFINE ts == Evict(tasks)
<1> HIDE DEF ts
<1>3. /\ \A t \in TaskId : t # n => tasks'[t] = ts[t]
      /\ \A t \in TaskId, w \in Worker : <<w, t>> \in spawned' <=>
           <<w, t>> \in spawned \/ (t = n /\ tasks'[n].status = "running" /\ tasks'[n].worker_id = w)
      /\ tasks'[n].status = "running" => <<tasks'[n].worker_id, n>> \in spawned'
      /\ \A v \in Worker : workers'[v].status # "absent" => workers[v].status # "absent"
  <2>1. ASSUME NEW w \in Worker, DispatchNow(name, w)
        PROVE  /\ \A t \in TaskId : t # n => tasks'[t] = ts[t]
               /\ spawned' = spawned \cup {<<w, n>>}
               /\ tasks'[n].status = "running" /\ tasks'[n].worker_id = w
               /\ \A v \in Worker : workers'[v].status # "absent" => workers[v].status # "absent"
    <3>1. /\ tasks' = [ts EXCEPT ![n] = [status |-> "running", role |-> name, worker_id |-> w]]
          /\ spawned' = spawned \cup {<<w, n>>}
          /\ workers' = SetStatus(workers, {w}, "busy") /\ workers[w].status = "idle"
      BY <2>1 DEF DispatchNow, CanTake, ts
    <3>2. \A v \in Worker : v # w => workers'[v] = workers[v]
      BY <1>1, <3>1, SetWorkers
    <3> QED BY <1>1, <1>2, <3>1, <3>2 DEF ts
  <2>2. ASSUME DispatchLater(name) \/ DispatchFull(name)
        PROVE  /\ \A t \in TaskId : t # n => tasks'[t] = ts[t]
               /\ spawned' = spawned /\ workers' = workers
               /\ tasks'[n].status # "running"
    <3>1. CASE DispatchLater(name)
      <4>1. /\ tasks' = [ts EXCEPT ![n] = [status |-> "pending", role |-> name, worker_id |-> NoWorker]]
            /\ spawned' = spawned /\ workers' = workers
        BY <3>1 DEF DispatchLater, ts
      <4> QED BY <1>1, <1>2, <4>1 DEF ts
    <3>2. CASE DispatchFull(name)
      <4>1. tasks' = ts /\ spawned' = spawned /\ workers' = workers
        BY <3>2 DEF DispatchFull, ts
      <4>2. tasks[n].status = "none" /\ NoTask.status = "none"
        BY <1>1 DEF IInv, Unissued, NoTask
      <4> QED BY <1>1, <1>2, <4>1, <4>2 DEF ts
    <3> QED BY <2>2, <3>1, <3>2
  <2> QED BY <2>1, <2>2
<1>4. ASSUME NEW t \in TaskId PROVE HubMove(t)
  <2>1. CASE t = n
    <3>1. Unsent(t)
      BY <1>1, <2>1 DEF Unsent
    <3> QED BY <1>3, <2>1, <3>1 DEF HubMove
  <2>2. CASE t # n
    <3>1. \/ tasks'[t] = tasks[t]
          \/ tasks'[t] = NoTask /\ tasks[t].status \in Terminal
      BY <1>2, <1>3, <2>2 DEF ts
    <3>2. Unsent(t)' => Unsent(t)
      BY <1>1, <3>1 DEF Unsent, NoTask, TaskId
    <3>3. tasks[t].status = "running" => ~Unsent(t)
      BY DEF Unsent, IInv, Unissued
    <3> QED BY <1>3, <2>2, <3>1, <3>2, <3>3 DEF HubMove, NoTask
  <2> QED BY <2>1, <2>2
<1> QED BY <1>3, <1>4

-----------------------------------------------------------------------------
(* Handlers of the server that set the worker's status after the backlog pass *)

\* The status written back over that of the pass leaves a sound table and store.
LEMMA ThenSetKeepsIInv ==
  ASSUME IInv, NEW info, NEW ts, NEW w \in Worker, NEW s \in {"idle", "busy"},
         Sound(info, ts, spawned \cup sending), info[w].status = s,
         \A t \in TaskId : ts[t].status = "pending" => t \in task_queue,
         \A t \in TaskId : t > task_counter => ts[t].status = "none",
         ProcessQueueThenSet(info, ts, w, s),
         task_counter' = task_counter, max_workers' = max_workers,
         sending' = sending, notices' = notices
  PROVE  IInv'
<1>1. PICK a \in Passes(info, ts, Backlog(ts)) :
        /\ workers' = SetStatus(Occupy(info, a), {w}, s)
        /\ tasks' = Start(ts, a)
        /\ task_queue' = Backlog(ts) \ Given(a)
        /\ spawned' = spawned \cup {<<a[t], t>> : t \in Given(a)}
  BY DEF ProcessQueueThenSet
<1> DEFINE W == Occupy(info, a)
           V == SetStatus(W, {w}, s)
<1>2. TypeOK /\ Unissued
  BY DEF IInv
<1>3. Passed(ts, W, tasks', task_queue', spawned')
  <2>1. Passed(ts, Occupy(info, a), Start(ts, a), Backlog(ts) \ Given(a),
               spawned \cup {<<a[t], t>> : t \in Given(a)})
    BY <1>2, PassSound
  <2> QED BY <1>1, <2>1
<1>4. info[w] \in WorkerRecord /\ (s = "busy" => W[w].status = "busy")
  <2>1. info \in [Worker -> WorkerRecord]
    BY DEF Sound, Typed
  <2> DEFINE q == [info[w] EXCEPT !.status = "busy"]
  <2>2. q.status = "busy"
    BY <2>1, WorkerAssign
  <2>3. W[w] = q \/ W[w] = info[w]
    BY DEF Occupy
  <2> HIDE DEF q, W
  <2> QED BY <2>1, <2>2, <2>3
<1>5. W \in [Worker -> WorkerRecord]
  BY <1>3 DEF Passed, Sound, Typed
<1> HIDE DEF W
<1>6. /\ V \in [Worker -> WorkerRecord]
      /\ \A v \in Worker : /\ v = w => V[v].status = s
                           /\ v # w => V[v] = W[v]
  BY <1>5, SetWorkers
<1> HIDE DEF V
<1>7. Sound(V, tasks', spawned' \cup sending)
  <2>1. Sound(W, tasks', spawned' \cup sending)
    BY <1>3 DEF Passed
  <2>2. Typed(V, tasks')
    BY <1>6, <2>1 DEF Sound, Typed
  <2>3. Owned(V, tasks')
    BY <1>6, <2>1 DEF Sound, Owned
  <2>4. BusyRuns(V, tasks')
    <3> SUFFICES ASSUME NEW v \in Worker, V[v].status = "busy"
                 PROVE  \E t \in TaskId : tasks'[t].status = "running" /\ tasks'[t].worker_id = v
      BY DEF BusyRuns
    <3>1. W[v].status = "busy"
      BY <1>4, <1>6
    <3> QED BY <2>1, <3>1 DEF Sound, BusyRuns
  <2> QED BY <2>1, <2>2, <2>3, <2>4 DEF Sound
<1>8. Passed(ts, workers', tasks', task_queue', spawned')
  <2>1. workers' = V
    BY <1>1 DEF V, W
  <2> QED BY <1>3, <1>7, <2>1 DEF Passed
<1> QED BY <1>2, <1>8, PassKeepsIInv DEF TypeOK

\* The same handlers move tasks like any other.
LEMMA ThenSetMoves ==
  ASSUME IInv, NEW info \in [Worker -> WorkerRecord], NEW ts, Closing(ts), NEW w \in Worker,
         NEW s \in {"idle", "busy"},
         ProcessQueueThenSet(info, ts, w, s), task_counter' = task_counter
  PROVE  /\ \A t \in TaskId : HubMove(t)
         /\ \A v \in Worker : v # w /\ workers'[v].status # "absent" => info[v].status # "absent"
<1>1. PICK a \in Passes(info, ts, Backlog(ts)) :
        /\ workers' = SetStatus(Occupy(info, a), {w}, s)
        /\ tasks' = Start(ts, a)
        /\ spawned' = spawned \cup {<<a[t], t>> : t \in Given(a)}
  BY DEF ProcessQueueThenSet
<1>2. ASSUME NEW t \in TaskId PROVE HubMove(t)
  BY <1>1, PassMoves
<1>3. ASSUME NEW v \in Worker, v # w, workers'[v].status # "absent" PROVE info[v].status # "absent"
  <2>1. workers'[v] = Occupy(info, a)[v]
    BY <1>1, <1>3 DEF SetStatus
  <2> QED BY <1>3, <2>1, PassKeepsAbsent
<1> QED BY <1>2, <1>3

\* A registration over a socket.
LEMMA RegisterMsgSafe ==
  ASSUME IInv, NEW k \in Conn, NEW roles \in RoleLists, RegisterMsg(k, roles),
         endpoint[k].worker \in Worker
  PROVE  /\ IInv'
         /\ \A t \in TaskId : HubMove(t)
         /\ \A v \in Worker : v # endpoint[k].worker /\ workers'[v].status # "absent" => workers[v].status # "absent"
<1> DEFINE w == endpoint[k].worker
           s == ServingStatus(w)
           info == WithWorker(w, roles)
<1>1. /\ ProcessQueueThenSet(info, tasks, w, s)
      /\ task_counter' = task_counter /\ max_workers' = max_workers
      /\ sending' = sending /\ notices' = notices
  BY DEF RegisterMsg, WithWorker, ServingStatus
<1>2. /\ Sound(info, tasks, spawned \cup sending)
      /\ info \in [Worker -> WorkerRecord]
      /\ \A v \in Worker : /\ v = w => info[v].status = s
                           /\ v # w => info[v] = workers[v]
      /\ \A t \in TaskId : tasks[t].status = "pending" => t \in task_queue
      /\ \A t \in TaskId : t > task_counter => tasks[t].status = "none"
  BY RegisterSound
<1>3. s \in {"idle", "busy"} /\ w \in Worker
  BY DEF ServingStatus
<1>4. Closing(tasks)
  BY DEF Closing, Closes, IInv, TypeOK
<1> HIDE DEF info, s, w
<1>5. IInv'
  BY <1>1, <1>2, <1>3, ThenSetKeepsIInv
<1>6. /\ \A t \in TaskId : HubMove(t)
      /\ \A v \in Worker : v # w /\ workers'[v].status # "absent" => info[v].status # "absent"
  BY <1>1, <1>2, <1>3, <1>4, ThenSetMoves
<1> QED BY <1>2, <1>5, <1>6 DEF w

\* A result over a socket.
LEMMA ResultMsgSafe ==
  ASSUME IInv, NEW k \in Conn, NEW t \in TaskId, NEW s \in Terminal, ResultMsg(k, t, s),
         endpoint[k].worker \in Worker
  PROVE  /\ IInv'
         /\ \A u \in TaskId : HubMove(u)
         /\ \A v \in Worker : workers'[v].status # "absent" => workers[v].status # "absent"
         /\ tasks'[t].status # "running"
<1> DEFINE w == endpoint[k].worker
           info == WithFree(w)
           ts == WithResult(t, s)
<1>1. /\ ProcessQueueThenSet(info, ts, w, "idle")
      /\ task_counter' = task_counter /\ max_workers' = max_workers
      /\ sending' = sending /\ notices' = notices
  BY DEF ResultMsg, WithFree, WithResult
<1>2. w \in Worker /\ workers[w].status # "absent" /\ tasks[t].worker_id = w /\ tasks[t].status # "none"
  BY DEF ResultMsg
<1> HIDE DEF w
<1>3. /\ Sound(info, ts, spawned \cup sending)
      /\ info \in [Worker -> WorkerRecord]
  BY <1>2, ReportSound
<1>4. \A v \in Worker : /\ v = w => info[v].status = "idle"
                        /\ v # w => info[v] = workers[v]
  BY <1>2, ReportSound
<1>5. /\ \A u \in TaskId : ts[u].status = "pending" => u \in task_queue
      /\ \A u \in TaskId : u > task_counter => ts[u].status = "none"
  BY <1>2, ReportSound
<1>6. /\ ts \in [TaskId -> TaskRecord]
      /\ \A u \in TaskId :
           IF u = t /\ tasks[t].status = "running"
             THEN ts[u].status = s /\ ts[u].worker_id = tasks[u].worker_id
             ELSE ts[u] = tasks[u]
  BY <1>2, ReportSound
<1> HIDE DEF info, ts
<1>7. Closing(ts)
  BY <1>6 DEF Closing, Closes
<1>8. IInv'
  BY <1>1, <1>2, <1>3, <1>4, <1>5, ThenSetKeepsIInv
<1>9. /\ \A u \in TaskId : HubMove(u)
      /\ \A v \in Worker : v # w /\ workers'[v].status # "absent" => info[v].status # "absent"
  BY <1>1, <1>2, <1>3, <1>7, ThenSetMoves
<1>10. tasks'[t].status # "running"
  <2>1. ~Unsent(t)
    BY <1>2, HubAssumption DEF Unsent, IInv, Sound, Unowned, Unissued
  <2>2. PICK a \in Passes(info, ts, Backlog(ts)) : tasks' = Start(ts, a)
    BY <1>1 DEF ProcessQueueThenSet
  <2>3. ts[t].status \notin {"running", "pending"}
    BY <1>6, <2>1 DEF Unsent, Terminal
  <2>4. task_queue \subseteq TaskId
    BY DEF IInv, TypeOK
  <2>5. IF t \in Given(a) THEN ts[t].status = "pending" ELSE tasks'[t] = ts[t]
    BY <1>6, <2>2, <2>4, PassStarts
  <2> QED BY <2>3, <2>5
<1>11. \A v \in Worker : workers'[v].status # "absent" => workers[v].status # "absent"
  BY <1>2, <1>4, <1>9
<1> QED BY <1>8, <1>9, <1>10, <1>11

-----------------------------------------------------------------------------
(* What a step may do to a task on its way *)

\* The hub's side: the record, the coroutine, the connection it was sent through and
\* the notices.
HubFollows(t) ==
  /\ Unsent(t)' => Unsent(t)
  /\ \A w \in Worker : <<w, t>> \in spawned' => <<w, t>> \in spawned \/ Unsent(t)
  /\ tasks'[t].status = "running" =>
       IF Unsent(t) THEN <<tasks'[t].worker_id, t>> \in spawned'
       ELSE /\ tasks[t].status = "running" /\ tasks'[t].worker_id = tasks[t].worker_id
            /\ <<tasks[t].worker_id, t>> \in spawned => <<tasks[t].worker_id, t>> \in spawned'
  /\ via'[t] = via[t]
  /\ \A k \in Conn : endpoint[k].status # "new" =>
       endpoint'[k].status # "new" /\ endpoint'[k].worker = endpoint[k].worker
  /\ Noticed(t)' => Noticed(t) \/ Over(t)'

\* Its messages and its execution: none appears but by the worker it was sent to.
Sends(t) ==
  \A k \in Conn :
    /\ Once(toWorker'[k], Node!RunTaskWire(t))
    /\ On(toWorker'[k], Node!RunTaskWire(t))
         => On(toWorker[k], Node!RunTaskWire(t)) /\ \A w \in Worker : execution'[w][t].pc = "none"
    /\ On(toWorker'[k], Node!CancelWire(t)) => On(toWorker[k], Node!CancelWire(t)) \/ Noticed(t)
    /\ \A s \in Terminal : On(toHub'[k], Node!ResultWire(t, s))
         => via[t] # NoConn /\ endpoint[via[t]].worker = endpoint'[k].worker
Executes(t) ==
  \A w \in Worker : execution'[w][t].pc # "none" => via[t] # NoConn /\ endpoint[via[t]].worker = w
\* It is not lost either, while the connection lives.
Carries(t) ==
  LET k == via[t]
      w == tasks[t].worker_id
  IN /\ tasks[t].status = "running" /\ tasks'[t].status = "running"
     /\ k # NoConn /\ wire'[k] = "up" /\ ws'[w] = k
     => \/ On(toWorker'[k], Node!RunTaskWire(t))
        \/ execution'[w][t].pc \in Working
        \/ \E s \in Terminal : On(toHub'[k], Node!ResultWire(t, s))
Follows(t) == HubFollows(t) /\ Sends(t) /\ Executes(t) /\ Carries(t)

LEMMA FollowsKeeps ==
  ASSUME NEW t \in TaskId, Traced(t), via \in [TaskId -> Conn \cup {NoConn}], Follows(t)
  PROVE  Traced(t)'
<1>1. HubFollows(t) /\ Sends(t) /\ Executes(t) /\ Carries(t)
  BY DEF Follows
<1>2. SentOnce(t)'
  BY <1>1 DEF Traced, SentOnce, HubFollows
<1>3. MessageOnce(t)'
  BY <1>1 DEF Traced, MessageOnce, HubFollows, Sends
<1>4. WorkedByOne(t)'
  <2>1. via[t] # NoConn => /\ via[t] \in Conn /\ endpoint[via[t]].status # "new"
                           /\ endpoint'[via[t]].worker = endpoint[via[t]].worker
    BY <1>1 DEF Traced, SentOnce, HubFollows
  <2> QED BY <1>1, <2>1 DEF WorkedByOne, HubFollows, Sends, Executes
<1>5. CancelledLate(t)'
  <2>1. Over(t) => Over(t)'
    BY <1>1 DEF Over, HubFollows
  <2>2. Noticed(t) => Over(t)'
    BY <2>1 DEF Traced, CancelledLate
  <2>3. \A k \in Conn : On(toWorker'[k], Node!CancelWire(t)) => Over(t)'
    BY <1>1, <2>1, <2>2 DEF Traced, CancelledLate, Sends
  <2> QED BY <1>1, <2>2, <2>3 DEF CancelledLate, HubFollows
<1>6. Borne(t)'
  <2>1. Unsent(t) => via[t] = NoConn
    BY DEF Traced, SentOnce
  <2>2. tasks'[t].status = "running" /\ via[t] # NoConn
          => tasks[t].status = "running" /\ tasks'[t].worker_id = tasks[t].worker_id
    BY <1>1, <2>1 DEF HubFollows
  <2> QED BY <1>1, <2>2 DEF Borne, Carries, HubFollows
<1> QED BY <1>2, <1>3, <1>4, <1>5, <1>6 DEF Traced
-----------------------------------------------------------------------------
(* Steps of the hub *)

EndpointsMove ==
  \A k \in Conn : endpoint[k].status # "new" =>
    endpoint'[k].status # "new" /\ endpoint'[k].worker = endpoint[k].worker

\* The hub reads at most one message, and what it reads settles a task it names.
HubReads ==
  \/ toHub' = toHub
  \/ \E k \in Conn :
       /\ toHub[k] # <<>>
       /\ toHub' = [toHub EXCEPT ![k] = Tail(toHub[k])]
       /\ \A t \in TaskId, s \in Terminal :
            Head(toHub[k]) = Node!ResultWire(t, s) => tasks'[t].status # "running"

LEMMA HubReading ==
  ASSUME WiresTyped, HubReads
  PROVE  /\ toHub' \in [Conn -> Seq(HubMessage)]
         /\ \A t \in TaskId, s \in Terminal, k \in Conn :
              /\ On(toHub'[k], Node!ResultWire(t, s)) => On(toHub[k], Node!ResultWire(t, s))
              /\ tasks'[t].status = "running" /\ On(toHub[k], Node!ResultWire(t, s))
                   => On(toHub'[k], Node!ResultWire(t, s))
<1>1. CASE toHub' = toHub
  BY <1>1 DEF WiresTyped
<1>2. ASSUME NEW c \in Conn,
             toHub[c] # <<>>,
             toHub' = [toHub EXCEPT ![c] = Tail(toHub[c])],
             \A t \in TaskId, s \in Terminal :
               Head(toHub[c]) = Node!ResultWire(t, s) => tasks'[t].status # "running"
      PROVE  /\ toHub' \in [Conn -> Seq(HubMessage)]
             /\ \A t \in TaskId, s \in Terminal, k \in Conn :
                  /\ On(toHub'[k], Node!ResultWire(t, s)) => On(toHub[k], Node!ResultWire(t, s))
                  /\ tasks'[t].status = "running" /\ On(toHub[k], Node!ResultWire(t, s))
                       => On(toHub'[k], Node!ResultWire(t, s))
  <2> DEFINE q == toHub[c]
             r == Tail(q)
  <2>1. q \in Seq(HubMessage) /\ q # <<>> /\ toHub' = [toHub EXCEPT ![c] = r] /\ DOMAIN toHub = Conn
    BY <1>2 DEF WiresTyped
  <2>2. r \in Seq(HubMessage)
    BY <2>1, Reads
  <2>3. ASSUME NEW t \in TaskId, NEW s \in Terminal
        PROVE  /\ On(r, Node!ResultWire(t, s)) => On(q, Node!ResultWire(t, s))
               /\ tasks'[t].status = "running" /\ On(q, Node!ResultWire(t, s)) => On(r, Node!ResultWire(t, s))
    <3> DEFINE m == Node!ResultWire(t, s)
    <3> HIDE DEF m, r, q
    <3>1. On(q, m) <=> On(Tail(q), m) \/ Head(q) = m
      BY <2>1, Reads
    <3>2. Head(q) = m => tasks'[t].status # "running"
      BY <1>2 DEF m, q
    <3> QED BY <3>1, <3>2 DEF m, r
  <2> HIDE DEF q, r
  <2>4. toHub' \in [Conn -> Seq(HubMessage)]
    BY <2>1, <2>2 DEF WiresTyped
  <2>5. \A k \in Conn : toHub'[k] = IF k = c THEN r ELSE toHub[k]
    BY <2>1
  <2> QED BY <2>3, <2>4, <2>5 DEF q
<1> QED BY <1>1, <1>2 DEF HubReads

LEMMA HubStepTraces ==
  ASSUME ClusterInv, NEW t \in TaskId, HubMove(t), HubReads, EndpointsMove,
         UNCHANGED <<wire, ws, execution, toWorker, via>>,
         Noticed(t)' => Noticed(t) \/ Over(t)'
  PROVE  Traced(t)'
<1>1. Traced(t) /\ via \in [TaskId -> Conn \cup {NoConn}] /\ SocketInv /\ WiresTyped
  BY DEF ClusterInv
<1>2. HubFollows(t)
  <2>1. tasks[t].status = "running" => tasks[t].worker_id \in Worker
    BY DEF ClusterInv, IInv, Sound, Owned
  <2> QED BY <1>1, <2>1 DEF HubFollows, HubMove, EndpointsMove
<1>3. \A s \in Terminal, k \in Conn :
        /\ On(toHub'[k], Node!ResultWire(t, s)) => On(toHub[k], Node!ResultWire(t, s))
        /\ tasks'[t].status = "running" /\ On(toHub[k], Node!ResultWire(t, s))
             => On(toHub'[k], Node!ResultWire(t, s))
  BY <1>1, HubReading
<1>4. ASSUME NEW k \in Conn, NEW s \in Terminal, On(toHub[k], Node!ResultWire(t, s))
      PROVE  via[t] # NoConn /\ endpoint[via[t]].worker = endpoint'[k].worker
  <2>1. via[t] # NoConn /\ via[t] \in Conn /\ endpoint[via[t]].worker = endpoint[k].worker
    BY <1>1, <1>4 DEF Traced, WorkedByOne
  <2>2. endpoint[via[t]].worker \in Worker
    BY <1>1, <2>1 DEF Traced, SentOnce, SocketInv
  <2>3. endpoint[k].status # "new"
    BY <1>1, <2>1, <2>2, HubAssumption DEF SocketInv
  <2> QED BY <2>1, <2>3 DEF EndpointsMove
<1>5. Sends(t)
  BY <1>1, <1>3, <1>4 DEF Sends, Traced, MessageOnce, WorkedByOne
<1>6. Executes(t)
  BY <1>1 DEF Executes, Traced, WorkedByOne
<1>7. Carries(t)
  <2> SUFFICES ASSUME tasks[t].status = "running", tasks'[t].status = "running",
                      via[t] # NoConn, wire[via[t]] = "up", ws[tasks[t].worker_id] = via[t]
               PROVE  \/ On(toWorker[via[t]], Node!RunTaskWire(t))
                      \/ execution[tasks[t].worker_id][t].pc \in Working
                      \/ \E s \in Terminal : On(toHub'[via[t]], Node!ResultWire(t, s))
    BY DEF Carries
  <2>1. \/ On(toWorker[via[t]], Node!RunTaskWire(t))
        \/ execution[tasks[t].worker_id][t].pc \in Working
        \/ \E s \in Terminal : On(toHub[via[t]], Node!ResultWire(t, s))
    BY <1>1 DEF Traced, Borne
  <2> QED BY <1>1, <1>3, <2>1
<1> QED BY <1>1, <1>2, <1>5, <1>6, <1>7, FollowsKeeps DEF Follows

\* The hub's steps that leave the nodes alone.
LEMMA HubStepKeeps ==
  ASSUME ClusterInv, IInv', \A t \in TaskId : HubMove(t), HubReads, EndpointsMove,
         UNCHANGED <<wire, ws, active_tasks, running_tasks, execution, toWorker, via>>,
         \A t \in TaskId : Noticed(t)' => Noticed(t) \/ Over(t)',
         notify' \in [TaskId -> Conn \cup {NoConn}],
         EndpointsTyped', SocketInv'
  PROVE  ClusterInv'
<1>1. \A t \in TaskId : Traced(t)'
  BY HubStepTraces
<1>2. NodeInv' /\ WiresTyped' /\ via' \in [TaskId -> Conn \cup {NoConn}]
  <2>1. WiresTyped /\ NodeInv /\ via \in [TaskId -> Conn \cup {NoConn}]
    BY DEF ClusterInv
  <2>2. WiresTyped'
    BY <2>1, HubReading DEF WiresTyped
  <2>3. NodeInv'
    BY <2>1 DEF NodeInv, Node!NodeTypeOK, Outcomes, NeverStuckBusy, CancelReachesAll,
                Node!NeverStuckBusy, Node!CancelReachesAll
  <2> QED BY <2>1, <2>2, <2>3
<1> QED BY <1>1, <1>2 DEF ClusterInv

\* A step that touches no record and no coroutine to come.
LEMMA QuietMoves ==
  ASSUME IInv, UNCHANGED <<tasks, task_counter, spawned>>
  PROVE  \A t \in TaskId : HubMove(t)
<1> SUFFICES ASSUME NEW t \in TaskId PROVE HubMove(t)
  OBVIOUS
<1>1. tasks[t].status = "running" => ~Unsent(t)
  BY DEF Unsent, IInv, Unissued
<1> QED BY <1>1 DEF HubMove, Unsent

\* An endpoint that is open has a worker.
LEMMA EndpointWorker ==
  ASSUME ClusterInv, NEW k \in Conn, endpoint[k].status # "new"
  PROVE  endpoint[k].worker \in Worker
BY DEF ClusterInv, SocketInv

\* How the hub's sockets may change.
LEMMA SocketsMove ==
  ASSUME ClusterInv, UNCHANGED <<wire, ws>>,
         \A c \in Conn : /\ endpoint'[c].worker = endpoint[c].worker
                         /\ endpoint'[c].status = "new" <=> endpoint[c].status = "new",
         \A v \in Worker :
           \/ socket'[v] = socket[v] /\ (workers'[v].status # "absent" => workers[v].status # "absent")
           \/ socket'[v] = NoConn /\ workers'[v].status = "absent"
           \/ socket'[v] \in Conn /\ endpoint[socket'[v]].status # "new" /\ endpoint[socket'[v]].worker = v
  PROVE  SocketInv' /\ EndpointsMove
<1>1. SocketInv /\ EndpointsTyped /\ ws \in [Worker -> Conn \cup {NoConn}]
  BY DEF ClusterInv, NodeInv, Node!NodeTypeOK
<1>2. \A c \in Conn :
        /\ endpoint'[c].status = "new" <=> wire'[c] = "free"
        /\ IF endpoint'[c].status = "new" THEN endpoint'[c].worker = NoWorker ELSE endpoint'[c].worker \in Worker
  BY <1>1 DEF SocketInv
<1>3. ASSUME NEW v \in Worker
      PROVE  ws'[v] # NoConn => endpoint'[ws'[v]].status # "new" /\ endpoint'[ws'[v]].worker = v
  BY <1>1 DEF SocketInv
<1>4. ASSUME NEW v \in Worker
      PROVE  /\ socket'[v] # NoConn => endpoint'[socket'[v]].status # "new" /\ endpoint'[socket'[v]].worker = v
             /\ workers'[v].status # "absent" => socket'[v] # NoConn
  <2>1. CASE socket'[v] = socket[v] /\ (workers'[v].status # "absent" => workers[v].status # "absent")
    BY <1>1, <2>1 DEF SocketInv, EndpointsTyped
  <2>2. CASE socket'[v] \in Conn /\ endpoint[socket'[v]].status # "new" /\ endpoint[socket'[v]].worker = v
    BY <2>2, HubServerAssumption
  <2> QED BY <2>1, <2>2
<1>5. EndpointsMove
  BY DEF EndpointsMove
<1> QED BY <1>2, <1>3, <1>4, <1>5 DEF SocketInv

\* A registration, refused or not.
LEMMA RegisterKeeps ==
  ASSUME ClusterInv, NEW k \in Conn, HubRegister(k)
  PROVE  ClusterInv'
<1>1. /\ IInv /\ SocketInv /\ EndpointsTyped
      /\ endpoint[k].status \in {"open", "registered"}
      /\ toHub[k] # <<>> /\ Head(toHub[k]).type = "register"
      /\ toHub' = [toHub EXCEPT ![k] = Tail(toHub[k])]
      /\ (\E roles \in RoleLists : RegisterMsg(k, roles)) \/ RegisterRefused(k)
      /\ UNCHANGED <<wire, ws, active_tasks, running_tasks, execution, toWorker, via, notify>>
  BY DEF ClusterInv, HubRegister, Incoming, linkVars, NodesUnchanged
<1> DEFINE w == endpoint[k].worker
<1>2. w \in Worker
  BY <1>1, EndpointWorker
<1>3. HubReads
  <2>1. \A t \in TaskId, s \in Terminal : Head(toHub[k]) # Node!ResultWire(t, s)
    BY <1>1 DEF Node!ResultWire
  <2> QED BY <1>1, <2>1 DEF HubReads
<1> DEFINE e == [endpoint[k] EXCEPT !.status = "registered"]
<1>4. e \in EndpointRecord /\ e.status = "registered" /\ e.worker = w
  BY <1>1 DEF EndpointsTyped, EndpointRecord
<1>5. endpoint' = [endpoint EXCEPT ![k] = e]
  BY <1>1 DEF RegisterMsg, RegisterRefused
<1> HIDE DEF e
<1>6. /\ endpoint' \in [Conn -> EndpointRecord]
      /\ EndpointsMove
      /\ \A c \in Conn : /\ endpoint'[c].worker = endpoint[c].worker
                         /\ endpoint'[c].status = "new" <=> endpoint[c].status = "new"
  BY <1>1, <1>4, <1>5 DEF EndpointsTyped, EndpointsMove
<1>7. notify' \in [TaskId -> Conn \cup {NoConn}]
  BY <1>1 DEF ClusterInv
<1>8. CASE RegisterRefused(k)
  <2>1. UNCHANGED hubVars /\ socket' = socket
    BY <1>8 DEF RegisterRefused
  <2>2. IInv' /\ (\A t \in TaskId : HubMove(t)) /\ \A t \in TaskId : Noticed(t)' => Noticed(t)
    <3>1. IInv'
      BY <1>1, <2>1, NextKeepsIInv
    <3> QED BY <1>1, <2>1, <3>1, QuietMoves DEF hubVars, Noticed
  <2>3. EndpointsTyped' /\ SocketInv'
    <3>1. EndpointsTyped'
      BY <1>1, <1>6, <2>1 DEF EndpointsTyped
    <3>2. workers' = workers
      BY <2>1 DEF hubVars
    <3> QED BY <1>1, <1>6, <2>1, <3>1, <3>2, SocketsMove
  <2> QED BY <1>1, <1>3, <1>6, <1>7, <2>2, <2>3, HubStepKeeps
<1>9. ASSUME NEW roles \in RoleLists, RegisterMsg(k, roles)
      PROVE  ClusterInv'
  <2>1. socket' = [socket EXCEPT ![w] = k] /\ notices' = notices
    BY <1>9 DEF RegisterMsg
  <2>2. /\ IInv'
        /\ \A t \in TaskId : HubMove(t)
        /\ \A v \in Worker : v # w /\ workers'[v].status # "absent" => workers[v].status # "absent"
    BY <1>1, <1>2, <1>9, RegisterMsgSafe
  <2>3. EndpointsTyped'
    BY <1>1, <1>2, <1>6, <2>1 DEF EndpointsTyped
  <2>4. SocketInv'
    <3>1. \A v \in Worker : socket'[v] = IF v = w THEN k ELSE socket[v]
      BY <1>1, <1>2, <2>1 DEF EndpointsTyped
    <3> QED BY <1>1, <1>2, <1>6, <2>2, <3>1, SocketsMove
  <2>5. \A t \in TaskId : Noticed(t)' => Noticed(t)
    BY <2>1 DEF Noticed
  <2> QED BY <1>1, <1>3, <1>6, <1>7, <2>2, <2>3, <2>4, <2>5, HubStepKeeps
<1> QED BY <1>1, <1>8, <1>9

\* A step that leaves the sockets and what the hub knows of them.
LEMMA SocketsStay ==
  ASSUME ClusterInv, UNCHANGED <<socket, endpoint, wire, ws>>,
         \A v \in Worker : workers'[v].status # "absent" => workers[v].status # "absent"
  PROVE  EndpointsTyped' /\ SocketInv' /\ EndpointsMove
BY DEF ClusterInv, EndpointsTyped, SocketInv, EndpointsMove

\* A result, taken or refused.
LEMMA ResultKeeps ==
  ASSUME ClusterInv, NEW k \in Conn, HubResult(k)
  PROVE  ClusterInv'
<1> DEFINE m == Head(toHub[k])
           w == endpoint[k].worker
<1>1. /\ IInv /\ SocketInv /\ EndpointsTyped /\ WiresTyped
      /\ endpoint[k].status \in {"open", "registered"}
      /\ toHub[k] # <<>> /\ m.type = "result"
      /\ toHub' = [toHub EXCEPT ![k] = Tail(toHub[k])]
      /\ ResultMsg(k, m.task, m.status) \/ (Refused(w, m.task) /\ UNCHANGED vars)
      /\ UNCHANGED <<wire, ws, active_tasks, running_tasks, execution, toWorker, via, notify>>
  BY DEF ClusterInv, HubResult, Incoming, linkVars, NodesUnchanged
<1>2. w \in Worker
  BY <1>1, EndpointWorker
<1>3. /\ m \in HubMessage /\ On(toHub[k], m)
      /\ m.task \in TaskId /\ m.status \in Terminal /\ m = Node!ResultWire(m.task, m.status)
  <2>1. m \in HubMessage /\ On(toHub[k], m)
    BY <1>1, Reads DEF WiresTyped
  <2>2. m.task \in TaskId /\ m.status \in Terminal /\ m = Node!ResultWire(m.task, m.status)
    <3> HIDE DEF m
    <3> QED BY <1>1, <2>1 DEF HubMessage, Node!ResultWire
  <2> QED BY <2>1, <2>2
<1>4. \A t \in TaskId, s \in Terminal : m = Node!ResultWire(t, s) => m.task = t
  BY DEF Node!ResultWire
<1> HIDE DEF m
<1>5. notify' \in [TaskId -> Conn \cup {NoConn}]
  BY <1>1 DEF ClusterInv
<1>6. CASE ResultMsg(k, m.task, m.status)
  <2>1. UNCHANGED <<socket, endpoint, notices>>
    BY <1>6 DEF ResultMsg
  <2>2. /\ IInv'
        /\ \A t \in TaskId : HubMove(t)
        /\ \A v \in Worker : workers'[v].status # "absent" => workers[v].status # "absent"
        /\ tasks'[m.task].status # "running"
    BY <1>1, <1>2, <1>3, <1>6, ResultMsgSafe
  <2>3. EndpointsTyped' /\ SocketInv' /\ EndpointsMove
    BY <1>1, <2>1, <2>2, SocketsStay
  <2>4. HubReads
    BY <1>1, <1>4, <2>2 DEF HubReads, m
  <2>5. \A t \in TaskId : Noticed(t)' => Noticed(t)
    BY <2>1 DEF Noticed
  <2> QED BY <1>1, <1>5, <2>2, <2>3, <2>4, <2>5, HubStepKeeps
<1>7. CASE Refused(w, m.task) /\ UNCHANGED vars
  <2>1. UNCHANGED hubVars /\ UNCHANGED <<socket, endpoint, notices, tasks, workers>>
    BY <1>7 DEF vars, serverVars, hubVars
  <2>2. IInv' /\ \A t \in TaskId : HubMove(t)
    <3>1. IInv'
      BY <1>1, <2>1, NextKeepsIInv
    <3> QED BY <1>1, <2>1, <3>1, QuietMoves DEF hubVars
  <2>3. tasks[m.task].status # "running"
    <3> SUFFICES ASSUME tasks[m.task].status = "running" PROVE FALSE
      OBVIOUS
    <3>1. Traced(m.task) /\ via \in [TaskId -> Conn \cup {NoConn}]
      BY <1>3 DEF ClusterInv
    <3>2. via[m.task] # NoConn /\ endpoint[via[m.task]].worker = w
      BY <1>3, <3>1 DEF Traced, WorkedByOne
    <3>3. tasks[m.task].worker_id = w
      BY <3>1, <3>2 DEF Traced, SentOnce
    <3>4. workers[w].status # "absent"
      BY <1>1, <1>3, <3>3 DEF IInv, Sound, Owned
    <3> QED BY <1>7, <3>3, <3>4 DEF Refused
  <2>4. EndpointsTyped' /\ SocketInv' /\ EndpointsMove
    BY <1>1, <2>1, SocketsStay
  <2>5. HubReads
    BY <1>1, <1>4, <2>1, <2>3 DEF HubReads, m
  <2>6. \A t \in TaskId : Noticed(t)' => Noticed(t)
    BY <2>1 DEF Noticed
  <2> QED BY <1>1, <1>5, <2>2, <2>4, <2>5, <2>6, HubStepKeeps
<1> QED BY <1>1, <1>6, <1>7

\* The end of an endpoint, of the worker's socket or of an older one.
LEMMA EndpointEndsKeeps ==
  ASSUME ClusterInv, NEW k \in Conn, EndpointEnds(k)
  PROVE  ClusterInv'
<1> DEFINE w == endpoint[k].worker
<1>1. /\ IInv /\ EndpointsTyped
      /\ Close(k) /\ endpoint[k].status \in {"open", "registered"}
      /\ UNCHANGED <<wire, toHub, ws, active_tasks, running_tasks, execution, toWorker, via, notify>>
  BY DEF ClusterInv, EndpointEnds, Close, nodeVars, linkVars
<1>2. w \in Worker
  BY <1>1, EndpointWorker
<1> DEFINE e == [endpoint[k] EXCEPT !.status = "closed"]
<1>3. e \in EndpointRecord /\ e.status = "closed" /\ e.worker = w
  BY <1>1 DEF EndpointsTyped, EndpointRecord
<1>4. endpoint' = [endpoint EXCEPT ![k] = e]
  BY <1>1 DEF Close
<1> HIDE DEF e
<1>5. /\ endpoint' \in [Conn -> EndpointRecord]
      /\ \A c \in Conn : /\ endpoint'[c].worker = endpoint[c].worker
                         /\ endpoint'[c].status = "new" <=> endpoint[c].status = "new"
  BY <1>1, <1>3, <1>4 DEF EndpointsTyped
<1>6. notify' \in [TaskId -> Conn \cup {NoConn}] /\ HubReads
  BY <1>1 DEF ClusterInv, HubReads
<1>7. CASE Deregister(w) /\ socket' = [socket EXCEPT ![w] = NoConn]
  <2>1. Leaving({w})
    BY <1>1, <1>2, <1>7, DeregisterShape
  <2>2. /\ \A t \in TaskId : HubMove(t)
        /\ \A v \in Worker : workers'[v].status # "absent" => workers[v].status # "absent" /\ v \notin {w}
    BY <1>1, <2>1, LeavingMoves
  <2>3. IInv'
    BY <1>1, <1>2, <1>7, DeregisterKeepsIInv
  <2>4. \A t \in TaskId : Noticed(t)' => Noticed(t)
    BY <1>7 DEF Noticed, Deregister
  <2>5. EndpointsTyped'
    BY <1>1, <1>2, <1>5, <1>7 DEF EndpointsTyped
  <2>6. \A v \in Worker : socket'[v] = IF v = w THEN NoConn ELSE socket[v]
    BY <1>1, <1>7 DEF EndpointsTyped
  <2>7. SocketInv' /\ EndpointsMove
    BY <1>1, <1>5, <2>2, <2>6, SocketsMove
  <2> QED BY <1>1, <1>6, <2>2, <2>3, <2>4, <2>5, <2>7, HubStepKeeps
<1>8. CASE UNCHANGED <<hubVars, socket, pending, future, cause>>
  <2>1. UNCHANGED <<workers, tasks, task_counter, spawned, notices, socket>> /\ UNCHANGED hubVars
    BY <1>8 DEF hubVars
  <2>2. IInv' /\ \A t \in TaskId : HubMove(t)
    <3>1. IInv'
      BY <1>1, <2>1, NextKeepsIInv
    <3> QED BY <1>1, <2>1, <3>1, QuietMoves
  <2>3. \A t \in TaskId : Noticed(t)' => Noticed(t)
    BY <2>1 DEF Noticed
  <2>4. EndpointsTyped'
    BY <1>1, <1>5, <2>1 DEF EndpointsTyped
  <2>5. SocketInv' /\ EndpointsMove
    BY <1>1, <1>5, <2>1, SocketsMove
  <2> QED BY <1>1, <1>6, <2>2, <2>3, <2>4, <2>5, HubStepKeeps
<1> QED BY <1>1, <1>7, <1>8 DEF Close

\* A sweep fails the tasks it has notices for.
LEMMA SweepNotices ==
  ASSUME IInv, NEW s \in Sweeper, NEW expired \in SUBSET TaskId, Sweep(s, expired), NEW t \in TaskId
  PROVE  /\ t \in expired => tasks[t].status = "running" /\ Over(t)'
         /\ Noticed(t)' => Noticed(t) \/ t \in expired
<1> DEFINE dead == {w \in Registered(workers) : workers[w].age # "fresh"}
           orphans == UNION {RunningOn(tasks, w) : w \in dead}
           freed == {tasks[u].worker_id : u \in expired} \cap (Registered(workers) \ dead)
           S == orphans \cup expired
           info == SetStatus(Remove(workers, dead), freed, "idle")
           ts == Fail(tasks, S)
<1>1. /\ ProcessQueue(info, ts) /\ task_counter' = task_counter
      /\ \A u \in expired : tasks[u].status = "running"
      /\ notices' = notices \cup
           {<<s, tasks[v].worker_id, v>> : v \in {u \in expired : tasks[u].worker_id \in freed}}
  BY DEF Sweep
<1>2. TypeOK /\ task_queue \subseteq TaskId /\ Unissued
  BY DEF IInv, TypeOK
<1>3. S \in SUBSET TaskId /\ expired \subseteq S
  <2>1. orphans \in SUBSET TaskId
    BY DEF RunningOn
  <2> HIDE DEF orphans
  <2> QED BY <2>1
<1>4. Noticed(t)' => Noticed(t) \/ t \in expired
  <2> HIDE DEF freed
  <2> QED BY <1>1 DEF Noticed
<1> HIDE DEF S, info
<1>5. ts \in [TaskId -> TaskRecord] /\ \A u \in S : ts[u].status = "failed"
  BY <1>2, <1>3, FailTasks
<1> HIDE DEF ts
<1>6. PICK a \in Passes(info, ts, Backlog(ts)) : tasks' = Start(ts, a)
  BY <1>1 DEF ProcessQueue
<1>7. IF t \in Given(a) THEN ts[t].status = "pending" ELSE tasks'[t] = ts[t]
  BY <1>2, <1>5, <1>6, PassStarts
<1>8. t \in expired => tasks'[t].status = "failed" /\ ~(t > task_counter)
  BY <1>1, <1>2, <1>3, <1>5, <1>7 DEF Unissued
<1> QED BY <1>1, <1>4, <1>8 DEF Over, Unsent

LEMMA ClusterSweepKeeps ==
  ASSUME ClusterInv, NEW s \in Sweeper, NEW expired \in SUBSET TaskId, ClusterSweep(s, expired)
  PROVE  ClusterInv'
<1> DEFINE gone == {w \in Worker : workers[w].age # "fresh"}
<1>1. /\ IInv /\ EndpointsTyped
      /\ Sweep(s, expired)
      /\ socket' = [w \in Worker |-> IF workers[w].age # "fresh" THEN NoConn ELSE socket[w]]
      /\ notify' = [t \in TaskId |-> IF t \in expired THEN socket[tasks[t].worker_id] ELSE notify[t]]
      /\ UNCHANGED <<endpoint, wire, toHub, ws, active_tasks, running_tasks, execution, toWorker, via>>
  BY DEF ClusterInv, ClusterSweep, SweepSockets, nodeVars
<1>2. /\ \A t \in TaskId : HubMove(t)
      /\ \A v \in Worker : workers'[v].status # "absent" => workers[v].status # "absent" /\ v \notin gone
  <2>1. Leaving(gone)
    BY <1>1, SweepShape
  <2> HIDE DEF gone
  <2> QED BY <1>1, <2>1, LeavingMoves
<1>3. IInv'
  BY <1>1, NextKeepsIInv DEF Next, SweeperStep
<1>4. \A t \in TaskId : Noticed(t)' => Noticed(t) \/ Over(t)'
  BY <1>1, SweepNotices
<1>5. notify' \in [TaskId -> Conn \cup {NoConn}]
  <2>1. \A t \in expired : tasks[t].worker_id \in Worker
    BY <1>1, SweepNotices DEF IInv, Sound, Owned
  <2> QED BY <1>1, <2>1 DEF ClusterInv, EndpointsTyped
<1>6. EndpointsTyped'
  BY <1>1 DEF EndpointsTyped
<1>7. SocketInv' /\ EndpointsMove
  BY <1>1, <1>2, SocketsMove
<1>8. HubReads
  BY <1>1 DEF HubReads
<1> QED BY <1>1, <1>2, <1>3, <1>4, <1>5, <1>6, <1>7, <1>8, HubStepKeeps

\* The steps of the hub that leave the sockets as well.
LEMMA OwnHubStepKeeps ==
  ASSUME ClusterInv, IInv', \A t \in TaskId : HubMove(t),
         \A v \in Worker : workers'[v].status # "absent" => workers[v].status # "absent",
         UNCHANGED <<notices, socket, endpoint, nodeVars, linkVars>>
  PROVE  ClusterInv'
<1>1. UNCHANGED <<socket, endpoint, wire, toHub, ws, active_tasks, running_tasks, execution, toWorker, via, notify>>
  BY DEF nodeVars, linkVars
<1>2. EndpointsTyped' /\ SocketInv' /\ EndpointsMove
  BY <1>1, SocketsStay
<1>3. HubReads /\ notify' \in [TaskId -> Conn \cup {NoConn}]
  BY <1>1 DEF HubReads, ClusterInv
<1>4. \A t \in TaskId : Noticed(t)' => Noticed(t)
  BY DEF Noticed
<1> QED BY <1>1, <1>2, <1>3, <1>4, HubStepKeeps

LEMMA ClientsKeep ==
  ASSUME ClusterInv, Clients
  PROVE  ClusterInv'
<1>1. IInv /\ UNCHANGED <<socket, endpoint, nodeVars, linkVars>>
  BY DEF ClusterInv, Clients, serverVars
<1>2. PICK name \in RoleName : (\E w \in Worker : DispatchNow(name, w)) \/ DispatchLater(name) \/ DispatchFull(name)
  BY DEF Clients
<1>3. IInv'
  BY <1>1, <1>2, NextKeepsIInv DEF Next, ClientStep
<1>4. notices' = notices
  BY <1>2 DEF DispatchNow, DispatchLater, DispatchFull
<1>5. /\ \A t \in TaskId : HubMove(t)
      /\ \A v \in Worker : workers'[v].status # "absent" => workers[v].status # "absent"
  BY <1>1, <1>2, DispatchMoves
<1> QED BY <1>1, <1>3, <1>4, <1>5, OwnHubStepKeeps

\* A beat and its absence.
LEMMA RedatingKeeps ==
  ASSUME ClusterInv, NEW w \in Worker, Heartbeat(w) \/ Grow(w), UNCHANGED <<socket, endpoint, nodeVars, linkVars>>
  PROVE  ClusterInv'
<1>1. IInv /\ workers \in [Worker -> WorkerRecord]
  BY DEF ClusterInv, IInv, TypeOK
<1>2. UNCHANGED <<tasks, task_counter, spawned, notices>> /\ workers[w].status # "absent"
  BY DEF Heartbeat, Grow
<1>3. \A v \in Worker : workers'[v].status # "absent" => workers[v].status # "absent"
  <2>1. \A v \in Worker : v # w => workers'[v] = workers[v]
    BY <1>1 DEF Heartbeat, Grow
  <2> QED BY <1>2, <2>1
<1>4. IInv'
  BY <1>1, NextKeepsIInv DEF Next, WorkerStep, SweeperStep
<1>5. \A t \in TaskId : HubMove(t)
  BY <1>1, <1>2, QuietMoves
<1> QED BY <1>2, <1>3, <1>4, <1>5, OwnHubStepKeeps

\* A send that returns, or raises.
LEMMA SendEndsKeeps ==
  ASSUME ClusterInv, NEW w \in Worker, NEW t \in TaskId, DispatchSent(w, t) \/ DispatchError(w, t),
         UNCHANGED <<socket, endpoint, nodeVars, linkVars>>
  PROVE  ClusterInv'
<1>1. IInv
  BY DEF ClusterInv
<1>2. IInv'
  BY <1>1, NextKeepsIInv DEF Next, CoroutineStep
<1>3. notices' = notices
  BY DEF DispatchSent, DispatchError
<1>4. CASE DispatchSent(w, t)
  <2>1. UNCHANGED <<workers, tasks, task_counter, spawned>>
    BY <1>4 DEF DispatchSent
  <2>2. \A u \in TaskId : HubMove(u)
    BY <1>1, <2>1, QuietMoves
  <2> QED BY <1>2, <1>3, <2>1, <2>2, OwnHubStepKeeps
<1>5. CASE DispatchError(w, t)
  <2>1. Leaving({})
    BY <1>1, <1>5, ErrorShape
  <2>2. /\ \A u \in TaskId : HubMove(u)
        /\ \A v \in Worker : workers'[v].status # "absent" => workers[v].status # "absent"
    BY <1>1, <2>1, LeavingMoves
  <2> QED BY <1>2, <1>3, <2>2, OwnHubStepKeeps
<1> QED BY <1>4, <1>5

-----------------------------------------------------------------------------
(* Messages of the hub *)

\* The hub has done nothing to the records: what is left to look at is the channels.
LEMMA QuietKeeps ==
  ASSUME ClusterInv, UNCHANGED <<tasks, task_counter, spawned, via>>, EndpointsMove,
         \A t \in TaskId : Noticed(t)' => Noticed(t),
         \A t \in TaskId : Sends(t) /\ Executes(t) /\ Carries(t),
         IInv', NodeInv', EndpointsTyped', WiresTyped', SocketInv',
         notify' \in [TaskId -> Conn \cup {NoConn}]
  PROVE  ClusterInv'
<1>1. IInv /\ via \in [TaskId -> Conn \cup {NoConn}] /\ \A t \in TaskId : Traced(t)
  BY DEF ClusterInv
<1>2. ASSUME NEW t \in TaskId PROVE Traced(t)'
  <2>1. HubMove(t)
    BY <1>1, QuietMoves
  <2>2. HubFollows(t)
    BY <2>1 DEF HubFollows, HubMove, EndpointsMove
  <2> QED BY <1>1, <2>2, FollowsKeeps DEF Follows
<1> QED BY <1>1, <1>2 DEF ClusterInv

\* A message to a worker other than the task itself.
LEMMA MessageSends ==
  ASSUME ClusterInv, NEW k \in Conn \cup {NoConn}, NEW x \in WorkerMessage,
         toWorker' = Node!Put(toWorker, k, x),
         UNCHANGED <<toHub, wire, ws, execution, endpoint>>
  PROVE  /\ WiresTyped'
         /\ \A t \in TaskId : /\ x # Node!RunTaskWire(t)
                              /\ x = Node!CancelWire(t) => Noticed(t)
                              => Sends(t) /\ Executes(t) /\ Carries(t)
<1>1. /\ toWorker \in [Conn -> Seq(WorkerMessage)] /\ toHub \in [Conn -> Seq(HubMessage)]
      /\ via \in [TaskId -> Conn \cup {NoConn}]
  BY DEF ClusterInv, WiresTyped
<1>2. WiresTyped'
  <2>1. Node!Put(toWorker, k, x) \in [Conn -> Seq(WorkerMessage)]
    BY <1>1, PutDelivers
  <2> QED BY <1>1, <2>1 DEF WiresTyped
<1>3. ASSUME NEW t \in TaskId, x # Node!RunTaskWire(t), x = Node!CancelWire(t) => Noticed(t)
      PROVE  Sends(t) /\ Executes(t) /\ Carries(t)
  <2>0. Traced(t)
    BY DEF ClusterInv
  <2>a. ASSUME NEW c \in Conn, NEW m
        PROVE  /\ On(toWorker[c], m) => On(toWorker'[c], m)
               /\ On(toWorker'[c], m) => On(toWorker[c], m) \/ x = m
               /\ Once(toWorker[c], m) /\ x # m => Once(toWorker'[c], m)
    <3>1. Delivered(toWorker, toWorker', k, x)
      BY <1>1, PutDelivers
    <3> QED BY <3>1 DEF Delivered
  <2>1. \A c \in Conn :
          /\ On(toWorker[c], Node!RunTaskWire(t)) => On(toWorker'[c], Node!RunTaskWire(t))
          /\ On(toWorker'[c], Node!RunTaskWire(t)) => On(toWorker[c], Node!RunTaskWire(t))
          /\ Once(toWorker[c], Node!RunTaskWire(t)) => Once(toWorker'[c], Node!RunTaskWire(t))
    BY <1>3, <2>a
  <2>2. \A c \in Conn :
          On(toWorker'[c], Node!CancelWire(t)) => On(toWorker[c], Node!CancelWire(t)) \/ Noticed(t)
    BY <1>3, <2>a
  <2>3. Sends(t)
    BY <1>1, <2>0, <2>1, <2>2 DEF Sends, Traced, MessageOnce, WorkedByOne
  <2>4. Executes(t)
    BY <2>0 DEF Executes, Traced, WorkedByOne
  <2>5. Carries(t)
    BY <1>1, <2>0, <2>1 DEF Carries, Traced, Borne
  <2> QED BY <2>3, <2>4, <2>5
<1> QED BY <1>2, <1>3

\* What the node keeps when the hub writes to it.
LEMMA NodeStays ==
  ASSUME NodeInv, UNCHANGED <<wire, ws, active_tasks, running_tasks, execution>>
  PROVE  NodeInv'
BY DEF NodeInv, Node!NodeTypeOK, Outcomes, NeverStuckBusy, CancelReachesAll,
       Node!NeverStuckBusy, Node!CancelReachesAll

LEMMA BeatKeeps ==
  ASSUME ClusterInv, NEW w \in Worker, BeatStep(w)
  PROVE  ClusterInv'
<1> DEFINE k == ws[w]
<1>1. /\ k \in Conn /\ endpoint[k].worker = w
      /\ UNCHANGED <<toHub, linkVars, wire, ws, active_tasks, running_tasks, execution>>
  <2>1. ws \in [Worker -> Conn \cup {NoConn}] /\ SocketInv
    BY DEF ClusterInv, NodeInv, Node!NodeTypeOK
  <2> QED BY <2>1 DEF BeatStep, Node!Beats, SocketInv, NodesUnchanged
<1>2. CASE HeartbeatMsg(k) /\ UNCHANGED toWorker
  <2>1. Heartbeat(w) /\ UNCHANGED <<socket, endpoint, nodeVars, linkVars>>
    BY <1>1, <1>2 DEF HeartbeatMsg, serverVars, nodeVars
  <2> QED BY <2>1, RedatingKeeps
<1>3. CASE toWorker' = Node!Put(toWorker, k, Node!NotRegisteredWire) /\ UNCHANGED vars
  <2>1. /\ UNCHANGED <<tasks, task_counter, spawned, notices, workers, socket, endpoint, via, notify>>
        /\ UNCHANGED hubVars
    BY <1>1, <1>3 DEF vars, hubVars, serverVars, linkVars
  <2>2. EndpointsTyped' /\ SocketInv' /\ EndpointsMove
    BY <1>1, <2>1, SocketsStay
  <2>3. IInv' /\ NodeInv' /\ notify' \in [TaskId -> Conn \cup {NoConn}]
    BY <1>1, <2>1, NextKeepsIInv, NodeStays DEF ClusterInv
  <2>4. /\ Node!NotRegisteredWire \in WorkerMessage
        /\ \A t \in TaskId : Node!NotRegisteredWire # Node!RunTaskWire(t) /\ Node!NotRegisteredWire # Node!CancelWire(t)
    BY DEF WorkerMessage, Node!NotRegisteredWire, Node!RunTaskWire, Node!CancelWire
  <2>5. WiresTyped' /\ \A t \in TaskId : Sends(t) /\ Executes(t) /\ Carries(t)
    <3> DEFINE x == Node!NotRegisteredWire
    <3> HIDE DEF x
    <3> QED BY <1>1, <1>3, <2>1, <2>4, MessageSends DEF x
  <2>6. \A t \in TaskId : Noticed(t)' => Noticed(t)
    BY <2>1 DEF Noticed
  <2> QED BY <2>1, <2>2, <2>3, <2>5, <2>6, QuietKeeps
<1> QED BY <1>2, <1>3 DEF BeatStep

LEMMA CancelNoticeKeeps ==
  ASSUME ClusterInv, NEW s \in Sweeper, NEW w \in Worker, NEW t \in TaskId, CancelNotice(s, w, t)
  PROVE  ClusterInv'
<1>1. /\ IInv /\ notify \in [TaskId -> Conn \cup {NoConn}] /\ notify[t] \in Conn \cup {NoConn}
      /\ SendNotice(s, w, t) /\ Noticed(t)
      /\ toWorker' = Node!Put(toWorker, notify[t], Node!CancelWire(t))
      /\ notify' = [notify EXCEPT ![t] = NoConn]
      /\ UNCHANGED <<socket, endpoint, toHub, via, wire, ws, active_tasks, running_tasks, execution>>
  BY DEF ClusterInv, CancelNotice, SendNotice, Noticed, serverVars, NodesUnchanged
<1>2. UNCHANGED <<tasks, task_counter, spawned, workers>> /\ \A u \in TaskId : Noticed(u)' => Noticed(u)
  BY <1>1 DEF SendNotice, Noticed
<1>3. EndpointsTyped' /\ SocketInv' /\ EndpointsMove
  BY <1>1, <1>2, SocketsStay
<1>4. IInv' /\ NodeInv' /\ notify' \in [TaskId -> Conn \cup {NoConn}]
  <2>1. IInv'
    BY <1>1, NextKeepsIInv DEF Next, SweeperStep
  <2> QED BY <1>1, <2>1, NodeStays DEF ClusterInv
<1>5. /\ Node!CancelWire(t) \in WorkerMessage
      /\ \A u \in TaskId : Node!CancelWire(t) # Node!RunTaskWire(u) /\ (Node!CancelWire(t) = Node!CancelWire(u) => u = t)
  BY DEF WorkerMessage, Node!RunTaskWire, Node!CancelWire
<1>6. WiresTyped' /\ \A u \in TaskId : Sends(u) /\ Executes(u) /\ Carries(u)
  <2> DEFINE x == Node!CancelWire(t)
  <2>1. x \in WorkerMessage /\ \A u \in TaskId : x # Node!RunTaskWire(u) /\ (x = Node!CancelWire(u) => Noticed(u))
    BY <1>1, <1>5
  <2>2. toWorker' = Node!Put(toWorker, notify[t], x)
    BY <1>1
  <2> HIDE DEF x
  <2> QED BY <1>1, <2>1, <2>2, MessageSends
<1> QED BY <1>1, <1>2, <1>3, <1>4, <1>6, QuietKeeps

\* A coroutine that finds nothing to send, or no socket to send it through.
LEMMA SkipKeeps ==
  ASSUME ClusterInv, NEW w \in Worker, NEW t \in TaskId,
         DispatchSkip(w, t), tasks[t].status = "none" \/ socket[w] = NoConn,
         UNCHANGED <<socket, endpoint, nodeVars, linkVars>>
  PROVE  ClusterInv'
<1>1. /\ IInv /\ via \in [TaskId -> Conn \cup {NoConn}] /\ SocketInv /\ \A u \in TaskId : Traced(u)
      /\ UNCHANGED <<wire, toHub, toWorker, ws, active_tasks, running_tasks, execution, via, notify>>
  BY DEF ClusterInv, nodeVars, linkVars
<1>2. /\ <<w, t>> \in spawned /\ spawned' = spawned \ {<<w, t>>}
      /\ UNCHANGED <<workers, tasks, task_counter, notices>>
  BY DEF DispatchSkip
<1>3. IInv'
  BY <1>1, NextKeepsIInv DEF Next, CoroutineStep
<1>4. tasks[t].status # "running"
  <2>1. tasks[t].status = "none" \/ tasks[t].worker_id = w
    BY <1>1, <1>2 DEF IInv, Sound, Speaks
  <2>2. tasks[t].status = "running" => workers[w].status # "absent"
    BY <1>1, <2>1 DEF IInv, Sound, Owned
  <2> QED BY <1>1, <2>2 DEF SocketInv
<1>5. EndpointsTyped' /\ SocketInv' /\ EndpointsMove
  BY <1>1, <1>2, SocketsStay
<1>6. ASSUME NEW u \in TaskId PROVE Traced(u)'
  <2>1. tasks[u].status = "running" => ~Unsent(u) /\ tasks[u].worker_id \in Worker /\ u # t
    BY <1>1, <1>4 DEF Unsent, IInv, Unissued, Sound, Owned
  <2>2. HubFollows(u)
    BY <1>1, <1>2, <1>5, <2>1 DEF HubFollows, EndpointsMove, Unsent, Noticed
  <2>3. Traced(u)
    BY <1>1
  <2>4. Sends(u) /\ Executes(u) /\ Carries(u)
    BY <1>1, <1>2, <2>3 DEF Sends, Executes, Carries, Traced, MessageOnce, WorkedByOne, Borne
  <2> QED BY <1>1, <2>2, <2>3, <2>4, FollowsKeeps DEF Follows
<1>7. NodeInv' /\ WiresTyped'
  BY <1>1, NodeStays DEF ClusterInv, WiresTyped
<1>8. /\ via' \in [TaskId -> Conn \cup {NoConn}]
      /\ notify' \in [TaskId -> Conn \cup {NoConn}]
  BY <1>1 DEF ClusterInv
<1> QED BY <1>3, <1>5, <1>6, <1>7, <1>8 DEF ClusterInv

\* The coroutine sends the task, for the first and only time.
LEMMA SendKeeps ==
  ASSUME ClusterInv, NEW w \in Worker, NEW t \in TaskId,
         DispatchSend(w, t), socket[w] # NoConn,
         via' = [via EXCEPT ![t] = socket[w]],
         toWorker' = Node!Put(toWorker, socket[w], Node!RunTaskWire(t)),
         UNCHANGED <<socket, endpoint, toHub, notify, wire, ws, active_tasks, running_tasks, execution>>
  PROVE  ClusterInv'
<1> DEFINE k == socket[w]
           x == Node!RunTaskWire(t)
<1>1. /\ IInv /\ via \in [TaskId -> Conn \cup {NoConn}] /\ SocketInv /\ \A u \in TaskId : Traced(u)
      /\ toWorker \in [Conn -> Seq(WorkerMessage)] /\ EndpointsTyped
  BY DEF ClusterInv, WiresTyped
<1>2. /\ <<w, t>> \in spawned /\ tasks[t].status # "none" /\ spawned' = spawned \ {<<w, t>>}
      /\ UNCHANGED <<workers, tasks, task_counter, notices>>
  BY DEF DispatchSend
<1>3. IInv'
  BY <1>1, NextKeepsIInv DEF Next, CoroutineStep
<1>4. /\ tasks[t].worker_id = w /\ ~Unsent(t)
      /\ \A v \in Worker : <<v, t>> \in spawned => v = w
  <2>1. \A v \in Worker : <<v, t>> \in spawned => tasks[t].status # "pending" /\ tasks[t].worker_id = v
    BY <1>1, <1>2 DEF IInv, Sound, Speaks
  <2>2. ~(t > task_counter)
    BY <1>1, <1>2 DEF IInv, Unissued
  <2> QED BY <1>2, <2>1, <2>2 DEF Unsent
<1>5. /\ k \in Conn /\ endpoint[k].status # "new" /\ endpoint[k].worker = w
      /\ via'[t] = k /\ \A u \in TaskId : u # t => via'[u] = via[u]
      /\ via' \in [TaskId -> Conn \cup {NoConn}]
  BY <1>1 DEF SocketInv, EndpointsTyped
<1>6. EndpointsTyped' /\ SocketInv' /\ EndpointsMove
  BY <1>1, <1>2, SocketsStay
<1>7. /\ x \in WorkerMessage
      /\ \A u \in TaskId : x # Node!CancelWire(u) /\ (x = Node!RunTaskWire(u) => u = t)
  BY DEF WorkerMessage, Node!RunTaskWire, Node!CancelWire
<1>8. toWorker' = Node!Put(toWorker, k, x)
  OBVIOUS
<1>9. WiresTyped' /\ Delivered(toWorker, toWorker', k, x)
  <2> HIDE DEF x, k
  <2>1. WiresTyped'
    BY <1>5, <1>7, <1>8, MessageSends
  <2> QED BY <1>1, <1>5, <1>7, <1>8, <2>1, PutDelivers
<1>10. ASSUME NEW u \in TaskId, u # t PROVE Traced(u)'
  <2>1. HubFollows(u)
    <3>1. tasks[u].status = "running" => ~Unsent(u)
      BY <1>1 DEF Unsent, IInv, Unissued
    <3> QED BY <1>2, <1>5, <1>6, <1>10, <3>1 DEF HubFollows, EndpointsMove, Unsent, Noticed
  <2>2. Sends(u) /\ Executes(u) /\ Carries(u)
    <3>1. x # Node!RunTaskWire(u) /\ x # Node!CancelWire(u)
      BY <1>7, <1>10
    <3> HIDE DEF x, k
    <3> QED BY <1>5, <1>7, <1>8, <3>1, MessageSends
  <2> QED BY <1>1, <2>1, <2>2, FollowsKeeps DEF Follows
<1>11. Traced(t)'
  <2>1. Traced(t) /\ via[t] = NoConn
    BY <1>1, <1>2 DEF Traced, SentOnce
  <2>2. /\ \A v \in Worker : execution[v][t].pc = "none"
        /\ \A c \in Conn : ~On(toWorker[c], x) /\ \A s \in Terminal : ~On(toHub[c], Node!ResultWire(t, s))
    BY <2>1, HubServerAssumption DEF Traced, MessageOnce, WorkedByOne
  <2>3. SentOnce(t)'
    BY <1>2, <1>4, <1>5, HubServerAssumption DEF SentOnce, Unsent
  <2>4. \A c \in Conn : /\ Once(toWorker'[c], x)
                        /\ On(toWorker'[c], x) => c = k
                        /\ On(toWorker'[c], Node!CancelWire(t)) => On(toWorker[c], Node!CancelWire(t))
                        /\ wire[k] = "up" => On(toWorker'[k], x)
    <3>1. \A c \in Conn : Once(toWorker[c], x)
      BY <2>1 DEF Traced, MessageOnce
    <3>2. x # Node!CancelWire(t)
      BY <1>7
    <3> HIDE DEF x, k
    <3> QED BY <1>5, <1>9, <2>2, <3>1, <3>2 DEF Delivered
  <2>5. MessageOnce(t)'
    BY <1>5, <2>2, <2>4 DEF MessageOnce
  <2>6. WorkedByOne(t)'
    BY <2>2 DEF WorkedByOne
  <2>7. CancelledLate(t)'
    BY <1>2, <2>1, <2>4 DEF Traced, CancelledLate, Noticed, Over, Unsent
  <2>8. Borne(t)'
    BY <1>5, <2>4 DEF Borne
  <2> QED BY <2>3, <2>5, <2>6, <2>7, <2>8 DEF Traced
<1>12. NodeInv' /\ notify' \in [TaskId -> Conn \cup {NoConn}]
  BY NodeStays DEF ClusterInv
<1> QED BY <1>3, <1>5, <1>6, <1>9, <1>10, <1>11, <1>12 DEF ClusterInv

LEMMA DispatchKeeps ==
  ASSUME ClusterInv, DispatchStep
  PROVE  ClusterInv'
<1>1. PICK w \in Worker, t \in TaskId : HubDispatch(w, t)
  BY DEF DispatchStep
<1>2. UNCHANGED <<socket, endpoint, toHub, notify, wire, ws, active_tasks, running_tasks, execution>>
  BY DEF DispatchStep, serverVars, NodesUnchanged
<1>3. CASE UNCHANGED <<via, toWorker>>
  <2>1. UNCHANGED <<socket, endpoint, nodeVars, linkVars>>
    BY <1>2, <1>3 DEF nodeVars, linkVars
  <2>2. CASE DispatchSkip(w, t) /\ (tasks[t].status = "none" \/ socket[w] = NoConn)
    BY <2>1, <2>2, SkipKeeps
  <2>3. CASE DispatchSent(w, t) \/ DispatchError(w, t)
    BY <2>1, <2>3, SendEndsKeeps
  <2>4. CASE /\ DispatchSend(w, t) /\ socket[w] # NoConn
             /\ via' = [via EXCEPT ![t] = socket[w]]
             /\ toWorker' = Node!Put(toWorker, socket[w], Node!RunTaskWire(t))
    BY <1>2, <2>4, SendKeeps
  <2> QED BY <1>1, <2>2, <2>3, <2>4 DEF HubDispatch
<1>4. CASE ~UNCHANGED <<via, toWorker>>
  BY <1>1, <1>2, <1>4, SendKeeps DEF HubDispatch
<1> QED BY <1>3, <1>4

-----------------------------------------------------------------------------
(* Steps of the nodes *)

\* A step of a node is one in which the hub takes no part.
LEMMA NodeStepKeeps ==
  ASSUME ClusterInv, UNCHANGED <<vars, linkVars>>,
         NodeInv', WiresTyped', SocketInv',
         \A t \in TaskId : Sends(t) /\ Executes(t) /\ Carries(t)
  PROVE  ClusterInv'
<1>1. /\ UNCHANGED <<tasks, task_counter, spawned, notices, socket, endpoint, via, notify>>
      /\ UNCHANGED hubVars
  BY DEF vars, hubVars, serverVars, linkVars
<1>2. IInv'
  <2>1. IInv
    BY DEF ClusterInv
  <2> QED BY <1>1, <2>1, NextKeepsIInv
<1>3. EndpointsTyped' /\ EndpointsMove /\ notify' \in [TaskId -> Conn \cup {NoConn}]
  BY <1>1 DEF ClusterInv, EndpointsTyped, EndpointsMove
<1>4. \A t \in TaskId : Noticed(t)' => Noticed(t)
  BY <1>1 DEF Noticed
<1> QED BY <1>1, <1>2, <1>3, <1>4, QuietKeeps

\* A connection and its register message.
LEMMA OpenKeeps ==
  ASSUME ClusterInv, NEW w \in Worker, NEW k \in Conn, Open(w, k)
  PROVE  ClusterInv'
<1>1. /\ IInv /\ NodeInv /\ SocketInv /\ EndpointsTyped /\ WiresTyped /\ \A t \in TaskId : Traced(t)
      /\ via \in [TaskId -> Conn \cup {NoConn}]
      /\ ws \in [Worker -> Conn \cup {NoConn}] /\ wire \in [Conn -> {"free", "up", "down"}]
  BY DEF ClusterInv, NodeInv, Node!NodeTypeOK
<1>2. /\ Node!Open(w, k) /\ wire[k] = "free"
      /\ wire' = [wire EXCEPT ![k] = "up"] /\ ws' = [ws EXCEPT ![w] = k]
      /\ toHub' = [toHub EXCEPT ![k] = <<Node!RegisterWire>>]
      /\ endpoint[k].status = "new"
      /\ endpoint' = [endpoint EXCEPT ![k] = [worker |-> w, status |-> "open"]]
      /\ UNCHANGED <<hubVars, socket, toWorker, execution, via, notify>>
  BY DEF Open, Node!Open, Connect, linkVars
<1>3. UNCHANGED <<workers, tasks, task_counter, spawned, notices>>
  BY <1>2 DEF hubVars
<1>4. IInv' /\ NodeInv'
  BY <1>1, <1>2, NextKeepsIInv, ConnectionKeepsNodeInv
<1>5. /\ EndpointsTyped'
      /\ \A c \in Conn : endpoint'[c] = IF c = k THEN [worker |-> w, status |-> "open"] ELSE endpoint[c]
  <2>1. [worker |-> w, status |-> "open"] \in EndpointRecord
    BY DEF EndpointRecord
  <2> QED BY <1>1, <1>2, <2>1 DEF EndpointsTyped
<1>6. EndpointsMove
  BY <1>2, <1>5 DEF EndpointsMove
<1>7. SocketInv'
  <2>1. /\ \A c \in Conn : wire'[c] = IF c = k THEN "up" ELSE wire[c]
        /\ \A v \in Worker : ws'[v] = IF v = w THEN k ELSE ws[v]
    BY <1>1, <1>2
  <2>2. \A c \in Conn :
          /\ endpoint'[c].status = "new" <=> wire'[c] = "free"
          /\ IF endpoint'[c].status = "new" THEN endpoint'[c].worker = NoWorker ELSE endpoint'[c].worker \in Worker
    BY <1>1, <1>5, <2>1 DEF SocketInv
  <2>3. \A v \in Worker :
          /\ socket'[v] # NoConn => endpoint'[socket'[v]].status # "new" /\ endpoint'[socket'[v]].worker = v
          /\ workers'[v].status # "absent" => socket'[v] # NoConn
    BY <1>1, <1>2, <1>3, <1>5 DEF SocketInv, EndpointsTyped
  <2>4. \A v \in Worker :
          ws'[v] # NoConn => endpoint'[ws'[v]].status # "new" /\ endpoint'[ws'[v]].worker = v
    BY <1>1, <1>2, <1>5, <2>1 DEF SocketInv
  <2> QED BY <2>2, <2>3, <2>4 DEF SocketInv
<1>8. /\ WiresTyped'
      /\ \A t \in TaskId, s \in Terminal : ~On(toHub'[k], Node!ResultWire(t, s))
  <2> DEFINE x == Node!RegisterWire
  <2>1. x \in HubMessage /\ \A t \in TaskId, s \in Terminal : x # Node!ResultWire(t, s)
    BY DEF HubMessage, Node!RegisterWire, Node!ResultWire
  <2> HIDE DEF x
  <2>2. <<x>> \in Seq(HubMessage)
    BY <2>1
  <2>3. \A t \in TaskId, s \in Terminal : ~On(<<x>>, Node!ResultWire(t, s))
    BY <2>1 DEF On
  <2>4. toHub' = [toHub EXCEPT ![k] = <<x>>] /\ toHub'[k] = <<x>>
    BY <1>1, <1>2 DEF x, WiresTyped
  <2>5. WiresTyped'
    BY <1>1, <1>2, <2>2, <2>4 DEF WiresTyped
  <2> QED BY <2>3, <2>4, <2>5
<1>9. ASSUME NEW t \in TaskId PROVE Sends(t) /\ Executes(t) /\ Carries(t)
  <2>1. via[t] # k /\ Traced(t)
    BY <1>1, <1>2, HubServerAssumption DEF Traced, SentOnce
  <2>2. \A c \in Conn : c # k => toHub'[c] = toHub[c] /\ endpoint'[c] = endpoint[c] /\ wire'[c] = wire[c]
    BY <1>1, <1>2, <1>5 DEF WiresTyped
  <2>3. Sends(t)
    BY <1>2, <1>8, <2>1, <2>2 DEF Sends, Traced, MessageOnce, WorkedByOne
  <2>4. Executes(t)
    BY <1>2, <2>1 DEF Executes, Traced, WorkedByOne
  <2>5. Carries(t)
    <3> SUFFICES ASSUME tasks[t].status = "running", via[t] # NoConn,
                        wire'[via[t]] = "up", ws'[tasks[t].worker_id] = via[t]
                 PROVE  \/ On(toWorker'[via[t]], Node!RunTaskWire(t))
                        \/ execution'[tasks[t].worker_id][t].pc \in Working
                        \/ \E s \in Terminal : On(toHub'[via[t]], Node!ResultWire(t, s))
      BY DEF Carries
    <3>1. tasks[t].worker_id \in Worker
      BY <1>1 DEF IInv, Sound, Owned
    <3>2. via[t] \in Conn /\ wire[via[t]] = "up" /\ ws[tasks[t].worker_id] = via[t]
      BY <1>1, <1>2, <2>1, <2>2, <3>1
    <3> QED BY <1>2, <2>1, <2>2, <3>2 DEF Traced, Borne
  <2> QED BY <2>3, <2>4, <2>5
<1>10. \A t \in TaskId : Noticed(t)' => Noticed(t)
  BY <1>3 DEF Noticed
<1>11. notify' \in [TaskId -> Conn \cup {NoConn}]
  BY <1>2 DEF ClusterInv
<1> QED BY <1>2, <1>3, <1>4, <1>5, <1>6, <1>7, <1>8, <1>9, <1>10, <1>11, QuietKeeps

\* A step after which fewer messages are on the wires, and a connection that is still
\* up at both ends has all of its own; no execution appears.
LEMMA LosingKeeps ==
  ASSUME ClusterInv, UNCHANGED <<vars, linkVars>>, NodeInv', WiresTyped', SocketInv',
         \A k \in Conn : \A m :
           /\ On(toHub'[k], m) => On(toHub[k], m)
           /\ On(toWorker'[k], m) => On(toWorker[k], m)
           /\ Once(toWorker[k], m) => Once(toWorker'[k], m),
         \A w \in Worker, t \in TaskId : execution[w][t].pc = "none" => execution'[w][t].pc = "none",
         \A w \in Worker, k \in Conn : ws'[w] = k /\ wire'[k] = "up" =>
           /\ ws[w] = k /\ wire[k] = "up" /\ toHub'[k] = toHub[k] /\ toWorker'[k] = toWorker[k]
           /\ \A t \in TaskId : execution[w][t].pc \in Working => execution'[w][t].pc \in Working
  PROVE  ClusterInv'
<1>1. endpoint' = endpoint /\ tasks' = tasks
  BY DEF vars, serverVars, hubVars
<1>2. IInv /\ via \in [TaskId -> Conn \cup {NoConn}] /\ \A t \in TaskId : Traced(t)
  BY DEF ClusterInv
<1>3. ASSUME NEW t \in TaskId PROVE Sends(t) /\ Executes(t) /\ Carries(t)
  <2>1. Traced(t)
    BY <1>2
  <2>2. Sends(t)
    <3>1. ASSUME NEW k \in Conn
          PROVE  /\ Once(toWorker'[k], Node!RunTaskWire(t))
                 /\ On(toWorker'[k], Node!RunTaskWire(t)) => On(toWorker[k], Node!RunTaskWire(t))
                 /\ On(toWorker'[k], Node!CancelWire(t)) => On(toWorker[k], Node!CancelWire(t))
                 /\ \A s \in Terminal : On(toHub'[k], Node!ResultWire(t, s)) => On(toHub[k], Node!ResultWire(t, s))
      BY <2>1 DEF Traced, MessageOnce
    <3> QED BY <1>1, <2>1, <3>1 DEF Sends, Traced, MessageOnce, WorkedByOne
  <2>3. Executes(t)
    BY <2>1 DEF Executes, Traced, WorkedByOne
  <2>4. Carries(t)
    <3>1. tasks[t].status = "running" => tasks[t].worker_id \in Worker
      BY <1>2 DEF IInv, Sound, Owned
    <3>2. via[t] # NoConn => via[t] \in Conn
      BY <1>2
    <3> QED BY <2>1, <3>1, <3>2 DEF Carries, Traced, Borne
  <2> QED BY <2>2, <2>3, <2>4
<1> QED BY <1>3, NodeStepKeeps

LEMMA DropKeeps ==
  ASSUME ClusterInv, NEW k \in Conn, Node!Drop(k), UNCHANGED <<vars, linkVars>>
  PROVE  ClusterInv'
<1>1. /\ NodeInv /\ SocketInv /\ toHub \in [Conn -> Seq(HubMessage)] /\ toWorker \in [Conn -> Seq(WorkerMessage)]
      /\ wire \in [Conn -> {"free", "up", "down"}] /\ ws \in [Worker -> Conn \cup {NoConn}]
  BY DEF ClusterInv, WiresTyped, NodeInv, Node!NodeTypeOK
<1>2. PICK n \in 0..Len(toHub[k]) : toHub' = [toHub EXCEPT ![k] = SubSeq(toHub[k], 1, n)]
  BY DEF Node!Drop
<1>3. PICK p \in 0..Len(toWorker[k]) : toWorker' = [toWorker EXCEPT ![k] = SubSeq(toWorker[k], 1, p)]
  BY DEF Node!Drop
<1>4. wire[k] = "up" /\ wire' = [wire EXCEPT ![k] = "down"] /\ UNCHANGED <<ws, execution>>
  BY DEF Node!Drop
<1>5. NodeInv'
  BY <1>1, DropKeepsNodeInv
<1> DEFINE q == SubSeq(toHub[k], 1, n)
           r == SubSeq(toWorker[k], 1, p)
<1>6. q \in Seq(HubMessage) /\ r \in Seq(WorkerMessage)
  BY <1>1, Loses
<1>7. ASSUME NEW m
      PROVE  /\ On(q, m) => On(toHub[k], m)
             /\ On(r, m) => On(toWorker[k], m)
             /\ Once(toWorker[k], m) => Once(r, m)
  <2>1. toHub[k] \in Seq(HubMessage) /\ toWorker[k] \in Seq(WorkerMessage)
    BY <1>1
  <2>2. On(q, m) => On(toHub[k], m)
    BY <2>1, Loses
  <2>3. (On(r, m) => On(toWorker[k], m)) /\ (Once(toWorker[k], m) => Once(r, m))
    BY <2>1, Loses
  <2> QED BY <2>2, <2>3
<1>8. \A c \in Conn : /\ toHub'[c] = IF c = k THEN q ELSE toHub[c]
                      /\ toWorker'[c] = IF c = k THEN r ELSE toWorker[c]
                      /\ wire'[c] = IF c = k THEN "down" ELSE wire[c]
  <2> HIDE DEF q, r
  <2> QED BY <1>1, <1>2, <1>3, <1>4 DEF q, r
<1>9. WiresTyped'
  <2>1. toHub' = [toHub EXCEPT ![k] = q] /\ toWorker' = [toWorker EXCEPT ![k] = r]
    BY <1>2, <1>3
  <2> HIDE DEF q, r
  <2> QED BY <1>1, <1>6, <2>1 DEF WiresTyped
<1> HIDE DEF q, r
<1>10. SocketInv'
  <2>1. UNCHANGED <<endpoint, socket, workers>>
    BY DEF vars, hubVars, serverVars
  <2> QED BY <1>1, <1>4, <1>8, <2>1 DEF SocketInv
<1>11. \A c \in Conn : \A m : /\ On(toHub'[c], m) => On(toHub[c], m)
                              /\ On(toWorker'[c], m) => On(toWorker[c], m)
                              /\ Once(toWorker[c], m) => Once(toWorker'[c], m)
  BY <1>7, <1>8
<1>12. \A w \in Worker, c \in Conn : ws'[w] = c /\ wire'[c] = "up" =>
           /\ ws[w] = c /\ wire[c] = "up" /\ toHub'[c] = toHub[c] /\ toWorker'[c] = toWorker[c]
           /\ \A t \in TaskId : execution[w][t].pc \in Working => execution'[w][t].pc \in Working
  BY <1>4, <1>8
<1> QED BY <1>4, <1>5, <1>9, <1>10, <1>11, <1>12, LosingKeeps

\* The end of a connection as its node sees it, by itself or with the process.
LEMMA LeaveKeeps ==
  ASSUME ClusterInv, NEW w \in Worker, Node!Disconnect(w) \/ Node!Crash(w), UNCHANGED <<vars, linkVars>>
  PROVE  ClusterInv'
<1> DEFINE k == ws[w]
<1>1. /\ NodeInv /\ SocketInv /\ WiresTyped
      /\ toHub \in [Conn -> Seq(HubMessage)] /\ toWorker \in [Conn -> Seq(WorkerMessage)]
      /\ wire \in [Conn -> {"free", "up", "down"}] /\ ws \in [Worker -> Conn \cup {NoConn}]
      /\ Node!NodeTypeOK
  BY DEF ClusterInv, WiresTyped, NodeInv, Node!NodeTypeOK
<1>2. /\ toHub' = toHub /\ ws' = [ws EXCEPT ![w] = NoConn]
      /\ wire' \in [Conn -> {"free", "up", "down"}]
      /\ \A c \in Conn : /\ wire'[c] = IF c = k THEN "down" ELSE wire[c]
                         /\ toWorker'[c] = IF c = k THEN <<>> ELSE toWorker[c]
      /\ WiresTyped'
  <2>1. CASE Node!Disconnect(w)
    <3>1. /\ k # NoConn /\ wire[k] = "down" /\ UNCHANGED <<wire, toHub>> /\ ws' = [ws EXCEPT ![w] = NoConn]
          /\ toWorker' = [toWorker EXCEPT ![k] = <<>>]
      BY <2>1 DEF Node!Disconnect
    <3> QED BY <1>1, <3>1 DEF WiresTyped
  <2>2. CASE Node!Crash(w)
    <3>1. /\ wire' = [c \in Conn |-> IF c = k THEN "down" ELSE wire[c]]
          /\ toWorker' = [c \in Conn |-> IF c = k THEN <<>> ELSE toWorker[c]]
          /\ ws' = [ws EXCEPT ![w] = NoConn] /\ toHub' = toHub
      BY <2>2 DEF Node!Crash
    <3> QED BY <1>1, <3>1 DEF WiresTyped
  <2> QED BY <2>1, <2>2
<1>3. \A u \in Worker, t \in TaskId :
        /\ execution[u][t].pc = "none" => execution'[u][t].pc = "none"
        /\ u # w => execution'[u][t].pc = execution[u][t].pc
  <2>1. CASE Node!Disconnect(w)
    <3>1. execution' = Node!CancelAll(w, running_tasks[w])
      BY <2>1 DEF Node!Disconnect
    <3> QED BY <1>1, <3>1, Cancels
  <2>2. CASE Node!Crash(w)
    <3>1. \A u \in Worker, t \in TaskId :
            IF u = w /\ execution[u][t].pc \in Working THEN execution'[u][t].pc = "gone"
            ELSE execution'[u][t].pc = execution[u][t].pc
      BY <1>1, <2>2, CrashMoves
    <3> QED BY <3>1 DEF Working
  <2> QED BY <2>1, <2>2
<1>4. NodeInv'
  BY <1>1, ConnectionKeepsNodeInv
<1>5. SocketInv'
  <2>1. UNCHANGED <<endpoint, socket, workers>>
    BY DEF vars, hubVars, serverVars
  <2>2. \A v \in Worker : ws'[v] = IF v = w THEN NoConn ELSE ws[v]
    BY <1>1, <1>2
  <2>3. \A c \in Conn : wire'[c] = "free" <=> wire[c] = "free"
    <3>1. k # NoConn => wire[k] # "free"
      <4>1. k # NoConn => k \in Conn /\ endpoint[k].status # "new"
        BY <1>1 DEF SocketInv
      <4>2. \A c \in Conn : endpoint[c].status = "new" <=> wire[c] = "free"
        BY <1>1 DEF SocketInv
      <4> QED BY <4>1, <4>2
    <3> QED BY <1>1, <1>2, <3>1, HubServerAssumption
  <2> QED BY <1>1, <2>1, <2>2, <2>3 DEF SocketInv
<1>6. \A c \in Conn : \A m : /\ On(toHub'[c], m) => On(toHub[c], m)
                             /\ On(toWorker'[c], m) => On(toWorker[c], m)
                             /\ Once(toWorker[c], m) => Once(toWorker'[c], m)
  BY <1>2 DEF On, Once
<1>7. \A v \in Worker, c \in Conn : ws'[v] = c /\ wire'[c] = "up" =>
           /\ ws[v] = c /\ wire[c] = "up" /\ toHub'[c] = toHub[c] /\ toWorker'[c] = toWorker[c]
           /\ \A t \in TaskId : execution[v][t].pc \in Working => execution'[v][t].pc \in Working
  BY <1>1, <1>2, <1>3, HubServerAssumption
<1> HIDE DEF k
<1> QED BY <1>2, <1>3, <1>4, <1>5, <1>6, <1>7, LosingKeeps

\* A node has read a message.
LEMMA NodeReads ==
  ASSUME ClusterInv, NEW w \in Worker, NEW type, Node!Incoming(w, type)
  PROVE  LET k == ws[w]
             m == Head(toWorker[k])
         IN /\ k \in Conn /\ endpoint[k].worker = w /\ m \in WorkerMessage /\ m.type = type
            /\ toWorker' \in [Conn -> Seq(WorkerMessage)] /\ Consumed(toWorker, toWorker', k)
            /\ On(toWorker[k], m)
            /\ type = "run_task" => m.task \in TaskId /\ m = Node!RunTaskWire(m.task)
            /\ type = "cancel" => m.task \in TaskId /\ m = Node!CancelWire(m.task)
<1> DEFINE k == ws[w]
           m == Head(toWorker[k])
<1>1. WiresTyped /\ Node!NodeTypeOK /\ SocketInv /\ toWorker \in [Conn -> Seq(WorkerMessage)]
  BY DEF ClusterInv, NodeInv, WiresTyped
<1>2. /\ k \in Conn /\ toWorker[k] # <<>> /\ m \in WorkerMessage /\ m.type = type
      /\ toWorker' = [toWorker EXCEPT ![k] = Tail(toWorker[k])]
      /\ type = "run_task" => m.task \in TaskId /\ m = Node!RunTaskWire(m.task)
      /\ type = "cancel" => m.task \in TaskId /\ m = Node!CancelWire(m.task)
  BY <1>1, HeadTask
<1>3. endpoint[k].worker = w
  BY <1>1, <1>2, HubServerAssumption DEF SocketInv
<1>4. /\ toWorker' \in [Conn -> Seq(WorkerMessage)] /\ Consumed(toWorker, toWorker', k)
      /\ On(toWorker[k], m)
  <2> HIDE DEF k, m
  <2> QED BY <1>1, <1>2, TailConsumes DEF m
<1> QED BY <1>2, <1>3, <1>4

\* Reading anything but the task keeps what is known of it, if the execution does too.
LEMMA ReadingTraces ==
  ASSUME ClusterInv, NEW w \in Worker, NEW t \in TaskId,
         Consumed(toWorker, toWorker', ws[w]), Head(toWorker[ws[w]]) # Node!RunTaskWire(t),
         UNCHANGED <<endpoint, tasks, wire, ws>>,
         \A k \in Conn, s \in Terminal :
           On(toHub'[k], Node!ResultWire(t, s)) <=> On(toHub[k], Node!ResultWire(t, s)),
         \A u \in Worker :
           /\ execution[u][t].pc = "none" => execution'[u][t].pc = "none"
           /\ tasks[t].status = "running" /\ execution[u][t].pc \in Working => execution'[u][t].pc \in Working
  PROVE  Sends(t) /\ Executes(t) /\ Carries(t)
<1>1. IInv /\ via \in [TaskId -> Conn \cup {NoConn}] /\ Traced(t)
  BY DEF ClusterInv
<1>2. \A c \in Conn :
        /\ On(toWorker'[c], Node!RunTaskWire(t)) <=> On(toWorker[c], Node!RunTaskWire(t))
        /\ Once(toWorker[c], Node!RunTaskWire(t)) => Once(toWorker'[c], Node!RunTaskWire(t))
        /\ On(toWorker'[c], Node!CancelWire(t)) => On(toWorker[c], Node!CancelWire(t))
  BY DEF Consumed
<1>3. Sends(t)
  BY <1>1, <1>2 DEF Sends, Traced, MessageOnce, WorkedByOne
<1>4. Executes(t)
  BY <1>1 DEF Executes, Traced, WorkedByOne
<1>5. Carries(t)
  <2>1. tasks[t].status = "running" => tasks[t].worker_id \in Worker
    BY <1>1 DEF IInv, Sound, Owned
  <2> QED BY <1>1, <1>2, <2>1 DEF Carries, Traced, Borne
<1> QED BY <1>3, <1>4, <1>5

\* The sockets are those of before.
LEMMA NodeSockets ==
  ASSUME ClusterInv, UNCHANGED <<vars, wire, ws>>
  PROVE  SocketInv' /\ UNCHANGED <<endpoint, tasks>>
BY DEF ClusterInv, SocketInv, vars, hubVars, serverVars

LEMMA NotRegisteredKeeps ==
  ASSUME ClusterInv, NEW w \in Worker, Node!ReceiveNotRegistered(w), UNCHANGED <<vars, linkVars>>
  PROVE  ClusterInv'
<1> DEFINE k == ws[w]
           m == Head(toWorker[k])
           x == Node!RegisterWire
<1>1. /\ k \in Conn /\ m.type = "not_registered"
      /\ toWorker' \in [Conn -> Seq(WorkerMessage)] /\ Consumed(toWorker, toWorker', k)
      /\ toHub' = Node!Put(toHub, k, x)
      /\ UNCHANGED <<wire, ws, execution>>
  BY NodeReads DEF Node!ReceiveNotRegistered
<1>2. toHub \in [Conn -> Seq(HubMessage)] /\ NodeInv /\ WiresTyped
  BY DEF ClusterInv, WiresTyped
<1>3. /\ x \in HubMessage /\ \A t \in TaskId, s \in Terminal : x # Node!ResultWire(t, s)
      /\ \A t \in TaskId : m # Node!RunTaskWire(t)
  BY <1>1 DEF HubMessage, Node!RegisterWire, Node!ResultWire, Node!RunTaskWire
<1>4. NodeInv'
  BY <1>2, WorkKeepsNodeInv DEF Node!ReceiveStep
<1>5. SocketInv' /\ UNCHANGED <<endpoint, tasks>>
  BY <1>1, NodeSockets
<1>6. toHub' \in [Conn -> Seq(HubMessage)] /\ Delivered(toHub, toHub', k, x)
  <2> HIDE DEF x, k
  <2> QED BY <1>1, <1>2, <1>3, PutDelivers
<1>7. ASSUME NEW t \in TaskId PROVE Sends(t) /\ Executes(t) /\ Carries(t)
  <2>1. \A c \in Conn, s \in Terminal :
           On(toHub'[c], Node!ResultWire(t, s)) <=> On(toHub[c], Node!ResultWire(t, s))
    <3> HIDE DEF x
    <3> QED BY <1>3, <1>6 DEF Delivered
  <2> QED BY <1>1, <1>3, <1>5, <2>1, ReadingTraces
<1> QED BY <1>1, <1>4, <1>5, <1>6, <1>7, NodeStepKeeps DEF WiresTyped

LEMMA CancelKeeps ==
  ASSUME ClusterInv, NEW w \in Worker, Node!ReceiveCancel(w), UNCHANGED <<vars, linkVars>>
  PROVE  ClusterInv'
<1> DEFINE k == ws[w]
           m == Head(toWorker[k])
           S == {m.task} \cap running_tasks[w]
<1>1. /\ k \in Conn /\ m.task \in TaskId /\ m = Node!CancelWire(m.task) /\ On(toWorker[k], m)
      /\ toWorker' \in [Conn -> Seq(WorkerMessage)] /\ Consumed(toWorker, toWorker', k)
      /\ execution' = Node!CancelAll(w, S)
      /\ UNCHANGED <<wire, ws, toHub>>
  BY NodeReads DEF Node!ReceiveCancel
<1>2. toHub \in [Conn -> Seq(HubMessage)] /\ NodeInv /\ WiresTyped /\ Node!NodeTypeOK
  BY DEF ClusterInv, WiresTyped, NodeInv
<1>3. \A t \in TaskId : m # Node!RunTaskWire(t)
  <2>1. \A t \in TaskId : Node!CancelWire(m.task) # Node!RunTaskWire(t)
    BY DEF Node!CancelWire, Node!RunTaskWire
  <2> QED BY <1>1, <2>1
<1>4. NodeInv'
  BY <1>2, WorkKeepsNodeInv DEF Node!ReceiveStep
<1>5. SocketInv' /\ UNCHANGED <<endpoint, tasks>>
  BY <1>1, NodeSockets
<1>6. Over(m.task)
  <2>1. CancelledLate(m.task)
    BY <1>1 DEF ClusterInv, Traced
  <2>2. On(toWorker[k], Node!CancelWire(m.task))
    BY <1>1
  <2> HIDE DEF k, m
  <2> QED BY <1>1, <2>1, <2>2 DEF CancelledLate
<1>7. \A u \in Worker, t \in TaskId :
              IF u = w /\ t \in S /\ execution[u][t].pc = "created" THEN execution'[u][t].pc = "never"
              ELSE IF u = w /\ t \in S /\ execution[u][t].pc = "running" THEN execution'[u][t].pc = "dying"
              ELSE execution'[u][t].pc = execution[u][t].pc
  <2> HIDE DEF S
  <2> QED BY <1>1, <1>2, Cancels
<1>8. ASSUME NEW t \in TaskId PROVE Sends(t) /\ Executes(t) /\ Carries(t)
  <2>1. t \in S => tasks[t].status # "running"
    BY <1>6 DEF Over
  <2>2. \A u \in Worker :
           /\ execution[u][t].pc = "none" => execution'[u][t].pc = "none"
           /\ tasks[t].status = "running" /\ execution[u][t].pc \in Working => execution'[u][t].pc \in Working
    BY <1>7, <2>1
  <2>3. \A c \in Conn, s \in Terminal :
           On(toHub'[c], Node!ResultWire(t, s)) <=> On(toHub[c], Node!ResultWire(t, s))
    BY <1>1
  <2> QED BY <1>1, <1>3, <1>5, <2>2, <2>3, ReadingTraces
<1> QED BY <1>1, <1>2, <1>4, <1>5, <1>8, NodeStepKeeps DEF WiresTyped

\* A message to the hub other than a result of t.
LEMMA RejectKeeps ==
  ASSUME ClusterInv, NEW w \in Worker, Node!RejectTask(w), UNCHANGED <<vars, linkVars>>
  PROVE  ClusterInv'
<1> DEFINE k == ws[w]
           m == Head(toWorker[k])
           x == Node!ResultWire(m.task, "failed")
<1>1. /\ k \in Conn /\ m.task \in TaskId /\ m = Node!RunTaskWire(m.task) /\ On(toWorker[k], m)
      /\ endpoint[k].worker = w
      /\ toWorker' \in [Conn -> Seq(WorkerMessage)] /\ Consumed(toWorker, toWorker', k)
      /\ toHub' = Node!Put(toHub, k, x)
      /\ UNCHANGED <<wire, ws, execution>>
  BY NodeReads DEF Node!RejectTask
<1>2. /\ toHub \in [Conn -> Seq(HubMessage)] /\ NodeInv /\ WiresTyped /\ IInv
      /\ via \in [TaskId -> Conn \cup {NoConn}] /\ \A t \in TaskId : Traced(t)
  BY DEF ClusterInv, WiresTyped
<1>3. /\ x \in HubMessage
      /\ \A t \in TaskId, s \in Terminal : x = Node!ResultWire(t, s) => t = m.task
      /\ \A t \in TaskId : m = Node!RunTaskWire(t) => t = m.task
  BY <1>1 DEF HubMessage, Node!ResultWire, Node!RunTaskWire, Terminal
<1>4. NodeInv'
  BY <1>2, WorkKeepsNodeInv DEF Node!ReceiveStep
<1>5. SocketInv' /\ UNCHANGED <<endpoint, tasks>>
  BY <1>1, NodeSockets
<1>6. toHub' \in [Conn -> Seq(HubMessage)] /\ Delivered(toHub, toHub', k, x)
  <2> HIDE DEF x, k
  <2> QED BY <1>1, <1>2, <1>3, PutDelivers
<1>7. ASSUME NEW t \in TaskId, t # m.task PROVE Sends(t) /\ Executes(t) /\ Carries(t)
  <2>1. \A c \in Conn, s \in Terminal :
           On(toHub'[c], Node!ResultWire(t, s)) <=> On(toHub[c], Node!ResultWire(t, s))
    <3>1. \A s \in Terminal : x # Node!ResultWire(t, s)
      BY <1>3, <1>7
    <3> HIDE DEF x, m
    <3> QED BY <1>6, <3>1 DEF Delivered
  <2>2. m # Node!RunTaskWire(t)
    BY <1>3, <1>7
  <2> QED BY <1>1, <1>5, <2>1, <2>2, ReadingTraces
<1>8. ASSUME NEW t \in TaskId, t = m.task PROVE Sends(t) /\ Executes(t) /\ Carries(t)
  <2>1. Traced(t) /\ m = Node!RunTaskWire(t)
    BY <1>1, <1>2, <1>8
  <2>2. x = Node!ResultWire(t, "failed") /\ "failed" \in Terminal
    BY <1>8 DEF Terminal
  <2> HIDE DEF m, x
  <2>3. via[t] = k /\ k # NoConn /\ \A u \in Worker : execution[u][t].pc = "none"
    BY <1>1, <2>1, HubServerAssumption DEF Traced, MessageOnce
  <2> HIDE DEF k
  <2>4. /\ \A c \in Conn : /\ Once(toWorker'[c], Node!RunTaskWire(t))
                           /\ On(toWorker'[c], Node!RunTaskWire(t)) => On(toWorker[c], Node!RunTaskWire(t))
                           /\ On(toWorker'[c], Node!CancelWire(t)) => On(toWorker[c], Node!CancelWire(t))
    BY <1>1, <2>1 DEF Consumed, Traced, MessageOnce
  <2>5. \A c \in Conn, s \in Terminal :
           On(toHub'[c], Node!ResultWire(t, s)) => On(toHub[c], Node!ResultWire(t, s)) \/ c = k
    BY <1>6 DEF Delivered
  <2>6. wire[k] = "up" => On(toHub'[k], Node!ResultWire(t, "failed"))
    BY <1>1, <1>6, <2>2 DEF Delivered
  <2>7. Sends(t)
    <3>1. ASSUME NEW c \in Conn, NEW s \in Terminal, On(toHub'[c], Node!ResultWire(t, s))
          PROVE  via[t] # NoConn /\ endpoint[via[t]].worker = endpoint'[c].worker
      <4>1. CASE On(toHub[c], Node!ResultWire(t, s))
        BY <1>5, <2>1, <4>1 DEF Traced, WorkedByOne
      <4>2. CASE c = k
        BY <1>5, <2>3, <4>2
      <4> QED BY <2>5, <3>1, <4>1, <4>2
    <3> QED BY <1>1, <2>3, <2>4, <3>1 DEF Sends
  <2>8. Executes(t)
    BY <1>1, <2>3 DEF Executes
  <2>9. Carries(t)
    BY <1>1, <2>2, <2>3, <2>6 DEF Carries
  <2> QED BY <2>7, <2>8, <2>9
<1>9. \A t \in TaskId : Sends(t) /\ Executes(t) /\ Carries(t)
  BY <1>7, <1>8
<1> QED BY <1>1, <1>4, <1>5, <1>6, <1>9, NodeStepKeeps DEF WiresTyped

\* The task gets its execution.
LEMMA AcceptKeeps ==
  ASSUME ClusterInv, NEW w \in Worker, Node!AcceptTask(w), UNCHANGED <<vars, linkVars>>
  PROVE  ClusterInv'
<1> DEFINE k == ws[w]
           m == Head(toWorker[k])
<1>1. /\ k \in Conn /\ m.task \in TaskId /\ m = Node!RunTaskWire(m.task) /\ On(toWorker[k], m)
      /\ endpoint[k].worker = w
      /\ toWorker' \in [Conn -> Seq(WorkerMessage)] /\ Consumed(toWorker, toWorker', k)
      /\ execution' = WithPc(w, m.task, "created")
      /\ UNCHANGED <<wire, ws, toHub>>
  BY NodeReads DEF Node!AcceptTask, WithPc
<1>2. /\ toHub \in [Conn -> Seq(HubMessage)] /\ NodeInv /\ WiresTyped /\ IInv /\ Node!NodeTypeOK
      /\ via \in [TaskId -> Conn \cup {NoConn}] /\ \A t \in TaskId : Traced(t)
  BY DEF ClusterInv, WiresTyped, NodeInv
<1>3. \A t \in TaskId : m = Node!RunTaskWire(t) => t = m.task
  BY DEF Node!RunTaskWire
<1>4. NodeInv'
  BY <1>2, WorkKeepsNodeInv DEF Node!ReceiveStep
<1>5. SocketInv' /\ UNCHANGED <<endpoint, tasks>>
  BY <1>1, NodeSockets
<1>6. \A u \in Worker, t \in TaskId :
        execution'[u][t].pc = IF u = w /\ t = m.task THEN "created" ELSE execution[u][t].pc
  <2> HIDE DEF m
  <2> QED BY <1>1, <1>2, Cell DEF Working
<1>7. ASSUME NEW t \in TaskId, t # m.task PROVE Sends(t) /\ Executes(t) /\ Carries(t)
  <2>1. \A c \in Conn, s \in Terminal :
           On(toHub'[c], Node!ResultWire(t, s)) <=> On(toHub[c], Node!ResultWire(t, s))
    BY <1>1
  <2>2. m # Node!RunTaskWire(t)
    BY <1>3, <1>7
  <2>3. \A u \in Worker :
           /\ execution[u][t].pc = "none" => execution'[u][t].pc = "none"
           /\ tasks[t].status = "running" /\ execution[u][t].pc \in Working => execution'[u][t].pc \in Working
    BY <1>6, <1>7
  <2> QED BY <1>1, <1>5, <2>1, <2>2, <2>3, ReadingTraces
<1>8. ASSUME NEW t \in TaskId, t = m.task PROVE Sends(t) /\ Executes(t) /\ Carries(t)
  <2>1. Traced(t) /\ m = Node!RunTaskWire(t)
    BY <1>1, <1>2, <1>8
  <2>2. \A u \in Worker : execution'[u][t].pc = IF u = w THEN "created" ELSE execution[u][t].pc
    BY <1>6, <1>8
  <2>3. m = Head(toWorker[k])
    OBVIOUS
  <2> HIDE DEF m
  <2>4. via[t] = k /\ k # NoConn /\ \A u \in Worker : execution[u][t].pc = "none"
    BY <1>1, <2>1, HubServerAssumption DEF Traced, MessageOnce
  <2>5. /\ \A c \in Conn : /\ Once(toWorker'[c], Node!RunTaskWire(t))
                           /\ ~On(toWorker'[c], Node!RunTaskWire(t))
                           /\ On(toWorker'[c], Node!CancelWire(t)) => On(toWorker[c], Node!CancelWire(t))
    <3>1. \A c \in Conn : /\ Once(toWorker[c], Node!RunTaskWire(t))
                          /\ On(toWorker[c], Node!RunTaskWire(t)) => c = k
      BY <2>1, <2>4 DEF Traced, MessageOnce
    <3> HIDE DEF k
    <3> QED BY <1>1, <2>1, <2>3, <3>1 DEF Consumed
  <2>6. Sends(t)
    <3>1. ASSUME NEW c \in Conn, NEW s \in Terminal, On(toHub'[c], Node!ResultWire(t, s))
          PROVE  via[t] # NoConn /\ endpoint[via[t]].worker = endpoint'[c].worker
      BY <1>1, <1>5, <2>1, <3>1 DEF Traced, WorkedByOne
    <3> QED BY <2>5, <3>1 DEF Sends
  <2>7. Executes(t)
    BY <1>1, <2>2, <2>4 DEF Executes
  <2>8. Carries(t)
    <3>1. tasks[t].status = "running" => tasks[t].worker_id = w
      BY <1>1, <2>1, <2>4 DEF Traced, SentOnce
    <3> QED BY <2>2, <3>1 DEF Carries, Working
  <2> QED BY <2>6, <2>7, <2>8
<1>9. \A t \in TaskId : Sends(t) /\ Executes(t) /\ Carries(t)
  BY <1>7, <1>8
<1> QED BY <1>1, <1>2, <1>4, <1>5, <1>9, NodeStepKeeps DEF WiresTyped

\* An execution starts, ends or reports.
LEMMA ExecutionKeeps ==
  ASSUME ClusterInv, NEW w \in Worker, NEW t \in TaskId,
         Node!Start(w, t) \/ Node!Finish(w, t) \/ Node!Report(w, t), UNCHANGED <<vars, linkVars>>
  PROVE  ClusterInv'
<1>1. /\ toHub \in [Conn -> Seq(HubMessage)] /\ NodeInv /\ WiresTyped /\ IInv /\ SocketInv
      /\ Node!NodeTypeOK /\ Outcomes(execution) /\ ws \in [Worker -> Conn \cup {NoConn}]
      /\ via \in [TaskId -> Conn \cup {NoConn}] /\ \A u \in TaskId : Traced(u)
  BY DEF ClusterInv, WiresTyped, NodeInv, Node!NodeTypeOK
<1>2. /\ UNCHANGED <<wire, ws, toWorker>>
      /\ Node!Start(w, t) \/ Node!Finish(w, t) => toHub' = toHub
  BY DEF Node!Start, Node!Finish, Node!Report
<1>3. NodeInv'
  BY <1>1, WorkKeepsNodeInv DEF Node!ExecutionStep
<1>4. SocketInv' /\ UNCHANGED <<endpoint, tasks>>
  BY <1>2, NodeSockets
<1>5. /\ \A u \in Worker, v \in TaskId : u # w \/ v # t => execution'[u][v].pc = execution[u][v].pc
      /\ Node!Start(w, t) => execution[w][t].pc = "created" /\ execution'[w][t].pc = "running"
      /\ Node!Finish(w, t) => execution[w][t].pc \in {"running", "dying"} /\ execution'[w][t].pc = "reporting"
      /\ Node!Report(w, t) => execution[w][t].pc = "reporting" /\ execution'[w][t].pc = "done"
  BY <1>1, ExecutionMoves
<1>6. \A u \in Worker, v \in TaskId : execution[u][v].pc = "none" => execution'[u][v].pc = "none"
  BY <1>5
<1>7. CASE Node!Start(w, t) \/ Node!Finish(w, t)
  <2>1. \A u \in Worker, v \in TaskId : execution[u][v].pc \in Working => execution'[u][v].pc \in Working
    BY <1>5, <1>7 DEF Working
  <2> QED BY <1>1, <1>2, <1>3, <1>4, <1>6, <1>7, <2>1, LosingKeeps DEF WiresTyped
<1>8. CASE Node!Report(w, t)
  <2> DEFINE k == ws[w]
             o == execution[w][t].outcome
             x == Node!ResultWire(t, o)
  <2>1. toHub' = Node!Put(toHub, k, x) /\ execution[w][t].pc = "reporting"
    BY <1>8 DEF Node!Report
  <2>2. o \in Terminal /\ k \in Conn \cup {NoConn}
    BY <1>1, <2>1 DEF Outcomes
  <2>3. /\ x \in HubMessage
        /\ \A v \in TaskId, s \in Terminal : x = Node!ResultWire(v, s) => v = t
    <3> HIDE DEF o
    <3> QED BY <2>2 DEF HubMessage, Node!ResultWire
  <2> HIDE DEF o, x, k
  <2>4. toHub' \in [Conn -> Seq(HubMessage)] /\ Delivered(toHub, toHub', k, x)
    BY <1>1, <2>1, <2>2, <2>3, PutDelivers
  <2>5. via[t] # NoConn /\ via[t] \in Conn /\ endpoint[via[t]].worker = w
    BY <1>1, <2>1 DEF Traced, WorkedByOne
  <2>6. k # NoConn => endpoint[k].worker = w
    BY <1>1 DEF SocketInv, k
  <2>7. ASSUME NEW v \in TaskId PROVE Sends(v) /\ Executes(v) /\ Carries(v)
    <3>1. Traced(v)
      BY <1>1
    <3>2. Sends(v)
      <4>1. ASSUME NEW c \in Conn, NEW s \in Terminal, On(toHub'[c], Node!ResultWire(v, s))
            PROVE  via[v] # NoConn /\ endpoint[via[v]].worker = endpoint'[c].worker
        <5>1. CASE On(toHub[c], Node!ResultWire(v, s))
          BY <1>4, <3>1, <5>1 DEF Traced, WorkedByOne
        <5>2. CASE c = k /\ x = Node!ResultWire(v, s)
          BY <1>4, <2>3, <2>5, <2>6, <5>2, HubServerAssumption
        <5> QED BY <2>4, <4>1, <5>1, <5>2 DEF Delivered
      <4> QED BY <1>2, <1>6, <3>1, <4>1 DEF Sends, Traced, MessageOnce
    <3>3. Executes(v)
      BY <1>6, <3>1 DEF Executes, Traced, WorkedByOne
    <3>4. Carries(v)
      <4> SUFFICES ASSUME tasks[v].status = "running", via[v] # NoConn,
                          wire[via[v]] = "up", ws[tasks[v].worker_id] = via[v]
                   PROVE  \/ On(toWorker[via[v]], Node!RunTaskWire(v))
                          \/ execution'[tasks[v].worker_id][v].pc \in Working
                          \/ \E s \in Terminal : On(toHub'[via[v]], Node!ResultWire(v, s))
        BY <1>2 DEF Carries
      <4>1. tasks[v].worker_id \in Worker /\ via[v] \in Conn
        BY <1>1 DEF IInv, Sound, Owned
      <4>2. \/ On(toWorker[via[v]], Node!RunTaskWire(v))
            \/ execution[tasks[v].worker_id][v].pc \in Working
            \/ \E s \in Terminal : On(toHub[via[v]], Node!ResultWire(v, s))
        BY <3>1 DEF Traced, Borne
      <4>3. \A s \in Terminal : On(toHub[via[v]], Node!ResultWire(v, s)) => On(toHub'[via[v]], Node!ResultWire(v, s))
        BY <2>4, <4>1 DEF Delivered
      <4>4. CASE tasks[v].worker_id = w /\ v = t
        <5>1. via[v] = k
          BY <4>4 DEF k
        <5>2. On(toHub'[via[v]], x)
          BY <2>4, <4>1, <5>1 DEF Delivered
        <5> QED BY <2>2, <4>4, <5>2 DEF x
      <4>5. CASE ~(tasks[v].worker_id = w /\ v = t)
        BY <1>5, <4>1, <4>2, <4>3, <4>5
      <4> QED BY <4>4, <4>5
    <3> QED BY <3>2, <3>3, <3>4
  <2> QED BY <1>1, <1>2, <1>3, <1>4, <2>4, <2>7, NodeStepKeeps DEF WiresTyped
<1> QED BY <1>7, <1>8

-----------------------------------------------------------------------------
(* The invariant *)

LEMMA InitClusterInv == ClusterInit => ClusterInv
<1> SUFFICES ASSUME ClusterInit PROVE ClusterInv
  OBVIOUS
<1>1. /\ Init
      /\ socket = [w \in Worker |-> NoConn]
      /\ endpoint = [k \in Conn |-> [worker |-> NoWorker, status |-> "new"]]
      /\ wire = [k \in Conn |-> "free"]
      /\ toHub = [k \in Conn |-> <<>>] /\ toWorker = [k \in Conn |-> <<>>]
      /\ ws = [w \in Worker |-> NoConn]
      /\ active_tasks = [w \in Worker |-> {}] /\ running_tasks = [w \in Worker |-> {}]
      /\ execution = [w \in Worker |-> [t \in TaskId |-> [pc |-> "none", outcome |-> "none"]]]
      /\ via = [t \in TaskId |-> NoConn] /\ notify = [t \in TaskId |-> NoConn]
  BY DEF ClusterInit, ServerInit, Node!NodeInit
<1>2. IInv
  BY <1>1, InitIInv
<1>3. /\ \A w \in Worker, t \in TaskId : execution[w][t].pc = "none"
      /\ execution \in [Worker -> [TaskId -> Node!ExecutionRecord]]
  BY <1>1 DEF Node!ExecutionRecord
<1>4. NodeInv
  BY <1>1, <1>3 DEF NodeInv, Node!NodeTypeOK, Outcomes, NeverStuckBusy, CancelReachesAll,
                    Node!NeverStuckBusy, Node!CancelReachesAll
<1>5. EndpointsTyped
  BY <1>1 DEF EndpointsTyped, EndpointRecord
<1>6. WiresTyped
  BY <1>1 DEF WiresTyped
<1>7. SocketInv
  <2>1. \A w \in Worker : workers[w].status = "absent"
    BY <1>1 DEF Init, Absent
  <2> QED BY <1>1, <2>1 DEF SocketInv
<1>8. ASSUME NEW t \in TaskId PROVE Traced(t)
  <2>1. tasks[t].status = "none" /\ spawned = {} /\ ~Noticed(t) /\ via[t] = NoConn
    BY <1>1 DEF Init, NoTask, Noticed
  <2>2. \A k \in Conn : \A m : ~On(toHub[k], m) /\ ~On(toWorker[k], m) /\ Once(toWorker[k], m)
    BY <1>1 DEF On, Once
  <2>3. SentOnce(t) /\ CancelledLate(t) /\ Borne(t)
    BY <2>1, <2>2 DEF SentOnce, CancelledLate, Borne
  <2>4. MessageOnce(t) /\ WorkedByOne(t)
    BY <1>3, <2>2 DEF MessageOnce, WorkedByOne
  <2> QED BY <2>3, <2>4 DEF Traced
<1>9. /\ via \in [TaskId -> Conn \cup {NoConn}]
      /\ notify \in [TaskId -> Conn \cup {NoConn}]
  BY <1>1
<1> QED BY <1>2, <1>4, <1>5, <1>6, <1>7, <1>8, <1>9 DEF ClusterInv

LEMMA NextClusterInv == ClusterInv /\ [ClusterNext]_clusterVars => ClusterInv'
<1> SUFFICES ASSUME ClusterInv, [ClusterNext]_clusterVars PROVE ClusterInv'
  OBVIOUS
<1>1. CASE ConnStep
  <2>1. ASSUME NEW w \in Worker, NEW k \in Conn, Open(w, k) PROVE ClusterInv'
    BY <2>1, OpenKeeps
  <2>2. ASSUME NEW k \in Conn, EndpointEnds(k) PROVE ClusterInv'
    BY <2>2, EndpointEndsKeeps
  <2>3. ASSUME NEW k \in Conn, Node!Drop(k), UNCHANGED <<vars, linkVars>> PROVE ClusterInv'
    BY <2>3, DropKeeps
  <2>4. ASSUME NEW w \in Worker, Node!Disconnect(w) \/ Node!Crash(w), UNCHANGED <<vars, linkVars>>
        PROVE  ClusterInv'
    BY <2>4, LeaveKeeps
  <2> QED BY <1>1, <2>1, <2>2, <2>3, <2>4 DEF ConnStep
<1>2. CASE NodeStep
  <2>1. ASSUME NEW w \in Worker, BeatStep(w) PROVE ClusterInv'
    BY <2>1, BeatKeeps
  <2>2. ASSUME NEW w \in Worker, Node!ReceiveStep(w), UNCHANGED <<vars, linkVars>> PROVE ClusterInv'
    BY <2>2, NotRegisteredKeeps, RejectKeeps, AcceptKeeps, CancelKeeps DEF Node!ReceiveStep
  <2>3. ASSUME NEW w \in Worker, Node!ExecutionStep(w), UNCHANGED <<vars, linkVars>> PROVE ClusterInv'
    BY <2>3, ExecutionKeeps DEF Node!ExecutionStep
  <2> QED BY <1>2, <2>1, <2>2, <2>3 DEF NodeStep
<1>3. CASE ReceiveStep
  BY <1>3, RegisterKeeps, ResultKeeps DEF ReceiveStep
<1>4. CASE DispatchStep
  BY <1>4, DispatchKeeps
<1>5. CASE ClusterSweeperStep
  <2>1. ASSUME NEW s \in Sweeper, NEW expired \in SUBSET TaskId, ClusterSweep(s, expired) PROVE ClusterInv'
    BY <2>1, ClusterSweepKeeps
  <2>2. ASSUME NEW s \in Sweeper, NEW w \in Worker, NEW t \in TaskId, CancelNotice(s, w, t) PROVE ClusterInv'
    BY <2>2, CancelNoticeKeeps
  <2>3. ASSUME NEW w \in Worker, Grow(w), UNCHANGED <<serverVars, nodeVars, linkVars>> PROVE ClusterInv'
    BY <2>3, RedatingKeeps DEF serverVars
  <2> QED BY <1>5, <2>1, <2>2, <2>3 DEF ClusterSweeperStep
<1>6. CASE Clients
  BY <1>6, ClientsKeep
<1>7. CASE UNCHANGED clusterVars
  <2>1. /\ UNCHANGED <<notices, socket, endpoint, nodeVars, linkVars, tasks, task_counter, spawned, workers>>
        /\ UNCHANGED hubVars
    BY <1>7 DEF clusterVars, vars, serverVars, hubVars
  <2>2. IInv /\ IInv'
    BY <2>1, NextKeepsIInv DEF ClusterInv
  <2>3. \A t \in TaskId : HubMove(t)
    BY <2>1, <2>2, QuietMoves
  <2> QED BY <2>1, <2>2, <2>3, OwnHubStepKeeps
<1> QED BY <1>1, <1>2, <1>3, <1>4, <1>5, <1>6, <1>7 DEF ClusterNext

\* The invariant holds in every reachable state.
THEOREM ClusterInductive == ClusterSpec => []ClusterInv
BY InitClusterInv, NextClusterInv, PTL DEF ClusterSpec

-----------------------------------------------------------------------------
(* What follows for the safety of the cluster *)

\* An idle-looking node may be idle, a busy one works: nothing a node still calls active
\* has ended, whatever cancellations and disconnections it went through.
THEOREM NeverRefusesForEver == ClusterSpec => []NeverStuckBusy
<1>1. ClusterInv => NeverStuckBusy
  BY DEF ClusterInv, NodeInv
<1> QED BY <1>1, ClusterInductive, PTL

\* Whatever executes on a node is in the set its cancellations look at.
THEOREM NothingRunsUnseen == ClusterSpec => []CancelReachesAll
<1>1. ClusterInv => CancelReachesAll
  BY DEF ClusterInv, NodeInv
<1> QED BY <1>1, ClusterInductive, PTL

\* A task the hub believes running is with its coroutine, on the wire, in execution or
\* answered, as long as the connection it was sent through is that of its worker.
THEOREM RunningIsCarried == ClusterSpec => []RunningHasCarrier
<1>1. ClusterInv => RunningHasCarrier
  <2> SUFFICES ASSUME ClusterInv, NEW t \in TaskId, tasks[t].status = "running",
                      via[t] # NoConn => wire[via[t]] = "up" /\ ws[tasks[t].worker_id] = via[t]
               PROVE  Carried(tasks[t].worker_id, t)
    BY DEF RunningHasCarrier
  <2>1. Traced(t) /\ via[t] \in Conn \cup {NoConn}
    BY DEF ClusterInv
  <2>2. CASE via[t] = NoConn
    BY <2>1, <2>2 DEF Traced, SentOnce, Carried
  <2>3. CASE via[t] # NoConn
    <3>1. \/ On(toWorker[via[t]], Node!RunTaskWire(t))
          \/ execution[tasks[t].worker_id][t].pc \in Working
          \/ \E s \in Terminal : On(toHub[via[t]], Node!ResultWire(t, s))
      BY <2>1, <2>3 DEF Traced, Borne
    <3>2. CASE On(toWorker[via[t]], Node!RunTaskWire(t))
      BY <2>3, <3>2 DEF On, InFlight, Carried
    <3>3. CASE execution[tasks[t].worker_id][t].pc \in Working
      BY <3>3 DEF Working, Carried
    <3>4. ASSUME NEW s \in Terminal, On(toHub[via[t]], Node!ResultWire(t, s))
          PROVE  Carried(tasks[t].worker_id, t)
      <4>1. via[t] \in Conn /\ InFlight(toHub, via[t], Node!ResultWire(t, s))
        BY <2>1, <2>3, <3>4 DEF On, InFlight
      <4> QED BY <4>1 DEF Carried
    <3> QED BY <3>1, <3>2, <3>3, <3>4
  <2> QED BY <2>2, <2>3
<1> QED BY <1>1, ClusterInductive, PTL

\* Only an accepted message starts an execution.
LEMMA OnlyAccepted ==
  ASSUME ClusterInv, [ClusterNext]_clusterVars, NEW w \in Worker, NEW t \in TaskId,
         execution[w][t].pc # "created", execution'[w][t].pc = "created"
  PROVE  Node!AcceptTask(w) /\ Head(toWorker[ws[w]]).task = t
<1>1. Node!NodeTypeOK /\ WiresTyped
  BY DEF ClusterInv, NodeInv
<1>2. ASSUME execution' = execution PROVE FALSE
  BY <1>2
<1>3. ASSUME NEW v \in Worker, Node!Disconnect(v) PROVE FALSE
  <2>1. execution' = Node!CancelAll(v, running_tasks[v])
    BY <1>3 DEF Node!Disconnect
  <2> QED BY <1>1, <2>1, Cancels
<1>4. ASSUME NEW v \in Worker, Node!Crash(v) PROVE FALSE
  BY <1>1, <1>4, CrashMoves
<1>5. ASSUME NEW v \in Worker, Node!ReceiveCancel(v) PROVE FALSE
  <2> DEFINE S == {Head(toWorker[ws[v]]).task} \cap running_tasks[v]
  <2>1. execution' = Node!CancelAll(v, S)
    BY <1>5 DEF Node!ReceiveCancel
  <2> HIDE DEF S
  <2> QED BY <1>1, <2>1, Cancels
<1>6. ASSUME NEW v \in Worker, NEW u \in TaskId, Node!Start(v, u) \/ Node!Finish(v, u) \/ Node!Report(v, u)
      PROVE  FALSE
  <2>1. /\ \A x \in Worker, y \in TaskId : x # v \/ y # u => execution'[x][y].pc = execution[x][y].pc
        /\ Node!Start(v, u) => execution'[v][u].pc = "running"
        /\ Node!Finish(v, u) => execution'[v][u].pc = "reporting"
        /\ Node!Report(v, u) => execution'[v][u].pc = "done"
    BY <1>1, <1>6, ExecutionMoves
  <2> QED BY <1>6, <2>1
<1>7. ASSUME NEW v \in Worker, Node!AcceptTask(v)
      PROVE  v = w /\ Head(toWorker[ws[w]]).task = t
  <2> DEFINE u == Head(toWorker[ws[v]]).task
  <2>1. execution' = WithPc(v, u, "created") /\ Node!Incoming(v, "run_task")
    BY <1>7 DEF Node!AcceptTask, WithPc
  <2>2. u \in TaskId
    BY <1>1, <2>1, HeadTask
  <2>3. execution'[w][t].pc = IF w = v /\ t = u THEN "created" ELSE execution[w][t].pc
    <3> HIDE DEF u
    <3> QED BY <1>1, <2>1, <2>2, Cell DEF Working
  <2> QED BY <2>3
<1>8. CASE ConnStep
  <2>1. ASSUME NEW v \in Worker, NEW k \in Conn, Open(v, k) PROVE FALSE
    BY <1>2, <2>1 DEF Open, Node!Open
  <2>2. ASSUME NEW k \in Conn, EndpointEnds(k) PROVE FALSE
    BY <1>2, <2>2 DEF EndpointEnds, nodeVars
  <2>3. ASSUME NEW k \in Conn, Node!Drop(k) PROVE FALSE
    BY <1>2, <2>3 DEF Node!Drop
  <2> QED BY <1>3, <1>4, <1>8, <2>1, <2>2, <2>3 DEF ConnStep
<1>9. CASE NodeStep
  <2>1. ASSUME NEW v \in Worker, BeatStep(v) PROVE FALSE
    BY <1>2, <2>1 DEF BeatStep, NodesUnchanged
  <2>2. ASSUME NEW v \in Worker, Node!ReceiveNotRegistered(v) \/ Node!RejectTask(v) PROVE FALSE
    BY <1>2, <2>2 DEF Node!ReceiveNotRegistered, Node!RejectTask
  <2>3. PICK v \in Worker : Node!ReceiveStep(v) \/ Node!ExecutionStep(v)
    BY <1>9, <2>1 DEF NodeStep
  <2> QED BY <1>5, <1>6, <1>7, <2>2, <2>3 DEF Node!ReceiveStep, Node!ExecutionStep
<1>10. CASE ReceiveStep \/ DispatchStep
  BY <1>2, <1>10 DEF ReceiveStep, HubRegister, HubResult, DispatchStep, NodesUnchanged
<1>11. CASE ClusterSweeperStep
  BY <1>2, <1>11 DEF ClusterSweeperStep, ClusterSweep, CancelNotice, NodesUnchanged, nodeVars
<1>12. CASE Clients \/ UNCHANGED clusterVars
  BY <1>2, <1>12 DEF Clients, clusterVars, nodeVars
<1> QED BY <1>8, <1>9, <1>10, <1>11, <1>12 DEF ClusterNext

\* No task is executed twice, by one worker or by two.
THEOREM ExecutionsAreUnique == ClusterSpec => ExecutedOnce
<1>1. ASSUME ClusterInv, [ClusterNext]_clusterVars
      PROVE  [\A w \in Worker, t \in TaskId :
                execution[w][t].pc # "created" /\ execution'[w][t].pc = "created"
                  => \A u \in Worker : execution[u][t].pc = "none"]_clusterVars
  <2> SUFFICES ASSUME NEW w \in Worker, NEW t \in TaskId,
                      execution[w][t].pc # "created", execution'[w][t].pc = "created"
               PROVE  \A u \in Worker : execution[u][t].pc = "none"
    OBVIOUS
  <2> DEFINE k == ws[w]
             m == Head(toWorker[k])
  <2>1. Node!Incoming(w, "run_task") /\ m.task = t
    BY <1>1, OnlyAccepted DEF Node!AcceptTask
  <2>2. k \in Conn /\ m = Node!RunTaskWire(m.task) /\ On(toWorker[k], m)
    BY <1>1, <2>1, NodeReads
  <2>3. On(toWorker[k], Node!RunTaskWire(t))
    BY <2>1, <2>2
  <2>4. Traced(t)
    BY <1>1 DEF ClusterInv
  <2> HIDE DEF k
  <2> QED BY <2>2, <2>3, <2>4 DEF Traced, MessageOnce
<1> QED BY <1>1, ClusterInductive, PTL DEF ClusterSpec, ExecutedOnce

\* Only the end of an endpoint closes it.
LEMMA OnlyEnded ==
  ASSUME ClusterInv, [ClusterNext]_clusterVars, NEW k \in Conn,
         endpoint[k].status # "closed", endpoint'[k].status = "closed"
  PROVE  EndpointEnds(k)
<1>1. EndpointsTyped
  BY DEF ClusterInv
<1>2. ASSUME endpoint' = endpoint PROVE FALSE
  BY <1>2
<1>3. ASSUME NEW c \in Conn, NEW e, e.status # "closed", endpoint' = [endpoint EXCEPT ![c] = e] PROVE FALSE
  BY <1>1, <1>3 DEF EndpointsTyped
<1>4. CASE ConnStep
  <2>1. ASSUME NEW v \in Worker, NEW c \in Conn, Open(v, c) PROVE FALSE
    <3> DEFINE e == [worker |-> v, status |-> "open"]
    <3>1. e.status # "closed" /\ endpoint' = [endpoint EXCEPT ![c] = e]
      BY <2>1 DEF Open, Connect
    <3> HIDE DEF e
    <3> QED BY <1>3, <3>1
  <2>2. ASSUME UNCHANGED vars PROVE FALSE
    BY <1>2, <2>2 DEF vars, serverVars
  <2>3. ASSUME NEW c \in Conn, EndpointEnds(c) PROVE c = k
    <3> DEFINE e == [endpoint[c] EXCEPT !.status = "closed"]
    <3>1. endpoint' = [endpoint EXCEPT ![c] = e]
      BY <2>3 DEF EndpointEnds, Close
    <3> HIDE DEF e
    <3> QED BY <1>1, <3>1 DEF EndpointsTyped
  <2> QED BY <1>4, <2>1, <2>2, <2>3 DEF ConnStep
<1>5. CASE NodeStep
  BY <1>2, <1>5 DEF NodeStep, BeatStep, HeartbeatMsg, vars, serverVars
<1>6. CASE ReceiveStep
  <2>1. PICK c \in Conn : HubRegister(c) \/ HubResult(c)
    BY <1>6 DEF ReceiveStep
  <2>2. CASE HubRegister(c)
    <3> DEFINE e == [endpoint[c] EXCEPT !.status = "registered"]
    <3>1. endpoint' = [endpoint EXCEPT ![c] = e]
      BY <2>2 DEF HubRegister, RegisterMsg, RegisterRefused
    <3>2. e.status # "closed"
      BY <1>1 DEF EndpointsTyped, EndpointRecord
    <3> HIDE DEF e
    <3> QED BY <1>3, <3>1, <3>2
  <2>3. CASE HubResult(c)
    BY <1>2, <2>3 DEF HubResult, ResultMsg, vars, serverVars
  <2> QED BY <2>1, <2>2, <2>3
<1>7. CASE DispatchStep \/ Clients \/ UNCHANGED clusterVars
  BY <1>2, <1>7 DEF DispatchStep, Clients, clusterVars, vars, serverVars
<1>8. CASE ClusterSweeperStep
  BY <1>2, <1>8 DEF ClusterSweeperStep, ClusterSweep, SweepSockets, CancelNotice, serverVars
<1> QED BY <1>4, <1>5, <1>6, <1>7, <1>8 DEF ClusterNext

\* A worker that reconnected loses neither its registration nor its tasks when the
\* endpoint of its older socket ends.
THEOREM OldSocketsEndQuietly == ClusterSpec => OldSocketEndsQuietly
<1>1. ASSUME ClusterInv, [ClusterNext]_clusterVars
      PROVE  [\A k \in Conn :
                LET w == endpoint[k].worker IN
                /\ endpoint[k].status # "closed" /\ endpoint'[k].status = "closed"
                /\ socket[w] \notin {k, NoConn}
                => /\ socket'[w] = socket[w]
                   /\ workers'[w] = workers[w] /\ RunningOn(tasks', w) = RunningOn(tasks, w)]_vars
  <2> SUFFICES ASSUME NEW k \in Conn, endpoint[k].status # "closed", endpoint'[k].status = "closed",
                      socket[endpoint[k].worker] # k
               PROVE  UNCHANGED <<socket, workers, tasks>>
    BY DEF RunningOn
  <2>1. EndpointEnds(k)
    BY <1>1, OnlyEnded
  <2>2. UNCHANGED hubVars /\ socket' = socket
    BY <2>1 DEF EndpointEnds, Close
  <2> QED BY <2>2 DEF hubVars
<1> QED BY <1>1, ClusterInductive, PTL DEF ClusterSpec, OldSocketEndsQuietly

\* The table of futures keeps its shape.
FuturesTyped ==
  /\ pending \subseteq TaskId
  /\ future \in [TaskId -> FutureState]
  /\ cause \in [TaskId -> Cause]

LEMMA SettleTyped ==
  ASSUME FuturesTyped, NEW S, NEW value \in [TaskId -> FutureState], Settle(S, value)
  PROVE  pending' \subseteq TaskId /\ future' \in [TaskId -> FutureState]
BY DEF FuturesTyped, Settle

LEMMA NextFutures ==
  ASSUME ClusterInv, FuturesTyped, [ClusterNext]_clusterVars
  PROVE  FuturesTyped'
<1>1. ASSUME UNCHANGED <<pending, future, cause>> PROVE FuturesTyped'
  BY <1>1 DEF FuturesTyped
<1>2. ASSUME UNCHANGED vars \/ UNCHANGED serverVars PROVE FuturesTyped'
  BY <1>1, <1>2 DEF vars, serverVars
<1>3. ASSUME NEW k \in Conn, EndpointEnds(k) PROVE FuturesTyped'
  <2> DEFINE lost == [t \in TaskId |-> "lost"]
             ended == RunningOn(tasks, endpoint[k].worker)
  <2>1. CASE /\ cause' = [t \in TaskId |-> IF t \in ended \cap pending THEN "lost" ELSE cause[t]]
             /\ Settle(ended, lost)
    <3>1. cause' \in [TaskId -> Cause]
      BY <2>1 DEF FuturesTyped, Cause
    <3>2. lost \in [TaskId -> FutureState]
      BY DEF FutureState
    <3> HIDE DEF lost, ended
    <3> QED BY <2>1, <3>1, <3>2, SettleTyped DEF FuturesTyped
  <2> QED BY <1>1, <1>3, <2>1 DEF EndpointEnds, Close
<1>4. ASSUME NEW k \in Conn, HubResult(k), ~UNCHANGED vars PROVE FuturesTyped'
  <2> DEFINE t == Head(toHub[k]).task
             s == Head(toHub[k]).status
             value == [u \in TaskId |-> IF s = "completed" THEN "output" ELSE "error"]
  <2>1. /\ Settle({t}, value)
        /\ \/ cause' = [cause EXCEPT ![t] = "error"]
           \/ cause' = [cause EXCEPT ![t] = cause[t]]
    BY <1>4 DEF HubResult, ResultMsg
  <2>2. value \in [TaskId -> FutureState]
    BY DEF FutureState
  <2>3. cause' \in [TaskId -> Cause]
    BY <2>1 DEF FuturesTyped, Cause
  <2> HIDE DEF value
  <2> QED BY <2>1, <2>2, <2>3, SettleTyped DEF FuturesTyped
<1>5. ASSUME NEW s \in Sweeper, NEW expired \in SUBSET TaskId, ClusterSweep(s, expired) PROVE FuturesTyped'
  <2>1. UNCHANGED <<pending, future>> /\ cause' \in [TaskId -> Cause]
    BY <1>5 DEF ClusterSweep, SweepSockets, FuturesTyped, Cause
  <2> QED BY <2>1 DEF FuturesTyped
<1>6. CASE ConnStep
  BY <1>1, <1>2, <1>3, <1>6 DEF ConnStep, Open, Connect
<1>7. CASE NodeStep
  BY <1>2, <1>7 DEF NodeStep, BeatStep, HeartbeatMsg
<1>8. CASE ReceiveStep
  BY <1>1, <1>2, <1>4, <1>8 DEF ReceiveStep, HubRegister, RegisterMsg, RegisterRefused
<1>9. CASE DispatchStep \/ Clients
  BY <1>2, <1>9 DEF DispatchStep, Clients
<1>10. CASE ClusterSweeperStep
  BY <1>2, <1>5, <1>10 DEF ClusterSweeperStep, CancelNotice
<1>11. CASE UNCHANGED clusterVars
  BY <1>2, <1>11 DEF clusterVars
<1> QED BY <1>6, <1>7, <1>8, <1>9, <1>10, <1>11 DEF ClusterNext

\* Every variable of the cluster, but for what is on the wires, keeps the shape its
\* comment gives it; ClusterInv has the wires.
THEOREM ClusterTypesAreKept == ClusterSpec => []ClusterTypeOK
<1>1. ClusterInit => FuturesTyped
  BY DEF ClusterInit, ServerInit, FuturesTyped, FutureState, Cause
<1>2. ClusterInv /\ FuturesTyped /\ [ClusterNext]_clusterVars => FuturesTyped'
  BY NextFutures
<1>3. ClusterInv /\ FuturesTyped => ClusterTypeOK
  BY DEF ClusterInv, FuturesTyped, ClusterTypeOK, ServerTypeOK, EndpointsTyped, IInv, NodeInv
<1> QED BY <1>1, <1>2, <1>3, ClusterInductive, PTL DEF ClusterSpec

-----------------------------------------------------------------------------
(* The cluster as a task board *)

BoardMoves ==
  /\ task_counter' \in {task_counter, task_counter + 1}
  /\ \A t \in TaskId : TaskMoves(t)

\* The handlers that write a status after the pass move tasks like any other.
LEMMA ThenSetTaskMoves ==
  ASSUME IInv, NEW info, NEW ts, Closing(ts), NEW w, NEW s,
         ProcessQueueThenSet(info, ts, w, s), task_counter' = task_counter
  PROVE  BoardMoves
<1>1. PICK a \in Passes(info, ts, Backlog(ts)) : tasks' = Start(ts, a)
  BY DEF ProcessQueueThenSet
<1>2. ts \in [TaskId -> TaskRecord] /\ task_queue \subseteq TaskId
  BY DEF Closing, IInv, TypeOK
<1>3. ASSUME NEW t \in TaskId PROVE TaskMoves(t)
  <2>1. \/ tasks'[t] = ts[t]
        \/ ts[t].status = "pending" /\ tasks'[t].status = "running" /\ tasks'[t].worker_id \in Worker
    BY <1>1, <1>2, PassStarts
  <2>2. Closes(tasks[t], ts[t])
    BY DEF Closing
  <2> QED BY <2>1, <2>2 DEF Closes, TaskMoves, Terminal
<1> QED BY <1>3 DEF BoardMoves

LEMMA RegisterTaskMoves ==
  ASSUME IInv, NEW k \in Conn, NEW roles \in RoleLists, RegisterMsg(k, roles)
  PROVE  BoardMoves
<1> DEFINE w == endpoint[k].worker
           s == IF workers[w].status = "busy" \/ RunningOn(tasks, w) # {} THEN "busy" ELSE "idle"
           info == [workers EXCEPT ![w] = [status |-> s, roles |-> roles, age |-> "fresh"]]
<1>1. ProcessQueueThenSet(info, tasks, w, s) /\ task_counter' = task_counter
  BY DEF RegisterMsg
<1>2. Closing(tasks)
  BY DEF Closing, Closes, IInv, TypeOK
<1> HIDE DEF info, s, w
<1> QED BY <1>1, <1>2, ThenSetTaskMoves

LEMMA ResultTaskMoves ==
  ASSUME IInv, NEW k \in Conn, NEW t \in TaskId, NEW s \in Terminal, ResultMsg(k, t, s)
  PROVE  BoardMoves
<1> DEFINE w == endpoint[k].worker
           info == SetStatus(workers, {w}, "idle")
           r == [tasks[t] EXCEPT !.status = s]
           ended == [tasks EXCEPT ![t] = r]
           ts == IF tasks[t].status = "running" THEN ended ELSE tasks
<1>1. ProcessQueueThenSet(info, ts, w, "idle") /\ task_counter' = task_counter
  BY DEF ResultMsg
<1>2. tasks \in [TaskId -> TaskRecord]
  BY DEF IInv, TypeOK
<1>3. r \in TaskRecord /\ r.status = s /\ r.worker_id = tasks[t].worker_id
  BY <1>2, TaskAssign
<1> HIDE DEF info, w, r
<1>4. tasks[t].status = "running" => Closing(ended)
  BY <1>2, <1>3 DEF Closing, Closes
<1>5. Closing(tasks)
  BY <1>2 DEF Closing, Closes
<1>6. Closing(ts)
  BY <1>4, <1>5
<1> HIDE DEF ts
<1> QED BY <1>1, <1>6, ThenSetTaskMoves

\* Every step of the cluster, whoever takes it, moves tasks as a step of the hub does.
LEMMA ClusterTaskMoves ==
  ASSUME ClusterInv, [ClusterNext]_clusterVars
  PROVE  BoardMoves
<1>1. IInv
  BY DEF ClusterInv
<1>2. ASSUME [Next]_hubVars PROVE BoardMoves
  BY <1>1, <1>2, EveryTaskMoves DEF BoardMoves
<1>3. ASSUME UNCHANGED vars PROVE BoardMoves
  BY <1>2, <1>3 DEF vars
<1>4. CASE ConnStep
  <2>1. ASSUME NEW k \in Conn, EndpointEnds(k) PROVE BoardMoves
    <3>1. CASE UNCHANGED hubVars
      BY <1>2, <3>1
    <3>2. CASE endpoint[k].status = "registered" /\ Deregister(endpoint[k].worker)
      <4>1. endpoint[k].worker \in Worker
        BY <3>2, EndpointWorker
      <4> QED BY <1>2, <3>2, <4>1 DEF Next, WorkerStep
    <3> QED BY <2>1, <3>1, <3>2 DEF EndpointEnds, Close
  <2> QED BY <1>2, <1>3, <1>4, <2>1 DEF ConnStep, Open, Connect
<1>5. CASE NodeStep
  <2>1. ASSUME NEW w \in Worker, BeatStep(w), ~UNCHANGED vars PROVE BoardMoves
    <3> DEFINE k == ws[w]
    <3>1. endpoint[k].status = "registered" /\ Heartbeat(endpoint[k].worker)
      BY <2>1 DEF BeatStep, HeartbeatMsg
    <3>2. UNCHANGED <<tasks, task_counter>>
      BY <3>1 DEF Heartbeat
    <3> QED BY <3>2 DEF BoardMoves, TaskMoves
  <2> QED BY <1>3, <1>5, <2>1 DEF NodeStep
<1>6. CASE ReceiveStep
  <2>1. PICK k \in Conn : HubRegister(k) \/ HubResult(k)
    BY <1>6 DEF ReceiveStep
  <2>2. CASE HubRegister(k)
    BY <1>1, <1>2, <2>2, RegisterTaskMoves DEF HubRegister, RegisterRefused
  <2>3. CASE HubResult(k)
    <3> DEFINE m == Head(toHub[k])
    <3>1. UNCHANGED vars \/ ResultMsg(k, m.task, m.status)
      BY <2>3 DEF HubResult
    <3>2. m \in HubMessage /\ m.type = "result"
      <4>1. toHub[k] \in Seq(HubMessage) /\ toHub[k] # <<>> /\ m.type = "result"
        BY <2>3 DEF HubResult, Incoming, ClusterInv, WiresTyped
      <4> QED BY <4>1, Reads
    <3>3. m.task \in TaskId /\ m.status \in Terminal
      BY <3>2 DEF HubMessage
    <3> HIDE DEF m
    <3> QED BY <1>1, <1>3, <3>1, <3>3, ResultTaskMoves
  <2> QED BY <2>1, <2>2, <2>3
<1>7. CASE DispatchStep
  BY <1>2, <1>7 DEF DispatchStep, HubDispatch, Next, CoroutineStep
<1>8. CASE ClusterSweeperStep
  BY <1>2, <1>8 DEF ClusterSweeperStep, ClusterSweep, SweepSockets, CancelNotice, Next, SweeperStep
<1>9. CASE Clients
  BY <1>2, <1>9 DEF Clients, Next, ClientStep
<1>10. CASE UNCHANGED clusterVars
  BY <1>3, <1>10 DEF clusterVars
<1> QED BY <1>4, <1>5, <1>6, <1>7, <1>8, <1>9, <1>10 DEF ClusterNext

\* The store of the cluster implements the task board: real nodes that crash, answer late
\* and register again make a task move no other way than the hub alone does.
THEOREM ClusterImplementsBoard == ClusterSpec => ImplementsTaskBoard
<1>1. ClusterInit => Board!Init
  BY DEF ClusterInit, ServerInit, Init, Board!Init, NoTask, Board!Blank
<1>2. ClusterInv /\ [ClusterNext]_clusterVars => [Board!Next]_<<[t \in TaskId |-> [status |-> tasks[t].status, worker_id |-> tasks[t].worker_id]], task_counter>>
  <2> SUFFICES ASSUME ClusterInv, [ClusterNext]_clusterVars PROVE Board!Next
    OBVIOUS
  <2> DEFINE card(t) == [status |-> tasks[t].status, worker_id |-> tasks[t].worker_id]
             new(t) == [status |-> tasks'[t].status, worker_id |-> tasks'[t].worker_id]
  <2>1. BoardMoves
    BY ClusterTaskMoves
  <2>2. ASSUME NEW t \in TaskId
        PROVE  \/ Board!Moves(card(t), new(t))
               \/ /\ t = task_counter + 1 /\ task_counter' = t
                  /\ card(t) = Board!Blank /\ Board!Accepted(new(t))
    BY <2>1 DEF BoardMoves, TaskMoves, Board!Moves, Board!Accepted, Board!Blank, NoTask, Terminal
  <2> QED BY <2>1, <2>2 DEF Board!Next, BoardMoves
<1> QED BY <1>1, <1>2, ClusterInductive, PTL DEF ClusterSpec, ImplementsTaskBoard, Board!Spec
=============================================================================
