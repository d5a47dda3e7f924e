---------------------------- MODULE StoreProofs ----------------------------
(***************************************************************************)
(* Proofs about Store, for any number of threads, writer threads, tokens   *)
(* and artifacts: a token is accepted once before its exp, and what        *)
(* publish returned is in the database.                                    *)
(***************************************************************************)
EXTENDS Store, TLAPS

-----------------------------------------------------------------------------
(* Tokens *)

\* A token that was accepted and is not past its exp is in the table, which is what
\* makes the next INSERT of it fail.
TokenInv ==
  /\ admitted \in [Jti -> Nat]
  /\ age \in [Jti -> {"valid", "leeway", "expired"}]
  /\ \A j \in Jti :
       /\ admitted[j] <= 1
       /\ admitted[j] = 1 /\ age[j] = "valid" => j \in seen_jtis

\* What the steps do to the three variables of TokenInv: nothing, except the four of
\* the anti-replay table.
LEMMA TokenSteps ==
  ASSUME StoreNext
  PROVE  \/ UNCHANGED <<admitted, age, seen_jtis>>
         \/ \E w \in WriterId : LookForJti(w) \/ InsertJti(w)
         \/ \E j \in Jti : Ages(j)
  BY DEF StoreNext, VerifyToken, Submitted, Publish, LogConversation, CallerStep, CheckWriter,
         MakeWriter, StartWriter, PutTask, TaskEnds, WriterStep, GetTask, Connect, InsertRow,
         WriteFails, storeVars

\* TokenInv is inductive.
LEMMA TokenStep == TokenInv /\ [StoreNext]_storeVars => TokenInv'
  <1> SUFFICES ASSUME TokenInv, [StoreNext]_storeVars PROVE TokenInv'
    OBVIOUS
  <1>1. CASE UNCHANGED <<admitted, age, seen_jtis>>
    BY <1>1 DEF TokenInv
  <1>2. ASSUME NEW w \in WriterId, LookForJti(w) PROVE TokenInv'
    <2>1. UNCHANGED <<admitted, age>>
          /\ \A j \in Jti : j \in seen_jtis /\ age[j] = "valid" => j \in seen_jtis'
      BY <1>2 DEF LookForJti
    <2> QED BY <2>1 DEF TokenInv
  <1>3. ASSUME NEW w \in WriterId, InsertJti(w) PROVE TokenInv'
    <2> DEFINE k == caller[writer[w].for].task.item
    <2>1. CASE k \in seen_jtis /\ UNCHANGED <<seen_jtis, admitted, age>>
      BY <2>1 DEF TokenInv
    <2>2. CASE k \notin seen_jtis /\ seen_jtis' = seen_jtis \cup {k} /\ Admit(w, k) /\ age' = age
      <3>1. CASE age[k] = "valid" /\ k \in Jti
        <4>1. admitted' = [admitted EXCEPT ![k] = @ + 1]
          BY <2>2, <3>1 DEF Admit
        <4>2. admitted[k] = 0
          BY <2>2, <3>1 DEF TokenInv
        <4> QED BY <2>2, <3>1, <4>1, <4>2 DEF TokenInv
      <3>2. CASE ~(age[k] = "valid" /\ k \in Jti)
        <4>1. admitted' = admitted
          BY <2>2, <3>2 DEF Admit, TokenInv
        <4> QED BY <2>2, <4>1 DEF TokenInv
      <3> QED BY <3>1, <3>2
    <2> QED BY <1>3, <2>1, <2>2 DEF InsertJti
  <1>4. ASSUME NEW j \in Jti, Ages(j) PROVE TokenInv'
    BY <1>4 DEF Ages, TokenInv
  <1> QED BY <1>1, <1>2, <1>3, <1>4, TokenSteps DEF storeVars

\* Until its exp a token is accepted once, whatever the interleaving of the threads and
\* of the writer threads they start.
THEOREM AcceptedOnce == StoreSpec => []TokenOnce
  <1>1. StoreInit => TokenInv
    BY DEF StoreInit, TokenInv
  <1>2. TokenInv => TokenOnce
    BY DEF TokenInv, TokenOnce
  <1> QED BY <1>1, <1>2, TokenStep, PTL DEF StoreSpec
-----------------------------------------------------------------------------
(* Artifacts *)

CallerRecord ==
  [pc : {"idle", "checking", "making", "starting", "putting", "waiting"}, task : Task \cup {NoTask}]
WriterRecord ==
  [pc : {"unmade", "made", "waiting", "connecting", "running", "inserting"},
   for : Thread \cup {NoThread}, conn : {"none", "bus", "genius"}]

Typed ==
  /\ caller \in [Thread -> CallerRecord]
  /\ writer \in [WriterId -> WriterRecord]
  /\ event \in [Thread -> {"unset", "ok", "replay", "error"}]
  /\ write_queue \in Seq(Thread)

Waiting == {t \in Thread : caller[t].pc = "waiting" /\ event[t] = "unset"}
Serving(w) == writer[w].pc \in {"connecting", "running", "inserting"}

\* A task that is queued or being written belongs to one thread, which waits for it and
\* has no other: so the outcome a thread wakes up to is that of its own task.
Exclusive ==
  /\ \A t \in Thread : event[t] # "unset" => caller[t].pc = "waiting"
  /\ \A i \in 1..Len(write_queue) : write_queue[i] \in Waiting
  /\ \A i, k \in 1..Len(write_queue) : i # k => write_queue[i] # write_queue[k]
  /\ \A w \in WriterId : Serving(w) =>
       /\ writer[w].for \in Waiting
       /\ \A v \in WriterId : v # w /\ Serving(v) => writer[v].for # writer[w].for
       /\ \A i \in 1..Len(write_queue) : write_queue[i] # writer[w].for

\* The row is there before the thread is woken.
Written ==
  /\ \A w \in WriterId : writer[w].pc = "inserting" => caller[writer[w].for].task.kind = "token"
  /\ \A t \in Thread : event[t] = "ok" /\ caller[t].task.item \in ArtifactId
                         => caller[t].task.item \in artifacts
  /\ published \subseteq artifacts

ArtifactInv == Typed /\ Exclusive /\ Written

\* Only an artifact is in ArtifactId.
LEMMA KindsApart ==
  ASSUME NEW task \in Task \cup {NoTask}, task.kind # "artifact"
  PROVE  task.item \notin ArtifactId
  BY StoreAssumption DEF Task, NoTask, NoItem

\* Assigning pc changes nothing else of a record.
LEMMA CallerAssign ==
  ASSUME NEW r \in CallerRecord, NEW pc \in {"idle", "checking", "making", "starting", "putting", "waiting"}
  PROVE  /\ [r EXCEPT !.pc = pc] \in CallerRecord
         /\ [r EXCEPT !.pc = pc].pc = pc
         /\ [r EXCEPT !.pc = pc].task = r.task
  BY DEF CallerRecord

\* So a thread that goes on keeps its task.
LEMMA CallerGoes ==
  ASSUME caller \in [Thread -> CallerRecord], NEW t \in Thread,
         NEW pc \in {"idle", "checking", "making", "starting", "putting", "waiting"}, Goto(t, pc)
  PROVE  /\ caller' \in [Thread -> CallerRecord]
         /\ caller'[t].pc = pc
         /\ \A u \in Thread : caller'[u].task = caller[u].task /\ (u # t => caller'[u] = caller[u])
  <1> DEFINE r == [caller[t] EXCEPT !.pc = pc]
  <1>1. caller' = [caller EXCEPT ![t] = r]
    BY DEF Goto
  <1>2. r \in CallerRecord /\ r.pc = pc /\ r.task = caller[t].task
    BY CallerAssign
  <1> HIDE DEF r
  <1> QED BY <1>1, <1>2

\* Assigning pc changes nothing else of the record of a writer.
LEMMA WriterAssign ==
  ASSUME NEW r \in WriterRecord,
         NEW pc \in {"unmade", "made", "waiting", "connecting", "running", "inserting"}
  PROVE  /\ [r EXCEPT !.pc = pc] \in WriterRecord
         /\ [r EXCEPT !.pc = pc].pc = pc
         /\ [r EXCEPT !.pc = pc].for = r.for
  BY DEF WriterRecord

\* Taking a task keeps the connection.
LEMMA WriterTakes ==
  ASSUME NEW r \in WriterRecord, NEW t \in Thread
  PROVE  /\ [r EXCEPT !.pc = "connecting", !.for = t] \in WriterRecord
         /\ [r EXCEPT !.pc = "connecting", !.for = t].pc = "connecting"
         /\ [r EXCEPT !.pc = "connecting", !.for = t].for = t
  BY DEF WriterRecord

\* A thread whose task nobody has moves on; the writers at work are the same.
LEMMA CallerMoves ==
  ASSUME ArtifactInv, NEW t \in Thread, NEW r \in CallerRecord,
         caller[t].pc # "waiting", r.pc # "waiting",
         caller' = [caller EXCEPT ![t] = r],
         writer' \in [WriterId -> WriterRecord],
         \A w \in WriterId : writer'[w] = writer[w] \/ (~Serving(w) /\ ~Serving(w)'),
         UNCHANGED <<event, write_queue, artifacts, published>>
  PROVE  ArtifactInv'
  <1>1. Typed'
    BY DEF ArtifactInv, Typed
  <1>2. \A w \in WriterId : Serving(w)' => Serving(w) /\ writer'[w] = writer[w]
    BY DEF Serving
  <1>3. \A u \in Thread : u # t => caller'[u] = caller[u]
    BY DEF ArtifactInv, Typed
  <1>4. event[t] = "unset"
    BY DEF ArtifactInv, Exclusive, Typed
  <1>5. Waiting \subseteq Waiting'
    BY <1>3 DEF Waiting
  <1>6. Exclusive'
    <2>1. \A u \in Thread : event'[u] # "unset" => caller'[u].pc = "waiting"
      BY <1>3, <1>4 DEF ArtifactInv, Exclusive
    <2> QED BY <2>1, <1>2, <1>5 DEF ArtifactInv, Exclusive
  <1>7. Written'
    <2>1. \A w \in WriterId : writer'[w].pc = "inserting" =>
            caller'[writer'[w].for].task.kind = "token"
      <3> SUFFICES ASSUME NEW w \in WriterId, writer'[w].pc = "inserting"
                   PROVE  caller'[writer'[w].for].task.kind = "token"
        OBVIOUS
      <3>1. Serving(w)'
        BY DEF Serving
      <3>2. writer[w].for \in Waiting /\ writer'[w] = writer[w]
        BY <3>1, <1>2 DEF ArtifactInv, Exclusive
      <3> QED BY <3>2, <1>3 DEF Waiting, ArtifactInv, Written
    <2>2. \A u \in Thread : event'[u] = "ok" => u # t
      BY <1>4
    <2> QED BY <2>1, <2>2, <1>3 DEF ArtifactInv, Written
  <1> QED BY <1>1, <1>6, <1>7 DEF ArtifactInv

\* A writer is done with a task.
LEMMA TaskOver ==
  ASSUME ArtifactInv, NEW w \in WriterId, Serving(w),
         NEW o \in {"ok", "replay", "error"}, Over(w, o),
         UNCHANGED <<caller, write_queue, published>>,
         artifacts \subseteq artifacts',
         o = "ok" /\ caller[writer[w].for].task.item \in ArtifactId
           => caller[writer[w].for].task.item \in artifacts'
  PROVE  ArtifactInv'
  <1> DEFINE t == writer[w].for
  <1>1. t \in Waiting
    BY DEF ArtifactInv, Exclusive
  <1>2. event' = [event EXCEPT ![t] = o]
    BY DEF Over
  <1>3. PICK r \in WriterRecord : r.pc = "waiting" /\ writer' = [writer EXCEPT ![w] = r]
    <2> DEFINE r == [pc |-> "waiting", for |-> NoThread,
                     conn |-> IF o = "ok" THEN writer[w].conn ELSE "none"]
    <2>1. writer[w].conn \in {"none", "bus", "genius"}
      BY DEF ArtifactInv, Typed, WriterRecord
    <2>2. r \in WriterRecord /\ r.pc = "waiting"
      BY <2>1 DEF WriterRecord
    <2>3. writer' = [writer EXCEPT ![w] = r]
      BY DEF Over
    <2> QED BY <2>2, <2>3
  <1>4. Typed'
    BY <1>2, <1>3 DEF ArtifactInv, Typed
  <1>5. ~Serving(w)' /\ \A v \in WriterId : v # w => writer'[v] = writer[v]
    BY <1>3 DEF Serving, ArtifactInv, Typed
  <1>6. \A v \in WriterId : Serving(v)' => v # w /\ Serving(v) /\ writer'[v] = writer[v]
    BY <1>5 DEF Serving
  <1>7. \A u : u # t /\ u \in Waiting => u \in Waiting'
    BY <1>2 DEF Waiting, ArtifactInv, Typed
  <1>8. Exclusive'
    <2>1. \A u \in Thread : event'[u] # "unset" => caller'[u].pc = "waiting"
      BY <1>1, <1>2 DEF Waiting, ArtifactInv, Exclusive, Typed
    <2>2. \A i \in 1..Len(write_queue) : write_queue[i] # t
      BY DEF ArtifactInv, Exclusive
    <2>3. \A v \in WriterId : Serving(v)' => writer[v].for # t
      BY <1>6 DEF ArtifactInv, Exclusive
    <2> QED BY <2>1, <2>2, <2>3, <1>6, <1>7 DEF ArtifactInv, Exclusive
  <1>9. Written'
    <2>1. \A v \in WriterId : writer'[v].pc = "inserting" => writer'[v] = writer[v]
      BY <1>6 DEF Serving
    <2>2. \A v \in WriterId : writer'[v].pc = "inserting" =>
            caller'[writer'[v].for].task.kind = "token"
      BY <2>1 DEF ArtifactInv, Written
    <2>3. \A u \in Thread : event'[u] = "ok" /\ caller'[u].task.item \in ArtifactId
            => caller'[u].task.item \in artifacts'
      BY <1>1, <1>2 DEF Waiting, ArtifactInv, Written, Typed
    <2> QED BY <2>2, <2>3 DEF ArtifactInv, Written
  <1> QED BY <1>4, <1>8, <1>9 DEF ArtifactInv

\* A writer at work goes on with the same task.
LEMMA WriterMoves ==
  ASSUME ArtifactInv, NEW w \in WriterId, Serving(w), NEW r \in WriterRecord,
         r.for = writer[w].for, r.pc \in {"running", "inserting"},
         r.pc = "inserting" => caller[writer[w].for].task.kind = "token",
         writer' = [writer EXCEPT ![w] = r],
         UNCHANGED <<caller, event, write_queue, artifacts, published>>
  PROVE  ArtifactInv'
  <1>1. Typed'
    BY DEF ArtifactInv, Typed
  <1>2. writer'[w] = r /\ \A v \in WriterId : v # w => writer'[v] = writer[v]
    BY DEF ArtifactInv, Typed
  <1>3. \A v \in WriterId : writer'[v].for = writer[v].for /\ (Serving(v)' => Serving(v))
    BY <1>2 DEF Serving
  <1>4. Waiting \subseteq Waiting'
    BY DEF Waiting
  <1>5. Exclusive'
    BY <1>3, <1>4 DEF ArtifactInv, Exclusive
  <1>6. Written'
    BY <1>2 DEF ArtifactInv, Written
  <1> QED BY <1>1, <1>5, <1>6 DEF ArtifactInv

\* A writer takes the oldest task.
LEMMA TaskTaken ==
  ASSUME ArtifactInv, NEW w \in WriterId, GetTask(w)
  PROVE  ArtifactInv'
  <1> DEFINE t == Head(write_queue)
             r == [writer[w] EXCEPT !.pc = "connecting", !.for = t]
  <1>1. /\ write_queue \in Seq(Thread) /\ write_queue # <<>>
        /\ write_queue' = Tail(write_queue)
        /\ UNCHANGED <<caller, event, artifacts, published>>
    BY DEF GetTask, ArtifactInv, Typed
  <1>2. writer' = [writer EXCEPT ![w] = r]
    BY DEF GetTask, ArtifactInv, Typed
  <1>3. t \in Thread /\ t = write_queue[1] /\ Len(write_queue) \in Nat \ {0}
    BY <1>1
  <1>4. /\ write_queue' \in Seq(Thread) /\ Len(write_queue') = Len(write_queue) - 1
        /\ \A i \in 1..Len(write_queue') :
             i + 1 \in 1..Len(write_queue) /\ write_queue'[i] = write_queue[i + 1]
    BY <1>1
  <1>5. r \in WriterRecord /\ r.pc = "connecting" /\ r.for = t
    BY <1>3, WriterTakes DEF ArtifactInv, Typed
  <1>6. Typed'
    BY <1>1, <1>2, <1>4, <1>5 DEF ArtifactInv, Typed
  <1>7. writer'[w] = r /\ \A v \in WriterId : v # w => writer'[v] = writer[v]
    BY <1>2 DEF ArtifactInv, Typed
  <1>8. Waiting' = Waiting
    BY <1>1 DEF Waiting
  <1>9. ~Serving(w) /\ \A v \in WriterId : v # w => (Serving(v)' <=> Serving(v))
    BY <1>5, <1>7 DEF Serving, GetTask
  <1>10. Exclusive'
    <2>1. \A i \in 1..Len(write_queue') : write_queue'[i] \in Waiting'
      BY <1>4, <1>8 DEF ArtifactInv, Exclusive
    <2>2. \A i, k \in 1..Len(write_queue') : i # k => write_queue'[i] # write_queue'[k]
      <3> SUFFICES ASSUME NEW i \in 1..Len(write_queue'), NEW k \in 1..Len(write_queue'), i # k
                   PROVE  write_queue'[i] # write_queue'[k]
        OBVIOUS
      <3>1. i \in Int /\ k \in Int
        OBVIOUS
      <3>2. i + 1 # k + 1
        BY <3>1
      <3>3. write_queue[i + 1] # write_queue[k + 1]
        BY <3>2, <1>4 DEF ArtifactInv, Exclusive
      <3> QED BY <3>3, <1>4
    <2>3. \A i \in 1..Len(write_queue') : write_queue'[i] # t
      <3> SUFFICES ASSUME NEW i \in 1..Len(write_queue') PROVE write_queue'[i] # t
        OBVIOUS
      <3>1. i + 1 # 1 /\ 1 \in 1..Len(write_queue)
        BY <1>3, <1>4
      <3> QED BY <3>1, <1>3, <1>4 DEF ArtifactInv, Exclusive
    <2>4. t \in Waiting
      BY <1>3 DEF ArtifactInv, Exclusive
    <2>5. \A v \in WriterId : Serving(v) => writer[v].for # t
      BY <1>3 DEF ArtifactInv, Exclusive
    <2>6. ASSUME NEW v \in WriterId, Serving(v)'
          PROVE  /\ writer'[v].for \in Waiting'
                 /\ \A x \in WriterId : x # v /\ Serving(x)' => writer'[x].for # writer'[v].for
                 /\ \A i \in 1..Len(write_queue') : write_queue'[i] # writer'[v].for
      <3>1. CASE v = w
        <4>1. writer'[v].for = t
          BY <3>1, <1>5, <1>7
        <4> QED BY <3>1, <4>1, <2>3, <2>4, <2>5, <1>7, <1>8, <1>9
      <3>2. CASE v # w
        <4>1. Serving(v) /\ writer'[v] = writer[v]
          BY <2>6, <3>2, <1>7, <1>9
        <4>2. writer'[w].for = t /\ writer[v].for # t
          BY <4>1, <2>5, <1>5, <1>7
        <4>3. \A x \in WriterId : x # v /\ Serving(x)' => writer'[x].for # writer'[v].for
          BY <4>1, <4>2, <1>7, <1>9 DEF ArtifactInv, Exclusive
        <4>4. \A i \in 1..Len(write_queue') : write_queue'[i] # writer'[v].for
          BY <4>1, <1>4 DEF ArtifactInv, Exclusive
        <4>5. writer'[v].for \in Waiting'
          BY <4>1, <1>8 DEF ArtifactInv, Exclusive
        <4> QED BY <4>3, <4>4, <4>5
      <3> QED BY <3>1, <3>2
    <2>7. \A u \in Thread : event'[u] # "unset" => caller'[u].pc = "waiting"
      BY <1>1 DEF ArtifactInv, Exclusive
    <2> QED BY <2>1, <2>2, <2>6, <2>7 DEF Exclusive
  <1>11. Written'
    BY <1>1, <1>5, <1>7 DEF ArtifactInv, Written
  <1> QED BY <1>6, <1>10, <1>11 DEF ArtifactInv

\* A thread queues its task, and from then on waits.
LEMMA TaskPut ==
  ASSUME ArtifactInv, NEW t \in Thread, PutTask(t)
  PROVE  ArtifactInv'
  <1> DEFINE n == Len(write_queue)
  <1>1. /\ caller[t].pc = "putting"
        /\ write_queue' = Append(write_queue, t)
        /\ Goto(t, "waiting")
        /\ UNCHANGED <<writer, event, artifacts, published>>
    BY DEF PutTask
  <1>2. /\ n \in Nat /\ write_queue' \in Seq(Thread) /\ Len(write_queue') = n + 1
        /\ write_queue'[n + 1] = t
        /\ \A i \in 1..Len(write_queue') : i # n + 1 => i \in 1..n /\ write_queue'[i] = write_queue[i]
    BY <1>1 DEF ArtifactInv, Typed
  <1>3. /\ caller' \in [Thread -> CallerRecord]
        /\ caller'[t].pc = "waiting"
        /\ \A u \in Thread : caller'[u].task = caller[u].task /\ (u # t => caller'[u] = caller[u])
    BY <1>1, CallerGoes DEF ArtifactInv, Typed
  <1>4. event[t] = "unset" /\ t \notin Waiting
    BY <1>1 DEF Waiting, ArtifactInv, Exclusive, Typed
  <1>5. t \in Waiting' /\ Waiting \subseteq Waiting'
    BY <1>1, <1>3, <1>4 DEF Waiting
  <1>6. Typed'
    BY <1>1, <1>2, <1>3 DEF ArtifactInv, Typed
  <1>7. Exclusive'
    <2>1. \A u \in Thread : event'[u] # "unset" => caller'[u].pc = "waiting"
      BY <1>1, <1>3 DEF ArtifactInv, Exclusive
    <2>2. \A i \in 1..Len(write_queue') : write_queue'[i] \in Waiting'
      BY <1>2, <1>5 DEF ArtifactInv, Exclusive
    <2>3. \A i \in 1..n : write_queue[i] # t
      BY <1>4 DEF ArtifactInv, Exclusive
    <2>4. \A i, k \in 1..Len(write_queue') : i # k => write_queue'[i] # write_queue'[k]
      BY <1>2, <2>3 DEF ArtifactInv, Exclusive
    <2>5. ASSUME NEW w \in WriterId, Serving(w)'
          PROVE  /\ writer'[w].for \in Waiting'
                 /\ \A v \in WriterId : v # w /\ Serving(v)' => writer'[v].for # writer'[w].for
                 /\ \A i \in 1..Len(write_queue') : write_queue'[i] # writer'[w].for
      <3>1. Serving(w) /\ \A v \in WriterId : Serving(v)' => Serving(v)
        BY <2>5, <1>1 DEF Serving
      <3>2. writer[w].for \in Waiting /\ writer[w].for # t
        BY <3>1, <1>4 DEF ArtifactInv, Exclusive
      <3> QED BY <3>1, <3>2, <1>1, <1>2, <1>5 DEF ArtifactInv, Exclusive
    <2> QED BY <2>1, <2>2, <2>4, <2>5 DEF Exclusive
  <1>8. Written'
    <2>1. \A w \in WriterId : writer[w].pc = "inserting" => writer[w].for \in Thread
      BY DEF Serving, Waiting, ArtifactInv, Exclusive
    <2> QED BY <2>1, <1>1, <1>3 DEF ArtifactInv, Written
  <1> QED BY <1>6, <1>7, <1>8 DEF ArtifactInv

\* A second start of a writer raises: the task of the thread is over and in no queue.
LEMMA StartRaises ==
  ASSUME ArtifactInv, NEW t \in Thread, caller[t].pc = "starting",
         event' = [event EXCEPT ![t] = "error"], Goto(t, "waiting"),
         UNCHANGED <<writer, write_queue, artifacts, published>>
  PROVE  ArtifactInv'
  <1>1. /\ caller' \in [Thread -> CallerRecord]
        /\ caller'[t].pc = "waiting"
        /\ \A u \in Thread : caller'[u].task = caller[u].task /\ (u # t => caller'[u] = caller[u])
    BY CallerGoes DEF ArtifactInv, Typed
  <1>2. event'[t] = "error" /\ \A u \in Thread : u # t => event'[u] = event[u]
    BY DEF ArtifactInv, Typed
  <1>3. Typed'
    BY <1>1 DEF ArtifactInv, Typed
  <1>4. Waiting \subseteq Waiting'
    BY <1>1, <1>2 DEF Waiting
  <1>5. \A w \in WriterId : Serving(w)' <=> Serving(w)
    BY DEF Serving
  <1>6. Exclusive'
    BY <1>1, <1>2, <1>4, <1>5 DEF ArtifactInv, Exclusive
  <1>7. Written'
    <2>1. \A w \in WriterId : writer[w].pc = "inserting" => writer[w].for \in Thread
      BY DEF Serving, Waiting, ArtifactInv, Exclusive
    <2> QED BY <2>1, <1>1, <1>2 DEF ArtifactInv, Written
  <1> QED BY <1>3, <1>6, <1>7 DEF ArtifactInv

\* A thread wakes up: if its artifact was written, publish returns and it is published.
LEMMA ThreadWakes ==
  ASSUME ArtifactInv, NEW t \in Thread, TaskEnds(t)
  PROVE  ArtifactInv'
  <1> DEFINE r == [pc |-> "idle", task |-> NoTask]
  <1>1. /\ caller[t].pc = "waiting" /\ event[t] # "unset"
        /\ event' = [event EXCEPT ![t] = "unset"]
        /\ caller' = [caller EXCEPT ![t] = r]
        /\ UNCHANGED <<writer, write_queue, artifacts>>
    BY DEF TaskEnds
  <1>2. Typed'
    BY <1>1 DEF ArtifactInv, Typed, CallerRecord
  <1>3. event'[t] = "unset" /\ \A u \in Thread : u # t => event'[u] = event[u] /\ caller'[u] = caller[u]
    BY <1>1 DEF ArtifactInv, Typed
  <1>4. Waiting \subseteq Waiting'
    BY <1>1, <1>3 DEF Waiting
  <1>5. \A w \in WriterId : Serving(w)' <=> Serving(w)
    BY <1>1 DEF Serving
  <1>6. Exclusive'
    <2>1. \A u \in Thread : event'[u] # "unset" => caller'[u].pc = "waiting"
      BY <1>3 DEF ArtifactInv, Exclusive
    <2> QED BY <2>1, <1>1, <1>4, <1>5 DEF ArtifactInv, Exclusive
  <1>7. Written'
    <2>1. \A w \in WriterId : writer[w].pc = "inserting" =>
            writer[w].for \in Thread /\ writer[w].for # t
      BY <1>1 DEF Serving, Waiting, ArtifactInv, Exclusive
    <2>2. published' \subseteq artifacts'
      BY <1>1 DEF TaskEnds, ArtifactInv, Written
    <2> QED BY <2>1, <2>2, <1>1, <1>3 DEF ArtifactInv, Written
  <1> QED BY <1>2, <1>6, <1>7 DEF ArtifactInv

-----------------------------------------------------------------------------
(* The steps together *)

\* What a thread does to the invariant.
LEMMA ThreadStep ==
  ASSUME ArtifactInv, NEW t \in Thread,
         \/ \E j \in Jti : VerifyToken(t, j)
         \/ \E a \in ArtifactId : Publish(t, a)
         \/ LogConversation(t)
         \/ CallerStep(t)
  PROVE  ArtifactInv'
  <1> USE DEF ArtifactInv, Typed
  <1>1. ASSUME NEW task \in Task, Submitted(t, task),
               UNCHANGED <<writer, event, write_queue, artifacts, published>>
        PROVE  ArtifactInv'
    <2> DEFINE r == [pc |-> "checking", task |-> task]
    <2>1. r \in CallerRecord
      BY DEF CallerRecord
    <2>2. caller[t].pc = "idle" /\ caller' = [caller EXCEPT ![t] = r]
      BY <1>1 DEF Submitted
    <2> QED BY ONLY <2>1, <2>2, <1>1, CallerMoves, ArtifactInv DEF ArtifactInv, Typed
  <1>2. ASSUME NEW j \in Jti, VerifyToken(t, j) PROVE ArtifactInv'
    BY <1>1, <1>2 DEF VerifyToken, Task
  <1>3. ASSUME NEW a \in ArtifactId, Publish(t, a) PROVE ArtifactInv'
    BY <1>1, <1>3 DEF Publish, Task
  <1>4. CASE LogConversation(t)
    BY <1>1, <1>4 DEF LogConversation, Task
  <1>5. ASSUME NEW pc \in {"checking", "making", "starting", "putting"}, Goto(t, pc),
               caller[t].pc # "waiting",
               writer' \in [WriterId -> WriterRecord],
               \A w \in WriterId : writer'[w] = writer[w] \/ (~Serving(w) /\ ~Serving(w)'),
               UNCHANGED <<event, write_queue, artifacts, published>>
        PROVE  ArtifactInv'
    <2> DEFINE r == [caller[t] EXCEPT !.pc = pc]
    <2>1. r \in CallerRecord /\ r.pc # "waiting"
      BY CallerAssign
    <2>2. caller' = [caller EXCEPT ![t] = r]
      BY <1>5 DEF Goto
    <2> HIDE DEF r
    <2> QED BY <2>1, <2>2, <1>5, CallerMoves
  <1>6. CASE CheckWriter(t)
    BY <1>5, <1>6 DEF CheckWriter
  <1>7. CASE MakeWriter(t)
    <2>1. PICK w \in WriterId : writer[w].pc = "unmade" /\ writer' = [writer EXCEPT ![w].pc = "made"]
      BY <1>7 DEF MakeWriter
    <2> DEFINE r == [writer[w] EXCEPT !.pc = "made"]
    <2>2. r \in WriterRecord /\ r.pc = "made"
      BY WriterAssign
    <2>3. writer' = [writer EXCEPT ![w] = r]
      BY <2>1
    <2> HIDE DEF r
    <2>4. \A v \in WriterId : writer'[v] = writer[v] \/ (~Serving(v) /\ ~Serving(v)')
      BY <2>1, <2>2, <2>3 DEF Serving
    <2> QED BY <1>5, <1>7, <2>2, <2>3, <2>4 DEF MakeWriter
  <1>8. CASE StartWriter(t)
    <2>1. CASE writer[writer_thread].pc = "made"
      <3> DEFINE w == writer_thread
                 r == [writer[w] EXCEPT !.pc = "waiting"]
      <3>1. writer' = [writer EXCEPT ![w] = r] /\ Goto(t, "putting")
        BY <1>8, <2>1 DEF StartWriter
      <3>2. w \in WriterId => r \in WriterRecord /\ r.pc = "waiting"
        BY WriterAssign
      <3> HIDE DEF r
      <3>3. writer' \in [WriterId -> WriterRecord]
        BY <3>1, <3>2
      <3>4. \A v \in WriterId : writer'[v] = writer[v] \/ (~Serving(v) /\ ~Serving(v)')
        BY <2>1, <3>1, <3>2 DEF Serving
      <3> QED BY <1>5, <1>8, <2>1, <3>1, <3>3, <3>4 DEF StartWriter
    <2>2. CASE writer[writer_thread].pc # "made"
      BY <1>8, <2>2, StartRaises DEF StartWriter
    <2> QED BY <2>1, <2>2
  <1> QED BY <1>2, <1>3, <1>4, <1>6, <1>7, <1>8, TaskPut, ThreadWakes DEF CallerStep

\* What a writer thread does to it.
LEMMA WriterThreadStep ==
  ASSUME ArtifactInv, NEW w \in WriterId, WriterStep(w)
  PROVE  ArtifactInv'
  <1> DEFINE task == caller[writer[w].for].task
  <1>0. Serving(w) => task \in Task \cup {NoTask} /\ writer[w] \in WriterRecord
    BY DEF ArtifactInv, Typed, Exclusive, Waiting, CallerRecord
  <1>1. ASSUME Serving(w), NEW pc \in {"running", "inserting"},
               pc = "inserting" => task.kind = "token",
               NEW conn \in {"none", "bus", "genius"},
               writer' = [writer EXCEPT ![w].pc = pc, ![w].conn = conn],
               UNCHANGED <<caller, event, write_queue, artifacts, published>>
        PROVE  ArtifactInv'
    <2> DEFINE r == [writer[w] EXCEPT !.pc = pc, !.conn = conn]
    <2>1. r \in WriterRecord /\ r.pc = pc /\ r.for = writer[w].for
      BY <1>0, <1>1 DEF WriterRecord
    <2>2. writer' = [writer EXCEPT ![w] = r]
      BY <1>1 DEF ArtifactInv, Typed
    <2> HIDE DEF r
    <2> QED BY <1>1, <2>1, <2>2, WriterMoves
  <1>2. ASSUME Serving(w), NEW o \in {"replay", "error"}, Over(w, o),
               UNCHANGED <<caller, write_queue, artifacts, published>>
        PROVE  ArtifactInv'
    BY <1>2, TaskOver
  <1>3. ASSUME Serving(w), Over(w, "ok"), task.kind # "artifact",
               UNCHANGED <<caller, write_queue, artifacts, published>>
        PROVE  ArtifactInv'
    <2>1. task.item \notin ArtifactId
      BY <1>0, <1>3, KindsApart
    <2> QED BY <1>3, <2>1, TaskOver
  <1>4. CASE Connect(w)
    <2>1. Serving(w)
      BY <1>4 DEF Connect, Serving
    <2>2. CASE writer' = [writer EXCEPT ![w].pc = "running", ![w].conn = db_path(task)] /\ event' = event
      BY <1>1, <1>4, <2>1, <2>2 DEF Connect, db_path
    <2>3. CASE Over(w, "error")
      BY <1>2, <1>4, <2>1, <2>3 DEF Connect
    <2> QED BY <1>4, <2>2, <2>3 DEF Connect
  <1>5. CASE LookForJti(w)
    <2>1. Serving(w) /\ task.kind = "token"
      BY <1>5 DEF LookForJti, Runs, Serving
    <2>2. CASE writer' = [writer EXCEPT ![w].pc = "inserting"] /\ event' = event
      <3> DEFINE r == [writer[w] EXCEPT !.pc = "inserting"]
      <3>1. r \in WriterRecord /\ r.pc = "inserting" /\ r.for = writer[w].for
        BY <1>0, <2>1, WriterAssign
      <3>2. writer' = [writer EXCEPT ![w] = r]
        BY <2>2
      <3> HIDE DEF r
      <3> QED BY <1>5, <2>1, <2>2, <3>1, <3>2, WriterMoves DEF LookForJti
    <2>3. CASE Over(w, "replay")
      BY <1>2, <1>5, <2>1, <2>3 DEF LookForJti
    <2> QED BY <1>5, <2>2, <2>3 DEF LookForJti
  <1>6. CASE InsertJti(w)
    <2>1. Serving(w) /\ task.kind = "token"
      BY <1>6 DEF InsertJti, Serving, ArtifactInv, Written
    <2>2. Over(w, "ok") \/ Over(w, "error")
      BY <1>6 DEF InsertJti, Admit
    <2> QED BY <1>2, <1>3, <1>6, <2>1, <2>2 DEF InsertJti
  <1>7. CASE InsertRow(w)
    <2>1. Serving(w) /\ Over(w, "ok") /\ UNCHANGED <<caller, write_queue, published>>
      BY <1>7 DEF InsertRow, Runs, Serving
    <2>2. CASE task.kind = "artifact" /\ artifacts' = artifacts \cup {task.item}
      BY <2>1, <2>2, TaskOver
    <2>3. CASE task.kind = "log" /\ artifacts' = artifacts
      BY <1>3, <2>1, <2>3
    <2> QED BY <1>7, <2>2, <2>3 DEF InsertRow, Runs
  <1>8. CASE WriteFails(w)
    BY <1>2, <1>8 DEF WriteFails, Serving
  <1> QED BY <1>4, <1>5, <1>6, <1>7, <1>8, TaskTaken DEF WriterStep

\* No artifact is lost between memory and the database: what publish returned is in the
\* database, however many writer threads share the queue.
THEOREM PublishedStays == StoreSpec => []PublishedIsFound
  <1>1. StoreInit => ArtifactInv
    BY StoreAssumption DEF StoreInit, ArtifactInv, Typed, Exclusive, Written, Waiting, Serving,
       CallerRecord, WriterRecord, NoTask, NoItem
  <1>2. ArtifactInv /\ [StoreNext]_storeVars => ArtifactInv'
    <2> SUFFICES ASSUME ArtifactInv, [StoreNext]_storeVars PROVE ArtifactInv'
      OBVIOUS
    <2>1. CASE UNCHANGED <<caller, writer, event, write_queue, artifacts, published>>
      BY <2>1 DEF ArtifactInv, Typed, Exclusive, Written, Waiting, Serving
    <2>2. CASE \E j \in Jti : Ages(j)
      BY <2>1, <2>2 DEF Ages
    <2> QED BY <2>1, <2>2, ThreadStep, WriterThreadStep DEF StoreNext, storeVars
  <1>3. ArtifactInv => PublishedIsFound
    BY DEF ArtifactInv, Written, PublishedIsFound, Retrievable
  <1> QED BY <1>1, <1>2, <1>3, PTL DEF StoreSpec

=============================================================================
