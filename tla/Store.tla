------------------------------- MODULE Store -------------------------------
(***************************************************************************)
(* What the threads of a process keep in SQLite: ids of tokens, artifacts  *)
(* of the message bus and logs (db.py, message_bus.py, decode_jwt).        *)
(*                                                                         *)
(* Writes go through one queue to a writer thread that the first write     *)
(* starts.  The start takes no lock, so the model has as many writer       *)
(* threads as the callers make.  Calls that read only (retrieve) change    *)
(* nothing and are the operator Retrievable.  stop_writer_thread, which    *)
(* only tests call, is left out.                                           *)
(***************************************************************************)
EXTENDS Integers, Sequences, FiniteSets

CONSTANTS
  Thread,      \* of the thread pools: verify_api_key, publish_async, log_conversation_async
  Jti,         \* ids of tokens
  ArtifactId,  \* ids of artifacts, each published once
  MAX_MEMORY,  \* artifacts the bus keeps in memory
  MaxWriter,   \* bound: writer threads made
  MaxWrites    \* bound: writes submitted

ASSUME StoreAssumption ==
  /\ MAX_MEMORY \in Nat \ {0} /\ MaxWriter \in Nat \ {0} /\ MaxWrites \in Nat
  /\ Jti \cap ArtifactId = {} /\ "nothing" \notin ArtifactId /\ "none" \notin Thread

VARIABLES
  caller,         \* per thread: where it is in _submit_write, and for what
  writer_thread,  \* _db_writer_thread: the number of a writer, 0 for None
  writer,         \* per writer thread: what it does
  write_queue,    \* _db_write_queue, as the threads whose tasks wait in it
  event,          \* per thread: how its task ended, "unset" before
  memory,         \* in_memory_store, oldest first
  artifacts,      \* rows of the table of artifacts
  seen_jtis,      \* rows of the anti-replay table
  age,            \* per token: "valid", then within the leeway after its exp, then "expired"
  admitted,       \* history: how often each token was accepted before its exp
  published,      \* history: artifacts whose publish returned
  writes          \* submitted so far

storeVars == <<caller, writer_thread, writer, write_queue, event, memory, artifacts,
               seen_jtis, age, admitted, published, writes>>

WriterId == 1..MaxWriter
NoThread == "none"
NoItem == "nothing"
Task == [kind : {"token"}, item : Jti] \cup [kind : {"artifact"}, item : ArtifactId]
          \cup {[kind |-> "log", item |-> NoItem]}
NoTask == [kind |-> "none", item |-> NoItem]

\* The database a task is for; the bus has one of its own.
db_path(task) == IF task.kind = "artifact" THEN "bus" ELSE "genius"

StoreInit ==
  /\ caller = [t \in Thread |-> [pc |-> "idle", task |-> NoTask]]
  /\ writer_thread = 0
  /\ writer = [w \in WriterId |-> [pc |-> "unmade", for |-> NoThread, conn |-> "none"]]
  /\ write_queue = <<>>
  /\ event = [t \in Thread |-> "unset"]
  /\ memory = <<>> /\ artifacts = {} /\ seen_jtis = {}
  /\ age = [j \in Jti |-> "valid"]
  /\ admitted = [j \in Jti |-> 0]
  /\ published = {}
  /\ writes = 0

Goto(t, pc) == caller' = [caller EXCEPT ![t].pc = pc]

-----------------------------------------------------------------------------
(* What threads write *)

\* A thread enters _submit_write with a task.
Submitted(t, task) ==
  /\ caller[t].pc = "idle"
  /\ writes < MaxWrites
  /\ writes' = writes + 1
  /\ caller' = [caller EXCEPT ![t] = [pc |-> "checking", task |-> task]]

\* decode_jwt: a token is good until its exp and the leeway are over.
VerifyToken(t, j) ==
  /\ age[j] # "expired"
  /\ Submitted(t, [kind |-> "token", item |-> j])
  /\ UNCHANGED <<writer_thread, writer, write_queue, event, memory, artifacts, seen_jtis,
                 age, admitted, published>>

\* The entry goes in at the end; oldest ones leave when there are too many.
Remembered(a) ==
  LET longer == Append(memory, a)
  IN SubSeq(longer, 1 + (IF Len(longer) > MAX_MEMORY THEN Len(longer) - MAX_MEMORY ELSE 0),
            Len(longer))

\* MessageBus.publish: memory under the lock, then the write without it.
Publish(t, a) ==
  /\ Submitted(t, [kind |-> "artifact", item |-> a])
  /\ \A u \in Thread : caller[u].task.item # a
  /\ a \notin artifacts /\ \A i \in DOMAIN memory : memory[i] # a
  /\ memory' = Remembered(a)
  /\ UNCHANGED <<writer_thread, writer, write_queue, event, artifacts, seen_jtis,
                 age, admitted, published>>

LogConversation(t) ==
  /\ Submitted(t, [kind |-> "log", item |-> NoItem])
  /\ UNCHANGED <<writer_thread, writer, write_queue, event, memory, artifacts, seen_jtis,
                 age, admitted, published>>

-----------------------------------------------------------------------------
(* _start_writer_thread and the rest of _submit_write *)

\* is_alive(): a writer thread never ends by itself.
Alive(w) == w # 0 /\ writer[w].pc \notin {"unmade", "made"}

CheckWriter(t) ==
  /\ caller[t].pc = "checking"
  /\ Goto(t, IF Alive(writer_thread) THEN "putting" ELSE "making")
  /\ UNCHANGED <<writer_thread, writer, write_queue, event, memory, artifacts, seen_jtis,
                 age, admitted, published, writes>>

\* threading.Thread(...) into the global, whatever another thread just put there.
MakeWriter(t) ==
  /\ caller[t].pc = "making"
  /\ \E w \in WriterId :
       /\ writer[w].pc = "unmade" /\ \A v \in 1..(w - 1) : writer[v].pc # "unmade"
       /\ writer_thread' = w
       /\ writer' = [writer EXCEPT ![w].pc = "made"]
  /\ Goto(t, "starting")
  /\ UNCHANGED <<write_queue, event, memory, artifacts, seen_jtis, age, admitted, published,
                 writes>>

\* _db_writer_thread.start(), of whatever thread the global names by now.  A second
\* start raises, and the task is never queued.
StartWriter(t) ==
  /\ caller[t].pc = "starting"
  /\ IF writer[writer_thread].pc = "made"
       THEN /\ writer' = [writer EXCEPT ![writer_thread].pc = "waiting"]
            /\ Goto(t, "putting") /\ UNCHANGED event
       ELSE /\ event' = [event EXCEPT ![t] = "error"]
            /\ Goto(t, "waiting") /\ UNCHANGED writer
  /\ UNCHANGED <<writer_thread, write_queue, memory, artifacts, seen_jtis, age, admitted,
                 published, writes>>

\* Mutant of PutTask: the caller does not wait for its artifact.
PutTaskAndGo(t) ==
  /\ caller[t].pc = "putting"
  /\ write_queue' = Append(write_queue, t)
  /\ Goto(t, "waiting")
  /\ published' = published \cup ({caller[t].task.item} \cap ArtifactId)
  /\ UNCHANGED <<writer_thread, writer, event, memory, artifacts, seen_jtis, age, admitted, writes>>

PutTask(t) ==
  /\ caller[t].pc = "putting"
  /\ write_queue' = Append(write_queue, t)
  /\ Goto(t, "waiting")
  /\ UNCHANGED <<writer_thread, writer, event, memory, artifacts, seen_jtis, age, admitted,
                 published, writes>>

\* task.event.wait() returns: publish, decode_jwt and log_* return or raise.
TaskEnds(t) ==
  /\ caller[t].pc = "waiting" /\ event[t] # "unset"
  /\ event' = [event EXCEPT ![t] = "unset"]
  /\ caller' = [caller EXCEPT ![t] = [pc |-> "idle", task |-> NoTask]]
  /\ published' = IF event[t] = "ok" THEN published \cup ({caller[t].task.item} \cap ArtifactId)
                                     ELSE published
  /\ UNCHANGED <<writer_thread, writer, write_queue, memory, artifacts, seen_jtis, age, admitted,
                 writes>>

-----------------------------------------------------------------------------
(* _db_writer_worker *)

\* The task is over, with this outcome; any exception costs the connection.
Over(w, outcome) ==
  /\ event' = [event EXCEPT ![writer[w].for] = outcome]
  /\ writer' = [writer EXCEPT ![w] = [pc |-> "waiting", for |-> NoThread,
                                      conn |-> IF outcome = "ok" THEN @.conn ELSE "none"]]

GetTask(w) ==
  /\ writer[w].pc = "waiting" /\ write_queue # <<>>
  /\ writer' = [writer EXCEPT ![w].pc = "connecting", ![w].for = Head(write_queue)]
  /\ write_queue' = Tail(write_queue)
  /\ UNCHANGED <<caller, writer_thread, event, memory, artifacts, seen_jtis, age, admitted,
                 published, writes>>

\* Mutant of Connect: the failure is kept to the writer.
ConnectQuietly(w) ==
  /\ writer[w].pc = "connecting"
  /\ \/ writer' = [writer EXCEPT ![w].pc = "running", ![w].conn = db_path(caller[writer[w].for].task)]
     \/ writer' = [writer EXCEPT ![w] = [pc |-> "waiting", for |-> NoThread, conn |-> "none"]]
  /\ UNCHANGED <<caller, writer_thread, write_queue, event, memory, artifacts, seen_jtis, age,
                 admitted, published, writes>>

\* The connection is made when there is none to this database, which may fail.
Connect(w) ==
  LET path == db_path(caller[writer[w].for].task) IN
  /\ writer[w].pc = "connecting"
  /\ \/ /\ writer' = [writer EXCEPT ![w].pc = "running", ![w].conn = path]
        /\ UNCHANGED event
     \/ writer[w].conn # path /\ Over(w, "error")
  /\ UNCHANGED <<caller, writer_thread, write_queue, memory, artifacts, seen_jtis, age,
                 admitted, published, writes>>

Runs(w, kind) == writer[w].pc = "running" /\ caller[writer[w].for].task.kind = kind

\* _verify_and_save_jti_impl up to the SELECT.  Every _JTI_PURGE_INTERVAL calls the
\* rows past their exp go first: here at any call.
LookForJti(w) ==
  LET j == caller[writer[w].for].task.item IN
  /\ Runs(w, "token")
  /\ \E rows \in {seen_jtis, {k \in seen_jtis : age[k] = "valid"}} :
       /\ seen_jtis' = rows
       /\ \/ j \in rows /\ Over(w, "replay")
          \/ /\ j \notin rows
             /\ writer' = [writer EXCEPT ![w].pc = "inserting"] /\ UNCHANGED event
  /\ UNCHANGED <<caller, writer_thread, write_queue, memory, artifacts, age, admitted,
                 published, writes>>

Admit(w, j) ==
  /\ Over(w, "ok")
  /\ admitted' = IF age[j] = "valid" THEN [admitted EXCEPT ![j] = @ + 1] ELSE admitted

\* Mutant of InsertJti: INSERT OR REPLACE, as for artifacts.
InsertOrReplaceJti(w) ==
  LET j == caller[writer[w].for].task.item IN
  /\ writer[w].pc = "inserting"
  /\ seen_jtis' = seen_jtis \cup {j} /\ Admit(w, j)
  /\ UNCHANGED <<caller, writer_thread, write_queue, memory, artifacts, age, published, writes>>

\* The INSERT: jti is the primary key, and another writer may have been faster.
InsertJti(w) ==
  LET j == caller[writer[w].for].task.item IN
  /\ writer[w].pc = "inserting"
  /\ \/ j \notin seen_jtis /\ seen_jtis' = seen_jtis \cup {j} /\ Admit(w, j)
     \/ j \in seen_jtis /\ Over(w, "error") /\ UNCHANGED <<seen_jtis, admitted>>
  /\ UNCHANGED <<caller, writer_thread, write_queue, memory, artifacts, age, published, writes>>

\* _publish_artifact_impl; the log functions likewise.
InsertRow(w) ==
  /\ \/ Runs(w, "artifact") /\ artifacts' = artifacts \cup {caller[writer[w].for].task.item}
     \/ Runs(w, "log") /\ UNCHANGED artifacts
  /\ Over(w, "ok")
  /\ UNCHANGED <<caller, writer_thread, write_queue, memory, seen_jtis, age, admitted,
                 published, writes>>

\* A statement or the commit fails: nothing is written.
WriteFails(w) ==
  /\ writer[w].pc \in {"running", "inserting"}
  /\ Over(w, "error")
  /\ UNCHANGED <<caller, writer_thread, write_queue, memory, artifacts, seen_jtis, age, admitted,
                 published, writes>>

\* The clock reaches the exp of a token, then the end of the leeway.
Ages(j) ==
  /\ age[j] # "expired"
  /\ age' = [age EXCEPT ![j] = IF @ = "valid" THEN "leeway" ELSE "expired"]
  /\ UNCHANGED <<caller, writer_thread, writer, write_queue, event, memory, artifacts, seen_jtis,
                 admitted, published, writes>>

-----------------------------------------------------------------------------
CallerStep(t) == CheckWriter(t) \/ MakeWriter(t) \/ StartWriter(t) \/ PutTask(t) \/ TaskEnds(t)
WriterStep(w) ==
  GetTask(w) \/ Connect(w) \/ LookForJti(w) \/ InsertJti(w) \/ InsertRow(w) \/ WriteFails(w)

StoreNext ==
  \/ \E t \in Thread :
       \/ \E j \in Jti : VerifyToken(t, j)
       \/ \E a \in ArtifactId : Publish(t, a)
       \/ LogConversation(t)
       \/ CallerStep(t)
  \/ \E w \in WriterId : WriterStep(w)
  \/ \E j \in Jti : Ages(j)

StoreSpec == StoreInit /\ [][StoreNext]_storeVars

\* Threads run, and SQLite answers or gives up (its timeout is 30 s).
StoreFairness ==
  /\ \A t \in Thread : WF_storeVars(CallerStep(t))
  /\ \A w \in WriterId : WF_storeVars(WriterStep(w))

-----------------------------------------------------------------------------
(* Properties *)

\* Every variable keeps the shape its comment gives it.
StoreTypeOK ==
  /\ \A t \in Thread : caller[t].task \in Task \cup {NoTask}
  /\ writer_thread \in 0..MaxWriter
  /\ \A w \in WriterId : writer[w].for \in Thread \cup {NoThread}
  /\ write_queue \in Seq(Thread)
  /\ memory \in Seq(ArtifactId) /\ artifacts \subseteq ArtifactId /\ published \subseteq ArtifactId
  /\ seen_jtis \subseteq Jti

\* Until its exp a token is accepted once, however many threads present it at a time
\* and however many writer threads the first writes started.
TokenOnce == \A j \in Jti : admitted[j] <= 1

\* retrieve finds an artifact in memory or in the database.
Retrievable(a) == a \in artifacts \/ \E i \in DOMAIN memory : memory[i] = a

\* Once publish has returned, its artifact can be retrieved, although memory keeps the
\* newest artifacts only, whether or not their rows are written.
PublishedIsFound == \A a \in published : Retrievable(a)

\* Every write ends, in success or with an exception, whoever else starts a writer
\* thread at the same time and whatever SQLite answers.
WritesEnd == \A t \in Thread : caller[t].pc # "idle" ~> caller[t].pc = "idle"
=============================================================================
