---------------------------- MODULE SkillServer ----------------------------
(***************************************************************************)
(* One skill server: the FastAPI application of a role (skill_app.py), its *)
(* rate limiter, its token check and the anti-replay table.                *)
(*                                                                         *)
(* The handlers of /run and /status await nothing, so each is one step.    *)
(* The checks before them (rate limit, then token) read and write nothing  *)
(* a handler uses: a request goes through all three in one step.  The      *)
(* checksums of bodies and answers are part of the network (HttpCalls).    *)
(* The database of the anti-replay table survives a restart of the server; *)
(* the two stores and the background tasks do not.                         *)
(***************************************************************************)
EXTENDS Integers, Sequences, FiniteSets

CONSTANTS
  Key,                \* values of X-Idempotency-Key: one per request, retries included
  Jti,                \* ids of tokens
  MAX_TRACKED_TASKS,  \* cap of each of the two stores
  capacity,           \* of the role's token bucket
  MaxTask,            \* bound: tasks created in a behaviour
  MaxRestarts         \* bound: restarts of the server

ASSUME SkillServerAssumption ==
  /\ MAX_TRACKED_TASKS \in Nat \ {0} /\ capacity \in Nat \ {0}
  /\ MaxTask \in Nat /\ MaxRestarts \in Nat

VARIABLES
  tasks,        \* the task store, oldest entry first
  idempotency,  \* key -> task id, oldest entry first
  executing,    \* task ids whose background task runs
  asked,        \* per task id ever issued: the key of the request whose
                \* prompt it runs
  seen_jtis,    \* the anti-replay table
  tokens,       \* in the bucket
  restarts,     \* so far
  forgotten     \* history: keys the server knew once and then lost

serverVars == <<tasks, idempotency, executing, asked, seen_jtis, tokens, restarts, forgotten>>

TaskId == 1..MaxTask
Finished == {"completed", "failed"}
Status == {"processing"} \cup Finished
TaskEntry == [id : TaskId, status : Status]
KeyEntry == [key : Key, id : TaskId]
Refusal(code) == [code |-> code, id |-> 0, status |-> "none"]
Answer == [code : {"ok"}, id : TaskId, status : Status]
            \cup {Refusal(code) : code \in {"throttled", "replay", "not_found"}}

ServerInit ==
  /\ tasks = <<>> /\ idempotency = <<>>
  /\ executing = {} /\ asked = <<>>
  /\ seen_jtis = {}
  /\ tokens = capacity
  /\ restarts = 0
  /\ forgotten = {}

-----------------------------------------------------------------------------
(* The bounded stores *)

Excess(store) == Len(store) - MAX_TRACKED_TASKS
First(I, n) == {i \in I : Cardinality({j \in I : j < i}) < n}

\* The entries at the indices I, in their order; and those at the others.
Kept(store, I) ==
  [n \in 1..Cardinality(I) |-> store[CHOOSE i \in I : Cardinality({j \in I : j < i}) = n - 1]]
Without(store, I) == Kept(store, DOMAIN store \ I)

\* evict_oldest over the task store: finished entries first, oldest first, and
\* live ones only when no finished one is left.
EvictTasks(store) ==
  LET done == First({i \in DOMAIN store : store[i].status \in Finished}, Excess(store))
      live == First(DOMAIN store \ done, Excess(store) - Cardinality(done))
  IN Without(store, done \cup live)

\* evict_oldest over the idempotency map, whose values have no status.
EvictKeys(store) == Without(store, First(DOMAIN store, Excess(store)))

Tracked(store, id) == \E i \in DOMAIN store : store[i].id = id

\* The task a key leads to; the key is of use only while that task is tracked.
Known(keys, store, key) ==
  \E i \in DOMAIN keys : keys[i].key = key /\ Tracked(store, keys[i].id)

\* What the step makes the server lose.
Remember ==
  forgotten' = forgotten \cup
    {k \in Key : Known(idempotency, tasks, k) /\ ~Known(idempotency', tasks', k)}

-----------------------------------------------------------------------------
(* Before the handlers *)

\* TokenBucketRateLimiter.consume: any time may have passed since the last one.
Consume == \E gained \in 0..(capacity - tokens) :
  tokens + gained >= 1 /\ tokens' = tokens + gained - 1
Exhausted == tokens = 0 /\ tokens' = 0

\* verify_api_key, decode_jwt: a token is good once.
Replayed(jti) == jti \in seen_jtis /\ UNCHANGED seen_jtis
Admitted(jti) == jti \notin seen_jtis /\ seen_jtis' = seen_jtis \cup {jti}

\* The two ways a request ends before its handler.
TurnedAway(jti, a) ==
  /\ \/ Exhausted /\ a = Refusal("throttled") /\ UNCHANGED seen_jtis
     \/ Consume /\ Replayed(jti) /\ a = Refusal("replay")
  /\ UNCHANGED <<tasks, idempotency, executing, asked, restarts, forgotten>>

-----------------------------------------------------------------------------
(* The endpoints *)

\* POST /run of a key whose task is still tracked: the same task again.
SameTask(key, jti, a) ==
  /\ Consume /\ Admitted(jti)
  /\ \E i \in DOMAIN idempotency, j \in DOMAIN tasks :
       /\ idempotency[i].key = key /\ idempotency[i].id = tasks[j].id
       /\ a = [code |-> "ok", id |-> tasks[j].id, status |-> tasks[j].status]
  /\ UNCHANGED <<tasks, idempotency, executing, asked, restarts, forgotten>>

\* POST /run otherwise: a task is created and started.  The key of an evicted
\* task counts as new.
NewTask(owner, key, jti, a) ==
  LET id == Len(asked) + 1
      others == Kept(idempotency, {i \in DOMAIN idempotency : idempotency[i].key # key})
  IN
  /\ Consume /\ Admitted(jti)
  /\ ~Known(idempotency, tasks, key)
  /\ id \in TaskId
  /\ tasks' = EvictTasks(Append(tasks, [id |-> id, status |-> "processing"]))
  /\ idempotency' = EvictKeys(Append(others, [key |-> key, id |-> id]))
  /\ executing' = executing \cup {id}
  /\ asked' = Append(asked, owner)
  /\ a = [code |-> "ok", id |-> id, status |-> "processing"]
  /\ Remember
  /\ UNCHANGED restarts

RunEndpoint(owner, key, jti, a) ==
  TurnedAway(jti, a) \/ SameTask(key, jti, a) \/ NewTask(owner, key, jti, a)

\* GET /status/{task_id}
StatusEndpoint(id, jti, a) ==
  \/ TurnedAway(jti, a)
  \/ /\ Consume /\ Admitted(jti)
     /\ \/ \E j \in DOMAIN tasks :
             tasks[j].id = id /\ a = [code |-> "ok", id |-> id, status |-> tasks[j].status]
        \/ ~Tracked(tasks, id) /\ a = Refusal("not_found")
     /\ UNCHANGED <<tasks, idempotency, executing, asked, restarts, forgotten>>

-----------------------------------------------------------------------------
(* Behind the endpoints *)

\* The agent of a background task is done.  The entry is written, not updated: a
\* task that was evicted meanwhile is back, at the end, whatever the cap.
Execute(id, s) ==
  /\ id \in executing
  /\ executing' = executing \ {id}
  /\ tasks' = IF Tracked(tasks, id)
                THEN [i \in DOMAIN tasks |->
                        IF tasks[i].id = id THEN [id |-> id, status |-> s] ELSE tasks[i]]
                ELSE Append(tasks, [id |-> id, status |-> s])
  /\ UNCHANGED <<idempotency, asked, seen_jtis, tokens, restarts, forgotten>>

\* The process ends and is started again.
Restart ==
  /\ restarts < MaxRestarts
  /\ restarts' = restarts + 1
  /\ tasks' = <<>> /\ idempotency' = <<>> /\ executing' = {}
  /\ tokens' = capacity
  /\ Remember
  /\ UNCHANGED <<asked, seen_jtis>>

ServerStep ==
  \/ \E id \in TaskId, s \in Finished : Execute(id, s)
  \/ Restart
=============================================================================
