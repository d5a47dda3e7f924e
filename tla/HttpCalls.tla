----------------------------- MODULE HttpCalls -----------------------------
(***************************************************************************)
(* orchestrator.call_api over HTTP: the response cache, the calls to a     *)
(* skill server with their retries, and the calls to a hub in another      *)
(* process.  The latter meet the hub as the TaskBoard it implements.       *)
(*                                                                         *)
(* The network delays a POST for as long as it likes, also past the        *)
(* attempt that sent it, and loses requests and answers.  A wrong checksum *)
(* or a 5xx answer is one more way to lose an answer: both are retried     *)
(* like a broken connection.  A GET changes nothing a late answer could    *)
(* matter to, so asking and being answered is one step.                    *)
(***************************************************************************)
EXTENDS SkillServer

CONSTANTS
  Call,              \* calls of call_api, each with an idempotency key of its own
  question,          \* what each of them asks of which server: URL, prompt and context
  Stranger,          \* whoever else posts to the server
  MAX_ATTEMPTS,      \* stop_after_attempt of the two retry wrappers
  MAXSIZE,           \* GENIUS_CACHE_MAXSIZE
  MaxTokens,         \* bound: tokens a caller mints, so the polls it makes
  HubWorker, NoHubWorker,
  MaxHubTask         \* bound: ids the hub issues

ASSUME HttpCallsAssumption ==
  /\ DOMAIN question = Key
  /\ MAX_ATTEMPTS \in Nat \ {0} /\ MAXSIZE \in Nat \ {0}
  /\ MaxTokens \in [Key -> Nat \ {0}] /\ MaxHubTask \in Nat
  /\ Call \subseteq Key /\ Stranger \in Key \ Call
  /\ \A k \in Key : {k} \X (1..MaxTokens[k]) \subseteq Jti

VARIABLES
  distributed,  \* _is_distributed(): where the calls of this process go
  call,         \* per call: where it is
  posts,        \* POST /run requests on their way, as <<call, number of the token>>
  cache,        \* _API_RESPONSE_CACHE as [key, from], least recently used first;
                \* an answer is named by the call it was computed for
  board, issued \* the hub's tasks and the last id it drew

Hub == INSTANCE TaskBoard WITH
  Id <- 1..MaxHubTask, Worker <- HubWorker, NoWorker <- NoHubWorker

callVars == <<call, posts, cache>>
hubVars == <<board, issued>>
vars == <<serverVars, distributed, callVars, hubVars>>

Failures == {"refused", "not_found", "unreachable", "timeout", "task_failed"}
Ended == {"done"} \cup Failures
CallRecord ==
  [pc : {"ready", "posting", "polling", "looking", "dispatching", "waiting"} \cup Ended,
   attempt : 1..MAX_ATTEMPTS, minted : Nat,
   task : 0..MaxTask \cup 0..MaxHubTask, from : Key]

Init ==
  /\ ServerInit
  /\ distributed \in BOOLEAN
  /\ call = [c \in Call |-> [pc |-> "ready", attempt |-> 1, minted |-> 0, task |-> 0, from |-> c]]
  /\ posts = {}
  /\ cache = <<>>
  /\ Hub!Init

\* The cache is keyed by a hash of all of it.
cache_key(c) == question[c]

\* Mutants of idempotency_key and jti: one key per attempt, one for everybody, one
\* token per call.
KeyPerAttempt(c, n) == <<c, n>>
KeyOfAll(c, n) == Stranger
TokenPerCall(c, n) == <<c, 1>>

\* What the headers of the n-th request of a call carry.
idempotency_key(c, n) == c
jti(c, n) == <<c, n>>

Goto(c, pc) == call' = [call EXCEPT ![c].pc = pc]

\* The call is over, with the answer computed for call d if it is "done".
End(c, pc, d) ==
  call' = [call EXCEPT ![c] = [pc |-> pc, attempt |-> 1, minted |-> 0, task |-> 0, from |-> d]]

\* _cache_store
Stored(store, e) ==
  LET others == Kept(store, {i \in DOMAIN store : store[i].key # e.key})
      longer == Append(others, e)
  IN SubSeq(longer, 1 + (IF Len(longer) > MAXSIZE THEN Len(longer) - MAXSIZE ELSE 0), Len(longer))

\* The answer computed for call d is returned, and kept for the next one to ask.
Return(c, d) ==
  /\ End(c, "done", d)
  /\ cache' = Stored(cache, [key |-> cache_key(c), from |-> d])

-----------------------------------------------------------------------------
(* call_api *)

CacheHit(c) ==
  /\ call[c].pc = "ready"
  /\ \E i \in DOMAIN cache : cache[i].key = cache_key(c) /\ Return(c, cache[i].from)
  /\ UNCHANGED <<serverVars, distributed, posts, hubVars>>

CacheMiss(c) ==
  /\ call[c].pc = "ready"
  /\ \A i \in DOMAIN cache : cache[i].key # cache_key(c)

-----------------------------------------------------------------------------
(* Calls to a skill server *)

\* perform_post_with_retry sends one more request, with a new token.
Sent(c, n) ==
  LET m == call[c].minted + 1 IN
  /\ m <= MaxTokens[c]
  /\ call' = [call EXCEPT ![c].pc = "posting", ![c].attempt = n, ![c].minted = m]
  /\ posts' = posts \cup {<<c, m>>}

StartRun(c) ==
  /\ ~distributed /\ CacheMiss(c)
  /\ Sent(c, 1)
  /\ UNCHANGED <<serverVars, distributed, cache, hubVars>>

\* The answer to a POST arrives: the task is started, or the error is no transient one.
Heard(c, a) ==
  \/ a.code = "ok" /\ call' = [call EXCEPT ![c].pc = "polling", ![c].attempt = 1, ![c].task = a.id]
  \/ a.code = "replay" /\ End(c, "refused", c)

\* The server gets to a request.  Its caller may have given the attempt up, or the
\* answer may be lost.
Arrive(c, n) ==
  /\ <<c, n>> \in posts
  /\ posts' = posts \ {<<c, n>>}
  /\ \E a \in Answer :
       /\ RunEndpoint(c, idempotency_key(c, n), jti(c, n), a)
       /\ \/ call[c].pc = "posting" /\ call[c].minted = n /\ Heard(c, a)
          \/ UNCHANGED call
  /\ UNCHANGED <<distributed, cache, hubVars>>

\* A request of another process, with a key and a token of its own.
ArriveOther ==
  /\ ~distributed
  /\ \A i \in DOMAIN asked : asked[i] # Stranger
  /\ \E a \in Answer : NewTask(Stranger, Stranger, jti(Stranger, 1), a)
  /\ UNCHANGED <<distributed, callVars, hubVars>>

\* A transient error ends an attempt: another one, or the end of the call.
RetryPost(c) ==
  \/ call[c].attempt < MAX_ATTEMPTS /\ Sent(c, call[c].attempt + 1)
  \/ /\ call[c].attempt = MAX_ATTEMPTS \/ call[c].minted = MaxTokens[c]
     /\ End(c, "unreachable", c) /\ UNCHANGED posts

\* No answer (connection, timeout, checksum, 5xx) or 429.
AttemptFails(c) ==
  /\ call[c].pc = "posting"
  /\ RetryPost(c)
  /\ UNCHANGED <<serverVars, distributed, cache, hubVars>>

\* What the poll loop makes of the answer to one GET; anything but an answer, and
\* 429, is retried by perform_get_with_retry.
Polled(c, a) ==
  \/ a.status = "completed" /\ Return(c, asked[a.id])
  \/ /\ \/ a.status = "processing"
           /\ call' = [call EXCEPT ![c].minted = @ + 1, ![c].attempt = 1]
        \/ a.status = "failed" /\ End(c, "task_failed", c)
        \/ a.code = "not_found" /\ End(c, "not_found", c)
        \/ a.code = "replay" /\ End(c, "refused", c)
     /\ UNCHANGED cache
  \/ /\ \/ /\ call[c].attempt < MAX_ATTEMPTS
           /\ call' = [call EXCEPT ![c].minted = @ + 1, ![c].attempt = @ + 1]
        \/ call[c].attempt = MAX_ATTEMPTS /\ End(c, "unreachable", c)
     /\ UNCHANGED cache

Poll(c) ==
  /\ call[c].pc = "polling"
  /\ call[c].minted < MaxTokens[c]
  /\ \E a \in Answer :
       /\ StatusEndpoint(call[c].task, jti(c, call[c].minted + 1), a)
       /\ Polled(c, a)
  /\ UNCHANGED <<distributed, posts, hubVars>>

\* Mutant of PollTimeout: the poll loop of the client without its deadline.
NoPollTimeout(c) == FALSE /\ UNCHANGED vars

\* poll_timeout is over.
PollTimeout(c) ==
  /\ call[c].pc \in {"polling", "looking", "waiting"}
  /\ End(c, "timeout", c)
  /\ UNCHANGED <<serverVars, distributed, posts, cache, hubVars>>

-----------------------------------------------------------------------------
(* Calls to a hub in another process: no retries, and the hub picks the worker *)

StartDispatch(c) ==
  /\ distributed /\ CacheMiss(c)
  /\ Goto(c, "looking")
  /\ UNCHANGED <<serverVars, distributed, posts, cache, hubVars>>

\* POST /workers until an idle worker of the role is listed, or the request fails.
Look(c) ==
  /\ call[c].pc = "looking"
  /\ Goto(c, "dispatching") \/ End(c, "unreachable", c)
  /\ UNCHANGED <<serverVars, distributed, posts, cache, hubVars>>

\* POST /dispatch: the hub accepts the task, and the caller may never hear of it;
\* or it refuses, or is not reached.
Dispatch(c) ==
  /\ call[c].pc = "dispatching"
  /\ \/ /\ issued' = issued + 1
        /\ issued' \in 1..MaxHubTask
        /\ \E b \in [status : {"pending", "running"}, worker_id : HubWorker \cup {NoHubWorker}] :
             Hub!Accepted(b) /\ board' = [board EXCEPT ![issued'] = b]
        /\ \/ call' = [call EXCEPT ![c].pc = "waiting", ![c].task = issued']
           \/ End(c, "unreachable", c)
     \/ End(c, "unreachable", c) /\ UNCHANGED hubVars
  /\ UNCHANGED <<serverVars, distributed, posts, cache>>

\* POST /tasks and the caller's own record in the answer.
PollHub(c) ==
  LET status == board[call[c].task].status IN
  /\ call[c].pc = "waiting"
  /\ \/ status = "completed" /\ Return(c, c)
     \/ status = "failed" /\ End(c, "task_failed", c) /\ UNCHANGED cache
     \/ status = "none" /\ End(c, "not_found", c) /\ UNCHANGED cache
     \/ End(c, "unreachable", c) /\ UNCHANGED cache
  /\ UNCHANGED <<serverVars, distributed, posts, hubVars>>

\* Whatever the hub does meanwhile, for one task at a time.
HubStep ==
  /\ distributed
  /\ \E t \in 1..issued,
        b \in [status : {"none", "running", "completed", "failed"},
               worker_id : HubWorker \cup {NoHubWorker}] :
       b # board[t] /\ Hub!Moves(board[t], b) /\ board' = [board EXCEPT ![t] = b]
  /\ UNCHANGED <<serverVars, distributed, callVars, issued>>

-----------------------------------------------------------------------------
CallStep(c) ==
  \/ CacheHit(c) \/ StartRun(c) \/ AttemptFails(c) \/ Poll(c) \/ PollTimeout(c)
  \/ StartDispatch(c) \/ Look(c) \/ Dispatch(c) \/ PollHub(c)

Next ==
  \/ \E c \in Call : CallStep(c)
  \/ \E c \in Call : \E n \in 1..MaxTokens[c] : Arrive(c, n)
  \/ ArriveOther
  \/ ~distributed /\ ServerStep /\ UNCHANGED <<distributed, callVars, hubVars>>
  \/ HubStep

Spec == Init /\ [][Next]_vars

\* Clients have timeouts of their own and the event loop runs them.  Nothing is
\* assumed of the server, the network, the agents or the hub.
FairSpec == Spec /\ \A c \in Call :
  /\ WF_vars(CacheHit(c)) /\ WF_vars(StartRun(c) \/ StartDispatch(c))
  /\ WF_vars(AttemptFails(c)) /\ WF_vars(PollTimeout(c)) /\ WF_vars(Look(c)) /\ WF_vars(Dispatch(c))

-----------------------------------------------------------------------------
(* Properties *)

\* Every variable keeps the shape its comment gives it.
CallsTypeOK ==
  /\ tasks \in Seq(TaskEntry) /\ idempotency \in Seq(KeyEntry)
  /\ executing \subseteq TaskId /\ asked \in Seq(Key)
  /\ seen_jtis \subseteq Jti /\ tokens \in 0..capacity
  /\ restarts \in 0..MaxRestarts /\ forgotten \subseteq Key
  /\ call \in [Call -> CallRecord]
  /\ \A p \in posts : p[1] \in Call /\ p[2] \in 1..MaxTokens[p[1]]

\* A prompt runs once on its server, however often its POST is sent again, late
\* or after an answer was lost; twice only if the server lost the key or the
\* task in between, by a restart or because its stores were full.
RunsOnce ==
  \A c \in Call :
    Cardinality({i \in DOMAIN asked : asked[i] = c}) > 1 => c \in forgotten

\* What a call returns was computed for what it asked, whether it came from its own
\* task, from a task its key led to or from the cache.
AnswerIsOwn == \A c \in Call : call[c].pc = "done" => question[call[c].from] = question[c]

\* The anti-replay table never turns a call of the orchestrator away, whatever was
\* retried or throttled before.
NeverRefused == \A c \in Call : call[c].pc # "refused"

\* Every call ends, though the server never answers or its agent never finishes.
CallEnds == \A c \in Call : call[c].pc # "ready" ~> call[c].pc \in Ended
=============================================================================
