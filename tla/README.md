# Genius in TLA+

TLA+ models of Genius, a multi-agent orchestrator, with the TLC runs that check
them on small instances and TLAPS proofs of the properties that matter most.

Genius turns a request into files through a pipeline of *skills* (research,
architecture, coding, review, tests). A skill call either goes straight to a
skill server over HTTP, or, in distributed mode, through a *central hub* to one
of the worker nodes connected to it. An MCP server runs the same pipelines as
background jobs behind an approval gate.

## Inventory

| Component | Code | State | Operations | What is hard | What makes it correct |
|---|---|---|---|---|---|
| Central hub | `ag_core/distributed/hub.py` | worker table, task store (`BoundedTasks`), FIFO backlog, task counter, configuration | `/register`, `/heartbeat`, `/dispatch`, `/report_result`, `/deregister`, `/update_config`, `_dispatch_to_worker`, `sweep` | handlers interleave with detached dispatch coroutines and with a sweeper whose notices go out after its lock | tasks and workers agree on who runs what; nothing pending is lost; nothing settled moves back; running tasks end |
| Hub server, worker registry | `serve.py` | `WorkerRegistry`, pending futures (`BoundedPendingTasks`), one socket per worker | `websocket_endpoint`, `register`, `select_idle_worker`, `unregister`, `prune_stale_workers` | two tables (registry and hub) describe one worker; reconnection before the old endpoint ends; futures resolved by three parties | a future is resolved once and by its owner; registry and hub do not drift apart |
| Worker node | `ag_core/distributed/worker.py`, `client_app/genius_worker.py` | `active_tasks`, `running_tasks`, socket | accept, run, cancel, report, heartbeat, reconnect | cancellation races completion; the status setter clears every task; results are lost with the socket | one task at a time; every accepted task is reported or cancelled |
| Startup and supervision | `serve.py` `main_async` | tasks of the servers, ports, readiness waits, the service registry (a file that outlives the process) | choose roles, bind or fall back to another port, wait, run the pipeline, stop | a server crashes while others are waited for; entries of a killed process; other programs answer; two ways to be cancelled | a pipeline starts on servers that answered; the registry names live ports; every wait ends |
| Skill call path | `orchestrator.py` `call_api` | response cache, pending futures, retry state | cache lookup, POST and GET with retries, polling; dispatch and wait | timeouts race late answers; retries repeat what was done; a token is good once | every call returns or raises; an answer is the answer to what was asked; nothing is done twice without cause |
| Pipelines | `orchestrator.py` | design (a local, `design.md`, the bus), per-file loop, project tree, artifacts | stages, debate, format retries, self-healing loops, fan-out, degraded mode | partial failure inside the fan-out; code, tests and audit of different attempts; concurrent files in one tree | what passes was checked as it is; success is not claimed for less |
| MCP jobs | `mcp_server.py` | job table, approval events | start, status, approve, reject | approval races its timeout; one event for three gates; a client that never answers | a gate opens to an approval of its own stage only; every job ends |
| Message bus | `ag_core/utils/message_bus.py` | bounded memory, SQLite rows | publish, retrieve | the memory evicts before the row is written | what was published is found |
| Log database writer | `ag_core/utils/db.py` | queue, writer thread and its connection, one event per caller | submit, write | the first write starts the thread, without a lock; every step of the thread may fail under a caller that waits without timeout | every write ends |
| Tokens and checksums | `ag_core/utils/{jwt,security}.py` | anti-replay table | mint, verify | a token is presented twice at a time; rows are purged at the expiry | accepted once |
| Rate limiter | `ag_core/utils/rate_limiter.py` | token bucket per role | consume | it is asked before the token is checked | a throttled request costs nothing but itself |
| Skill servers | `ag_core/skill_app.py` | task store, idempotency map, background tasks | `/run`, `/status` | two stores bounded apart; late writes of evicted tasks; restarts | a prompt runs once per key |
| Provider chain, providers | `ag_core/provider_factory.py`, `ag_core/providers/*`, `ag_core/utils/cli_runner.py` | active backend, running programs, prompt file, login flag, memo of program paths | prompt with fallback, login, run a program with timeout | every kind of end of a program; requests that meet at the login; cancellation | no backend skipped; one login; nothing left behind |
| Agents, debate and NotebookLM tools | `ag_core/agents/*`, `mcp_server.py` | answer, file on disk, verdict | ask, review and test loops, debate | writes, checks and answers of different attempts | a pass is about what is returned; every run ends |
| Scanner and repository graph, evaluation, vector store | `ag_core/{scanner,eval,memory}` | caches | sequential algorithms | budgets and caps | bounds are respected |
| Client app, dashboard, control panel, configuration | the rest | none of their own | I/O and presentation | | |

Interactions: the orchestrator dispatches through `serve.websocket_endpoint`'s
registry (in-memory mode) or through the hub's HTTP endpoints; `serve.py` forwards
every message of a worker's socket to the hub (`/register`, `/heartbeat`,
`/report_result`, `/deregister`) and resolves the orchestrator's futures; the hub
writes to the same sockets (`run_task`, `cancel`). Outside distributed mode it posts to
the skill servers, which `serve.py` starts and finds again through the service
registry; a skill server runs an agent, an agent prompts a chain of providers, a
provider starts a vendor's program. Token ids, artifacts and logs all go through the
writer thread of the process.

## Modules

| Module | Models |
|---|---|
| `Hub` | the central hub: one action per endpoint, per step of the dispatch coroutine and per half of the sweep |
| `TaskBoard` | what the hub promises of a task, without workers, queue or coroutines; `Hub` and the modules on top of it implement it |
| `HubServer` (extends `Hub`) | `serve.py`: registry, WebSocket endpoints, futures, pruner; workers are arbitrary |
| `WsCalls` (extends `HubServer`) | in-process skill calls: the in-memory branch of `call_api` |
| `WorkerNode` | the worker process and the wires |
| `Cluster` (extends `HubServer`, instantiates `WorkerNode`) | hub server and worker nodes joined by wires that break |
| `Pipeline` | `run_pipeline` and `run_e2e_pipeline`, several runs at a time |
| `Jobs` (extends `Pipeline`) | the MCP server's background jobs and their approval gates |
| `SkillServer` | one skill server: rate limiter, token check, `/run`, `/status`, background tasks, restarts |
| `HttpCalls` (extends `SkillServer`, instantiates `TaskBoard`) | `call_api` over HTTP: cache, retries, polling, against a skill server or a hub in another process |
| `Providers` | vendor programs, what each provider makes of their end, the fallback chain, grok's login |
| `Agents` (extends `Providers`) | runs of the agents and of the debate and NotebookLM tools |
| `Store` | message bus, anti-replay table and logs over the database writer thread |
| `Startup` | `serve.py` from start to end, with the service registry |
| `HubProofs`, `WsCallsProofs`, `ClusterProofs`, `JobsProofs`, `HttpCallsProofs`, `AgentsProofs`, `StoreProofs`, `StartupProofs` | theorems about the module they are named after |
| `MCHub`, `MCHubServer`, `MCWsCalls`, `MCCluster`, `MCJobs`, `MCHttpCalls`, `MCAgents`, `MCProcess` | instances for TLC |

Every program here but the threads of `Store` is an asyncio program: between two suspensions a coroutine runs
alone. An action is therefore what one coroutine does between two suspensions, and
what interleaves is what the code awaits. A definition named `Mutant of X` is a
plausible bug in `X`; the properties are checked to notice it. The type invariant that
closes each module (`ServerTypeOK`, `JobsTypeOK`, ...) documents the shapes of its
variables; those of `Hub`, `WsCalls` and `Cluster` are proved.

### Hub

The hub's lock is never held across a suspension that waits for anything but the
event loop (`_process_queue` awaits nothing), so each endpoint is one action, and
ends with the backlog pass where the code ends with `_process_queue`. What
interleaves is explicit: `spawned` (a created `_dispatch_to_worker` that has not
run), `sending` (one suspended in its send) and `notices` (what a sweep still has to
send after its lock). Two loops sweep: the hub's own `_sweeper_loop` and
`prune_stale_workers` of the server. `task_queue` is a set, since ids are appended in
the order they are drawn: the order of ids is the order of the queue. Heartbeat ages
are three classes: `fresh`, `margin` (the sweeper prunes 10 ms before
`heartbeat_timeout`, the matcher still serves) and `stale`.

Not modelled: `check_liveness` (only tests call it), authentication, checksums and
replay protection, the read-only endpoints, `/write_workspace_file`. Worker and role
names are model values; `canonical_role` is a constant function.

### HubServer

A connection is one run of `websocket_endpoint`; the handling of one message, which
calls the hub's handler and then touches the registry, is one action (`RegisterMsg`,
`HeartbeatMsg`, `ResultMsg`, `Close`). `socket` is the `ws` field of a registered
worker, `pending` and `future` are `pending_tasks` and the futures in it, `cause` is
what the pruner reads out of the error text of a failed record. A worker may send
anything, open a second connection before the end of the first is noticed, and leave
at any time.

Not modelled: token checks and identity spoofing (both close the socket), results
without a valid checksum, the cap of 10000 pending futures.

### WsCalls

A call goes through `ready`, `selecting` (polling `select_idle_worker`), `selected`,
`sending`, `waiting` and, when it is given up, `giving_up` and `cancel_send`; it ends
with an output, an error, a timeout, a lost worker, or cancelled. `registry_lock` is
held across one real suspension, the send of a cancel message, and the model blocks
there whoever needs it: selection, dispatch, the clean-up of another call, and a call
whose send raised (`send_failed`), which has given up its future but not yet its worker.
`held` says whether the record the call took from the registry is still the one in it. Ids are drawn from the hub's counter instead of at
random, so that they are fresh.

Not modelled: the response cache lookup before the branch.

### WorkerNode and Cluster

A node has a main loop (connect, clean up, back off), a heartbeat loop, a reader, and
one `execute_task` per accepted task. Cancelling an execution takes effect before its
first step (`never`) or leaves it `dying` until the agent unwinds. `active_tasks` is
what the status property looks at, `running_tasks` what a cancellation reaches.
`Cluster` restricts the arbitrary workers of `HubServer` to what these processes send,
over FIFO wires that may break with what is on them; each end notices by itself, and a
process may crash and start again under its id. `via` is a history variable, the
socket a task went through.

Not modelled: the worker's HTTP endpoints (tests only), checksums, the growth of the
reconnect delay.

### Pipeline and Jobs

The agents are open: every call may fail, every answer may or may not parse. Of a
design the model keeps its number and whether it parses, together with which one is
on the bus (`published`) and which one the coders got (`context`); of a file, the
version on disk and what it was checked with; of an artifact, the run that wrote it.
Paths are sequences of names, and names of words, so that `flatten_rel_path` really
joins them. Whether a file is a test module (by its name or its directory) and whether
it is Python (by its suffix) are two flags, as in the code: all four kinds of file are
allowed, and what is a test module but not Python passes with neither an audit nor a test
run. The join of a fan-out waits for every file, in a strict run too: `gather_or_raise`
lets every branch finish before it raises. `degraded` is `GENIUS_DEGRADED_MODE`, fixed for
the process. The return of a pipeline passes through `closing`, the `aclose()` of its
`finally`, during which the job already failed but still shows its old status.

`Jobs` adds the job table: `Work` is a step of a job's coroutine together with the
gate it enters at once (`EnterGate`), `GateOpens` and `GateTimesOut` are the two ends of
`asyncio.wait_for` (the timer may fire after an answer, before the coroutine runs),
`Answer` is `orchestrate_approve` and `orchestrate_reject`.

Not modelled: slash-command routing, the interactive loop, the single-file path that
only the test suite reaches, the evaluation after a run, `orchestrate_status` (a view).
Every run has a project of its own: two runs of one prompt in one workspace, which
share a project directory, are outside the model.

### SkillServer and HttpCalls

The handlers of `/run` and `/status` await nothing, so a request is one step: rate
limit, token, handler. A background task (`executing`) ends at any time and *writes* its
entry, which brings an evicted one back, over the cap. `asked` and `forgotten` are
history: whose prompt each task runs, and which keys the server knew and lost.
`posts` is the network: a POST is delayed for as long as it likes, past the attempt that
sent it, and the request or its answer may be lost; a wrong checksum and a 5xx are more
ways to lose an answer. Each request carries a new token (`jti`) and each call one
idempotency key. A hub in another process is met as the `TaskBoard` that `Hub` is proved
to implement.

Not modelled: `/health`, empty prompts, requests without a key, which carry no state.
The passing of time is a free gain of the bucket.

### Providers and Agents

`awaited` is the program a request waits for and how it ended (answer, silence, refusal,
odd fields, non-zero code, killed); `Outcomes` says which of answer, failure (falls
through to the next backend) and crash (does not) each provider makes of it. A program
may run for ever, or not be there. `_LOGIN_ATTEMPTED` and the memo of program paths are
shared by the process, everything else is of one request: providers are created per
request, so their semaphores and buckets never make one wait. An agent numbers its
answers; what is tested, written or returned is such a number. Every write may fail by
itself, before or after it has truncated the file, and nobody is told
(`base_agent.py:153-165`): the file then holds what it held, or a part of the answer
(a negative number). `unwritten` is a history variable: a write of the last answer failed.

Not modelled: prompt assembly, memory, logs and artifacts of an agent, the wording of
reports, the choice of models, the search of a program on the disk (a choice: found or
not).

### Store

Threads, not coroutines: an action is one step of a thread between two accesses to
shared state. `_submit_write` is `CheckWriter`, `MakeWriter`, `StartWriter`, `PutTask`,
`TaskEnds`; since no lock guards the first two, the model has as many writers as the
callers make. The age of a token has three classes: `valid`, in the `leeway` after its
expiry, `expired`; rows past the expiry are purged while the leeway still accepts the
token, so `TokenOnce` counts what was accepted before the expiry.

### Startup

A server task goes from `starting` through `serving` to `failing` or `closing` and
`crashed` or `ended`. Ports are the configured one, named like its server, and one more
the system may pick; `strangers` are ports other programs hold, and a health check sent
to such a port may be answered. Time is in the deadlines only: `Abort` may come at any
check. Each access of the registry may fail by itself. What cannot be read counts as
empty, and a server that registers writes it back like that; a failing write has truncated
the file; a server that cannot write its entry crashes, one that cannot prune it ends as if
it had. `cut` records the servers whose shutdown was cut short by a kill or a second
cancel and those whose pruning failed: theirs are the only entries that may stay.
`dropped` records the servers whose entry a failed access has lost while they serve.

Not modelled: exit codes, the menu's text, the shortcut under pytest, and two processes
on one registry file (`docker-compose.yml` shares a volume).

## Runs

| Run | Instance | Asks |
|---|---|---|
| `hub_core` | 2 interchangeable workers, 3 ids, a store of 2 records, backlog of 2 | do the bookkeeping invariants and step properties hold when eviction, sweeps and late reports mix (`BacklogIsPending`, `RunningIsOwned`, `NoBusyLeak`, `DispatchSpeaksForOwner`, `NoResurrection`, `LiveNeverEvicted`), and does the store implement `TaskBoard` (`ImplementsTaskBoard`) |
| `hub_roles` | 1 worker, 3 role names of which two are aliases, 2 ids, `max_workers` 1 or 2, two sweepers | order per role (`FifoPerRole`), no needless waiting (`WorkConserving`), and `RunningEnds` under fairness |
| `server_busy` | 2 workers, 3 connections, 2 ids, backlog of 1 | finding: `AssignedIsBusy` is violated |
| `calls_shared` | 2 calls, 2 workers, 1 connection, a store of 1 record | `ImplementsTaskBoard` again, while calls write the store themselves |
| `calls_live` | 1 call with 2 attempts, 1 worker, 2 connections | no forgotten future (`NoLostWakeup`), no retry of a timeout (`RetryOnlyAfterLoss`), `CallEnds` and `PendingDrains` under fairness |
| `cluster_safe` | 1 worker process, 2 connections, 2 tasks | do hub and worker agree: `NeverStuckBusy`, `CancelReachesAll`, `RunningHasCarrier`, `ExecutedOnce`, `OldSocketEndsQuietly` |
| `jobs_files` | 1 job, 3 files (module, pytest module, text), 2 at a time, 2 attempts | `VerifiedAsWritten`, `SuccessIsVerified`, `JobEnds` under fairness |
| `jobs_two` | 2 jobs, own or shared workspace, 1 debate round, 1 format retry, no finished job kept, 1 data file under `tests/` | `GateHolds`, `ArtifactsAreOwn` |
| `jobs_design` | 1 job, 1 file | finding: `CodersSeeTheDesign` is violated |
| `skill_calls` | 2 calls that ask the same and a stranger; stores of 2, a bucket of 1, 3 tasks, 1 restart, 2 attempts, a cache of 1, 1 and 3 tokens, 2 ids of the hub; directly or distributed | `RunsOnce`, `AnswerIsOwn`, `NeverRefused`, `CallEnds` under fairness |
| `agent_runs` | 1 request that may be any kind of run and 1 that meets it at grok, 2 attempts or rounds, chains of one or two backends | `NothingLeftBehind`, `EveryBackendTried`, `LoginOnce`, `PassIsOfTheTree`, `AgentEnds` under fairness |
| `process` | `Store`: 2 threads, 1 token, 2 artifacts, a memory of 1, 3 writer threads, 3 writes. `Startup`: 2 agents, hub, dashboard, 1 port to fall back to, two starts with the command lines listed in `MCProcess` | `TokenOnce`, `PublishedIsFound`, `WritesEnd`; `RegistryIsTrue`, `PipelineOnWorkingServers`, `StartEnds`; `WritesEnd` and `StartEnds` under fairness |

`Store` and `Startup` share no variable, so in `process` each behaviour follows one of
the two (`part`), and nothing is lost by not interleaving them.

### Bounds

`MaxId` bounds the task counter, the set of connections bounds reconnections, and the
pipelines are bounded by their own limits; every run is exhaustive within these. Two
workers suffice for every pairwise race (a task moves from one worker to another only
through a settled state), and three ids let two tasks compete for a worker while a
third is settled or evicted. The store is smaller than the ids, so that records are
evicted while they are still spoken of. In `calls_live` the second connection is the
reconnection. `MAX_FINISHED_JOBS` is 0, so that every finished job is subject to the
cap. Symmetry is used in runs without liveness only.

In `skill_calls` three tasks in stores of two evict one, by the stranger's request or by
a second run of the same key; the bucket of one throttles every second request unless
time passes; one call has tokens for a POST, its retry and a poll, the other for a POST
only: it competes for keys, entries and the bucket, and may find its answer in the cache
(`MaxTokens`: a call out of tokens can still time out, so `CallEnds` does not rest
on the bound; what two calls that poll may be told is proved, see *Proofs*). `MaxRestarts` is 1. In `process` the memory of one evicts at the second
artifact; three writes are the two racing first ones and one to an established writer
(`MaxWrites`), and `MaxWriter` is 3, more than two threads can make by racing for the
first write. The second start finds what the first left in the registry; each start has
a free port to fall back to, for one server, so that another finds none. In
`jobs_files` and `jobs_two` together the files are of every kind `process_single_file`
tells apart; in a run of the tester two attempts let a failed write be followed by one
that succeeds.

### Fairness

- `Hub`: the sweeper loop (every second, exceptions swallowed) sweeps a task that is
  overdue or whose worker is dead, time makes started tasks overdue, and each send of
  a sweep ends. Nothing is assumed of workers, clients or dispatch coroutines.
- `WsCalls`: the same for the server's sweeper, the pruner runs again and again, and a
  call makes its next step: the event loop schedules it, its sends end, its waits have
  deadlines.
- `Jobs`: a coroutine that can go on does; an agent call ends at its deadline at the
  latest; a gate opens or times out. No client has to answer.
- `HttpCalls`: what a client does by itself, its timeouts included. Nothing of the
  server, the network, the agents or the hub.
- `Agents`: the code goes on, and the timeouts of programs fire. No program need end.
- `Store`: threads run, and each step of the writer ends: SQLite answers, fails, or
  gives up after its 30 s.
- `Startup`: `main_async` goes on (weak), and the deadline of a wait, which is looked at
  once per sweep, is at some time over (strong, for `Abort` is disabled during a sweep).
  Nothing of the servers.

## Findings

- `server_busy`: `WorkerRegistry.register` reads the status before `/register` and
  writes it back after it (`serve.py:98-116`): a worker that gets a waiting task from
  the backlog pass in between is listed idle while the task runs on it.
- `jobs_design`: the format retry of a design is written to `design.md` but not
  published, and the coders' design is fetched from the bus: they are given the answer
  that did not parse.

### Observed, without a run

What the models reach, or what reading the code against its texts showed, where no
property says so:

- Workers and hub. A registered worker may be busy with nothing to do: a call cancelled
  between selection and dispatch, or a worker that registers again while a dispatch
  whose send fails is under way (the failure is written to the old record). The worker's
  status setter clears *all* active tasks (`worker.py:66-69`), so the cancel notice or
  the late end of one task makes it accept another while one runs, although
  `docs/OVERVIEW.md:152` says it refuses.
- Pipelines. The generated test file of a root-level module is the path of a designed
  pytest module of that name: the designed one is overwritten and may pass without
  having run (`orchestrator.py:115-116` says such files run directly). A file under
  `tests/` that is not Python (`tests/data.json`) counts as a test module
  (`orchestrator.py:121`), so its audit is skipped (1471), and is not Python, so pytest is
  skipped (1622): it passes unchecked, where the comment at 1620-1621 says that the audit
  alone verifies such files. `VerifiedAsWritten` asks nothing of it.
- Skill calls. A throttled request keeps its token, since `skill_app.py:126-130` limits
  the rate before it checks the token; the docstring at `orchestrator.py:664-668` says
  the token is consumed. A task that was evicted while it ran is written back over the
  cap (`skill_app.py:165`). A database error in the token check is answered like a bad
  token, and not retried.
- Tokens and writer. `jwt.py:50-53` speaks of a single writer thread; two racing first
  writes may make two (the primary key still admits a token once), or one of the starts
  raises and fails its write. An artifact that the memory evicts before its row is
  written is found nowhere until then; `publish` has not returned by then.
- Providers and agents. Cancelling a run leaves the program it awaits running, although
  `docs/history/Genius_Comprehensive_Report.md:271` says it is terminated at once. An
  envelope with fields of unexpected types leaves the chain as an `AttributeError`
  instead of falling through. A second request that meets grok during the login does
  not wait for it. After its last failed attempt the tester returns an answer it did not
  run (`tester.py:118-126`). When its write before a test fails (`tester.py:62`), which is
  not fatal, pytest runs on the file as it was; a pass is then returned with an answer that
  never ran, and the write at `tester.py:120` may put that answer there, though lines
  257-261 of the Report call the log evidence of its execution. The active backend of a `FallbackProvider` is said to be
  sticky in the process; providers are created per request.
- Start-up. A hub that cannot bind ends the event loop with a `SystemExit`, not with the
  `RuntimeError` of the docstring of `wait_for_hub_ready`. A second cancel during the
  shutdown skips the pruning of the registry, and a failed pruning is silent. A registry
  that cannot be read for a moment is written back without the entries of the other
  servers (`serve.py:803-813`), which still serve. With `--keep-alive`, the crash of one
  server still takes all down. A server that crashes while a prompt is typed is not
  looked at again. A stale entry of the registry, or a server of another process, can
  answer a health check.

## Proofs

Every theorem holds for every value of the constants, from the named assumptions of its
module alone (`HubAssumption`, `JobsAssumption` with `PipelineAssumption`, ...), which
TLC evaluates in the runs. That a design has files (`PipelineAssumption`) is the code's:
one that names none is not a design (`orchestrator.py:2107`, `2810`).

- `HubProofs`: `IInv` is inductive (`Inductive`), hence `TypeOK` (`TypeCorrect`),
  `BacklogIsPending` (`BacklogExact`), `RunningIsOwned` (`NoOrphan`), `NoBusyLeak`
  (`BusyWorkersRun`) and `DispatchSpeaksForOwner` (`CoroutinesSpeakForOwner`). None of
  the last four is inductive by itself: `NoBusyLeak` needs the ownership of running
  tasks; a dispatch coroutine speaks for its owner only because unissued ids have no
  coroutine and waiting tasks no worker. `IInv` adds those facts. The proof has one lemma
  per handler; a handler builds a worker table and a store and hands them to
  `ProcessQueue`, so the lemma `ProcessQueueSound` is proved once for any sound pair, and
  `Settles` states what every settling handler (report, deregister, failed send, sweep)
  has in common.
  The step properties are `NoResurrection` (`SettledStays`), `LiveNeverEvicted`
  (`LiveStays`), `FifoPerRole` (`RolesAreFifo`) and `WorkConserving`
  (`WorkIsConserved`); `HubImplementsBoard` is the refinement of `TaskBoard`. Every step
  has one of three shapes (a handler that settles tasks and hands on to `ProcessQueue`, a
  `/dispatch`, a step that leaves the store alone), and in each of them every task makes
  one of the moves of `TaskMoves` (`EveryTaskMoves`), from which all but `WorkConserving`
  follow. For that one: a pass leaves no match (`PassLeavesNoMatch`), a step that only
  redates workers makes one only by reviving a stale worker (`RedatingMatches`).
- `WsCallsProofs`: `NoLostWakeup` (`WakeupsAreNotLost`), `RetryOnlyAfterLoss`
  (`RetriesFollowLosses`), `ImplementsTaskBoard` (`CallsImplementBoard`) and the types
  (`CallTypesAreKept`). `IInv` does not hold here, for a call marks its worker busy before
  it has a task; `CallsInv` takes its place: nobody waits in the backlog (`NothingWaits`,
  so the passes hand out nothing, `EmptyPass`), a future that says "lost" belongs to a
  task that failed otherwise than by its time and a failed task that is waited for says why
  (`Kept`), and a call awaits a future that can wake it or has (`Placed`). What lets one
  call clean up after itself without touching another is `Apart`: no two calls share a
  task. Every step of the server settles tasks and futures one by one in the way `Serves`
  says, every step of a call leaves the tasks of the others `Untouched`.
- `ClusterProofs`: `NeverStuckBusy` (`NeverRefusesForEver`), `CancelReachesAll`
  (`NothingRunsUnseen`), `RunningHasCarrier` (`RunningIsCarried`), and the step properties
  `ExecutedOnce` (`ExecutionsAreUnique`) and `OldSocketEndsQuietly`
  (`OldSocketsEndQuietly`), with the types (`ClusterTypesAreKept`). `ClusterInv` adds to
  `IInv` what a process does between its socket and its executions (`NodeInv`, where
  the first two live), whose the connections are (`SocketInv`), and for each task where it
  is (`Traced`). That a running task is carried holds only because it is sent at most
  once, to the worker its record names (`SentOnce`), its message lies on that connection
  alone and before any execution (`MessageOnce`), nobody else executes or answers it
  (`WorkedByOne`), and nobody cancels what runs (`CancelledLate`). A step of
  the server and one of a process disturb different parts of this: `Follows` says what
  either may do to one task, `FollowsKeeps` that it keeps `Traced`, and
  `HubStepKeeps`, `QuietKeeps` and `NodeStepKeeps` bring each action under it.
  `ClusterImplementsBoard` is the refinement of `TaskBoard`: every step that writes the
  store is a step of the hub or a handler of `HubServer` that writes a status after the
  pass, and both move tasks alike (`ClusterTaskMoves`).
- `JobsProofs`: `GateHolds` (`GateAlwaysHolds`). `AdvanceMove` shows that a run that is
  not at a gate gets no stage behind it but through one. `GateInv` adds what makes the
  answers count: a job awaits an answer only at the gate it shows, with the event clear
  since that gate was entered; a set event that is not a rejection means that this very
  stage was approved; a rejection keeps its run at the gate until it fails.
  `VerifiedAsWritten` (`AlwaysVerifiedAsWritten`) follows from `FilesInv`, whose core is
  `Faithful`: what a path holds, and how what was checked compares with it, at every step
  of a file's own coroutine, with the other files of the batch writing in between. It
  holds for files whose paths are apart (`Apart`; what happens where they are not is under
  *Observed* above). `SuccessIsVerified` (`SuccessIsAlwaysVerified`) adds `DeliveryInv`:
  behind the files stage of a run that is still to succeed, every file of the design is
  done. `ArtifactsAreOwn` (`ArtifactsAreAlwaysOwn`) rests on `ArtifactInv`: what lies in
  a workspace, and what a job has read there, was made by one of its tenants, and a
  workspace with a single one holds all that this run made so far.
- `HttpCallsProofs`: `NeverRefused` (`CallsAreNotReplays`). `ReplayInv`: a token on its
  way has not been seen, and of a call that is not over nothing above its last minted
  number is on its way or seen, so its next request is new. `RunsOnce` (`PromptsRunOnce`)
  and `AnswerIsOwn` (`AnswersAreOwn`) come from `AnswersInv`, with the types of the calls
  (`CallsKeepTheirTypes`): a key leads to a task that was asked with it, a key that has run
  is known to both stores or counted as forgotten (`ServerInv`), and a call polls a task it
  asked for and ends with an answer to its question (`OwnInv`). The hard step is eviction: `Ranks`, `KeptEntries`, `LastRank` and `Evicted` say which
  entries survive it, the newest one among them unless it is a finished task.
- `AgentsProofs`: `LoginOnce` (`LoginStartsOnce`): no login before the flag is set.
  `PassIsOfTheTree` (`PassesAreOfTheTree`), from `PassInv`: a verdict under way is about
  what the file holds. It leaves out the passes of a tester whose last answer met a failed
  write, for which the code makes it false (see *Observed* above).
  `EveryBackendTried` (`BackendsAreAllTried`), from `ChainInv`: what a prompt has tried and what is left to it are, in this order, the chain
  from the backend it started with (`Ordered`, `Started`), and it fails with nothing left.
  `NothingLeftBehind` (`NothingIsLeftBehind`) adds `WaitInv`: what runs is
  what is awaited, and only in the stages that wait; `ActsMoves` shows that each of the many
  actions of an agent is, for this, one of three moves: it asks, ends, or starts a program.
- `StoreProofs`: `TokenOnce` (`AcceptedOnce`) from `TokenInv`: an accepted, unexpired
  token has its row. `PublishedIsFound` (`PublishedStays`) from `ArtifactInv`: a task is
  with at most one writer or once in the queue (`Exclusive`), and what its caller is told
  of it is what became of its row (`Written`).
- `StartupProofs`: `RegistryIsTrue` (`RegistryStaysTrue`) and `PipelineOnWorkingServers`
  (`PipelineAfterAnswers`) from `StartupInv`: the entry of a server is its port as long
  as it serves or shuts down and no failed access has dropped it, and who is no longer
  waited for has answered.

Every safety invariant and every step property that a passing run checks is proved,
and so is the refinement of `TaskBoard` by the hub, by the calls and by the cluster (there
the proof stands alone: no run checks it on the cluster).

Only model-checked are the liveness properties (`RunningEnds`, `CallEnds`, `PendingDrains`,
`JobEnds`, `AgentEnds`, `WritesEnd`, `StartEnds`): liveness under fairness is out of the
prover's reach. Of the other components' type invariants the theorems prove what they
need and no more.

## Not modelled

- The client app (`client_app/genius_client.py`): a sequential retry and poll loop whose
  requests carry no token id and go to other paths; no server of this commit accepts them.
- Scanner and repository graph, evaluation, vector store: sequential algorithms over
  text and real numbers whose results are prompt text or scores; nothing in them interacts,
  and the vector store's writes go through the writer thread of `Store`.
- Dashboard, control panel, configuration, logging, diagnostics, `git.py`: views, I/O
  and presentation.
- Parts of the modelled components, named in the sections above and in `PROJECT.json`.

## Plan

1. Done: every component with a protocol of its own, and the theorems above.
2. Proofs next: the types of the components whose theorems did not need all of them.
3. Two processes on one service registry; two runs that share a project directory; the
   cap of pending futures.
