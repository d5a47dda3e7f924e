------------------------------ MODULE Startup ------------------------------
(***************************************************************************)
(* serve.py from its start to its end: the choice of roles, the hub, agent *)
(* and dashboard servers as tasks of one event loop, the readiness waits,  *)
(* the pipeline, the shutdown, and the service registry, a file that stays *)
(* when the process is gone.  One process at a time: it may be started     *)
(* again, after a clean end or after it was killed.                        *)
(*                                                                         *)
(* A server bound to a port listens there until its uvicorn shutdown       *)
(* begins.  Other programs hold ports too and may answer a health check.   *)
(* Reading, opening and writing the registry may fail at every use.  A     *)
(* failing write has truncated the file; one that is empty, missing or cut *)
(* off is read like one without entries, by the servers and by the waits.  *)
(* The exit codes and the shortcut under pytest are left out.              *)
(***************************************************************************)
EXTENDS Integers, Sequences, FiniteSets

CONSTANTS
  Agent,          \* roles of AGENT_DEFAULT_PORTS
  DynamicPort,    \* what the system hands out when the configured port is taken
  NoPort,
  RoutedRole,     \* the role ROUTING_TABLE gives a command prompt
  Commands        \* bound: the command lines tried at the first start, the second, ...

Server == Agent \cup {"hub", "dashboard"}
Role == Agent \cup {"dashboard", "orchestrator"}
Named == Agent \cup {"dashboard"}  \* the roles with an entry in the registry

\* What main_async parses; roles is what --roles or the menu selects.
CommandLine ==
  [auto_pilot : BOOLEAN, roles : SUBSET Role, prompt : {"none", "text", "command"},
   distributed : BOOLEAN, keep_alive : BOOLEAN]

ASSUME StartupAssumption ==
  /\ Commands \in Seq(SUBSET CommandLine)
  /\ RoutedRole \in Agent /\ Agent \cap {"hub", "dashboard"} = {}
  /\ DynamicPort \cap Server = {} /\ NoPort \notin DynamicPort \cup Server

VARIABLES
  main,      \* where main_async is, "off" when there is no process
  args,      \* the command line
  task,      \* per server: the state of its task
  port,      \* per server: the port it bound; the configured one is named like the server
  strangers, \* ports held by other programs
  registry,  \* the service registry: role -> port
  pending,   \* wait_for_servers_ready: roles that have not answered,
  sweep,     \*   those still to ask in this sweep,
  snapshot,  \*   and what the registry said of those at its start
  starts,    \* so far
  answered,  \* history: who answered the probe of each server
  dropped,   \* history: servers that serve, their entry lost to a failed access
  cut        \* history: servers whose shutdown was cut short, by a kill or a second
             \*   cancel, or whose pruning failed

startVars == <<main, args, task, port, strangers, registry, pending, sweep, snapshot,
               starts, answered, dropped, cut>>

NoArgs == [auto_pilot |-> FALSE, roles |-> {}, prompt |-> "none",
           distributed |-> FALSE, keep_alive |-> FALSE]
NoEntries == [r \in Named |-> NoPort]
Nobody == [s \in Server |-> "nobody"]
TaskState == {"none", "starting", "serving", "failing", "closing", "crashed", "ended"}

StartupInit ==
  /\ main = "off" /\ args = NoArgs
  /\ task = [s \in Server |-> "none"]
  /\ port = [s \in Server |-> NoPort]
  /\ strangers = {}
  /\ registry = NoEntries
  /\ pending = {} /\ sweep = {} /\ snapshot = NoEntries
  /\ starts = 0
  /\ answered = Nobody
  /\ dropped = {} /\ cut = {}

Launched == {s \in Server : task[s] # "none"}
Listens(s) == port[s] # NoPort /\ task[s] \in {"serving", "crashed"}

\* _server_task_crash
Crashed == \E s \in Server : task[s] = "crashed"

-----------------------------------------------------------------------------
(* Cancelling *)

\* cancel() of every server task.  A server that serves begins its shutdown; one
\* already in it loses the rest of it, the pruning included.
Cancelled(s) ==
  CASE task[s] = "serving" -> "closing"
    [] task[s] \in {"starting", "failing", "closing"} -> "ended"
    [] OTHER -> task[s]

\* main_async cancels the tasks and gathers them; asyncio.run does the same with what a
\* return or an exception left behind.
StopAll ==
  /\ main' = "stopping"
  /\ task' = [s \in Server |-> Cancelled(s)]
  /\ cut' = cut \cup {s \in Named : task[s] \in {"failing", "closing"}}
  /\ sweep' = {} /\ pending' = {} /\ snapshot' = NoEntries /\ answered' = Nobody
  /\ dropped' = {}

\* What no step after the start of the process changes.
Settings == <<args, strangers, starts>>

-----------------------------------------------------------------------------
(* The start *)

\* normalize_roles, the defaults of main_async and ROUTING_TABLE.
Selected(a) ==
  (IF a.auto_pilot THEN Role
   ELSE IF a.roles # {} THEN a.roles
   ELSE IF a.prompt # "none" THEN {"orchestrator"} ELSE {})
    \cup (IF a.prompt = "command" THEN {RoutedRole} ELSE {})

ToLaunch(a) ==
  (Selected(a) \ {"orchestrator"}) \cup (IF a.distributed THEN {"hub"} ELSE {})

RunsPipeline(a) == "orchestrator" \in Selected(a) \/ a.prompt # "none"

\* Where main_async goes once the agents have answered, or when nothing was launched.
\* The last look at the tasks comes right before.
AfterReadiness(a) ==
  IF a.prompt # "none" THEN "pipeline" ELSE IF a.auto_pilot THEN "stopping" ELSE "prompting"

Start(a) ==
  /\ main = "off" /\ starts < Len(Commands) /\ a \in Commands[starts + 1]
  /\ Selected(a) # {} \/ a.distributed
  /\ starts' = starts + 1
  /\ args' = a
  /\ \E taken \in SUBSET (ToLaunch(a) \cup DynamicPort) :
       /\ DynamicPort \ taken # {} /\ strangers' = taken
  /\ task' = [s \in Server |-> IF s \in ToLaunch(a) THEN "starting" ELSE "none"]
  /\ port' = [s \in Server |-> NoPort]
  /\ main' = IF ~RunsPipeline(a) THEN "persisting"
             ELSE IF ToLaunch(a) = {} THEN AfterReadiness(a)
             ELSE IF a.distributed THEN "awaiting_hub" ELSE "awaiting_servers"
  /\ pending' = IF RunsPipeline(a) THEN ToLaunch(a) \cap Agent ELSE {}
  /\ sweep' = {}
  /\ snapshot' = NoEntries
  /\ answered' = Nobody
  /\ UNCHANGED <<registry, dropped, cut>>

-----------------------------------------------------------------------------
(* The server tasks: start_server and start_hub_server *)

Free(p) == p \notin strangers /\ \A u \in Server : ~(Listens(u) /\ port[u] = p)

\* Mutant of RegisteredPort: the configured port.
ConfiguredPort(s, p) == s

\* What start_server puts into the registry.
RegisteredPort(s, p) == p

\* The servers whose entries go when the registry becomes what is kept of it.
Lost(kept) ==
  {r \in Named : task[r] = "serving" /\ kept[r] # registry[r]}

\* A write fails after it has truncated the file.
Truncated == registry' = NoEntries /\ dropped' = dropped \cup Lost(NoEntries)

\* Agents and the dashboard read the registry and write it back with their port.  What
\* cannot be read counts as empty.
Registers(s, p) ==
  \E known \in {registry, NoEntries} :
    /\ registry' = [known EXCEPT ![s] = RegisteredPort(s, p)]
    /\ dropped' = dropped \cup Lost(known)
    /\ cut' = cut \ {s}

\* A server has bound p.  A registry that cannot be written ends its task, and leaves
\* the socket open.
Serves(s, p) ==
  /\ port' = [port EXCEPT ![s] = p]
  /\ \/ /\ task' = [task EXCEPT ![s] = "serving"]
        /\ IF s = "hub" THEN UNCHANGED <<registry, dropped, cut>> ELSE Registers(s, p)
     \/ /\ s # "hub"
        /\ task' = [task EXCEPT ![s] = "crashed"]
        /\ Truncated \/ UNCHANGED <<registry, dropped>>
        /\ UNCHANGED cut
  /\ UNCHANGED <<main, pending, sweep, snapshot, answered>>

\* The configured port if it is free, else one the system picks.
Bind(s) ==
  /\ task[s] = "starting"
  /\ \/ Free(s) /\ Serves(s, s)
     \/ /\ s # "hub" /\ ~Free(s)
        /\ \E p \in DynamicPort : Free(p) /\ Serves(s, p)
  /\ UNCHANGED Settings

\* A hub whose port is taken, or a server that cannot bind at all: the SystemExit of
\* uvicorn leaves its task and ends the event loop.
BindFails(s) ==
  /\ task[s] = "starting" /\ ~Free(s)
  /\ s = "hub" \/ \A p \in DynamicPort : ~Free(p)
  /\ main \notin {"off", "stopping"}
  /\ StopAll
  /\ UNCHANGED <<Settings, port, registry>>

\* The app of a role does not load, or main_loop raises: the shutdown of a server that
\* served comes first.
Fails(s) ==
  /\ main # "stopping"
  /\ \/ task[s] = "starting" /\ task' = [task EXCEPT ![s] = "crashed"]
     \/ task[s] = "serving" /\ task' = [task EXCEPT ![s] = "failing"]
  /\ dropped' = dropped \ {s}
  /\ UNCHANGED <<Settings, main, port, registry, pending, sweep, snapshot, answered, cut>>

\* Mutant of Pruned: the entry is dropped only from the configured port.
PrunedConfigured(s) ==
  IF registry[s] = s THEN [registry EXCEPT ![s] = NoPort] ELSE registry

\* _prune_registry_entry: only an entry that is still ours.
Pruned(s) ==
  IF registry[s] = port[s] THEN [registry EXCEPT ![s] = NoPort] ELSE registry

\* A failure of _prune_registry_entry is swallowed: the entry is left, or the file is
\* truncated.
PruningFails(s) ==
  /\ registry[s] = port[s]
  /\ \/ cut' = cut \cup {s} /\ UNCHANGED <<registry, dropped>>
     \/ Truncated /\ UNCHANGED cut

\* The uvicorn shutdown of a server is over.
ShutDown(s) ==
  /\ task[s] \in {"failing", "closing"}
  /\ task' = [task EXCEPT ![s] = IF @ = "failing" THEN "crashed" ELSE "ended"]
  /\ port' = [port EXCEPT ![s] = NoPort]
  /\ \/ /\ registry' = IF s = "hub" THEN registry ELSE Pruned(s)
        /\ UNCHANGED <<dropped, cut>>
     \/ s # "hub" /\ PruningFails(s)
  /\ UNCHANGED <<Settings, main, pending, sweep, snapshot, answered>>

-----------------------------------------------------------------------------
(* wait_for_hub_ready and wait_for_servers_ready *)

Waiting == {"awaiting_hub", "awaiting_servers"}

\* Who takes a connection to a port; to a health check only agents answer 200, and
\* other programs if they are such servers of another process.
Answerer(p, s) ==
  {u \in {"itself"} : Listens(s) /\ port[s] = p}
    \cup {u \in {"other"} : p \in strangers \/ \E v \in Agent \ {s} : Listens(v) /\ port[v] = p}

\* Between two sweeps the tasks and the clock are looked at.
Checks == main = "awaiting_hub" \/ (main = "awaiting_servers" /\ sweep = {} /\ pending # {})

\* Mutant of Abort: a crash is noticed, but no deadline is kept.
AbortOnCrash ==
  /\ Checks /\ Crashed
  /\ StopAll
  /\ UNCHANGED <<Settings, port, registry>>

\* A task has crashed or the deadline has passed, which it may at any time.
Abort ==
  /\ Checks
  /\ StopAll
  /\ UNCHANGED <<Settings, port, registry>>

ConnectToHub ==
  /\ main = "awaiting_hub" /\ ~Crashed
  /\ \E u \in Answerer("hub", "hub") : answered' = [answered EXCEPT !["hub"] = u]
  /\ main' = "awaiting_servers"
  /\ UNCHANGED <<Settings, task, port, registry, pending, sweep, snapshot, dropped, cut>>

\* A registry that cannot be read counts as empty in this sweep.
SweepBegins ==
  /\ main = "awaiting_servers"
  /\ Checks /\ ~Crashed
  /\ sweep' = pending
  /\ \E known \in {registry, NoEntries} :
       snapshot' = [r \in Named |-> IF r \in pending THEN known[r] ELSE NoPort]
  /\ UNCHANGED <<Settings, main, task, port, registry, pending, answered, dropped, cut>>

\* GET /health at the port the registry of this sweep names, or the configured one.
AskHealth(s) ==
  LET p == IF snapshot[s] # NoPort THEN snapshot[s] ELSE s IN
  /\ main = "awaiting_servers" /\ s \in sweep
  /\ sweep' = sweep \ {s}
  /\ snapshot' = [snapshot EXCEPT ![s] = NoPort]
  /\ \/ \E u \in Answerer(p, s) :
          answered' = [answered EXCEPT ![s] = u] /\ pending' = pending \ {s}
     \/ UNCHANGED <<answered, pending>>
  /\ UNCHANGED <<Settings, main, task, port, registry, dropped, cut>>

\* Mutant of AllReady: the tasks are not looked at once more.
AllReadyUnchecked ==
  /\ main = "awaiting_servers" /\ sweep = {} /\ pending = {}
  /\ \/ AfterReadiness(args) = "stopping" /\ StopAll
     \/ /\ AfterReadiness(args) # "stopping"
        /\ main' = AfterReadiness(args)
        /\ UNCHANGED <<task, dropped, cut, sweep, pending, snapshot, answered>>
  /\ UNCHANGED <<Settings, port, registry>>

\* Everybody has answered: a last look at the tasks, and on.
AllReady ==
  /\ main = "awaiting_servers" /\ sweep = {} /\ pending = {}
  /\ \/ (Crashed \/ AfterReadiness(args) = "stopping") /\ StopAll
     \/ /\ ~Crashed /\ AfterReadiness(args) # "stopping"
        /\ main' = AfterReadiness(args)
        /\ UNCHANGED <<task, dropped, cut, sweep, pending, snapshot, answered>>
  /\ UNCHANGED <<Settings, port, registry>>

-----------------------------------------------------------------------------
(* After the start *)

\* input() in a thread: a prompt, an empty one, or the end of input.
TypePrompt ==
  /\ main = "prompting"
  /\ \/ main' = "pipeline" /\ UNCHANGED <<task, dropped, cut, sweep, pending, snapshot, answered>>
     \/ StopAll
  /\ UNCHANGED <<Settings, port, registry>>

\* The pipeline returned or failed.
PipelineEnds ==
  /\ main = "pipeline"
  /\ \/ /\ args.keep_alive /\ Launched # {}
        /\ main' = "persisting"
        /\ UNCHANGED <<task, dropped, cut, sweep, pending, snapshot, answered>>
     \/ (~args.keep_alive \/ Launched = {}) /\ StopAll
  /\ UNCHANGED <<Settings, port, registry>>

\* gather raises as soon as one server has crashed; the others are stopped.
GatherEnds ==
  /\ main = "persisting" /\ Crashed
  /\ StopAll
  /\ UNCHANGED <<Settings, port, registry>>

\* Ctrl+C, once or again while the servers shut down.
Interrupt ==
  /\ main # "off"
  /\ StopAll
  /\ UNCHANGED <<Settings, port, registry>>

\* Nothing of the process is left but the registry.
Gone ==
  /\ main' = "off" /\ args' = NoArgs
  /\ task' = [s \in Server |-> "none"] /\ port' = [s \in Server |-> NoPort]
  /\ strangers' = {} /\ pending' = {} /\ sweep' = {} /\ snapshot' = NoEntries
  /\ answered' = Nobody /\ dropped' = {}
  /\ UNCHANGED <<registry, starts>>

\* The process ends.
Exit ==
  /\ main = "stopping"
  /\ \A s \in Server : task[s] \in {"none", "crashed", "ended"}
  /\ Gone
  /\ UNCHANGED cut

\* The process is killed.
Kill ==
  /\ main # "off"
  /\ Gone
  /\ cut' = cut \cup {s \in Named : task[s] \in {"serving", "failing", "closing"}}

-----------------------------------------------------------------------------
ServerTaskStep(s) == Bind(s) \/ BindFails(s) \/ Fails(s) \/ ShutDown(s)
MainStep ==
  \/ Abort \/ ConnectToHub \/ SweepBegins \/ (\E s \in Agent : AskHealth(s)) \/ AllReady
  \/ PipelineEnds \/ GatherEnds \/ Exit

StartupNext ==
  \/ \E n \in DOMAIN Commands : \E a \in Commands[n] : Start(a)
  \/ \E s \in Server : ServerTaskStep(s)
  \/ MainStep
  \/ TypePrompt \/ Interrupt \/ Kill

StartupSpec == StartupInit /\ [][StartupNext]_startVars

\* The event loop runs main_async, and its clock reaches the deadline, which is looked
\* at again and again.  Nothing is assumed of the servers.
StartupFairness == WF_startVars(MainStep) /\ SF_startVars(Abort)

-----------------------------------------------------------------------------
(* Properties *)

\* Every variable keeps the shape its comment gives it.
StartupTypeOK ==
  /\ task \in [Server -> TaskState]
  /\ port \in [Server -> Server \cup DynamicPort \cup {NoPort}]
  /\ registry \in [Named -> Server \cup DynamicPort \cup {NoPort}]
  /\ pending \subseteq Agent /\ sweep \subseteq pending
  /\ main \in Waiting \cup {"off", "prompting", "pipeline", "persisting", "stopping"}

\* The registry names the port of every server that serves, on whatever port it ended
\* up, or no port when a failed access has dropped the entry since: never a port of
\* somebody else.  Once a server has ended its entry is gone, through every way to stop,
\* unless the process was killed, the shutdown was cancelled once more, or the pruning
\* itself failed.
RegistryIsTrue == \A r \in Named :
  /\ task[r] = "serving" => registry[r] = IF r \in dropped THEN NoPort ELSE port[r]
  /\ task[r] \in {"none", "starting", "crashed", "ended"} /\ registry[r] # NoPort => r \in cut

\* A pipeline asked for on the command line starts only when somebody has answered for
\* the hub and every agent, and no server has crashed since, the dashboard included.
PipelineOnWorkingServers ==
  [][main # "pipeline" /\ main' = "pipeline" /\ args'.prompt # "none" =>
       \A s \in {u \in Server : task'[u] # "none"} :
         task[s] # "crashed" /\ (s # "dashboard" => answered[s] # "nobody")]_startVars

\* The waits of a start end, whatever the servers and other programs do.
StartEnds == main \in Waiting ~> main \notin Waiting
=============================================================================
