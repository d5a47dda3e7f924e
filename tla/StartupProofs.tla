--------------------------- MODULE StartupProofs ---------------------------
(***************************************************************************)
(* Proofs about Startup, for any agents, ports and command lines: the      *)
(* registry names the servers that serve and no others, and the pipeline   *)
(* starts on servers that have answered.                                   *)
(***************************************************************************)
EXTENDS Startup, TLAPS

\* A server keeps its entry from the moment it serves to the end of its shutdown, unless
\* a failed access of the registry drops it; any other entry is what a shutdown that was
\* cut short, or a failed pruning, left behind.
RegistryInv ==
  /\ task \in [Server -> TaskState]
  /\ port = [s \in Server |-> port[s]]
  /\ registry = [r \in Named |-> registry[r]]
  /\ main = "off" => \A s \in Server : task[s] = "none"
  /\ \A r \in Named :
       /\ task[r] = "serving" => registry[r] = IF r \in dropped THEN NoPort ELSE port[r]
       /\ task[r] \in {"failing", "closing"} => registry[r] \in {port[r], NoPort}
       /\ r \in dropped => task[r] = "serving"
       /\ task[r] \in {"none", "starting", "crashed", "ended"} /\ registry[r] # NoPort => r \in cut

\* Whoever is not waited for any more has answered, and a prompt of the command line is
\* not asked for once more.
WaitInv ==
  /\ answered = [s \in Server |-> answered[s]]
  /\ main = "awaiting_servers" => \A s \in Server \ {"dashboard"} :
       task[s] # "none" => s \in pending \/ answered[s] # "nobody"
  /\ main = "awaiting_hub" => \A s \in Server \ {"dashboard", "hub"} :
       task[s] # "none" => s \in pending \/ answered[s] # "nobody"
  /\ main = "prompting" => args.prompt = "none"

StartupInv == RegistryInv /\ WaitInv

-----------------------------------------------------------------------------
(* Steps *)

\* A start of the process.
LEMMA StartStep ==
  ASSUME StartupInv, NEW n \in DOMAIN Commands, NEW a \in Commands[n], Start(a)
  PROVE  StartupInv'
  <1>1. a \in CommandLine
    BY StartupAssumption
  <1>2. RegistryInv'
    BY DEF StartupInv, RegistryInv, Start, Named, Server, TaskState, Waiting, AfterReadiness
  <1>3. WaitInv'
    <2>1. \A s \in ToLaunch(a) : s \in Agent \/ s = "dashboard" \/ (s = "hub" /\ a.distributed)
      BY <1>1, StartupAssumption DEF ToLaunch, Selected, CommandLine, Role
    <2>2. \A s \in Server : task'[s] # "none" => s \in ToLaunch(a)
      BY DEF Start
    <2>3. main' = "awaiting_servers" => ~a.distributed /\ pending' = ToLaunch(a) \cap Agent
      BY DEF Start, AfterReadiness
    <2>4. main' = "awaiting_hub" => pending' = ToLaunch(a) \cap Agent
      BY DEF Start, AfterReadiness
    <2>5. main' = "prompting" => args'.prompt = "none"
      BY DEF Start, AfterReadiness
    <2>6. answered' = [s \in Server |-> answered'[s]]
      BY DEF Start, Nobody
    <2>7. \A s \in Server \ {"dashboard"} :
            task'[s] # "none" => s \in Agent \/ (s = "hub" /\ a.distributed)
      BY <2>1, <2>2
    <2>8. \A s \in Server : s \in Agent /\ task'[s] # "none" => s \in ToLaunch(a) \cap Agent
      BY <2>2
    <2>9. main' = "awaiting_servers" => \A s \in Server \ {"dashboard"} :
            task'[s] # "none" => s \in pending'
      BY <2>3, <2>7, <2>8
    <2>10. main' = "awaiting_hub" => \A s \in Server \ {"dashboard", "hub"} :
            task'[s] # "none" => s \in pending'
      BY <2>4, <2>7, <2>8
    <2> QED BY <2>5, <2>6, <2>9, <2>10 DEF WaitInv
  <1> QED BY <1>2, <1>3 DEF StartupInv

\* Cancelling every task.
LEMMA StopStep ==
  ASSUME StartupInv, StopAll, UNCHANGED <<port, registry>>
  PROVE  StartupInv'
  <1>1. \A s \in Server : task'[s] = Cancelled(s)
    BY DEF StopAll
  <1>2. task' \in [Server -> TaskState]
    BY <1>1 DEF StopAll, Cancelled, TaskState, StartupInv, RegistryInv
  <1>3. RegistryInv'
    <2>1. \A r \in Named : r \in Server
      BY DEF Named, Server
    <2>2. \A r \in Named :
            /\ task'[r] # "serving" /\ r \notin dropped'
            /\ task'[r] \in {"failing", "closing"} => registry'[r] \in {port'[r], NoPort}
            /\ task'[r] \in {"none", "starting", "crashed", "ended"}
               /\ registry'[r] # NoPort => r \in cut'
      BY <1>1, <2>1 DEF StopAll, Cancelled, TaskState, StartupInv, RegistryInv
    <2> QED BY <1>2, <2>2 DEF StopAll, StartupInv, RegistryInv
  <1>4. WaitInv'
    BY DEF StopAll, Nobody, StartupInv, WaitInv
  <1> QED BY <1>3, <1>4 DEF StartupInv

\* A step of one server task; none of them goes back to "none".
LEMMA TaskStep ==
  ASSUME StartupInv, NEW s \in Server, ServerTaskStep(s)
  PROVE  StartupInv'
  <1> USE DEF StartupInv, RegistryInv, Settings
  <1>1. ASSUME NEW p, task[s] = "starting", Serves(s, p), UNCHANGED Settings
        PROVE  StartupInv'
    <2>1. RegistryInv'
      <3>1. CASE s = "hub"
        <4>1. s \notin Named
          BY <3>1, StartupAssumption DEF Named
        <4> QED BY <1>1, <3>1, <4>1 DEF Serves, TaskState, Named, Server
      <3>2. CASE s # "hub"
        <4>1. \A r \in Named : r \in Server
          BY DEF Named, Server
        <4>2. /\ task' \in [Server -> TaskState] /\ port' = [r \in Server |-> port'[r]]
              /\ task'[s] \in {"serving", "crashed"} /\ port'[s] = p /\ main' = main
              /\ \A r \in Server : r # s => task'[r] = task[r] /\ port'[r] = port[r]
          BY <1>1, <3>2 DEF Serves, TaskState
        <4>3. CASE task' = [task EXCEPT ![s] = "serving"] /\ Registers(s, p)
          <5>1. PICK known \in {registry, NoEntries} :
                  /\ registry' = [known EXCEPT ![s] = p]
                  /\ dropped' = dropped \cup Lost(known)
                  /\ cut' = cut \ {s}
            BY <4>3 DEF Registers, RegisteredPort
          <5>2. /\ known = [r \in Named |-> known[r]] /\ registry' = [r \in Named |-> registry'[r]]
                /\ \A r \in Named : known[r] \in {registry[r], NoPort}
                /\ \A r \in Named : registry'[r] = IF r = s THEN p ELSE known[r]
            BY <5>1 DEF NoEntries
          <5>3. s \notin dropped'
            <6>1. s \in Named
              BY <3>2 DEF Named, Server
            <6> QED BY <1>1, <5>1, <6>1 DEF Lost
          <5>4. ASSUME NEW r \in Named, r # s
                PROVE  /\ task[r] = "serving" =>
                            registry'[r] = IF r \in dropped' THEN NoPort ELSE port[r]
                       /\ task[r] \in {"failing", "closing"} => registry'[r] \in {port[r], NoPort}
                       /\ r \in dropped' => task[r] = "serving"
                       /\ registry'[r] # NoPort => registry[r] # NoPort
            BY <5>1, <5>2, <5>4 DEF Lost
          <5>5. task'[s] = "serving" /\ (\A r \in Named : r # s => r \in cut' <=> r \in cut)
            BY <4>3, <5>1
          <5>6. ASSUME NEW r \in Named
                PROVE  /\ task'[r] = "serving" =>
                            registry'[r] = IF r \in dropped' THEN NoPort ELSE port'[r]
                       /\ task'[r] \in {"failing", "closing"} => registry'[r] \in {port'[r], NoPort}
                       /\ r \in dropped' => task'[r] = "serving"
                       /\ task'[r] \in {"none", "starting", "crashed", "ended"}
                          /\ registry'[r] # NoPort => r \in cut'
            <6>1. CASE r = s
              BY <4>2, <5>2, <5>3, <5>5, <6>1
            <6>2. CASE r # s
              BY <4>1, <4>2, <5>4, <5>5, <6>2
            <6> QED BY <6>1, <6>2
          <5>7. main' = "off" => \A r \in Server : task'[r] = "none"
            BY <1>1, <4>2
          <5> QED BY <4>2, <5>2, <5>6, <5>7
        <4>4. CASE /\ task' = [task EXCEPT ![s] = "crashed"]
                   /\ Truncated \/ UNCHANGED <<registry, dropped>>
                   /\ UNCHANGED cut
          BY <1>1, <4>1, <4>2, <4>4 DEF Truncated, Lost, NoEntries
        <4> QED BY <1>1, <3>2, <4>3, <4>4 DEF Serves
      <3> QED BY <3>1, <3>2
    <2>2. WaitInv'
      BY <1>1 DEF Serves, WaitInv
    <2> QED BY <2>1, <2>2
  <1>2. CASE Bind(s)
    BY <1>1, <1>2 DEF Bind
  <1>3. CASE BindFails(s)
    BY <1>3, StopStep DEF BindFails
  <1>4. CASE Fails(s)
    <2>1. RegistryInv'
      BY <1>4 DEF Fails, TaskState, Named, Server
    <2>2. WaitInv'
      BY <1>4 DEF Fails, WaitInv
    <2> QED BY <2>1, <2>2
  <1>5. CASE ShutDown(s)
    <2>1. task' \in [Server -> TaskState] /\ task'[s] \in {"crashed", "ended"}
          /\ \A r \in Server : r # s => task'[r] = task[r] /\ port'[r] = port[r]
      BY <1>5 DEF ShutDown, TaskState
    <2>2. \A r \in Named : r \in Server
      BY DEF Named, Server
    <2>3. /\ port' = [r \in Server |-> port'[r]] /\ registry' = [r \in Named |-> registry'[r]]
          /\ main' = main /\ cut \subseteq cut'
      BY <1>5 DEF ShutDown, PruningFails, Truncated, Pruned, NoEntries
    <2>4. s \in Named => registry'[s] = NoPort \/ s \in cut'
      <3> SUFFICES ASSUME s \in Named PROVE registry'[s] = NoPort \/ s \in cut'
        OBVIOUS
      <3>1. s # "hub" /\ registry[s] \in {NoPort, port[s]}
        BY <1>5, StartupAssumption DEF Named, ShutDown
      <3> QED BY <1>5, <3>1 DEF ShutDown, PruningFails, Truncated, Pruned, NoEntries
    <2>5. ASSUME NEW r \in Named, r # s
          PROVE  \/ registry'[r] = registry[r] /\ (r \in dropped' <=> r \in dropped)
                 \/ /\ registry'[r] = NoPort
                    /\ r \in dropped' <=> task[r] = "serving"
      BY <1>5, <2>2, <2>5 DEF ShutDown, PruningFails, Truncated, Pruned, Lost, NoEntries
    <2>6. RegistryInv'
      <3>1. ASSUME NEW r \in Named
            PROVE  /\ task'[r] = "serving" =>
                        registry'[r] = IF r \in dropped' THEN NoPort ELSE port'[r]
                   /\ task'[r] \in {"failing", "closing"} => registry'[r] \in {port'[r], NoPort}
                   /\ r \in dropped' => task'[r] = "serving"
                   /\ task'[r] \in {"none", "starting", "crashed", "ended"}
                      /\ registry'[r] # NoPort => r \in cut'
        <4>1. CASE r = s
          <5>1. task'[s] \in {"crashed", "ended"}
            BY <2>1
          <5>2. s \notin dropped'
            BY <1>5, <4>1, <3>1 DEF ShutDown, PruningFails, Truncated, Lost
          <5> QED BY <2>4, <4>1, <3>1, <5>1, <5>2
        <4>2. CASE r # s
          <5>1. r \in Server /\ task'[r] = task[r] /\ port'[r] = port[r]
            BY <2>1, <2>2, <3>1, <4>2
          <5>2. /\ task[r] = "serving" =>
                     registry[r] = IF r \in dropped THEN NoPort ELSE port[r]
                /\ task[r] \in {"failing", "closing"} => registry[r] \in {port[r], NoPort}
                /\ r \in dropped => task[r] = "serving"
                /\ task[r] \in {"none", "starting", "crashed", "ended"}
                     /\ registry[r] # NoPort => r \in cut
            BY <3>1
          <5>3. CASE registry'[r] = registry[r] /\ (r \in dropped' <=> r \in dropped)
            BY <2>3, <5>1, <5>2, <5>3
          <5>4. CASE registry'[r] = NoPort /\ (r \in dropped' <=> task[r] = "serving")
            BY <5>1, <5>2, <5>4
          <5> QED BY <2>5, <3>1, <4>2, <5>3, <5>4
        <4> QED BY <4>1, <4>2
      <3>2. main' # "off"
        BY <1>5, <2>3 DEF ShutDown
      <3> QED BY <2>1, <2>3, <3>1, <3>2
    <2>7. WaitInv'
      BY <1>5 DEF ShutDown, WaitInv
    <2> QED BY <2>6, <2>7
  <1> QED BY <1>2, <1>3, <1>4, <1>5 DEF ServerTaskStep

\* The end of the process, in order or not.
LEMMA GoneStep ==
  ASSUME StartupInv, Exit \/ Kill
  PROVE  StartupInv'
  <1>1. RegistryInv'
    <2>1. \A r \in Named : r \in Server /\ task[r] \in TaskState
      BY DEF StartupInv, RegistryInv, Named, Server
    <2>2. /\ task' = [s \in Server |-> "none"] /\ port' = [s \in Server |-> NoPort]
          /\ registry' = registry /\ dropped' = {}
      BY DEF Exit, Kill, Gone
    <2>3. ASSUME NEW r \in Named, registry[r] # NoPort PROVE r \in cut'
      <3>1. CASE task[r] \in {"none", "starting", "crashed", "ended"}
        BY <2>3, <3>1 DEF Exit, Kill, StartupInv, RegistryInv
      <3>2. CASE task[r] \in {"serving", "failing", "closing"}
        BY <2>1, <3>2 DEF Exit, Kill
      <3> QED BY <2>1, <3>1, <3>2 DEF TaskState
    <2> QED BY <2>1, <2>2, <2>3 DEF StartupInv, RegistryInv, TaskState
  <1>2. WaitInv'
    BY DEF Exit, Kill, Gone, Nobody, WaitInv
  <1> QED BY <1>1, <1>2 DEF StartupInv

\* A step of main_async, of the keyboard or of whoever kills the process.
LEMMA MainStepOk ==
  ASSUME StartupInv, MainStep \/ TypePrompt \/ Interrupt \/ Kill
  PROVE  StartupInv'
  <1> USE DEF StartupInv, Settings
  <1>1. ASSUME UNCHANGED <<task, port, registry, dropped, cut>>, main # "off", main' # "off"
        PROVE  RegistryInv'
    BY <1>1 DEF RegistryInv
  <1>2. CASE ConnectToHub
    <2>1. PICK u \in {"itself", "other"} : answered' = [answered EXCEPT !["hub"] = u]
      BY <1>2 DEF ConnectToHub, Answerer
    <2>2. RegistryInv'
      BY <1>1, <1>2 DEF ConnectToHub
    <2>3. WaitInv'
      BY <1>2, <2>1 DEF ConnectToHub, WaitInv, Server
    <2> QED BY <2>2, <2>3
  <1>3. CASE SweepBegins
    BY <1>1, <1>3 DEF SweepBegins, WaitInv
  <1>4. ASSUME NEW s \in Agent, AskHealth(s) PROVE StartupInv'
    <2>1. RegistryInv'
      BY <1>1, <1>4 DEF AskHealth
    <2>2. CASE UNCHANGED <<answered, pending>>
      BY <1>4, <2>1, <2>2 DEF AskHealth, WaitInv
    <2>3. ASSUME NEW u \in {"itself", "other"}, answered' = [answered EXCEPT ![s] = u],
                 pending' = pending \ {s}
          PROVE  StartupInv'
      BY <1>4, <2>1, <2>3 DEF AskHealth, WaitInv, Server
    <2> QED BY <1>4, <2>2, <2>3 DEF AskHealth, Answerer
  <1>5. CASE AllReady
    BY <1>1, <1>5, StopStep DEF AllReady, AfterReadiness, WaitInv
  <1>6. CASE TypePrompt
    BY <1>1, <1>6, StopStep DEF TypePrompt, WaitInv
  <1>7. CASE PipelineEnds
    BY <1>1, <1>7, StopStep DEF PipelineEnds, WaitInv
  <1>8. CASE Abort \/ GatherEnds \/ Interrupt
    BY <1>8, StopStep DEF Abort, GatherEnds, Interrupt
  <1> QED BY <1>2, <1>3, <1>4, <1>5, <1>6, <1>7, <1>8, GoneStep DEF MainStep

\* The invariant holds throughout.
LEMMA StartupInvariant == StartupSpec => []StartupInv
  <1>1. StartupInit => StartupInv
    BY DEF StartupInit, StartupInv, RegistryInv, WaitInv, TaskState, Named, Server, NoEntries, Nobody
  <1>2. StartupInv /\ [StartupNext]_startVars => StartupInv'
    <2>1. CASE UNCHANGED startVars
      BY <2>1 DEF startVars, StartupInv, RegistryInv, WaitInv
    <2> QED BY <2>1, StartStep, TaskStep, MainStepOk DEF StartupNext
  <1> QED BY <1>1, <1>2, PTL DEF StartupSpec

-----------------------------------------------------------------------------
(* Theorems *)

\* Whatever access of the registry fails, the registry names the port of every server
\* that serves, or no port when a failed access has dropped the entry since, and keeps no
\* entry of a server that has ended, kills, second cancels and failed prunings aside.
THEOREM RegistryStaysTrue == StartupSpec => []RegistryIsTrue
  <1>1. StartupInv => RegistryIsTrue
    BY DEF StartupInv, RegistryInv, RegistryIsTrue, Named
  <1> QED BY <1>1, StartupInvariant, PTL

\* A prompt of the command line reaches the pipeline only when the hub and every agent
\* launched have answered and nothing has crashed.
THEOREM PipelineAfterAnswers == StartupSpec => PipelineOnWorkingServers
  <1> DEFINE A ==
        main # "pipeline" /\ main' = "pipeline" /\ args'.prompt # "none" =>
          \A s \in {u \in Server : task'[u] # "none"} :
            task[s] # "crashed" /\ (s # "dashboard" => answered[s] # "nobody")
  <1>1. StartupInv /\ [StartupNext]_startVars => [A]_startVars
    <2> SUFFICES ASSUME StartupInv, StartupNext, main # "pipeline", main' = "pipeline",
                        args'.prompt # "none", NEW s \in Server, task'[s] # "none"
                 PROVE  task[s] # "crashed" /\ (s # "dashboard" => answered[s] # "nobody")
      OBVIOUS
    <2>1. ASSUME NEW n \in DOMAIN Commands, NEW a \in Commands[n], Start(a) PROVE FALSE
      BY <2>1 DEF Start, AfterReadiness, ToLaunch
    <2>2. ~StopAll /\ main' # "off"
      BY DEF StopAll
    <2>3. CASE AllReady
      BY <2>2, <2>3 DEF AllReady, Crashed, StartupInv, WaitInv
    <2>4. ~TypePrompt
      BY <2>2 DEF TypePrompt, Settings, StartupInv, WaitInv
    <2>5. \A u \in Server : ~ServerTaskStep(u)
      BY <2>2 DEF ServerTaskStep, Bind, BindFails, Fails, ShutDown, Serves
    <2>6. MainStep => AllReady
      BY <2>2 DEF MainStep, Abort, ConnectToHub, SweepBegins, AskHealth, PipelineEnds, GatherEnds,
                  Exit, Gone
    <2>7. ~Interrupt /\ ~Kill
      BY <2>2 DEF Interrupt, Kill, Gone
    <2> QED BY <2>1, <2>3, <2>4, <2>5, <2>6, <2>7 DEF StartupNext
  <1> QED BY <1>1, StartupInvariant, PTL DEF StartupSpec, PipelineOnWorkingServers

=============================================================================
