----------------------------- MODULE Providers -----------------------------
(***************************************************************************)
(* The vendor programs behind the agents: backends, the processes started  *)
(* for them and the fallback chain over them (provider_factory.py,         *)
(* cli_runner.py and the five providers).                                  *)
(*                                                                         *)
(* A request sends one prompt at a time and awaits one program at a time.  *)
(* A program may run for ever; when it ends, what its provider makes of it *)
(* is all that matters.  Every request has providers of its own, so their  *)
(* semaphores and token buckets never make one wait.                       *)
(***************************************************************************)
EXTENDS Integers, Sequences

CONSTANTS
  Request,   \* runs of agents and tools of one server process
  Role,
  chain,     \* resolve_chain: the backends of each role, in order
  must_login \* no API key for grok and GENIUS_GROK_SKIP_LOGIN unset

Backend == {"agy", "claude", "codex", "grok", "notebooklm"}

ASSUME ProvidersAssumption ==
  /\ chain \in [Role -> Seq(Backend)]
  /\ \A role \in Role : chain[role] # <<>>
  /\ must_login \in BOOLEAN

VARIABLES
  prompt,          \* per request: the send_prompt it is in
  alive,           \* per request: the programs started for it that still run
  awaited,         \* per request: the program it waits for, and how that ended
  prompt_file,     \* requests whose prompt lies in a temporary file
  resolved,        \* _CLI_PATH_CACHE: backends whose program was found
  login_attempted, \* _LOGIN_ATTEMPTED
  logins           \* history: login programs started

providerVars == <<prompt, alive, awaited, prompt_file, resolved, login_attempted, logins>>

Program == Backend \cup {"login", "flake8", "pytest", "nlm"}

\* How a program ends: with an answer, saying nothing, saying that it failed, with
\* an answer among fields of unexpected types, with a non-zero code; or it was killed.
Exit == {"answer", "silent", "refused", "odd", "code"}
Ending == Exit \cup {"killed"}
Prompt ==
  [pc : {"none", "trying", "login", "cli", "answered", "failed", "raised"},
   role : Role, order : Seq(Nat), tried : Seq(Nat), active : Nat]
Awaited == [program : Program \cup {"none"}, ending : Ending \cup {"running"}]
Nothing == [program |-> "none", ending |-> "killed"]

NoPrompt(active) ==
  [pc |-> "none", role |-> CHOOSE role \in Role : TRUE, order |-> <<>>, tried |-> <<>>, active |-> active]

ProvidersInit ==
  /\ prompt = [r \in Request |-> NoPrompt(1)]
  /\ alive = [r \in Request |-> {}]
  /\ awaited = [r \in Request |-> Nothing]
  /\ prompt_file = {} /\ resolved = {}
  /\ login_attempted = FALSE /\ logins = 0

-----------------------------------------------------------------------------
(* What each provider makes of the end of its program.  "failure" stands for a *)
(* RuntimeError, "crash" for any other exception.                               *)

\* agy prints text: whatever it says is the answer.
agy(e) == IF e \in {"silent", "code", "killed"} THEN {"failure"} ELSE {"answer"}

\* claude prints an envelope; a null usage or a result that is no text is an
\* AttributeError or a ValidationError.
claude(e) ==
  CASE e = "answer" -> {"answer"} [] e = "odd" -> {"answer", "crash"} [] OTHER -> {"failure"}

\* codex prints events.  What was said before a turn failed is an answer.
codex(e) ==
  CASE e \in {"answer", "odd"} -> {"answer"}
    [] e = "refused" -> {"answer", "failure"}
    [] OTHER -> {"failure"}

\* grok prints an envelope, or text.
grok(e) ==
  CASE e = "answer" -> {"answer"} [] e = "odd" -> {"answer", "crash"} [] OTHER -> {"failure"}

\* nlm prints JSON: another shape is a failure, an answer that is no text a crash.
notebooklm(e) ==
  CASE e = "answer" -> {"answer"} [] e = "odd" -> {"failure", "crash"} [] OTHER -> {"failure"}

Outcomes(b, e) ==
  CASE b = "agy" -> agy(e) [] b = "claude" -> claude(e) [] b = "codex" -> codex(e)
    [] b = "grok" -> grok(e) [] b = "notebooklm" -> notebooklm(e)

-----------------------------------------------------------------------------
(* Programs *)

\* spawn_cli
Spawn(r, p) ==
  /\ alive' = [alive EXCEPT ![r] = @ \cup {p}]
  /\ awaited' = [awaited EXCEPT ![r] = [program |-> p, ending |-> "running"]]

\* Nobody looks at how a login or flake8 ends, and of pytest only the code counts.
Endings(p) ==
  CASE p \in {"login", "flake8"} -> {"answer"}
    [] p = "pytest" -> {"answer", "code"}
    [] OTHER -> Exit

\* A program ends by itself, awaited or not.
Exits(r, p, e) ==
  /\ p \in alive[r] /\ e \in Endings(p)
  /\ alive' = [alive EXCEPT ![r] = @ \ {p}]
  /\ awaited' = [awaited EXCEPT ![r] =
       IF @.program = p /\ @.ending = "running" THEN [@ EXCEPT !.ending = e] ELSE @]
  /\ UNCHANGED <<prompt, prompt_file, resolved, login_attempted, logins>>

\* Mutant of Terminated: the overrun program is given up, not killed.
TerminatedLater(r) ==
  /\ awaited[r].ending = "running"
  /\ awaited' = [awaited EXCEPT ![r].ending = "killed"]
  /\ UNCHANGED alive

\* communicate_with_timeout, _terminate: the awaited program overruns its timeout.
Terminated(r) ==
  /\ awaited[r].ending = "running"
  /\ alive' = [alive EXCEPT ![r] = @ \ {awaited[r].program}]
  /\ awaited' = [awaited EXCEPT ![r].ending = "killed"]

\* Mutant of Timeout: the programs are awaited for as long as they take.
NoTimeout(r) == FALSE /\ UNCHANGED providerVars

Timeout(r) ==
  /\ Terminated(r)
  /\ UNCHANGED <<prompt, prompt_file, resolved, login_attempted, logins>>

-----------------------------------------------------------------------------
(* FallbackProvider.send_prompt *)

Backends(r) == chain[prompt[r].role]
Trying(r) == Backends(r)[Head(prompt[r].order)]

\* Mutant of call_order: the active backend is tried alone, the others are skipped.
CallOrderSticky(n, active) ==
  IF active = 1 THEN [i \in 1..n |-> i] ELSE <<active>>

\* _call_order: the backend that answered last comes first.
call_order(n, active) ==
  [i \in 1..n |-> IF i = 1 THEN active ELSE IF i <= active THEN i - 1 ELSE i]

\* The prompt of an agent of this role, whose provider answered last with "active".
Prompted(role, active) ==
  [pc |-> "trying", role |-> role, order |-> call_order(Len(chain[role]), active),
   tried |-> <<>>, active |-> active]

Send(r, role, active) == prompt' = [prompt EXCEPT ![r] = Prompted(role, active)]

\* A RuntimeError or an OSError: the next backend, if there is one.
FallThrough(r) ==
  LET p == prompt[r] IN
  prompt' = [prompt EXCEPT ![r] =
    [p EXCEPT !.pc = "trying", !.order = Tail(p.order), !.tried = Append(p.tried, Head(p.order))]]

\* The program of the prompt itself: it may turn out not to be there.
Run(r, b) ==
  \/ /\ Spawn(r, b)
     /\ prompt' = [prompt EXCEPT ![r].pc = "cli"]
     /\ prompt_file' = IF b = "grok" THEN prompt_file \cup {r} ELSE prompt_file
  \/ FallThrough(r) /\ UNCHANGED <<alive, awaited, prompt_file>>

\* resolve_*_cli finds no program: an error of this backend alone.
NotFound(r) ==
  /\ prompt[r].pc = "trying" /\ prompt[r].order # <<>>
  /\ Trying(r) \notin resolved
  /\ FallThrough(r)
  /\ UNCHANGED <<alive, awaited, prompt_file, resolved, login_attempted, logins>>

LoginFirst(b) == b = "grok" /\ must_login /\ ~login_attempted

Try(r) ==
  /\ prompt[r].pc = "trying" /\ prompt[r].order # <<>>
  /\ resolved' = resolved \cup {Trying(r)}
  /\ ~LoginFirst(Trying(r))
  /\ Run(r, Trying(r))
  /\ UNCHANGED <<login_attempted, logins>>

\* Mutant of Login: the flag is not set before the program is awaited.
LoginUnflagged(r) ==
  /\ prompt[r].pc = "trying" /\ prompt[r].order # <<>>
  /\ resolved' = resolved \cup {Trying(r)}
  /\ LoginFirst(Trying(r))
  /\ Spawn(r, "login") /\ logins' = logins + 1
  /\ prompt' = [prompt EXCEPT ![r].pc = "login"]
  /\ UNCHANGED <<prompt_file, login_attempted>>

\* GrokProvider._maybe_login: a login that cannot be started is no reason to stop.
Login(r) ==
  /\ prompt[r].pc = "trying" /\ prompt[r].order # <<>>
  /\ resolved' = resolved \cup {Trying(r)}
  /\ LoginFirst(Trying(r))
  /\ login_attempted' = TRUE
  /\ \/ /\ Spawn(r, "login") /\ logins' = logins + 1
        /\ prompt' = [prompt EXCEPT ![r].pc = "login"]
        /\ UNCHANGED prompt_file
     \/ Run(r, Trying(r)) /\ UNCHANGED logins

LoggedIn(r) ==
  /\ prompt[r].pc = "login" /\ awaited[r].ending # "running"
  /\ Run(r, Trying(r))
  /\ UNCHANGED <<resolved, login_attempted, logins>>

\* The provider looks at how its program ended.
Read(r) ==
  /\ prompt[r].pc = "cli" /\ awaited[r].ending # "running"
  /\ awaited' = [awaited EXCEPT ![r] = Nothing]
  /\ prompt_file' = prompt_file \ {r}
  /\ \E o \in Outcomes(Trying(r), awaited[r].ending) :
       \/ o = "failure" /\ FallThrough(r)
       \/ o = "crash" /\ prompt' = [prompt EXCEPT ![r].pc = "raised"]
       \/ /\ o = "answer"
          /\ prompt' = [prompt EXCEPT ![r] =
               [@ EXCEPT !.pc = "answered", !.active = Head(prompt[r].order)]]
  /\ UNCHANGED <<alive, resolved, login_attempted, logins>>

\* No backend is left.
Exhausted(r) ==
  /\ prompt[r].pc = "trying" /\ prompt[r].order = <<>>
  /\ prompt' = [prompt EXCEPT ![r].pc = "failed"]
  /\ UNCHANGED <<alive, awaited, prompt_file, resolved, login_attempted, logins>>

PromptStep(r) ==
  NotFound(r) \/ Try(r) \/ Login(r) \/ LoggedIn(r) \/ Read(r) \/ Exhausted(r)

\* CancelledError: the prompt file goes, the awaited program does not.
Cancelled(r) ==
  /\ prompt' = [prompt EXCEPT ![r] = NoPrompt(1)]
  /\ prompt_file' = prompt_file \ {r}
  /\ awaited' = [awaited EXCEPT ![r] = Nothing]
  /\ UNCHANGED <<alive, resolved, login_attempted, logins>>
=============================================================================
