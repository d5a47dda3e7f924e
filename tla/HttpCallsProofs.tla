-------------------------- MODULE HttpCallsProofs --------------------------
(***************************************************************************)
(* Proofs about HttpCalls, for any number of calls, attempts and tokens    *)
(* and any capacity of the stores: no call of the orchestrator is refused  *)
(* as a replay (ReplayInv); no prompt runs twice without cause and no      *)
(* answer goes to another question (AnswersInv).  The second rests on what *)
(* the evictions keep of a store.                                          *)
(***************************************************************************)
EXTENDS HttpCalls, FiniteSetTheorems, SequenceTheorems, TLAPS

Shaped(r) ==
  r = [pc |-> r.pc, attempt |-> r.attempt, minted |-> r.minted, task |-> r.task, from |-> r.from]

CallsInv ==
  /\ call = [c \in Call |-> call[c]]
  /\ \A c \in Call : Shaped(call[c]) /\ call[c].minted \in Nat /\ call[c].pc # "refused"

\* A token on its way has not been used, and a call that is not over mints the next one
\* above all it has sent: neither a late POST nor a poll can meet its own token again.
TokensInv ==
  /\ \A c \in Call, n \in Nat : <<c, n>> \in posts => <<c, n>> \notin seen_jtis
  /\ \A c \in Call, n \in Nat :
       call[c].pc \notin Ended /\ <<c, n>> \in posts \cup seen_jtis => n <= call[c].minted

ReplayInv == CallsInv /\ TokensInv

-----------------------------------------------------------------------------
(* The server and the records of the calls *)

\* A request uses its own token if any, and is a replay only if it was used before.
LEMMA RunUses ==
  ASSUME NEW owner, NEW key, NEW j, NEW a, RunEndpoint(owner, key, j, a)
  PROVE  /\ seen_jtis' = seen_jtis \/ seen_jtis' = seen_jtis \cup {j}
         /\ a.code = "replay" => j \in seen_jtis
  <1>1. CASE TurnedAway(j, a)
    BY <1>1 DEF TurnedAway, Replayed, Refusal
  <1>2. CASE SameTask(key, j, a)
    BY <1>2 DEF SameTask, Admitted
  <1>3. CASE NewTask(owner, key, j, a)
    BY <1>3 DEF NewTask, Admitted
  <1> QED BY <1>1, <1>2, <1>3 DEF RunEndpoint

\* So does a poll.
LEMMA StatusUses ==
  ASSUME NEW id, NEW j, NEW a, StatusEndpoint(id, j, a)
  PROVE  /\ seen_jtis' = seen_jtis \/ seen_jtis' = seen_jtis \cup {j}
         /\ a.code = "replay" => j \in seen_jtis
  <1>1. CASE TurnedAway(j, a)
    BY <1>1 DEF TurnedAway, Replayed, Refusal
  <1>2. CASE Admitted(j) /\ a.code # "replay"
    BY <1>2 DEF Admitted
  <1> QED BY <1>1, <1>2 DEF StatusEndpoint, Refusal

RecordOf(P, A, M, T, F) == [pc : P, attempt : A, minted : M, task : T, from : F]
Is(r, pc, minted) == Shaped(r) /\ r.pc = pc /\ r.minted = minted

\* The record of a call has some type.
LEMMA ShapedHasType ==
  ASSUME NEW r, Shaped(r), NEW pc, NEW attempt, NEW minted, NEW task
  PROVE  r \in RecordOf({r.pc, pc}, {r.attempt, attempt}, {r.minted, minted}, {r.task, task}, {r.from})
  <1> DEFINE q == [pc |-> r.pc, attempt |-> r.attempt, minted |-> r.minted, task |-> r.task,
                   from |-> r.from]
  <1>1. q \in RecordOf({r.pc, pc}, {r.attempt, attempt}, {r.minted, minted}, {r.task, task}, {r.from})
    BY DEF RecordOf
  <1>2. r = q
    BY DEF Shaped
  <1> HIDE DEF q
  <1> QED BY <1>1, <1>2

\* And a record with a type has the shape.
LEMMA TypedIsShaped ==
  ASSUME NEW P, NEW A, NEW M, NEW T, NEW F, NEW r \in RecordOf(P, A, M, T, F)
  PROVE  Shaped(r)
  BY DEF RecordOf, Shaped

\* The record of a call after each kind of assignment to it.
LEMMA Assigned ==
  ASSUME NEW r, Shaped(r), NEW pc, NEW attempt, NEW minted, NEW task
  PROVE  /\ Is([r EXCEPT !.pc = pc], pc, r.minted)
         /\ Is([r EXCEPT !.pc = pc, !.attempt = attempt, !.minted = minted], pc, minted)
         /\ Is([r EXCEPT !.pc = pc, !.attempt = attempt, !.task = task], pc, r.minted)
         /\ Is([r EXCEPT !.pc = pc, !.task = task], pc, r.minted)
         /\ Is([r EXCEPT !.minted = minted, !.attempt = attempt], r.pc, minted)
  <1>1. PICK P, A, M, T, F :
          /\ r \in RecordOf(P, A, M, T, F)
          /\ pc \in P /\ attempt \in A /\ minted \in M /\ task \in T
    <2>1. /\ pc \in {r.pc, pc} /\ attempt \in {r.attempt, attempt}
          /\ minted \in {r.minted, minted} /\ task \in {r.task, task}
      OBVIOUS
    <2> QED BY <2>1, ShapedHasType
  <1> DEFINE X == RecordOf(P, A, M, T, F)
             q1 == [r EXCEPT !.pc = pc]
             q2 == [r EXCEPT !.pc = pc, !.attempt = attempt, !.minted = minted]
             q3 == [r EXCEPT !.pc = pc, !.attempt = attempt, !.task = task]
             q4 == [r EXCEPT !.pc = pc, !.task = task]
             q5 == [r EXCEPT !.minted = minted, !.attempt = attempt]
  <1>2. q1 \in X /\ q1.pc = pc /\ q1.minted = r.minted
    BY <1>1 DEF RecordOf
  <1>3. q2 \in X /\ q2.pc = pc /\ q2.minted = minted
    BY <1>1 DEF RecordOf
  <1>4. q3 \in X /\ q3.pc = pc /\ q3.minted = r.minted
    BY <1>1 DEF RecordOf
  <1>5. q4 \in X /\ q4.pc = pc /\ q4.minted = r.minted
    BY <1>1 DEF RecordOf
  <1>6. q5 \in X /\ q5.pc = r.pc /\ q5.minted = minted
    BY <1>1 DEF RecordOf
  <1> HIDE DEF q1, q2, q3, q4, q5
  <1>7. Is(q1, pc, r.minted) /\ Is(q2, pc, minted) /\ Is(q3, pc, r.minted)
        /\ Is(q4, pc, r.minted) /\ Is(q5, r.pc, minted)
    BY <1>2, <1>3, <1>4, <1>5, <1>6, TypedIsShaped DEF Is
  <1> QED BY <1>7 DEF q1, q2, q3, q4, q5

\* The record of a call that goes on keeps counting up; one that is over stays so.
Onward(r, q) ==
  /\ Shaped(q) /\ q.minted \in Nat /\ q.pc # "refused"
  /\ q.pc \in Ended \/ (r.pc \notin Ended /\ r.minted <= q.minted)

\* A call takes a step from a record of its shape to one of the shape that follows.
LEMMA CallMoves ==
  ASSUME CallsInv, NEW c \in Call, NEW q, call' = [call EXCEPT ![c] = q], Onward(call[c], q)
  PROVE  /\ CallsInv'
         /\ call'[c] = q
         /\ \A d \in Call : d # c => call'[d] = call[d]
         /\ \A d \in Call : call'[d].pc \notin Ended =>
              call[d].pc \notin Ended /\ call[d].minted <= call'[d].minted
  BY DEF CallsInv, Onward

\* How the actions write a call, in terms of Onward.
LEMMA Writes ==
  ASSUME CallsInv, NEW c \in Call
  PROVE  /\ \A pc, d : End(c, pc, d) /\ pc \in Ended /\ pc # "refused" =>
              \E q : call' = [call EXCEPT ![c] = q] /\ Onward(call[c], q) /\ q.pc \in Ended
         /\ \A pc : Goto(c, pc) /\ pc # "refused" /\ call[c].pc \notin Ended =>
              \E q : call' = [call EXCEPT ![c] = q] /\ Onward(call[c], q)
  <1> DEFINE r == call[c]
  <1>0. Shaped(r) /\ r.minted \in Nat
    BY DEF CallsInv
  <1>1. ASSUME NEW pc, NEW d, End(c, pc, d), pc \in Ended, pc # "refused"
        PROVE  \E q : call' = [call EXCEPT ![c] = q] /\ Onward(r, q) /\ q.pc \in Ended
    <2> DEFINE q == [pc |-> pc, attempt |-> 1, minted |-> 0, task |-> 0, from |-> d]
    <2>1. call' = [call EXCEPT ![c] = q]
      BY <1>1 DEF End
    <2>2. Onward(r, q) /\ q.pc \in Ended
      BY <1>1 DEF Onward, Shaped
    <2> QED BY <2>1, <2>2
  <1>2. ASSUME NEW pc, Goto(c, pc), pc # "refused", r.pc \notin Ended
        PROVE  \E q : call' = [call EXCEPT ![c] = q] /\ Onward(r, q)
    <2> DEFINE q == [r EXCEPT !.pc = pc]
    <2>1. call' = [call EXCEPT ![c] = q]
      BY <1>2 DEF Goto
    <2>2. Is(q, pc, r.minted)
      BY <1>0, Assigned
    <2> HIDE DEF q
    <2>3. Onward(r, q)
      BY <1>0, <1>2, <2>2 DEF Onward, Is
    <2> QED BY <2>1, <2>3
  <1> QED BY <1>1, <1>2

-----------------------------------------------------------------------------
(* Steps *)

\* A step that sends and uses no token.
LEMMA NoToken ==
  ASSUME ReplayInv, NEW c \in Call, NEW q, call' = [call EXCEPT ![c] = q], Onward(call[c], q),
         UNCHANGED <<posts, seen_jtis>>
  PROVE  ReplayInv'
  <1>1. CallsInv'
    BY CallMoves DEF ReplayInv
  <1>2. \A d \in Call : call'[d].pc \notin Ended =>
          call[d].pc \notin Ended /\ call[d].minted <= call'[d].minted
    BY CallMoves DEF ReplayInv
  <1>3. TokensInv'
    BY <1>1, <1>2 DEF ReplayInv, CallsInv, TokensInv
  <1> QED BY <1>1, <1>3 DEF ReplayInv

\* A call sends a request: its token is new.
LEMMA SentStep ==
  ASSUME ReplayInv, NEW c \in Call, NEW n, Sent(c, n), call[c].pc \notin Ended,
         UNCHANGED seen_jtis
  PROVE  ReplayInv'
  <1> DEFINE r == call[c]
             m == r.minted + 1
             q == [r EXCEPT !.pc = "posting", !.attempt = n, !.minted = m]
  <1>1. call' = [call EXCEPT ![c] = q] /\ posts' = posts \cup {<<c, m>>}
    BY DEF Sent, ReplayInv, CallsInv
  <1>2. Shaped(r) /\ r.minted \in Nat
    BY DEF ReplayInv, CallsInv
  <1>3. Is(q, "posting", m)
    BY <1>2, Assigned
  <1> HIDE DEF q
  <1>4. Onward(r, q)
    BY <1>2, <1>3 DEF Onward, Is
  <1>5. /\ CallsInv' /\ call'[c] = q
        /\ \A d \in Call : d # c => call'[d] = call[d]
    BY <1>1, <1>4, CallMoves DEF ReplayInv
  <1>6. \A d \in Call, k \in Nat : <<d, k>> \in posts' => <<d, k>> \in posts \/ (d = c /\ k = m)
    BY <1>1
  <1>7. <<c, m>> \notin seen_jtis
    BY <1>2 DEF ReplayInv, TokensInv
  <1>8. \A d \in Call, k \in Nat : <<d, k>> \in posts' => <<d, k>> \notin seen_jtis'
    BY <1>6, <1>7 DEF ReplayInv, TokensInv
  <1>9. \A d \in Call, k \in Nat :
          call'[d].pc \notin Ended /\ <<d, k>> \in posts' \cup seen_jtis' => k <= call'[d].minted
    <2> SUFFICES ASSUME NEW d \in Call, NEW k \in Nat, call'[d].pc \notin Ended,
                        <<d, k>> \in posts' \cup seen_jtis'
                 PROVE  k <= call'[d].minted
      OBVIOUS
    <2>1. CASE d = c
      <3>1. k = m \/ k <= r.minted
        BY <2>1, <1>6 DEF ReplayInv, TokensInv
      <3> QED BY <2>1, <3>1, <1>2, <1>3, <1>5 DEF Is
    <2>2. CASE d # c
      BY <2>2, <1>5, <1>6 DEF ReplayInv, TokensInv
    <2> QED BY <2>1, <2>2
  <1> QED BY <1>5, <1>8, <1>9 DEF ReplayInv, TokensInv

\* A request reaches the server, and its answer the call if it still waits for it.
LEMMA ArriveStep ==
  ASSUME ReplayInv, NEW c \in Call, NEW n \in Nat, Arrive(c, n)
  PROVE  ReplayInv'
  <1>1. /\ <<c, n>> \in posts /\ posts' = posts \ {<<c, n>>}
        /\ <<c, n>> \notin seen_jtis
    BY DEF Arrive, ReplayInv, TokensInv
  <1>2. PICK a \in Answer :
          /\ RunEndpoint(c, idempotency_key(c, n), jti(c, n), a)
          /\ \/ call[c].pc = "posting" /\ call[c].minted = n /\ Heard(c, a)
             \/ UNCHANGED call
    BY DEF Arrive
  <1>3. /\ seen_jtis' = seen_jtis \/ seen_jtis' = seen_jtis \cup {<<c, n>>}
        /\ a.code # "replay"
    BY <1>1, <1>2, RunUses DEF jti
  <1>4. \A d \in Call, k \in Nat :
          /\ <<d, k>> \in posts' => <<d, k>> \in posts /\ <<d, k>> \notin seen_jtis'
          /\ <<d, k>> \in posts' \cup seen_jtis' => <<d, k>> \in posts \cup seen_jtis
    <2> SUFFICES ASSUME NEW d \in Call, NEW k \in Nat
                 PROVE  /\ <<d, k>> \in posts' => <<d, k>> \in posts /\ <<d, k>> \notin seen_jtis'
                        /\ <<d, k>> \in posts' \cup seen_jtis' => <<d, k>> \in posts \cup seen_jtis
      OBVIOUS
    <2>1. <<d, k>> \in posts => <<d, k>> \notin seen_jtis
      BY DEF ReplayInv, TokensInv
    <2> QED BY <1>1, <1>3, <2>1
  <1>5. CASE UNCHANGED call
    BY <1>4, <1>5 DEF ReplayInv, CallsInv, TokensInv
  <1>6. CASE call[c].pc = "posting" /\ Heard(c, a)
    <2> DEFINE r == call[c]
               q == [r EXCEPT !.pc = "polling", !.attempt = 1, !.task = a.id]
    <2>1. Shaped(r) /\ r.minted \in Nat
      BY DEF ReplayInv, CallsInv
    <2>2. call' = [call EXCEPT ![c] = q]
      BY <1>3, <1>6 DEF Heard, ReplayInv, CallsInv
    <2>3. Is(q, "polling", r.minted)
      BY <2>1, Assigned
    <2> HIDE DEF q
    <2>4. Onward(r, q)
      BY <1>6, <2>1, <2>3 DEF Onward, Is, Ended, Failures
    <2>5. /\ CallsInv'
          /\ \A d \in Call : call'[d].pc \notin Ended =>
               call[d].pc \notin Ended /\ call[d].minted <= call'[d].minted
      BY <2>2, <2>4, CallMoves DEF ReplayInv
    <2> QED BY <1>4, <2>5 DEF ReplayInv, CallsInv, TokensInv
  <1> QED BY <1>2, <1>5, <1>6

\* A poll uses a token of its own, which nobody has sent or used.
LEMMA PollStep ==
  ASSUME ReplayInv, NEW c \in Call, Poll(c)
  PROVE  ReplayInv'
  <1> DEFINE r == call[c]
             m == r.minted + 1
  <1>1. Shaped(r) /\ r.minted \in Nat /\ r.pc = "polling" /\ r.pc \notin Ended /\ posts' = posts
    BY DEF Poll, ReplayInv, CallsInv, Ended, Failures
  <1>2. PICK a \in Answer : StatusEndpoint(r.task, <<c, m>>, a) /\ Polled(c, a)
    BY DEF Poll, jti
  <1>3. <<c, m>> \notin seen_jtis /\ <<c, m>> \notin posts
    BY <1>1 DEF ReplayInv, TokensInv
  <1>4. /\ seen_jtis' = seen_jtis \/ seen_jtis' = seen_jtis \cup {<<c, m>>}
        /\ a.code # "replay"
    BY <1>2, <1>3, StatusUses
  <1>5. PICK q : /\ call' = [call EXCEPT ![c] = q] /\ Onward(r, q)
                 /\ q.pc \in Ended \/ q.minted = m
    <2>1. ASSUME NEW pc \in {"done", "task_failed", "not_found", "unreachable"}, NEW d, End(c, pc, d)
          PROVE  \E q : call' = [call EXCEPT ![c] = q] /\ Onward(r, q) /\ q.pc \in Ended
      BY <2>1, Writes DEF ReplayInv, Ended, Failures
    <2>2. ASSUME NEW n, call' = [call EXCEPT ![c].minted = @ + 1, ![c].attempt = n]
          PROVE  \E q : call' = [call EXCEPT ![c] = q] /\ Onward(r, q) /\ q.minted = m
      <3> DEFINE q == [r EXCEPT !.minted = m, !.attempt = n]
      <3>1. call' = [call EXCEPT ![c] = q]
        BY <2>2 DEF ReplayInv, CallsInv
      <3>2. Is(q, r.pc, m)
        BY <1>1, Assigned
      <3> HIDE DEF q
      <3>3. Onward(r, q) /\ q.minted = m
        BY <1>1, <3>2 DEF Onward, Is
      <3> QED BY <3>1, <3>3
    <2> QED
      BY <1>2, <1>4, <2>1, <2>2 DEF Polled, Return
  <1>6. /\ CallsInv' /\ call'[c] = q
        /\ \A d \in Call : d # c => call'[d] = call[d]
    BY <1>5, CallMoves DEF ReplayInv
  <1>7. \A d \in Call, k \in Nat :
          /\ <<d, k>> \in posts' => <<d, k>> \notin seen_jtis'
          /\ <<d, k>> \in posts' \cup seen_jtis' =>
               <<d, k>> \in posts \cup seen_jtis \/ (d = c /\ k = m)
    <2> SUFFICES ASSUME NEW d \in Call, NEW k \in Nat
                 PROVE  /\ <<d, k>> \in posts' => <<d, k>> \notin seen_jtis'
                        /\ <<d, k>> \in posts' \cup seen_jtis' =>
                             <<d, k>> \in posts \cup seen_jtis \/ (d = c /\ k = m)
      OBVIOUS
    <2>1. <<d, k>> \in posts => <<d, k>> \notin seen_jtis
      BY DEF ReplayInv, TokensInv
    <2>2. <<d, k>> = <<c, m>> => d = c /\ k = m
      OBVIOUS
    <2> QED BY <1>1, <1>3, <1>4, <2>1, <2>2
  <1>8. \A d \in Call, k \in Nat :
          call'[d].pc \notin Ended /\ <<d, k>> \in posts' \cup seen_jtis' => k <= call'[d].minted
    <2> SUFFICES ASSUME NEW d \in Call, NEW k \in Nat, call'[d].pc \notin Ended,
                        <<d, k>> \in posts' \cup seen_jtis'
                 PROVE  k <= call'[d].minted
      OBVIOUS
    <2>1. CASE d = c
      <3>1. k = m \/ k <= r.minted
        BY <2>1, <1>1, <1>7 DEF ReplayInv, TokensInv
      <3> QED BY <2>1, <3>1, <1>1, <1>5, <1>6
    <2>2. CASE d # c
      BY <2>2, <1>6, <1>7 DEF ReplayInv, TokensInv
    <2> QED BY <2>1, <2>2
  <1> QED BY <1>6, <1>7, <1>8 DEF ReplayInv, TokensInv

\* Any other step of a call.
LEMMA OtherCallStep ==
  ASSUME ReplayInv, NEW c \in Call, CallStep(c)
  PROVE  ReplayInv'
  <1> DEFINE r == call[c]
  <1> USE DEF Ended, Failures
  <1>1. ASSUME NEW pc \in {"done", "task_failed", "not_found", "unreachable", "timeout"}, NEW d,
               End(c, pc, d), UNCHANGED <<posts, seen_jtis>>
        PROVE  ReplayInv'
    BY <1>1, Writes, NoToken DEF ReplayInv
  <1>2. ASSUME NEW pc \in {"looking", "dispatching"}, Goto(c, pc), r.pc \notin Ended,
               UNCHANGED <<posts, seen_jtis>>
        PROVE  ReplayInv'
    BY <1>2, Writes, NoToken DEF ReplayInv
  <1>3. CASE CacheHit(c)
    BY <1>1, <1>3 DEF CacheHit, Return, serverVars
  <1>4. CASE StartRun(c)
    BY <1>4, SentStep DEF StartRun, CacheMiss, serverVars
  <1>5. CASE AttemptFails(c)
    BY <1>1, <1>5, SentStep DEF AttemptFails, RetryPost, serverVars
  <1>6. CASE PollTimeout(c)
    BY <1>1, <1>6 DEF PollTimeout, serverVars
  <1>7. CASE StartDispatch(c)
    BY <1>2, <1>7 DEF StartDispatch, CacheMiss, serverVars
  <1>8. CASE Look(c)
    BY <1>1, <1>2, <1>8 DEF Look, serverVars
  <1>9. CASE Dispatch(c)
    <2>1. ASSUME NEW id, call' = [call EXCEPT ![c].pc = "waiting", ![c].task = id]
          PROVE  ReplayInv'
      <3> DEFINE q == [r EXCEPT !.pc = "waiting", !.task = id]
      <3>1. Shaped(r) /\ r.minted \in Nat /\ call' = [call EXCEPT ![c] = q]
        BY <2>1 DEF ReplayInv, CallsInv
      <3>2. Is(q, "waiting", r.minted)
        BY <3>1, Assigned
      <3> HIDE DEF q
      <3>3. Onward(r, q)
        BY <1>9, <3>1, <3>2 DEF Dispatch, Onward, Is
      <3> QED BY <1>9, <3>1, <3>3, NoToken DEF Dispatch, serverVars
    <2> QED BY <1>1, <1>9, <2>1 DEF Dispatch, serverVars
  <1>10. CASE PollHub(c)
    BY <1>1, <1>10 DEF PollHub, Return, serverVars
  <1> QED BY <1>3, <1>4, <1>5, <1>6, <1>7, <1>8, <1>9, <1>10, PollStep DEF CallStep

-----------------------------------------------------------------------------
(* Theorem *)

\* Whatever is retried, throttled, delayed or lost, the anti-replay table turns no call
\* of the orchestrator away.
THEOREM CallsAreNotReplays == Spec => []NeverRefused
  <1>1. Init => ReplayInv
    BY DEF Init, ServerInit, ReplayInv, CallsInv, TokensInv, Shaped
  <1>2. ReplayInv /\ [Next]_vars => ReplayInv'
    <2> SUFFICES ASSUME ReplayInv, [Next]_vars PROVE ReplayInv'
      OBVIOUS
    <2>1. CASE UNCHANGED <<call, posts, seen_jtis>>
      BY <2>1 DEF ReplayInv, CallsInv, TokensInv, Shaped
    <2>2. CASE ArriveOther
      <3>1. UNCHANGED <<call, posts>>
        BY <2>2 DEF ArriveOther, callVars
      <3>2. PICK n : seen_jtis' = seen_jtis \cup {<<Stranger, n>>}
        BY <2>2 DEF ArriveOther, NewTask, Admitted, jti
      <3>3. \A d \in Call : \A k : <<d, k>> \in seen_jtis' => <<d, k>> \in seen_jtis
        BY <3>2, HttpCallsAssumption
      <3> QED BY <3>1, <3>3 DEF ReplayInv, CallsInv, TokensInv, Shaped
    <2>3. ASSUME NEW c \in Call, NEW n \in 1..MaxTokens[c], Arrive(c, n) PROVE ReplayInv'
      BY <2>3, ArriveStep
    <2>4. CASE ServerStep /\ UNCHANGED callVars
      <3>1. UNCHANGED <<call, posts, seen_jtis>>
        BY <2>4 DEF ServerStep, Execute, Restart, callVars
      <3> QED BY <2>1, <3>1
    <2>5. CASE HubStep
      BY <2>1, <2>5 DEF HubStep, serverVars, callVars
    <2>6. CASE UNCHANGED vars
      BY <2>1, <2>6 DEF vars, serverVars, callVars
    <2> QED BY <2>2, <2>3, <2>4, <2>5, <2>6, OtherCallStep DEF Next
  <1>3. ReplayInv => NeverRefused
    BY DEF ReplayInv, CallsInv, NeverRefused
  <1> QED BY <1>1, <1>2, <1>3, PTL DEF Spec

-----------------------------------------------------------------------------
(* The bounded stores *)

\* How many indices of a set come before one of them.
Rank(I, i) == Cardinality({j \in I : j < i})

\* The ranks of the indices in a set are different numbers below its size, so each
\* such number is the rank of one.
LEMMA Ranks ==
  ASSUME NEW n \in Nat, NEW I \in SUBSET (1..n)
  PROVE  /\ Cardinality(I) \in Nat
         /\ \A i \in I : Rank(I, i) \in Nat /\ Rank(I, i) + 1 \in 1..Cardinality(I)
         /\ \A i, j \in I : Rank(I, i) = Rank(I, j) => i = j
         /\ \A k \in 1..Cardinality(I) : \E i \in I : Rank(I, i) = k - 1
  <1>1. IsFiniteSet(1..n)
    BY FS_Interval
  <1>2. IsFiniteSet(I) /\ Cardinality(I) \in Nat
    BY <1>1, FS_Subset, FS_CardinalityType
  <1> DEFINE below(i) == {j \in I : j < i}
  <1>a. \A i \in I : Rank(I, i) = Cardinality(below(i))
    BY DEF Rank
  <1>b. \A i \in I : IsFiniteSet(below(i))
    BY <1>2, FS_Subset
  <1>c. \A i \in I : i \in Nat
    OBVIOUS
  <1>d. \A i \in I : \A k : k \in below(i) <=> k \in I /\ k < i
    OBVIOUS
  <1> HIDE DEF below
  <1>3. \A i \in I : Rank(I, i) \in Nat
    BY <1>a, <1>b, FS_CardinalityType
  <1>4. \A i \in I : Rank(I, i) < Cardinality(I)
    <2> SUFFICES ASSUME NEW i \in I PROVE Rank(I, i) < Cardinality(I)
      OBVIOUS
    <2>1. below(i) \in SUBSET I /\ i \notin below(i)
      BY <1>c, <1>d
    <2>2. Cardinality(below(i)) <= Cardinality(I) /\ Cardinality(below(i)) # Cardinality(I)
      BY <2>1, <1>2, FS_Subset
    <2> QED BY <2>2, <1>2, <1>3, <1>a
  <1>5. \A i, j \in I : i < j => Rank(I, i) < Rank(I, j)
    <2> SUFFICES ASSUME NEW i \in I, NEW j \in I, i < j PROVE Rank(I, i) < Rank(I, j)
      OBVIOUS
    <2>1. below(i) \in SUBSET below(j)
      <3> SUFFICES ASSUME NEW k \in below(i) PROVE k \in below(j)
        OBVIOUS
      <3>1. k \in I /\ k < i /\ k \in Nat /\ i \in Nat /\ j \in Nat
        BY <1>c, <1>d
      <3>2. k < j
        BY <3>1
      <3> QED BY <3>1, <3>2, <1>d
    <2>2. i \in below(j) /\ i \notin below(i)
      BY <1>c, <1>d
    <2>3. Cardinality(below(i)) <= Cardinality(below(j))
          /\ Cardinality(below(i)) # Cardinality(below(j))
      BY <2>1, <2>2, <1>b, FS_Subset
    <2> QED BY <2>3, <1>3, <1>a
  <1>6. \A i, j \in I : Rank(I, i) = Rank(I, j) => i = j
    BY <1>3, <1>5, <1>c
  <1> DEFINE f == [i \in I |-> Rank(I, i) + 1]
             N == 1..Cardinality(I)
  <1>7. \A i \in I : f[i] = Rank(I, i) + 1
    OBVIOUS
  <1>8. f \in Injection(I, N)
    <2>1. \A i \in I : Rank(I, i) + 1 \in N
      BY <1>2, <1>3, <1>4
    <2>2. f \in [I -> N]
      BY <2>1
    <2> HIDE DEF f, N
    <2>3. \A i, j \in I : f[i] = f[j] => i = j
      BY <1>3, <1>6, <1>7
    <2> QED BY <2>2, <2>3 DEF Injection, IsInjective
  <1>9. IsFiniteSet(N) /\ Cardinality(N) = Cardinality(I)
    BY <1>2, FS_Interval
  <1>10. \A k \in N : \E i \in I : f[i] = k
    <2> HIDE DEF f, N
    <2>1. f \in Surjection(I, N)
      BY <1>8, <1>9, FS_Injection
    <2> QED BY <2>1 DEF Surjection
  <1> HIDE DEF f
  <1>11. \A k \in N : \E i \in I : Rank(I, i) = k - 1
    BY <1>3, <1>7, <1>10
  <1> QED BY <1>2, <1>3, <1>4, <1>6, <1>11

\* What is kept of a store are its entries at the given indices, all of them and no
\* others.
LEMMA KeptEntries ==
  ASSUME NEW S, NEW store \in Seq(S), NEW I \in SUBSET DOMAIN store
  PROVE  /\ Kept(store, I) \in Seq(S)
         /\ \A n \in DOMAIN Kept(store, I) : \E i \in I : Kept(store, I)[n] = store[i]
         /\ \A i \in I : \E n \in DOMAIN Kept(store, I) : Kept(store, I)[n] = store[i]
  <1> DEFINE at(n) == CHOOSE i \in I : Rank(I, i) = n - 1
             N == Cardinality(I)
  <1>1. Len(store) \in Nat /\ DOMAIN store = 1..Len(store)
    OBVIOUS
  <1>2. /\ N \in Nat
        /\ \A i \in I : Rank(I, i) \in Nat /\ Rank(I, i) + 1 \in 1..N
        /\ \A i, j \in I : Rank(I, i) = Rank(I, j) => i = j
        /\ \A k \in 1..N : \E i \in I : Rank(I, i) = k - 1
    BY <1>1, Ranks
  <1>3. Kept(store, I) = [n \in 1..N |-> store[at(n)]]
    BY DEF Kept, Rank
  <1>4. \A n \in 1..N : at(n) \in I /\ Rank(I, at(n)) = n - 1
    <2> SUFFICES ASSUME NEW n \in 1..N PROVE at(n) \in I /\ Rank(I, at(n)) = n - 1
      OBVIOUS
    <2>1. \E i \in I : Rank(I, i) = n - 1
      BY <1>2
    <2> QED BY <2>1
  <1>5. \A i \in I : at(Rank(I, i) + 1) = i
    <2> SUFFICES ASSUME NEW i \in I PROVE at(Rank(I, i) + 1) = i
      OBVIOUS
    <2> DEFINE n == Rank(I, i) + 1
    <2>1. n \in 1..N /\ Rank(I, i) \in Nat /\ n - 1 = Rank(I, i)
      BY <1>2
    <2> HIDE DEF n
    <2>2. at(n) \in I /\ Rank(I, at(n)) = n - 1
      BY <2>1, <1>4
    <2>3. at(n) = i
      BY <2>1, <2>2, <1>2
    <2> QED BY <2>3 DEF n
  <1> HIDE DEF at, N
  <1>6. \A n \in 1..N : store[at(n)] \in S
    BY <1>1, <1>4
  <1>7. Kept(store, I) \in Seq(S)
    BY <1>2, <1>3, <1>6, IsASeq
  <1>8. DOMAIN Kept(store, I) = 1..N
    BY <1>3
  <1>9. \A i \in I : Kept(store, I)[Rank(I, i) + 1] = store[i]
    BY <1>2, <1>3, <1>5
  <1> QED BY <1>2, <1>3, <1>4, <1>7, <1>8, <1>9

\* The first entries of a set of indices are those of low rank.
LEMMA FirstRanks ==
  ASSUME NEW I, NEW n, NEW i
  PROVE  i \in First(I, n) <=> i \in I /\ Rank(I, i) < n
  BY DEF First, Rank

\* The last index has all the others below it.
LEMMA LastRank ==
  ASSUME NEW n \in Nat \ {0}, NEW K \in SUBSET (1..n), n \notin K
  PROVE  Cardinality(K) \in Nat /\ Rank((1..n) \ K, n) = n - 1 - Cardinality(K)
  <1> DEFINE m == n - 1
             B == 1..m
  <1>1. m \in Int /\ m >= 0
    OBVIOUS
  <1>2. {j \in (1..n) \ K : j < n} = B \ K
    OBVIOUS
  <1>3. B \cap K = K
    <2>1. \A k \in K : k \in Int /\ 1 <= k /\ k <= n /\ k # n
      OBVIOUS
    <2>2. \A k \in K : k \in B
      BY <2>1
    <2> QED BY <2>2
  <1>4. Rank((1..n) \ K, n) = Cardinality(B \ K)
    BY <1>2 DEF Rank
  <1>5. IsFiniteSet(B) /\ Cardinality(B) = m
    <2> HIDE DEF m
    <2> QED BY <1>1, FS_Interval
  <1> HIDE DEF B
  <1>6. Cardinality(B \ K) = Cardinality(B) - Cardinality(B \cap K)
    BY <1>5, FS_Difference
  <1>7. Cardinality(K) \in Nat
    BY <1>3, <1>5, FS_Intersection, FS_CardinalityType
  <1> QED BY <1>3, <1>4, <1>5, <1>6, <1>7

\* What the evictions leave are entries of the store, the newest one among them (of the
\* task store: unless it is finished).
LEMMA Evicted ==
  ASSUME NEW S, NEW store \in Seq(S), Len(store) > 0
  PROVE  /\ EvictKeys(store) \in Seq(S)
         /\ \A i \in DOMAIN EvictKeys(store) :
              \E j \in DOMAIN store : EvictKeys(store)[i] = store[j]
         /\ \E i \in DOMAIN EvictKeys(store) : EvictKeys(store)[i] = store[Len(store)]
         /\ EvictTasks(store) \in Seq(S)
         /\ store[Len(store)].status \notin Finished =>
              \E i \in DOMAIN EvictTasks(store) : EvictTasks(store)[i] = store[Len(store)]
  <1> DEFINE n == Len(store)
             D == DOMAIN store
             old == First(D, Excess(store))
             done == First({i \in D : store[i].status \in Finished}, Excess(store))
             live == First(D \ done, Excess(store) - Cardinality(done))
  <1>1. n \in Nat \ {0} /\ D = 1..n /\ n \in D /\ MAX_TRACKED_TASKS \in Nat \ {0}
    BY SkillServerAssumption
  <1>2. Excess(store) = n - MAX_TRACKED_TASKS
    BY DEF Excess
  <1>3. old \in SUBSET D /\ done \in SUBSET D /\ live \in SUBSET D
    BY FirstRanks
  <1>4. EvictKeys(store) = Kept(store, D \ old) /\ EvictTasks(store) = Kept(store, D \ (done \cup live))
    BY DEF EvictKeys, EvictTasks, Without
  <1>5. n \notin old
    <2>1. Rank(D \ {}, n) = n - 1 - Cardinality({})
      BY <1>1, LastRank
    <2>2. Rank(D, n) = n - 1
      BY <2>1, FS_EmptySet, <1>1
    <2> HIDE DEF n, D
    <2> QED BY <1>1, <1>2, <2>2, FirstRanks
  <1>6. ASSUME n \notin done PROVE n \notin live
    <2>1. \A i : i \in live <=> i \in D \ done /\ Rank(D \ done, i) < Excess(store) - Cardinality(done)
      BY FirstRanks
    <2> HIDE DEF n, D, done, live
    <2>2. Cardinality(done) \in Nat /\ Rank(D \ done, n) = n - 1 - Cardinality(done)
      BY <1>1, <1>3, <1>6, LastRank
    <2> QED BY <1>1, <1>2, <2>1, <2>2
  <1>7. store[n].status \notin Finished => n \notin done
    BY FirstRanks
  <1> HIDE DEF n, D, old, done, live
  <1>8. D = DOMAIN store /\ n = Len(store)
    BY DEF D, n
  <1>9. /\ EvictKeys(store) \in Seq(S)
        /\ \A i \in DOMAIN EvictKeys(store) :
             \E j \in DOMAIN store : EvictKeys(store)[i] = store[j]
        /\ \E i \in DOMAIN EvictKeys(store) : EvictKeys(store)[i] = store[n]
    <2> DEFINE I == D \ old
    <2>1. I \in SUBSET DOMAIN store /\ n \in I
      BY <1>1, <1>5, <1>8
    <2> HIDE DEF I
    <2>2. /\ Kept(store, I) \in Seq(S)
          /\ \A i \in DOMAIN Kept(store, I) : \E j \in I : Kept(store, I)[i] = store[j]
          /\ \E i \in DOMAIN Kept(store, I) : Kept(store, I)[i] = store[n]
      BY <2>1, KeptEntries
    <2>3. EvictKeys(store) = Kept(store, I)
      BY <1>4 DEF I
    <2> QED BY <2>1, <2>2, <2>3
  <1>10. /\ EvictTasks(store) \in Seq(S)
         /\ store[n].status \notin Finished =>
              \E i \in DOMAIN EvictTasks(store) : EvictTasks(store)[i] = store[n]
    <2> DEFINE I == D \ (done \cup live)
    <2>1. I \in SUBSET DOMAIN store
      BY <1>8
    <2>2. store[n].status \notin Finished => n \in I
      BY <1>1, <1>6, <1>7
    <2> HIDE DEF I
    <2>3. /\ Kept(store, I) \in Seq(S)
          /\ n \in I => \E i \in DOMAIN Kept(store, I) : Kept(store, I)[i] = store[n]
      BY <2>1, KeptEntries
    <2>4. EvictTasks(store) = Kept(store, I)
      BY <1>4 DEF I
    <2> QED BY <2>2, <2>3, <2>4
  <1> QED BY <1>8, <1>9, <1>10

-----------------------------------------------------------------------------
(* The server: what its stores know of what it has run *)

\* The types of its state.
ServerTypes ==
  /\ tasks \in Seq(TaskEntry) /\ idempotency \in Seq(KeyEntry)
  /\ executing \subseteq TaskId /\ asked \in Seq(Key)
  /\ seen_jtis \subseteq Jti /\ tokens \in 0..capacity
  /\ restarts \in 0..MaxRestarts /\ forgotten \subseteq Key

\* Some prompt was run for a key.
Ran(c) == \E i \in DOMAIN asked : asked[i] = c

\* What has been run for a key is still known by it, or was lost; and unless it was lost,
\* it was run once.
OnceInv ==
  \A c \in Call :
    /\ Ran(c) => Known(idempotency, tasks, c) \/ c \in forgotten
    /\ \A i, j \in DOMAIN asked : asked[i] = c /\ asked[j] = c => i = j \/ c \in forgotten

\* A key leads to a task that was asked for with it.
KeysInv ==
  \A i \in DOMAIN idempotency :
    idempotency[i].id \in DOMAIN asked /\ asked[idempotency[i].id] = idempotency[i].key

ServerInv == ServerTypes /\ OnceInv /\ KeysInv

\* Nothing asked is ever asked differently.
Keeps == \A i \in DOMAIN asked : i \in DOMAIN asked' /\ asked'[i] = asked[i]

\* Steps that leave the stores alone.
LEMMA StoresKept ==
  ASSUME ServerInv, UNCHANGED <<tasks, idempotency, executing, asked, restarts, forgotten>>,
         seen_jtis' \subseteq Jti, tokens' \in 0..capacity
  PROVE  ServerInv' /\ Keeps
  BY DEF ServerInv, ServerTypes, OnceInv, KeysInv, Keeps, Ran, Known, Tracked

\* What the two checks before a handler leave of the bucket and the table.
LEMMA TokenTypes ==
  ASSUME ServerTypes, NEW j \in Jti
  PROVE  /\ Consume => tokens' \in 0..capacity
         /\ Exhausted => tokens' \in 0..capacity
         /\ Admitted(j) => seen_jtis' \subseteq Jti
         /\ Replayed(j) => seen_jtis' \subseteq Jti
  BY SkillServerAssumption DEF ServerTypes, Consume, Exhausted, Admitted, Replayed

\* A request that is turned away, led to its task or answered from the store.
LEMMA Unmoved ==
  ASSUME ServerInv, NEW key, NEW id, NEW j \in Jti, NEW a,
         TurnedAway(j, a) \/ SameTask(key, j, a) \/ StatusEndpoint(id, j, a)
  PROVE  ServerInv' /\ Keeps
  <1>1. CASE TurnedAway(j, a)
    <2>1. seen_jtis \subseteq Jti
      BY DEF ServerInv, ServerTypes
    <2>2. seen_jtis' \subseteq Jti /\ tokens' \in 0..capacity
      BY <1>1, <2>1, TokenTypes DEF TurnedAway, ServerInv
    <2> QED BY <1>1, <2>2, StoresKept DEF TurnedAway
  <1>2. CASE SameTask(key, j, a)
    BY <1>2, StoresKept, TokenTypes DEF SameTask, ServerInv
  <1>3. CASE StatusEndpoint(id, j, a)
    BY <1>1, <1>3, StoresKept, TokenTypes DEF StatusEndpoint, ServerInv
  <1> QED BY <1>1, <1>2, <1>3

\* A new task is known by its key.
LEMMA NewTaskIsKnown ==
  ASSUME ServerTypes, NEW owner \in Key, NEW key \in Key, NEW j, NEW a, NewTask(owner, key, j, a)
  PROVE  /\ tasks' \in Seq(TaskEntry) /\ idempotency' \in Seq(KeyEntry)
         /\ asked' = Append(asked, owner)
         /\ Known(idempotency', tasks', key)
         /\ \A i \in DOMAIN idempotency' :
              \/ idempotency'[i] = [key |-> key, id |-> Len(asked) + 1]
              \/ \E k \in DOMAIN idempotency : idempotency'[i] = idempotency[k]
  <1> DEFINE id == Len(asked) + 1
             task == [id |-> id, status |-> "processing"]
             entry == [key |-> key, id |-> id]
             I == {i \in DOMAIN idempotency : idempotency[i].key # key}
             others == Kept(idempotency, I)
  <1>1. /\ id \in TaskId
        /\ tasks' = EvictTasks(Append(tasks, task))
        /\ idempotency' = EvictKeys(Append(others, entry))
        /\ asked' = Append(asked, owner)
    BY DEF NewTask
  <1>2. task \in TaskEntry /\ entry \in KeyEntry /\ task.id = id /\ task.status \notin Finished
    BY <1>1 DEF TaskEntry, KeyEntry, Status, Finished
  <1>3. I \in SUBSET DOMAIN idempotency
    OBVIOUS
  <1> HIDE DEF id, I
  <1>4. /\ others \in Seq(KeyEntry)
        /\ \A n \in DOMAIN others : \E i \in DOMAIN idempotency : others[n] = idempotency[i]
    BY <1>3, KeptEntries DEF ServerTypes
  <1> HIDE DEF task, others
  <1>5. /\ tasks' \in Seq(TaskEntry)
        /\ \E i \in DOMAIN tasks' : tasks'[i] = task
    <2> DEFINE store == Append(tasks, task)
    <2>1. /\ store \in Seq(TaskEntry) /\ Len(store) > 0
          /\ store[Len(store)] = task
      BY <1>2 DEF ServerTypes
    <2>2. tasks' = EvictTasks(store)
      BY <1>1
    <2> HIDE DEF store
    <2> QED BY <1>2, <2>1, <2>2, Evicted
  <1>6. /\ idempotency' \in Seq(KeyEntry)
        /\ \E i \in DOMAIN idempotency' : idempotency'[i] = entry
        /\ \A i \in DOMAIN idempotency' :
              \/ idempotency'[i] = entry
              \/ \E k \in DOMAIN idempotency : idempotency'[i] = idempotency[k]
    <2> DEFINE store == Append(others, entry)
    <2>1. /\ store \in Seq(KeyEntry) /\ Len(store) > 0
          /\ store[Len(store)] = entry
      BY <1>2, <1>4
    <2>2. \A n \in DOMAIN store :
            store[n] = entry \/ \E k \in DOMAIN idempotency : store[n] = idempotency[k]
      BY <1>2, <1>4
    <2>3. idempotency' = EvictKeys(store)
      BY <1>1
    <2> HIDE DEF store, entry
    <2>4. /\ idempotency' \in Seq(KeyEntry)
          /\ \A i \in DOMAIN idempotency' : \E n \in DOMAIN store : idempotency'[i] = store[n]
          /\ \E i \in DOMAIN idempotency' : idempotency'[i] = store[Len(store)]
      BY <2>1, <2>3, Evicted
    <2> QED BY <2>1, <2>2, <2>4
  <1>7. Known(idempotency', tasks', key)
    BY <1>2, <1>5, <1>6 DEF Known, Tracked
  <1> QED BY <1>1, <1>5, <1>6, <1>7 DEF id

\* A new task: its key was unknown, so nothing was run for it or it was lost; every other
\* key the evictions cut off is lost.
LEMMA NewTaskStep ==
  ASSUME ServerInv, NEW key \in Key, NEW j \in Jti, NEW a, NewTask(key, key, j, a)
  PROVE  ServerInv' /\ Keeps
  <1> DEFINE id == Len(asked) + 1
  <1>1. /\ tasks' \in Seq(TaskEntry) /\ idempotency' \in Seq(KeyEntry)
        /\ asked' = Append(asked, key)
        /\ Known(idempotency', tasks', key)
        /\ \A i \in DOMAIN idempotency' :
             \/ idempotency'[i] = [key |-> key, id |-> id]
             \/ \E k \in DOMAIN idempotency : idempotency'[i] = idempotency[k]
    BY NewTaskIsKnown DEF ServerInv
  <1>2. /\ Consume /\ Admitted(j) /\ ~Known(idempotency, tasks, key) /\ id \in TaskId
        /\ executing' = executing \cup {id} /\ restarts' = restarts
        /\ forgotten' = forgotten \cup
             {k \in Key : Known(idempotency, tasks, k) /\ ~Known(idempotency', tasks', k)}
    BY DEF NewTask, Remember
  <1>3. asked \in Seq(Key) /\ Len(asked) \in Nat /\ DOMAIN asked = 1..Len(asked)
    BY DEF ServerInv, ServerTypes
  <1>4. /\ asked' \in Seq(Key) /\ DOMAIN asked' = 1..id /\ asked'[id] = key
        /\ \A i \in DOMAIN asked : i \in DOMAIN asked' /\ asked'[i] = asked[i]
        /\ \A i \in DOMAIN asked' : i = id \/ i \in DOMAIN asked
    BY <1>1, <1>3
  <1> HIDE DEF id
  <1>5. ServerTypes'
    BY <1>1, <1>2, <1>4, TokenTypes DEF ServerInv, ServerTypes
  <1>6. Keeps
    BY <1>4 DEF Keeps
  <1>7. OnceInv'
    <2> SUFFICES ASSUME NEW c \in Call
                 PROVE  /\ Ran(c)' => Known(idempotency', tasks', c) \/ c \in forgotten'
                        /\ \A i, k \in DOMAIN asked' :
                             asked'[i] = c /\ asked'[k] = c => i = k \/ c \in forgotten'
      BY DEF OnceInv
    <2>1. c \in Key
      BY HttpCallsAssumption
    <2>2. c \in forgotten => c \in forgotten'
      BY <1>2
    <2>3. CASE c = key
      <3>1. \A i \in DOMAIN asked : asked[i] = c => c \in forgotten
        BY <2>3, <1>2 DEF ServerInv, OnceInv, Ran
      <3> QED BY <2>2, <2>3, <3>1, <1>1, <1>4
    <2>4. CASE c # key
      <3>1. Ran(c)' => Ran(c)
        BY <2>4, <1>4 DEF Ran
      <3>2. Known(idempotency, tasks, c) /\ ~Known(idempotency', tasks', c) => c \in forgotten'
        BY <2>1, <1>2
      <3>3. Ran(c)' => Known(idempotency', tasks', c) \/ c \in forgotten'
        BY <3>1, <3>2, <2>2 DEF ServerInv, OnceInv
      <3>4. \A i, k \in DOMAIN asked' :
              asked'[i] = c /\ asked'[k] = c => i = k \/ c \in forgotten'
        BY <2>2, <2>4, <1>4 DEF ServerInv, OnceInv
      <3> QED BY <3>3, <3>4
    <2> QED BY <2>3, <2>4
  <1>8. KeysInv'
    <2> SUFFICES ASSUME NEW i \in DOMAIN idempotency'
                 PROVE  /\ idempotency'[i].id \in DOMAIN asked'
                        /\ asked'[idempotency'[i].id] = idempotency'[i].key
      BY DEF KeysInv
    <2>1. CASE idempotency'[i] = [key |-> key, id |-> id]
      BY <2>1, <1>3, <1>4 DEF id
    <2>2. ASSUME NEW k \in DOMAIN idempotency, idempotency'[i] = idempotency[k]
          PROVE  /\ idempotency'[i].id \in DOMAIN asked'
                 /\ asked'[idempotency'[i].id] = idempotency'[i].key
      BY <2>2, <1>4 DEF ServerInv, KeysInv
    <2> QED BY <1>1, <2>1, <2>2
  <1> QED BY <1>5, <1>6, <1>7, <1>8 DEF ServerInv

\* A background task ends: no key loses its task.
LEMMA ExecuteStep ==
  ASSUME ServerInv, NEW id \in TaskId, NEW s \in Finished, Execute(id, s)
  PROVE  ServerInv' /\ Keeps
  <1>1. /\ UNCHANGED <<idempotency, asked, seen_jtis, tokens, restarts, forgotten>>
        /\ executing' \subseteq TaskId
    BY DEF Execute, ServerInv, ServerTypes
  <1>2. [id |-> id, status |-> s] \in TaskEntry
    BY DEF TaskEntry, Status
  <1>3. tasks' \in Seq(TaskEntry) /\ \A k : Tracked(tasks, k) => Tracked(tasks', k)
    <2>1. CASE Tracked(tasks, id)
      <3> DEFINE updated == [i \in DOMAIN tasks |->
                   IF tasks[i].id = id THEN [id |-> id, status |-> s] ELSE tasks[i]]
      <3>1. tasks' = updated
        BY <2>1 DEF Execute
      <3>2. tasks \in Seq(TaskEntry)
        BY DEF ServerInv, ServerTypes
      <3>3. updated \in Seq(TaskEntry) /\ DOMAIN updated = DOMAIN tasks
        BY <3>2, <1>2
      <3>4. \A i \in DOMAIN tasks : updated[i].id = tasks[i].id
        OBVIOUS
      <3> HIDE DEF updated
      <3> QED BY <3>1, <3>3, <3>4 DEF Tracked
    <2>2. CASE ~Tracked(tasks, id)
      <3>1. tasks' = Append(tasks, [id |-> id, status |-> s]) /\ tasks \in Seq(TaskEntry)
        BY <2>2 DEF Execute, ServerInv, ServerTypes
      <3> QED BY <3>1, <1>2 DEF Tracked
    <2> QED BY <2>1, <2>2
  <1>4. \A c : Known(idempotency, tasks, c) => Known(idempotency', tasks', c)
    BY <1>1, <1>3 DEF Known
  <1>5. ServerTypes' /\ KeysInv' /\ Keeps
    BY <1>1, <1>3 DEF ServerInv, ServerTypes, KeysInv, Keeps
  <1>6. OnceInv'
    BY <1>1, <1>4 DEF ServerInv, OnceInv, Ran
  <1> QED BY <1>5, <1>6 DEF ServerInv

\* A restart loses every key.
LEMMA RestartStep ==
  ASSUME ServerInv, Restart
  PROVE  ServerInv' /\ Keeps
  <1>1. /\ tasks' = <<>> /\ idempotency' = <<>> /\ executing' = {} /\ tokens' = capacity
        /\ UNCHANGED <<asked, seen_jtis>> /\ restarts' \in 0..MaxRestarts
        /\ forgotten' = forgotten \cup
             {k \in Key : Known(idempotency, tasks, k) /\ ~Known(idempotency', tasks', k)}
    BY SkillServerAssumption DEF Restart, Remember, ServerInv, ServerTypes
  <1>2. ServerTypes' /\ KeysInv' /\ Keeps
    BY <1>1, SkillServerAssumption DEF ServerInv, ServerTypes, KeysInv, Keeps
  <1>3. \A c \in Call : c \in forgotten \/ Known(idempotency, tasks, c) => c \in forgotten'
    <2>1. \A c : ~Known(idempotency', tasks', c)
      BY <1>1 DEF Known
    <2> QED BY <1>1, <2>1, HttpCallsAssumption
  <1>4. OnceInv'
    BY <1>1, <1>3 DEF ServerInv, OnceInv, Ran
  <1> QED BY <1>2, <1>4 DEF ServerInv

-----------------------------------------------------------------------------
(* The calls: where their answers come from *)

\* An entry of the cache holds the answer to a question like its own.
CacheEntry == {e \in [key : {question[k] : k \in Key}, from : Key] : question[e.from] = e.key}

\* The types of the calls, their requests and the cache.
CallTypes ==
  /\ call \in [Call -> CallRecord]
  /\ \A p \in posts : p[1] \in Call /\ p[2] \in 1..MaxTokens[p[1]]
  /\ cache \in Seq(CacheEntry)

\* What the record of a call may say: the task it polls was asked for by it, and the
\* answer it has was computed for its question.
Fits(a, c, r) ==
  /\ r \in CallRecord
  /\ r.pc = "polling" => r.task \in DOMAIN a /\ a[r.task] = c
  /\ r.pc = "done" => question[r.from] = question[c]

OwnInv == CallTypes /\ \A c \in Call : Fits(asked, c, call[c])

\* A step of one call.
LEMMA CallFits ==
  ASSUME OwnInv, Keeps, NEW c \in Call, NEW q, call' = [call EXCEPT ![c] = q], Fits(asked', c, q),
         cache' \in Seq(CacheEntry),
         \A p \in posts' : p \in posts \/ (p[1] = c /\ p[2] \in 1..MaxTokens[c])
  PROVE  OwnInv'
  <1>1. CallTypes'
    BY DEF OwnInv, CallTypes, Fits
  <1>2. \A d \in Call : Fits(asked', d, call'[d])
    BY DEF OwnInv, CallTypes, Fits, Keeps
  <1> QED BY <1>1, <1>2 DEF OwnInv

\* And of none.
LEMMA NoCallFits ==
  ASSUME OwnInv, Keeps, call' = call, posts' \subseteq posts, cache' = cache
  PROVE  OwnInv'
  BY DEF OwnInv, CallTypes, Fits, Keeps

\* A call ends.
LEMMA EndFits ==
  ASSUME OwnInv, Keeps, NEW c \in Call, NEW pc \in Ended, NEW d \in Key, End(c, pc, d),
         pc = "done" => question[d] = question[c], cache' \in Seq(CacheEntry), posts' \subseteq posts
  PROVE  OwnInv'
  <1> DEFINE q == [pc |-> pc, attempt |-> 1, minted |-> 0, task |-> 0, from |-> d]
  <1>1. call' = [call EXCEPT ![c] = q]
    BY DEF End
  <1>2. 1 \in 1..MAX_ATTEMPTS /\ 0 \in Nat /\ 0 \in 0..MaxTask
    BY HttpCallsAssumption, SkillServerAssumption
  <1>3. q \in CallRecord
    BY <1>2 DEF CallRecord
  <1>4. Fits(asked', c, q)
    BY <1>3 DEF Fits, Ended, Failures
  <1> HIDE DEF q
  <1> QED BY <1>1, <1>4, CallFits

\* Every call has an idempotency key and a question.
LEMMA CallInKey == \A c \in Call : c \in Key /\ question[c] \in {question[k] : k \in Key}
  BY HttpCallsAssumption

\* A call returns the answer to its question, and leaves it in the cache.
LEMMA ReturnFits ==
  ASSUME OwnInv, Keeps, NEW c \in Call, NEW d \in Key, question[d] = question[c], Return(c, d),
         posts' = posts
  PROVE  OwnInv'
  <1> DEFINE e == [key |-> question[c], from |-> d]
             I == {i \in DOMAIN cache : cache[i].key # e.key}
             longer == Append(Kept(cache, I), e)
             over == IF Len(longer) > MAXSIZE THEN Len(longer) - MAXSIZE ELSE 0
  <1>1. e \in CacheEntry
    BY CallInKey DEF CacheEntry
  <1>2. cache' = SubSeq(longer, 1 + over, Len(longer))
    BY DEF Return, Stored, cache_key
  <1>3. cache \in Seq(CacheEntry) /\ I \in SUBSET DOMAIN cache
    BY DEF OwnInv, CallTypes
  <1> HIDE DEF I, e
  <1>4. Kept(cache, I) \in Seq(CacheEntry)
    BY <1>3, KeptEntries
  <1>5. longer \in Seq(CacheEntry) /\ Len(longer) \in Nat
    BY <1>1, <1>4
  <1> HIDE DEF longer
  <1>6. over \in Nat
    BY <1>5, HttpCallsAssumption
  <1> HIDE DEF over
  <1>7. \A i \in (1 + over)..Len(longer) : longer[i] \in CacheEntry
    BY <1>5, <1>6
  <1>8. cache' \in Seq(CacheEntry)
    BY <1>2, <1>5, <1>6, <1>7, SubSeqProperties
  <1> QED BY <1>8, EndFits DEF Return, Ended

-----------------------------------------------------------------------------
(* Steps of the calls *)

\* An accepted request leads to a task that was asked for with its key.
LEMMA RunLeads ==
  ASSUME ServerInv, NEW key \in Key, NEW j \in Jti, NEW a \in Answer, RunEndpoint(key, key, j, a)
  PROVE  /\ ServerInv' /\ Keeps
         /\ a.code = "ok" => a.id \in DOMAIN asked' /\ asked'[a.id] = key
  <1>1. CASE TurnedAway(j, a)
    BY <1>1, Unmoved DEF TurnedAway, Refusal
  <1>2. CASE SameTask(key, j, a)
    <2>1. PICK i \in DOMAIN idempotency : idempotency[i].key = key /\ a.id = idempotency[i].id
      BY <1>2 DEF SameTask
    <2>2. a.id \in DOMAIN asked /\ asked[a.id] = key
      BY <2>1 DEF ServerInv, KeysInv
    <2>3. asked' = asked
      BY <1>2 DEF SameTask
    <2> QED BY <1>2, <2>2, <2>3, Unmoved
  <1>3. CASE NewTask(key, key, j, a)
    <2>1. a.id = Len(asked) + 1 /\ asked' = Append(asked, key) /\ asked \in Seq(Key)
      BY <1>3 DEF NewTask, ServerInv, ServerTypes
    <2> QED BY <1>3, <2>1, NewTaskStep
  <1> QED BY <1>1, <1>2, <1>3 DEF RunEndpoint

\* The inductive invariant.
AnswersInv == ServerInv /\ OwnInv

\* The tokens of a call are tokens.
LEMMA TokenOfCall ==
  ASSUME NEW c \in Key, NEW n \in 1..MaxTokens[c]
  PROVE  <<c, n>> \in Jti
  BY HttpCallsAssumption

\* A request arrives, and its answer is heard or not.
LEMMA ArriveKeeps ==
  ASSUME AnswersInv, NEW c \in Call, NEW n \in 1..MaxTokens[c], Arrive(c, n)
  PROVE  AnswersInv'
  <1>1. PICK a \in Answer :
          /\ RunEndpoint(c, c, <<c, n>>, a)
          /\ \/ call[c].pc = "posting" /\ call[c].minted = n /\ Heard(c, a)
             \/ UNCHANGED call
    BY DEF Arrive, idempotency_key, jti
  <1>2. /\ ServerInv' /\ Keeps
        /\ a.code = "ok" => a.id \in DOMAIN asked' /\ asked'[a.id] = c
    BY <1>1, CallInKey, TokenOfCall, RunLeads DEF AnswersInv
  <1>3. posts' \subseteq posts /\ cache' = cache /\ cache' \in Seq(CacheEntry)
        /\ call \in [Call -> CallRecord] /\ OwnInv
    BY DEF Arrive, AnswersInv, OwnInv, CallTypes
  <1>4. CASE UNCHANGED call
    BY <1>2, <1>3, <1>4, NoCallFits DEF AnswersInv
  <1>5. CASE a.code = "ok" /\ call' = [call EXCEPT ![c].pc = "polling", ![c].attempt = 1, ![c].task = a.id]
    <2> DEFINE q == [call[c] EXCEPT !.pc = "polling", !.attempt = 1, !.task = a.id]
    <2>1. call' = [call EXCEPT ![c] = q]
      BY <1>3, <1>5
    <2>2. a.id \in 0..MaxTask /\ 1 \in 1..MAX_ATTEMPTS
      BY SkillServerAssumption, HttpCallsAssumption DEF Answer, TaskId, Refusal
    <2>3. q \in CallRecord /\ q.pc = "polling" /\ q.task = a.id
      BY <1>3, <2>2 DEF CallRecord
    <2> HIDE DEF q
    <2>4. Fits(asked', c, q)
      BY <1>2, <1>5, <2>3 DEF Fits
    <2> QED BY <1>2, <1>3, <2>1, <2>4, CallFits DEF AnswersInv
  <1>6. CASE a.code = "replay" /\ End(c, "refused", c)
    <2>1. c \in Key
      BY CallInKey
    <2>2. OwnInv'
      BY <1>2, <1>3, <1>6, <2>1, EndFits DEF Ended, Failures
    <2> QED BY <1>2, <2>2 DEF AnswersInv
  <1> QED BY <1>1, <1>4, <1>5, <1>6 DEF Heard

\* A poll, answered or not.
LEMMA PollKeeps ==
  ASSUME AnswersInv, NEW c \in Call, Poll(c)
  PROVE  AnswersInv'
  <1> DEFINE r == call[c]
             m == r.minted + 1
  <1>1. /\ r \in CallRecord /\ r.pc = "polling" /\ r.minted \in Nat /\ m \in 1..MaxTokens[c]
        /\ posts' = posts /\ r.task \in DOMAIN asked /\ asked[r.task] = c /\ r.attempt \in 1..MAX_ATTEMPTS
    <2>1. r \in CallRecord /\ r.pc = "polling" /\ posts' = posts /\ r.minted < MaxTokens[c]
          /\ r.task \in DOMAIN asked /\ asked[r.task] = c
      BY DEF Poll, AnswersInv, OwnInv, Fits
    <2>2. MaxTokens[c] \in Nat
      BY CallInKey, HttpCallsAssumption
    <2> QED BY <2>1, <2>2 DEF CallRecord
  <1>2. PICK a \in Answer : StatusEndpoint(r.task, <<c, m>>, a) /\ Polled(c, a)
    BY DEF Poll, jti
  <1>3. ServerInv' /\ Keeps /\ OwnInv /\ cache \in Seq(CacheEntry) /\ call \in [Call -> CallRecord]
    BY <1>1, <1>2, CallInKey, TokenOfCall, Unmoved DEF AnswersInv, OwnInv, CallTypes
  <1>4. a.status = "completed" => a.id = r.task
    BY <1>2 DEF StatusEndpoint, TurnedAway, Refusal
  <1>5. CASE a.status = "completed" /\ Return(c, asked[a.id])
    BY <1>1, <1>3, <1>4, <1>5, CallInKey, ReturnFits DEF AnswersInv
  <1>6. ASSUME NEW pc \in {"task_failed", "not_found", "refused", "unreachable"}, End(c, pc, c),
               UNCHANGED cache
        PROVE  AnswersInv'
    <2>1. pc \in Ended /\ pc # "done"
      BY DEF Ended, Failures
    <2> QED BY <1>1, <1>3, <1>6, <2>1, CallInKey, EndFits DEF AnswersInv
  <1>7. ASSUME NEW n \in 1..MAX_ATTEMPTS, UNCHANGED cache,
               call' = [call EXCEPT ![c].minted = @ + 1, ![c].attempt = n]
        PROVE  AnswersInv'
    <2> DEFINE q == [r EXCEPT !.minted = m, !.attempt = n]
    <2>1. call' = [call EXCEPT ![c] = q]
      BY <1>3, <1>7
    <2>2. q \in CallRecord /\ q.pc = "polling" /\ q.task = r.task
      <3>1. m \in Nat /\ r \in CallRecord /\ r.pc = "polling"
        BY <1>1
      <3> HIDE DEF m
      <3> QED BY <3>1 DEF CallRecord
    <2> HIDE DEF q
    <2>3. Fits(asked', c, q)
      BY <1>1, <1>3, <2>2 DEF Fits, Keeps
    <2> QED BY <1>1, <1>3, <1>7, <2>1, <2>3, CallFits DEF AnswersInv
  <1>8. 1 \in 1..MAX_ATTEMPTS /\ (r.attempt < MAX_ATTEMPTS => r.attempt + 1 \in 1..MAX_ATTEMPTS)
    BY <1>1, HttpCallsAssumption
  <1>9. \/ a.status = "completed" /\ Return(c, asked[a.id])
        \/ /\ UNCHANGED cache
           /\ \/ call' = [call EXCEPT ![c].minted = @ + 1, ![c].attempt = 1]
              \/ \E pc \in {"task_failed", "not_found", "refused", "unreachable"} : End(c, pc, c)
              \/ /\ r.attempt < MAX_ATTEMPTS
                 /\ call' = [call EXCEPT ![c].minted = @ + 1, ![c].attempt = r.attempt + 1]
    BY <1>2, <1>3 DEF Polled
  <1> QED BY <1>5, <1>6, <1>7, <1>8, <1>9

\* Any other step of a call: the server has no part in it.
LEMMA OtherCallKeeps ==
  ASSUME AnswersInv, NEW c \in Call, CallStep(c)
  PROVE  AnswersInv'
  <1> DEFINE r == call[c]
  <1>1. OwnInv /\ cache \in Seq(CacheEntry) /\ call \in [Call -> CallRecord] /\ r \in CallRecord
        /\ ServerInv /\ c \in Key
    BY CallInKey DEF AnswersInv, OwnInv, CallTypes
  <1>2. ASSUME UNCHANGED serverVars PROVE ServerInv' /\ Keeps
    BY <1>1, <1>2 DEF serverVars, ServerInv, ServerTypes, OnceInv, KeysInv, Keeps, Ran, Known, Tracked
  <1>3. ASSUME NEW pc \in Failures, End(c, pc, c), UNCHANGED <<serverVars, posts, cache>>
        PROVE  AnswersInv'
    <2>1. pc \in Ended /\ pc # "done"
      BY DEF Ended, Failures
    <2> QED BY <1>1, <1>2, <1>3, <2>1, EndFits DEF AnswersInv
  <1>4. ASSUME NEW q \in CallRecord, q.pc \notin {"polling", "done"}, call' = [call EXCEPT ![c] = q],
               \A p \in posts' : p \in posts \/ (p[1] = c /\ p[2] \in 1..MaxTokens[c]),
               UNCHANGED <<serverVars, cache>>
        PROVE  AnswersInv'
    <2>1. Fits(asked', c, q)
      BY <1>4 DEF Fits
    <2> QED BY <1>1, <1>2, <1>4, <2>1, CallFits DEF AnswersInv
  <1>5. ASSUME NEW n \in 1..MAX_ATTEMPTS, Sent(c, n), UNCHANGED <<serverVars, cache>>
        PROVE  AnswersInv'
    <2> DEFINE m == r.minted + 1
               q == [r EXCEPT !.pc = "posting", !.attempt = n, !.minted = m]
    <2>1. m \in Nat /\ m \in 1..MaxTokens[c]
      <3>1. MaxTokens[c] \in Nat /\ r.minted \in Nat /\ m <= MaxTokens[c]
        BY <1>1, <1>5, HttpCallsAssumption DEF Sent, CallRecord
      <3> QED BY <3>1
    <2>2. call' = [call EXCEPT ![c] = q]
      BY <1>1, <1>5 DEF Sent
    <2>3. \A p \in posts' : p \in posts \/ (p[1] = c /\ p[2] \in 1..MaxTokens[c])
      BY <1>5, <2>1 DEF Sent
    <2> HIDE DEF m
    <2>4. q \in CallRecord /\ q.pc = "posting"
      BY <1>1, <2>1 DEF CallRecord
    <2> HIDE DEF q
    <2> QED BY <1>4, <1>5, <2>2, <2>3, <2>4
  <1>6. CASE CacheHit(c)
    <2>1. PICK i \in DOMAIN cache : cache[i].key = question[c] /\ Return(c, cache[i].from)
      BY <1>6 DEF CacheHit, cache_key
    <2>2. cache[i].from \in Key /\ question[cache[i].from] = question[c]
      BY <1>1, <2>1 DEF CacheEntry
    <2> QED BY <1>1, <1>2, <1>6, <2>1, <2>2, ReturnFits DEF CacheHit, AnswersInv
  <1>7. CASE StartRun(c)
    BY <1>5, <1>7, HttpCallsAssumption DEF StartRun
  <1>8. CASE AttemptFails(c)
    <2>1. r.attempt \in 1..MAX_ATTEMPTS
      BY <1>1 DEF CallRecord
    <2>2. r.attempt < MAX_ATTEMPTS => r.attempt + 1 \in 1..MAX_ATTEMPTS
      BY <2>1, HttpCallsAssumption
    <2>3. "unreachable" \in Failures
      BY DEF Failures
    <2> QED BY <1>3, <1>5, <1>8, <2>2, <2>3 DEF AttemptFails, RetryPost
  <1>9. CASE PollTimeout(c)
    BY <1>3, <1>9 DEF PollTimeout, Failures
  <1>10. ASSUME NEW pc \in {"looking", "dispatching"}, Goto(c, pc), UNCHANGED <<serverVars, posts, cache>>
         PROVE  AnswersInv'
    <2> DEFINE q == [r EXCEPT !.pc = pc]
    <2>1. q \in CallRecord /\ q.pc = pc
      BY <1>1 DEF CallRecord
    <2>2. call' = [call EXCEPT ![c] = q]
      BY <1>1, <1>10 DEF Goto
    <2> HIDE DEF q
    <2> QED BY <1>4, <1>10, <2>1, <2>2
  <1>11. CASE StartDispatch(c)
    BY <1>10, <1>11 DEF StartDispatch
  <1>12. CASE Look(c)
    BY <1>3, <1>10, <1>12 DEF Look, Failures
  <1>13. CASE Dispatch(c)
    <2>1. CASE End(c, "unreachable", c)
      BY <1>3, <1>13, <2>1 DEF Dispatch, Failures
    <2>2. CASE /\ issued' \in 1..MaxHubTask
               /\ call' = [call EXCEPT ![c].pc = "waiting", ![c].task = issued']
      <3>1. PICK t \in 1..MaxHubTask : t = issued'
        BY <2>2
      <3> DEFINE q == [r EXCEPT !.pc = "waiting", !.task = t]
                 Task == 0..MaxTask \cup 0..MaxHubTask
      <3>t. t \in Task
        OBVIOUS
      <3>2. q \in CallRecord /\ q.pc = "waiting"
        <4>1. CallRecord = [pc : {"ready", "posting", "polling", "looking", "dispatching", "waiting"}
                              \cup Ended, attempt : 1..MAX_ATTEMPTS, minted : Nat, task : Task,
                            from : Key]
          BY DEF CallRecord
        <4> HIDE DEF Task
        <4> QED BY <1>1, <3>t, <4>1
      <3>3. call' = [call EXCEPT ![c] = q]
        BY <1>1, <2>2, <3>1
      <3> HIDE DEF q
      <3> QED BY <1>4, <1>13, <3>2, <3>3 DEF Dispatch
    <2> QED BY <1>13, <2>1, <2>2 DEF Dispatch
  <1>14. CASE PollHub(c)
    <2>1. CASE Return(c, c)
      BY <1>1, <1>2, <1>14, <2>1, ReturnFits DEF PollHub, AnswersInv
    <2> QED BY <1>3, <1>14, <2>1 DEF PollHub, Failures
  <1> QED BY <1>6, <1>7, <1>8, <1>9, <1>11, <1>12, <1>13, <1>14, PollKeeps DEF CallStep

\* AnswersInv holds at first and is kept by every step.
LEMMA AnswersInvariant == Spec => []AnswersInv
  <1>1. Init => AnswersInv
    <2> SUFFICES ASSUME Init PROVE AnswersInv
      OBVIOUS
    <2>1. ServerInv
      BY SkillServerAssumption DEF Init, ServerInit, ServerInv, ServerTypes, OnceInv, KeysInv, Ran
    <2>2. 1 \in 1..MAX_ATTEMPTS /\ 0 \in Nat /\ 0 \in 0..MaxTask
      BY HttpCallsAssumption, SkillServerAssumption
    <2>3. \A c \in Call : [pc |-> "ready", attempt |-> 1, minted |-> 0, task |-> 0, from |-> c] \in CallRecord
      BY <2>2, CallInKey DEF CallRecord
    <2>4. OwnInv
      BY <2>3 DEF Init, OwnInv, CallTypes, Fits
    <2> QED BY <2>1, <2>4 DEF AnswersInv
  <1>2. AnswersInv /\ [Next]_vars => AnswersInv'
    <2> SUFFICES ASSUME AnswersInv, [Next]_vars PROVE AnswersInv'
      OBVIOUS
    <2>1. ASSUME ServerInv', Keeps, UNCHANGED callVars PROVE AnswersInv'
      BY <2>1, NoCallFits DEF AnswersInv, callVars
    <2>2. CASE UNCHANGED <<serverVars, callVars>>
      <3>1. ServerInv' /\ Keeps
        BY <2>2 DEF AnswersInv, serverVars, ServerInv, ServerTypes, OnceInv, KeysInv, Keeps, Ran,
                    Known, Tracked
      <3> QED BY <2>1, <2>2, <3>1
    <2>3. CASE ArriveOther
      <3>1. PICK a : NewTask(Stranger, Stranger, <<Stranger, 1>>, a)
        BY <2>3 DEF ArriveOther, jti
      <3>2. Stranger \in Key /\ <<Stranger, 1>> \in Jti
        <4>1. Stranger \in Key /\ 1 \in 1..MaxTokens[Stranger]
          BY HttpCallsAssumption
        <4> QED BY <4>1, TokenOfCall
      <3>3. ServerInv' /\ Keeps
        BY <3>1, <3>2, NewTaskStep DEF AnswersInv
      <3> QED BY <2>1, <2>3, <3>3 DEF ArriveOther
    <2>4. CASE ServerStep /\ UNCHANGED callVars
      BY <2>1, <2>4, ExecuteStep, RestartStep DEF ServerStep, AnswersInv
    <2>5. CASE HubStep
      BY <2>2, <2>5 DEF HubStep
    <2>6. CASE UNCHANGED vars
      BY <2>2, <2>6 DEF vars
    <2> QED BY <2>3, <2>4, <2>5, <2>6, ArriveKeeps, OtherCallKeeps DEF Next
  <1> QED BY <1>1, <1>2, PTL DEF Spec

-----------------------------------------------------------------------------
(* Theorems *)

\* However often a POST is sent again, late or after its answer was lost, its prompt runs
\* once unless the server lost its key or its task in between.
THEOREM PromptsRunOnce == Spec => []RunsOnce
  <1>1. AnswersInv => RunsOnce
    <2> SUFFICES ASSUME AnswersInv, NEW c \in Call, c \notin forgotten,
                        Cardinality({i \in DOMAIN asked : asked[i] = c}) > 1
                 PROVE  FALSE
      BY DEF RunsOnce
    <2> DEFINE runs == {i \in DOMAIN asked : asked[i] = c}
    <2>1. \A i, j \in runs : i = j
      BY DEF AnswersInv, ServerInv, OnceInv
    <2> HIDE DEF runs
    <2>2. runs = {} \/ \E i : runs = {i}
      BY <2>1
    <2>3. Cardinality(runs) = 0 \/ Cardinality(runs) = 1
      BY <2>2, FS_EmptySet, FS_Singleton
    <2> QED BY <2>3 DEF runs
  <1> QED BY <1>1, AnswersInvariant, PTL

\* What a call returns was computed for what it asked, from wherever it comes.
THEOREM AnswersAreOwn == Spec => []AnswerIsOwn
  <1>1. AnswersInv => AnswerIsOwn
    BY DEF AnswersInv, OwnInv, Fits, AnswerIsOwn
  <1> QED BY <1>1, AnswersInvariant, PTL

\* Every variable keeps its type; the bounded stores lose entries and never make any up.
THEOREM CallsKeepTheirTypes == Spec => []CallsTypeOK
  <1>1. AnswersInv => CallsTypeOK
    BY DEF AnswersInv, OwnInv, CallTypes, ServerInv, ServerTypes, CallsTypeOK
  <1> QED BY <1>1, AnswersInvariant, PTL
=============================================================================
