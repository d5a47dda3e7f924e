----------------------------- MODULE TaskBoard -----------------------------
(***************************************************************************)
(* What the hub promises of a task, whatever happens to workers, sockets   *)
(* and queues: a board of cards, one per task id.  An id is issued once; a *)
(* card waits for nobody, is carried by one worker from start to end, and  *)
(* once settled it never moves back.  One step may move many cards.        *)
(***************************************************************************)
EXTENDS Integers

CONSTANTS Id, Worker, NoWorker

VARIABLES
  board,  \* Id -> [status, worker_id]
  issued  \* the last id drawn

Blank == [status |-> "none", worker_id |-> NoWorker]

Init ==
  /\ board = [t \in Id |-> Blank]
  /\ issued = 0

\* A fresh card: it waits, or a worker carries it at once.
Accepted(b) ==
  \/ b = [status |-> "pending", worker_id |-> NoWorker]
  \/ b.status = "running" /\ b.worker_id \in Worker

\* The moves of a card that was accepted.  A completed one may still be marked
\* failed: the promise is that it stays settled, with the worker it had.
Moves(a, b) ==
  \/ b = a
  \/ a.status = "pending" /\ b.status = "running" /\ b.worker_id \in Worker
  \/ /\ a.status = "running" /\ b.status \in {"completed", "failed"}
     /\ b.worker_id = a.worker_id
  \/ a.status = "completed" /\ b.status = "failed" /\ b.worker_id = a.worker_id
  \/ a.status \in {"completed", "failed"} /\ b = Blank

Next ==
  /\ issued' \in {issued, issued + 1}
  /\ \A t \in Id :
       \/ Moves(board[t], board'[t])
       \/ t = issued + 1 /\ issued' = t /\ board[t] = Blank /\ Accepted(board'[t])

Spec == Init /\ [][Next]_<<board, issued>>
=============================================================================
