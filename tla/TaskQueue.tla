----------------------------- MODULE TaskQueue -----------------------------
(***************************************************************************)
(* What the Proactor server expects of its thread pool, with no lock and   *)
(* no semaphore in sight: a bounded FIFO of requests, each one handed to   *)
(* exactly one worker.  ThreadPool.tla is shown to implement this          *)
(* specification and Proactor.tla is built on top of it.                   *)
(***************************************************************************)
EXTENDS Naturals, Sequences

CONSTANTS
  Workers,     \* the detached pthreads of the pool
  Tasks,       \* what can be appended: pointers to http_conn objects
  MaxRequest,  \* m_maxrequestnum
  NoTask       \* "this worker holds no request"

VARIABLES
  queue,       \* accepted requests, oldest first
  running      \* running[w]: the request worker w holds

tqVars == <<queue, running>>

TQInit ==
  /\ queue = << >>
  /\ running = [w \in Workers |-> NoTask]

\* append() refuses a request only when the queue is longer than the limit,
\* so an accepted request may find MaxRequest others waiting.
HasRoom == Len(queue) =< MaxRequest

Accept(t) ==
  /\ HasRoom
  /\ queue' = Append(queue, t)
  /\ UNCHANGED running

Take(w) ==
  /\ running[w] = NoTask
  /\ queue # << >>
  /\ running' = [running EXCEPT ![w] = Head(queue)]
  /\ queue' = Tail(queue)

Finish(w) ==
  /\ running[w] # NoTask
  /\ running' = [running EXCEPT ![w] = NoTask]
  /\ UNCHANGED queue

TQNext ==
  \/ \E t \in Tasks : Accept(t)
  \/ \E w \in Workers : Take(w) \/ Finish(w)

TQSafety == TQInit /\ [][TQNext]_tqVars

\* A pool makes progress: while requests wait and a worker is free somebody
\* takes one, and every request taken is finished.
TQFairness ==
  /\ WF_tqVars(\E w \in Workers : Take(w))
  /\ \A w \in Workers : WF_tqVars(Finish(w))

=============================================================================
