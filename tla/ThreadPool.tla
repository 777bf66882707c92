----------------------------- MODULE ThreadPool -----------------------------
(***************************************************************************)
(* The thread pool of the Proactor server (1. Proactor/threadpool.h) with  *)
(* the mutex and the semaphore of locker.h.  Only the main thread calls    *)
(* append(); the workers run run().  One action is one statement that      *)
(* another thread can observe.                                             *)
(***************************************************************************)
EXTENDS Naturals, Sequences, FiniteSets

CONSTANTS
  Workers,        \* the m_thread_number detached threads
  Main,           \* the thread that calls append() and ~threadpool()
  Tasks,          \* the requests (T* pointers, never NULL: main.cpp:153)
  MaxRequest,     \* m_maxrequestnum
  MaxInterrupts,  \* bound: how often sem_wait() may return EINTR
  NoTask,         \* no request
  NoOne           \* the mutex is free

ASSUME PoolAssumption ==
  /\ IsFiniteSet(Workers)
  /\ Main \notin Workers
  /\ NoOne \notin Workers \cup {Main}
  /\ NoTask \notin Tasks
  /\ MaxRequest \in Nat \ {0}     \* the constructor throws otherwise
  /\ MaxInterrupts \in Nat

VARIABLES
  m_workqueue,    \* the request queue
  m_queuelocker,  \* holder of the mutex, or NoOne
  m_queuestat,    \* value of the semaphore
  m_stop,
  appendPc,       \* where the main thread is in append()
  request,        \* the argument of the current append(), or NoTask
  runPc,          \* where each worker is in run()
  task,           \* the local variable "request" of each worker
  interrupts      \* how many sem_wait() calls were interrupted so far

vars == <<m_workqueue, m_queuelocker, m_queuestat, m_stop, appendPc, request,
          runPc, task, interrupts>>

AppendPcs == {"idle", "locked", "pushed", "post", "deleted"}
RunPcs == {"loop", "wait", "lock", "locked", "popped", "process", "exit"}

Init ==
  /\ m_workqueue = << >>
  /\ m_queuelocker = NoOne
  /\ m_queuestat = 0
  /\ m_stop = FALSE
  /\ appendPc = "idle"
  /\ request = NoTask
  /\ runPc = [w \in Workers |-> "loop"]
  /\ task = [w \in Workers |-> NoTask]
  /\ interrupts = 0

-----------------------------------------------------------------------------
(* locker.h                                                                *)

\* Mutant: a lock() that does not wait for the holder.
lock_NoWait(p) == m_queuelocker' = p

lock(p) == m_queuelocker = NoOne /\ m_queuelocker' = p

unlock(p) == m_queuelocker = p /\ m_queuelocker' = NoOne

\* Mutant: a wait() that returns although the value is zero.
semTake_AtZero == m_queuestat' = m_queuestat - 1

\* sem::wait() returns when it has taken one unit ...
semTake == m_queuestat > 0 /\ m_queuestat' = m_queuestat - 1

\* ... and sem::post() adds one.
semPost == m_queuestat' = m_queuestat + 1

-----------------------------------------------------------------------------
(* append(), called by the main thread                                     *)

AppendLock(t) ==
  /\ appendPc = "idle"
  /\ lock(Main)
  /\ appendPc' = "locked"
  /\ request' = t
  /\ UNCHANGED <<m_workqueue, m_queuestat, m_stop, runPc, task, interrupts>>

\* The test of append(): the queue is full when it is LONGER than the limit.
QueueFull == Len(m_workqueue) > MaxRequest

AppendRefuse ==
  /\ appendPc = "locked"
  /\ QueueFull
  /\ unlock(Main)
  /\ appendPc' = "idle"
  /\ request' = NoTask
  /\ UNCHANGED <<m_workqueue, m_queuestat, m_stop, runPc, task, interrupts>>

AppendPush ==
  /\ appendPc = "locked"
  /\ ~QueueFull
  /\ m_workqueue' = Append(m_workqueue, request)
  /\ appendPc' = "pushed"
  /\ UNCHANGED <<m_queuelocker, m_queuestat, m_stop, request, runPc, task, interrupts>>

AppendUnlock ==
  /\ appendPc = "pushed"
  /\ unlock(Main)
  /\ appendPc' = "post"
  /\ UNCHANGED <<m_workqueue, m_queuestat, m_stop, request, runPc, task, interrupts>>

\* Mutant: post() only when the request is the first one in the queue.
AppendPost_FirstOnly ==
  /\ appendPc = "post"
  /\ IF Len(m_workqueue) = 1 THEN semPost ELSE UNCHANGED m_queuestat
  /\ appendPc' = "idle"
  /\ request' = NoTask
  /\ UNCHANGED <<m_workqueue, m_queuelocker, m_stop, runPc, task, interrupts>>

AppendPost ==
  /\ appendPc = "post"
  /\ semPost
  /\ appendPc' = "idle"
  /\ request' = NoTask
  /\ UNCHANGED <<m_workqueue, m_queuelocker, m_stop, runPc, task, interrupts>>

\* ~threadpool(), after which the main thread appends nothing more.  It
\* neither posts the semaphore nor waits for the (detached) threads.
Destroy ==
  /\ appendPc = "idle"
  /\ appendPc' = "deleted"
  /\ m_stop' = TRUE
  /\ UNCHANGED <<m_workqueue, m_queuelocker, m_queuestat, request, runPc, task, interrupts>>

-----------------------------------------------------------------------------
(* run(), executed by every worker                                         *)

Goto(w, from, to) == runPc[w] = from /\ runPc' = [runPc EXCEPT ![w] = to]

RunLoop(w) ==
  /\ Goto(w, "loop", IF m_stop THEN "exit" ELSE "wait")
  /\ UNCHANGED <<m_workqueue, m_queuelocker, m_queuestat, m_stop, appendPc, request, task, interrupts>>

RunWait(w) ==
  /\ Goto(w, "wait", "lock")
  /\ semTake
  /\ UNCHANGED <<m_workqueue, m_queuelocker, m_stop, appendPc, request, task, interrupts>>

\* sem::wait() returns false when sem_wait() was interrupted; run() ignores
\* the result and goes on without having taken a unit.
RunInterrupted(w) ==
  /\ Goto(w, "wait", "lock")
  /\ interrupts < MaxInterrupts
  /\ interrupts' = interrupts + 1
  /\ UNCHANGED <<m_workqueue, m_queuelocker, m_queuestat, m_stop, appendPc, request, task>>

RunLock(w) ==
  /\ Goto(w, "lock", "locked")
  /\ lock(w)
  /\ UNCHANGED <<m_workqueue, m_queuestat, m_stop, appendPc, request, task, interrupts>>

RunEmpty(w) ==
  /\ Goto(w, "locked", "loop")
  /\ m_workqueue = << >>
  /\ unlock(w)
  /\ UNCHANGED <<m_workqueue, m_queuestat, m_stop, appendPc, request, task, interrupts>>

\* Mutant: front() paired with pop_back().
RunPop_Back(w) ==
  /\ Goto(w, "locked", "popped")
  /\ m_workqueue # << >>
  /\ task' = [task EXCEPT ![w] = Head(m_workqueue)]
  /\ m_workqueue' = SubSeq(m_workqueue, 1, Len(m_workqueue) - 1)
  /\ UNCHANGED <<m_queuelocker, m_queuestat, m_stop, appendPc, request, interrupts>>

RunPop(w) ==
  /\ Goto(w, "locked", "popped")
  /\ m_workqueue # << >>
  /\ task' = [task EXCEPT ![w] = Head(m_workqueue)]
  /\ m_workqueue' = Tail(m_workqueue)
  /\ UNCHANGED <<m_queuelocker, m_queuestat, m_stop, appendPc, request, interrupts>>

RunUnlock(w) ==
  /\ Goto(w, "popped", "process")
  /\ unlock(w)
  /\ UNCHANGED <<m_workqueue, m_queuestat, m_stop, appendPc, request, task, interrupts>>

\* request->process() runs to its end; the local pointer is then dead.
RunProcess(w) ==
  /\ Goto(w, "process", "loop")
  /\ task' = [task EXCEPT ![w] = NoTask]
  /\ UNCHANGED <<m_workqueue, m_queuelocker, m_queuestat, m_stop, appendPc, request, interrupts>>

-----------------------------------------------------------------------------
MainStep ==
  \/ \E t \in Tasks : AppendLock(t)
  \/ AppendRefuse
  \/ AppendPush
  \/ AppendUnlock
  \/ AppendPost
  \/ Destroy

WorkerStep(w) ==
  \/ RunLoop(w)
  \/ RunWait(w)
  \/ RunInterrupted(w)
  \/ RunLock(w)
  \/ RunEmpty(w)
  \/ RunPop(w)
  \/ RunUnlock(w)
  \/ RunProcess(w)

\* After ~threadpool() main() returns and the process is over.
ProcessOver == m_stop /\ UNCHANGED vars

Next == MainStep \/ (\E w \in Workers : WorkerStep(w)) \/ ProcessOver

Spec == Init /\ [][Next]_vars

\* A running thread keeps running: WF for every statement that cannot block
\* or whose enabling only this thread ends.  Taking the mutex is SF: a waiter
\* that finds the mutex free again and again gets it at last.  The main
\* thread calls append() or not as it likes, and nothing forces interrupts.
Fairness ==
  /\ WF_vars(AppendRefuse) /\ WF_vars(AppendPush)
  /\ WF_vars(AppendUnlock) /\ WF_vars(AppendPost)
  /\ \A w \in Workers :
       /\ WF_vars(RunLoop(w)) /\ WF_vars(RunWait(w))
       /\ SF_vars(RunLock(w))
       /\ WF_vars(RunEmpty(w)) /\ WF_vars(RunPop(w))
       /\ WF_vars(RunUnlock(w)) /\ WF_vars(RunProcess(w))

FairSpec == Spec /\ Fairness

-----------------------------------------------------------------------------
(* Properties                                                              *)

TypeOK ==
  /\ m_workqueue \in Seq(Tasks)
  /\ m_queuelocker \in Workers \cup {Main, NoOne}
  /\ m_queuestat \in Nat
  /\ m_stop \in BOOLEAN
  /\ appendPc \in AppendPcs
  /\ request \in Tasks \cup {NoTask}
  /\ runPc \in [Workers -> RunPcs]
  /\ task \in [Workers -> Tasks \cup {NoTask}]
  /\ interrupts \in 0..MaxInterrupts

\* The workers between lock() and unlock() of run(), and the main thread
\* between those of append().
InRunSection(w) == runPc[w] \in {"locked", "popped"}
InAppendSection == appendPc \in {"locked", "pushed"}

\* std::list is not thread-safe: front(), pop_front() and push_back() on
\* m_workqueue never overlap, whichever threads run append() and run().
MutualExclusion ==
  /\ \A v, w \in Workers : InRunSection(v) /\ InRunSection(w) => v = w
  /\ \A w \in Workers : ~(InRunSection(w) /\ InAppendSection)

\* Workers that sem::wait() has let through and that have not popped yet.
InFlight == {w \in Workers : runPc[w] \in {"lock", "locked"}}

\* 1 while append() has pushed a request and has not posted yet.
PostDue == IF appendPc \in {"pushed", "post"} THEN 1 ELSE 0

\* No wakeup of run() is lost: every request in the queue is covered by a unit
\* of the semaphore, by the post() append() is about to make, or by a worker
\* already let through, although sem::wait() may also return early (EINTR)
\* and run() then pops a request without having taken its unit.
NoLostWakeup == Len(m_workqueue) =< m_queuestat + PostDue + Cardinality(InFlight)

\* The bound append() really enforces.  threadpool.h:22 and :48 call
\* m_maxrequestnum itself the largest number of waiting requests.
QueueBound == Len(m_workqueue) =< MaxRequest + 1

\* The locks, the semaphore and the interrupts implement a bounded FIFO in
\* which append() adds at the back and every request goes to one worker.
TQ == INSTANCE TaskQueue WITH queue <- m_workqueue, running <- task
ImplementsTaskQueue == TQ!TQSafety

\* A request that append() accepted is picked up by a worker of run(), unless
\* the pool is destroyed first.
AcceptedIsServed ==
  \A t \in Tasks :
    (\E i \in DOMAIN m_workqueue : m_workqueue[i] = t)
      ~> (m_stop \/ \E w \in Workers : task[w] = t)
=============================================================================
