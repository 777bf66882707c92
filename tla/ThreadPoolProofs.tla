-------------------------- MODULE ThreadPoolProofs --------------------------
(***************************************************************************)
(* Proofs about ThreadPool for any finite set of workers, any set of tasks *)
(* and any queue limit.                                                    *)
(***************************************************************************)
EXTENDS ThreadPool, FiniteSetTheorems, TLAPS

\* The mutex is held exactly by the thread that is between lock() and
\* unlock(), and the local pointers are set exactly while they are alive.
Discipline ==
  /\ request \in Tasks <=> appendPc \in {"locked", "pushed", "post"}
  /\ m_queuelocker = Main <=> InAppendSection
  /\ \A w \in Workers :
       /\ m_queuelocker = w <=> InRunSection(w)
       /\ task[w] \in Tasks <=> runPc[w] \in {"popped", "process"}

PoolInv == TypeOK /\ Discipline

LEMMA PoolInvInit == Init => PoolInv
<1> SUFFICES ASSUME Init PROVE PoolInv
  OBVIOUS
<1>1. m_stop \in BOOLEAN
  BY Zenon DEF Init
<1>2. TypeOK
  BY <1>1, PoolAssumption DEF Init, TypeOK, AppendPcs, RunPcs
<1>3. Discipline
  BY PoolAssumption DEF Init, Discipline, InAppendSection, InRunSection
<1> QED
  BY <1>2, <1>3 DEF PoolInv

LEMMA PoolInvStep == PoolInv /\ [Next]_vars => PoolInv'
<1> SUFFICES ASSUME PoolInv, [Next]_vars PROVE PoolInv'
  OBVIOUS
<1> USE PoolAssumption
    DEF PoolInv, TypeOK, Discipline, AppendPcs, RunPcs, InAppendSection, InRunSection
<1>1. ASSUME NEW t \in Tasks, AppendLock(t) PROVE PoolInv'
  BY <1>1 DEF AppendLock, lock
<1>2. CASE AppendRefuse
  BY <1>2 DEF AppendRefuse, unlock
<1>3. CASE AppendPush
  BY <1>3 DEF AppendPush
<1>4. CASE AppendUnlock
  BY <1>4 DEF AppendUnlock, unlock
<1>5. CASE AppendPost
  BY <1>5 DEF AppendPost, semPost
<1>6. CASE Destroy
  BY <1>6 DEF Destroy
<1>7. ASSUME NEW w \in Workers, RunLoop(w) PROVE PoolInv'
  BY <1>7 DEF RunLoop, Goto
<1>8. ASSUME NEW w \in Workers, RunWait(w) PROVE PoolInv'
  BY <1>8 DEF RunWait, Goto, semTake
<1>9. ASSUME NEW w \in Workers, RunInterrupted(w) PROVE PoolInv'
  BY <1>9 DEF RunInterrupted, Goto
<1>10. ASSUME NEW w \in Workers, RunLock(w) PROVE PoolInv'
  BY <1>10 DEF RunLock, Goto, lock
<1>11. ASSUME NEW w \in Workers, RunEmpty(w) PROVE PoolInv'
  BY <1>11 DEF RunEmpty, Goto, unlock
<1>12. ASSUME NEW w \in Workers, RunPop(w) PROVE PoolInv'
  <2>1. Head(m_workqueue) \in Tasks /\ Tail(m_workqueue) \in Seq(Tasks)
    BY <1>12 DEF RunPop
  <2> QED
    BY <1>12, <2>1 DEF RunPop, Goto
<1>13. ASSUME NEW w \in Workers, RunUnlock(w) PROVE PoolInv'
  BY <1>13 DEF RunUnlock, Goto, unlock
<1>14. ASSUME NEW w \in Workers, RunProcess(w) PROVE PoolInv'
  BY <1>14 DEF RunProcess, Goto
<1>15. CASE UNCHANGED vars
  BY <1>15 DEF vars
<1> QED
  BY <1>1, <1>2, <1>3, <1>4, <1>5, <1>6, <1>7, <1>8, <1>9, <1>10, <1>11, <1>12,
     <1>13, <1>14, <1>15
  DEF Next, MainStep, WorkerStep, ProcessOver

LEMMA PoolInvAlways == Spec => []PoolInv
  BY PoolInvInit, PoolInvStep, PTL DEF Spec

\* The members of the pool and the positions of the threads in append() and
\* run() keep their types.
THEOREM TypeCorrect == Spec => []TypeOK
<1>1. PoolInv => TypeOK
  BY DEF PoolInv
<1> QED
  BY <1>1, PoolInvAlways, PTL

\* append() and run() never touch m_workqueue at the same time.
THEOREM MutexCorrect == Spec => []MutualExclusion
<1>1. PoolInv => MutualExclusion
  BY PoolAssumption DEF PoolInv, Discipline, MutualExclusion
<1> QED
  BY <1>1, PoolInvAlways, PTL

\* append() lets the queue grow to one more than m_maxrequestnum and no further.
THEOREM QueueBounded == Spec => []QueueBound
<1>1. Init => QueueBound
  BY PoolAssumption DEF Init, QueueBound
<1>2. PoolInv /\ QueueBound /\ [Next]_vars => QueueBound'
  <2> SUFFICES ASSUME PoolInv, QueueBound, [Next]_vars PROVE QueueBound'
    OBVIOUS
  <2> USE PoolAssumption DEF PoolInv, TypeOK, QueueBound
  <2>1. CASE AppendPush
    BY <2>1 DEF AppendPush, QueueFull, Discipline
  <2>2. ASSUME NEW w \in Workers, RunPop(w) PROVE QueueBound'
    BY <2>2 DEF RunPop
  <2>3. CASE UNCHANGED m_workqueue
    BY <2>3
  <2> QED
    BY <2>1, <2>2, <2>3
    DEF Next, MainStep, WorkerStep, ProcessOver, AppendLock, AppendRefuse, AppendUnlock,
        AppendPost, Destroy, RunLoop, RunWait, RunInterrupted, RunLock, RunEmpty,
        RunUnlock, RunProcess, vars
<1> QED
  BY <1>1, <1>2, PoolInvAlways, PTL DEF Spec

-----------------------------------------------------------------------------
(* No lost wakeup: the accounting of semaphore units against requests.     *)

LEMMA InFlightFinite ==
  IsFiniteSet(InFlight) /\ Cardinality(InFlight) \in Nat
  BY PoolAssumption, FS_Subset, FS_CardinalityType DEF InFlight

\* A worker that passes sem::wait() is one more in flight.
LEMMA InFlightJoin ==
  ASSUME NEW w \in Workers, PoolInv, Goto(w, "wait", "lock")
  PROVE  Cardinality(InFlight)' = Cardinality(InFlight) + 1
<1>1. InFlight' = InFlight \cup {w} /\ w \notin InFlight
  BY DEF InFlight, Goto, PoolInv, TypeOK
<1> QED
  BY <1>1, InFlightFinite, FS_AddElement

\* A worker that leaves the critical section of run() is one less.
LEMMA InFlightLeave ==
  ASSUME NEW w \in Workers, PoolInv,
         Goto(w, "locked", "loop") \/ Goto(w, "locked", "popped")
  PROVE  Cardinality(InFlight)' = Cardinality(InFlight) - 1
<1>1. InFlight' = InFlight \ {w} /\ w \in InFlight
  BY DEF InFlight, Goto, PoolInv, TypeOK
<1> QED
  BY <1>1, InFlightFinite, FS_RemoveElement

LEMMA WakeupStep == PoolInv /\ NoLostWakeup /\ [Next]_vars => NoLostWakeup'
<1> SUFFICES ASSUME PoolInv, NoLostWakeup, [Next]_vars PROVE NoLostWakeup'
  OBVIOUS
<1> USE PoolAssumption, InFlightFinite DEF PoolInv, TypeOK, NoLostWakeup, PostDue
<1>1. CASE AppendPush
  <2>1. InFlight' = InFlight
    BY <1>1 DEF AppendPush, InFlight
  <2>2. Len(m_workqueue') = Len(m_workqueue) + 1
    BY <1>1 DEF AppendPush, Discipline
  <2> QED
    BY <1>1, <2>1, <2>2 DEF AppendPush
<1>2. ASSUME NEW w \in Workers, RunWait(w) PROVE NoLostWakeup'
  BY <1>2, InFlightJoin DEF RunWait, semTake
<1>3. ASSUME NEW w \in Workers, RunInterrupted(w) PROVE NoLostWakeup'
  BY <1>3, InFlightJoin DEF RunInterrupted
<1>4. ASSUME NEW w \in Workers, RunEmpty(w) PROVE NoLostWakeup'
  <2>1. Cardinality(InFlight)' \in Nat
    <3>1. InFlight' \subseteq Workers
      BY DEF InFlight
    <3> QED
      BY <3>1, FS_Subset, FS_CardinalityType
  <2> QED
    BY <1>4, <2>1 DEF RunEmpty
<1>5. ASSUME NEW w \in Workers, RunPop(w) PROVE NoLostWakeup'
  BY <1>5, InFlightLeave DEF RunPop
<1>6. CASE AppendPost
  <2>1. InFlight' = InFlight
    BY <1>6 DEF AppendPost, InFlight
  <2> QED
    BY <1>6, <2>1 DEF AppendPost, semPost
<1>7. ASSUME UNCHANGED <<m_workqueue, m_queuestat>>, PostDue' = PostDue, InFlight' = InFlight
      PROVE  NoLostWakeup'
  BY <1>7
<1>8. ASSUME NEW t \in Tasks, AppendLock(t) PROVE NoLostWakeup'
  BY <1>7, <1>8 DEF AppendLock, InFlight
<1>9. CASE AppendRefuse
  BY <1>7, <1>9 DEF AppendRefuse, InFlight
<1>10. CASE AppendUnlock
  BY <1>7, <1>10 DEF AppendUnlock, InFlight
<1>11. CASE Destroy
  BY <1>7, <1>11 DEF Destroy, InFlight
<1>12. ASSUME NEW w \in Workers, RunLoop(w) \/ RunLock(w) \/ RunUnlock(w) \/ RunProcess(w)
       PROVE  NoLostWakeup'
  <2>1. InFlight' = InFlight
    BY <1>12 DEF RunLoop, RunLock, RunUnlock, RunProcess, Goto, InFlight
  <2> QED
    BY <1>7, <1>12, <2>1 DEF RunLoop, RunLock, RunUnlock, RunProcess
<1>13. CASE UNCHANGED vars
  BY <1>7, <1>13 DEF vars, InFlight
<1> QED
  BY <1>1, <1>2, <1>3, <1>4, <1>5, <1>6, <1>8, <1>9, <1>10, <1>11, <1>12, <1>13
  DEF Next, MainStep, WorkerStep, ProcessOver

\* However append() and run() interleave and however often sem_wait() is
\* interrupted, every queued request is covered by a unit of the semaphore,
\* by a post() that is due or by a worker on its way to the queue.
THEOREM WakeupNeverLost == Spec => []NoLostWakeup
<1>1. Init => NoLostWakeup
  <2> SUFFICES ASSUME Init PROVE NoLostWakeup
    OBVIOUS
  <2>1. Len(m_workqueue) = 0 /\ m_queuestat = 0 /\ PostDue = 0
    BY DEF Init, PostDue
  <2> QED
    BY <2>1, InFlightFinite DEF NoLostWakeup
<1> QED
  BY <1>1, WakeupStep, PoolInvAlways, PTL DEF Spec

-----------------------------------------------------------------------------
(* ThreadPool implements TaskQueue.                                        *)

\* With queue as m_workqueue and running as the workers' local pointers,
\* append() and run() do to the queue only what the abstract FIFO allows.
THEOREM PoolImplementsTaskQueue == Spec => ImplementsTaskQueue
<1>1. Init => TQ!TQInit
  BY DEF Init, TQ!TQInit
<1>2. PoolInv /\ [Next]_vars => [TQ!TQNext]_(TQ!tqVars)
  <2> SUFFICES ASSUME PoolInv, [Next]_vars PROVE [TQ!TQNext]_(TQ!tqVars)
    OBVIOUS
  <2> USE PoolAssumption DEF PoolInv, TypeOK, Discipline
  <2>1. CASE AppendPush
    <3>1. TQ!Accept(request) /\ request \in Tasks
      BY <2>1 DEF AppendPush, QueueFull, TQ!Accept, TQ!HasRoom
    <3> QED
      BY <3>1 DEF TQ!TQNext
  <2>2. ASSUME NEW w \in Workers, RunPop(w) PROVE TQ!TQNext
    <3>1. TQ!Take(w)
      BY <2>2 DEF RunPop, Goto, TQ!Take
    <3> QED
      BY <3>1 DEF TQ!TQNext
  <2>3. ASSUME NEW w \in Workers, RunProcess(w) PROVE TQ!TQNext
    <3>1. TQ!Finish(w)
      BY <2>3 DEF RunProcess, Goto, TQ!Finish
    <3> QED
      BY <3>1 DEF TQ!TQNext
  <2>4. CASE UNCHANGED <<m_workqueue, task>>
    BY <2>4 DEF TQ!tqVars
  <2> QED
    BY <2>1, <2>2, <2>3, <2>4
    DEF Next, MainStep, WorkerStep, ProcessOver, AppendLock, AppendRefuse, AppendUnlock,
        AppendPost, Destroy, RunLoop, RunWait, RunInterrupted, RunLock, RunEmpty,
        RunUnlock, vars
<1> QED
  BY <1>1, <1>2, PoolInvAlways, PTL DEF Spec, ImplementsTaskQueue, TQ!TQSafety
=============================================================================
