------------------------- MODULE LogicSystemProofs -------------------------
(***************************************************************************)
(* Proofs about LogicSystem for any number of posting threads and any set  *)
(* of messages, and that the process of Shutdown, in which main(), signal  *)
(* handler and pool decide when ~LogicSystem() runs, implements it.        *)
(***************************************************************************)
EXTENDS Shutdown, SequenceTheorems, TLAPS

\* Positions of DealMsg() at which the worker holds the mutex.
HoldsMutex == {"check", "block", "branch", "take", "drain"}

\* The mutex is held exactly where the code holds it, messages are where the
\* positions say, and the destructor follows the last post.
Discipline ==
  /\ _mutex = Worker <=> dealPc \in HoldsMutex
  /\ \A p \in Posters :
       /\ _mutex = p <=> postPc[p] # "idle"
       /\ postPc[p] # "idle" => msg[p] \in Messages /\ dtorPc = "alive"
  /\ node \in Messages <=> dealPc \in {"callback", "drainCallback"}
  /\ _b_stop <=> dtorPc # "alive"

\* What the worker has learnt about the queue under the mutex still holds.
QueueKnown ==
  /\ dealPc = "block" => _msg_que = << >>
  /\ dealPc = "branch" => (_msg_que # << >> \/ _b_stop)
  /\ dealPc = "take" => _msg_que # << >>
  /\ dealPc \in {"drain", "drainCallback", "relock", "exit"} => _b_stop
  /\ dealPc = "exit" => _msg_que = << >>
  /\ dealPc = "asleep" => (_msg_que = << >> \/ notified)

LogicInv == TypeOK /\ Discipline /\ QueueKnown

LEMMA LogicInvInit == Init => LogicInv
<1> SUFFICES ASSUME Init PROVE LogicInv
  OBVIOUS
<1>1. _b_stop \in BOOLEAN /\ notified \in BOOLEAN /\ ~_b_stop
  BY Zenon DEF Init
<1>2. _msg_que \in Seq(Messages) /\ posted \in Seq(Messages) /\ handled \in Seq(Messages)
  BY DEF Init
<1>3. dealPc = "lock" /\ dtorPc = "alive" /\ _mutex = NoOne /\ node = NoMsg
  BY DEF Init
<1>4. \A p \in Posters : postPc[p] = "idle"
  BY DEF Init
<1>5. TypeOK
  <2>1. postPc \in [Posters -> {"idle", "locked", "pushed"}]
    BY DEF Init
  <2>2. msg \in [Posters -> Messages \cup {NoMsg}]
    BY DEF Init
  <2> QED
    BY <1>1, <1>2, <1>3, <2>1, <2>2 DEF TypeOK, DealPcs
<1>6. Discipline
  BY <1>1, <1>3, <1>4, LogicAssumption DEF Discipline, HoldsMutex
<1>7. QueueKnown
  BY <1>3 DEF QueueKnown
<1> QED
  BY <1>5, <1>6, <1>7 DEF LogicInv

LEMMA LogicInvStep == LogicInv /\ [Next]_vars => LogicInv'
<1> SUFFICES ASSUME LogicInv, [Next]_vars PROVE LogicInv'
  OBVIOUS
<1> USE LogicAssumption
    DEF LogicInv, TypeOK, Discipline, QueueKnown, HoldsMutex, DealPcs, posterVars
<1>1. ASSUME NEW p \in Posters, NEW m \in Messages, PostLock(p, m) PROVE LogicInv'
  BY <1>1 DEF PostLock, lock
<1>2. ASSUME NEW p \in Posters, PostPush(p) PROVE LogicInv'
  <2>0. msg[p] \in Messages
    BY <1>2 DEF PostPush
  <2>1. _msg_que' \in Seq(Messages) /\ posted' \in Seq(Messages)
    BY <1>2, <2>0 DEF PostPush, pushed
  <2>2. notified' \in BOOLEAN /\ (notified => notified')
    <3>1. CASE becameReady
      BY <1>2, <3>1, Zenon DEF PostPush, notify_one
    <3>2. CASE ~becameReady
      BY <1>2, <3>2, Zenon DEF PostPush
    <3> QED
      BY <3>1, <3>2
  <2>3. dealPc = "asleep" => notified'
    <3>1. CASE _msg_que = << >>
      <4>1. becameReady
        BY <1>2, <3>1 DEF PostPush, pushed, becameReady
      <4> QED
        BY <1>2, <4>1, Zenon DEF PostPush, notify_one
    <3>2. CASE _msg_que # << >>
      BY <2>2, <3>2
    <3> QED
      BY <3>1, <3>2
  <2>4. _mutex = p /\ dealPc \notin HoldsMutex /\ ~_b_stop
    BY <1>2 DEF PostPush
  <2> QED
    BY <1>2, <2>1, <2>2, <2>3, <2>4 DEF PostPush
<1>3. ASSUME NEW p \in Posters, PostUnlock(p) PROVE LogicInv'
  BY <1>3 DEF PostUnlock, unlock
<1>4. CASE DealLock
  BY <1>4 DEF DealLock, Goto, lock
<1>5. CASE DealCheck
  BY <1>5 DEF DealCheck, Goto, mustWait
<1>6. CASE DealBlock
  BY <1>6 DEF DealBlock, Goto, unlock
<1>7. CASE DealWake
  BY <1>7 DEF DealWake, Goto
<1>8. CASE DealSpurious
  BY <1>8 DEF DealSpurious, Goto
<1>9. CASE DealRelock
  BY <1>9 DEF DealRelock, Goto, lock
<1>10. CASE DealBranch
  BY <1>10 DEF DealBranch, Goto
<1>11. CASE DealTake
  <2>1. Head(_msg_que) \in Messages /\ Tail(_msg_que) \in Seq(Messages)
    BY <1>11 DEF DealTake, TakeFront
  <2> QED
    BY <1>11, <2>1 DEF DealTake, TakeFront, rest, Goto, unlock
<1>12. CASE DealCallback
  <2>1. node \in Messages
    BY <1>12 DEF DealCallback, Goto
  <2>2. Append(handled, node) \in Seq(Messages)
    BY <2>1
  <2> QED
    BY <1>12, <2>2 DEF DealCallback, FinishCallback, Goto
<1>13. CASE DrainTake
  <2>1. Head(_msg_que) \in Messages /\ Tail(_msg_que) \in Seq(Messages)
    BY <1>13 DEF DrainTake, TakeFront
  <2> QED
    BY <1>13, <2>1 DEF DrainTake, TakeFront, rest, Goto, unlock
<1>14. CASE DrainCallback
  <2>1. node \in Messages
    BY <1>14 DEF DrainCallback, Goto
  <2>2. Append(handled, node) \in Seq(Messages)
    BY <2>1
  <2> QED
    BY <1>14, <2>2 DEF DrainCallback, FinishCallback, Goto
<1>15. CASE DrainRelock
  BY <1>15 DEF DrainRelock, Goto, lock
<1>16. CASE DrainEnd
  BY <1>16 DEF DrainEnd, drained, Goto, unlock
<1>17. CASE DtorSet
  BY <1>17 DEF DtorSet
<1>18. CASE DtorNotify
  BY <1>18 DEF DtorNotify, notify_one
<1>19. CASE DtorJoin
  BY <1>19 DEF DtorJoin
<1>20. CASE UNCHANGED vars
  BY <1>20 DEF vars
<1> QED
  BY <1>1, <1>2, <1>3, <1>4, <1>5, <1>6, <1>7, <1>8, <1>9, <1>10, <1>11, <1>12, <1>13,
     <1>14, <1>15, <1>16, <1>17, <1>18, <1>19, <1>20
  DEF Next, PosterStep, WorkerStep, DtorStep

LEMMA LogicInvAlways == Spec => []LogicInv
  BY LogicInvInit, LogicInvStep, PTL DEF Spec

\* The members of LogicSystem and the positions of its threads keep their types.
THEOREM LogicTypeCorrect == Spec => []TypeOK
<1>1. LogicInv => TypeOK
  BY DEF LogicInv
<1> QED
  BY <1>1, LogicInvAlways, PTL

\* Notifying only when the size becomes 1 is enough: the worker never sleeps
\* while messages wait, unless its wakeup is on the way.
THEOREM WorkerSeesWork == Spec => []NeverAsleepWithWork
<1>1. LogicInv => NeverAsleepWithWork
  BY DEF LogicInv, QueueKnown, NeverAsleepWithWork
<1> QED
  BY <1>1, LogicInvAlways, PTL

\* DealMsg() calls front() on a non-empty queue only.
THEOREM FrontIsDefined == Spec => []FrontDefined
<1>1. LogicInv => FrontDefined
  BY DEF LogicInv, QueueKnown, FrontDefined
<1> QED
  BY <1>1, LogicInvAlways, PTL

-----------------------------------------------------------------------------
(* The order of messages.                                                  *)

\* Append() written with concatenation, so that concatenation's laws apply.
LEMMA AppendAsConcat ==
  ASSUME NEW S, NEW s \in Seq(S), NEW x \in S
  PROVE  Append(s, x) = s \o <<x>>
<1>1. <<x>> \in Seq(S) /\ Append(s, x) \in Seq(S)
  OBVIOUS
<1>2. s \o <<x>> \in Seq(S) /\ Len(s \o <<x>>) = Len(s) + 1
  BY <1>1, ConcatProperties
<1>3. \A i \in 1..Len(Append(s, x)) : Append(s, x)[i] = (s \o <<x>>)[i]
  BY <1>1, ConcatProperties
<1> QED
  BY <1>1, <1>2, <1>3, SeqEqual

\* front() and pop() split a queue.
LEMMA HeadThenTail ==
  ASSUME NEW S, NEW s \in Seq(S), s # << >>
  PROVE  s = <<Head(s)>> \o Tail(s)
<1>1. Head(s) \in S /\ Tail(s) \in Seq(S) /\ Len(Tail(s)) = Len(s) - 1
  BY HeadTailProperties
<1>2. <<Head(s)>> \in Seq(S) /\ Len(<<Head(s)>>) = 1
  BY <1>1
<1>3. <<Head(s)>> \o Tail(s) \in Seq(S) /\ Len(<<Head(s)>> \o Tail(s)) = Len(s)
  BY <1>1, <1>2, ConcatProperties, LenProperties
<1>4. \A i \in 1..Len(s) : s[i] = (<<Head(s)>> \o Tail(s))[i]
  BY <1>1, <1>2, ConcatProperties, HeadTailProperties
<1> QED
  BY <1>3, <1>4, SeqEqual

\* The message in the worker's hands, as a sequence.
InHand == IF node = NoMsg THEN << >> ELSE <<node>>

\* Messages of all threads are handled once each, in the order of the posts.
THEOREM OrderKept == Spec => []InOrderExactlyOnce
<1>1. Init => InOrderExactlyOnce
  BY DEF Init, InOrderExactlyOnce
<1>2. LogicInv /\ InOrderExactlyOnce /\ [Next]_vars => InOrderExactlyOnce'
  <2> SUFFICES ASSUME LogicInv, InOrderExactlyOnce, [Next]_vars PROVE InOrderExactlyOnce'
    OBVIOUS
  <2>1. /\ handled \in Seq(Messages) /\ _msg_que \in Seq(Messages)
        /\ node \in Messages \cup {NoMsg}
    BY DEF LogicInv, TypeOK
  <2>2. InHand \in Seq(Messages) /\ posted = handled \o InHand \o _msg_que
    BY <2>1 DEF InHand, InOrderExactlyOnce
  <2>3. ASSUME NEW p \in Posters, PostPush(p) PROVE InOrderExactlyOnce'
    <3>1. msg[p] \in Messages
      BY <2>3 DEF PostPush, LogicInv, Discipline
    <3>2. handled \o InHand \in Seq(Messages)
      BY <2>1, <2>2, ConcatProperties
    <3>3. posted' = (handled \o InHand \o _msg_que) \o <<msg[p]>>
      BY <2>1, <2>2, <2>3, <3>1, <3>2, ConcatProperties, AppendAsConcat DEF PostPush, pushed
    <3>4. _msg_que' = _msg_que \o <<msg[p]>>
      BY <2>1, <2>3, <3>1, AppendAsConcat DEF PostPush, pushed
    <3>5. posted' = (handled \o InHand) \o _msg_que'
      BY <2>1, <3>1, <3>2, <3>3, <3>4, ConcatAssociative
    <3> QED
      BY <2>3, <3>5 DEF PostPush, InOrderExactlyOnce, InHand
  <2>4. ASSUME TakeFront, node = NoMsg PROVE InOrderExactlyOnce'
    <3>1. Head(_msg_que) \in Messages /\ Tail(_msg_que) \in Seq(Messages)
      BY <2>1, <2>4, HeadTailProperties DEF TakeFront
    <3>2. node' # NoMsg /\ node' = Head(_msg_que) /\ _msg_que' = Tail(_msg_que)
      BY <2>4, <3>1, LogicAssumption DEF TakeFront, rest
    <3>3. posted = handled \o _msg_que
      BY <2>1, <2>2, <2>4, ConcatEmptySeq DEF InHand
    <3>4. _msg_que = <<node'>> \o _msg_que'
      BY <2>1, <2>4, <3>2, HeadThenTail DEF TakeFront
    <3>5. posted = handled \o <<node'>> \o _msg_que'
      BY <2>1, <3>1, <3>2, <3>3, <3>4, ConcatAssociative
    <3> QED
      BY <2>4, <3>2, <3>5 DEF TakeFront, posterVars, InOrderExactlyOnce
  <2>5. ASSUME FinishCallback, node \in Messages PROVE InOrderExactlyOnce'
    <3>1. handled' = handled \o <<node>>
      BY <2>1, <2>5, AppendAsConcat DEF FinishCallback
    <3>2. InHand = <<node>> /\ node' = NoMsg
      BY <2>5, LogicAssumption DEF InHand, FinishCallback
    <3>3. handled' \in Seq(Messages)
      BY <2>1, <2>5, <3>1, ConcatProperties
    <3>4. handled' \o << >> = handled'
      BY <3>3, ConcatEmptySeq
    <3> QED
      BY <2>2, <2>5, <3>1, <3>2, <3>4 DEF FinishCallback, posterVars, InOrderExactlyOnce
  <2>6. CASE UNCHANGED <<posted, handled, node, _msg_que>>
    BY <2>6 DEF InOrderExactlyOnce
  <2>7. (DealTake \/ DrainTake) => TakeFront /\ node = NoMsg
    BY <2>1 DEF DealTake, DrainTake, Goto, LogicInv, Discipline
  <2>8. (DealCallback \/ DrainCallback) => FinishCallback /\ node \in Messages
    BY DEF DealCallback, DrainCallback, Goto, LogicInv, Discipline
  <2> QED
    BY <2>3, <2>4, <2>5, <2>6, <2>7, <2>8
    DEF Next, PosterStep, WorkerStep, DtorStep, PostLock, PostUnlock, DealLock, DealCheck,
        DealBlock, DealWake, DealSpurious, DealRelock, DealBranch, DrainRelock, DrainEnd,
        DtorSet, DtorNotify, DtorJoin, posterVars, vars
<1> QED
  BY <1>1, <1>2, LogicInvAlways, PTL DEF Spec

\* The worker thread ends with everything handled that was posted.
THEOREM ExitsDrained == Spec => []ExitOnlyWhenDrained
<1>1. LogicInv /\ InOrderExactlyOnce => ExitOnlyWhenDrained
  <2> SUFFICES ASSUME LogicInv, InOrderExactlyOnce, dealPc = "exit" PROVE handled = posted
    BY DEF ExitOnlyWhenDrained
  <2>1. _msg_que = << >> /\ node = NoMsg /\ handled \in Seq(Messages)
    BY DEF LogicInv, QueueKnown, Discipline, TypeOK
  <2> QED
    BY <2>1, ConcatEmptySeq DEF InOrderExactlyOnce
<1> QED
  BY <1>1, LogicInvAlways, OrderKept, PTL

-----------------------------------------------------------------------------
(* The process as a whole.                                                 *)

\* Only a thread that is still in run() posts, and main() returns, and with it
\* the destructors run, only when there is none left.
ExitInv ==
  /\ postPc \in [Posters -> {"idle", "locked", "pushed"}]
  /\ \A p \in Posters : postPc[p] # "idle" => p \in threads
  /\ mainPc = "return" => threads = {}
  /\ dtorPc # "alive" => mainPc = "return"

LEMMA ExitInvInit == ShutdownInit => ExitInv
BY DEF ShutdownInit, Init, ExitInv

\* Every step of the process is one of the logic thread's module, or none.
LEMMA ShutdownStep ==
  ASSUME ExitInv, [ShutdownNext]_allVars
  PROVE  [Next]_vars /\ ExitInv'
<1> USE DEF procVars, poolVars
<1>1. CASE \/ Listen \/ ListenFails \/ Signal \/ StopResets \/ StopStops \/ StopJoins
  <2>1. UNCHANGED <<vars, threads>> /\ mainPc # "return" /\ (mainPc' = "return" => threads = {})
    BY <1>1 DEF Listen, ListenFails, Signal, StopResets, StopStops, StopJoins, joinable
  <2> QED
    BY <2>1 DEF ExitInv, vars
<1>2. CASE ExitSets
  <2>1. threads = {} /\ \A p \in Posters : postPc[p] = "idle"
    BY <1>2 DEF ExitSets, ExitInv
  <2>2. DtorSet
    BY <1>2, <2>1 DEF ExitSets, DtorSet
  <2> QED
    BY <1>2, <2>2 DEF ExitSets, ExitInv, Next, DtorStep
<1>3. ASSUME NEW p \in Posters, Connect(p) \/ Disconnect(p) PROVE [Next]_vars /\ ExitInv'
  BY <1>3 DEF Connect, Disconnect, ExitInv, vars
<1>4. ASSUME NEW p \in Posters, RunReturns(p) PROVE [Next]_vars /\ ExitInv'
  BY <1>4 DEF RunReturns, ExitInv, vars
<1>5. ASSUME NEW p \in Posters, PostPush(p) \/ PostUnlock(p), UNCHANGED procVars
      PROVE  [Next]_vars /\ ExitInv'
  <2>1. postPc[p] # "idle"
    BY <1>5 DEF PostPush, PostUnlock
  <2>2. ExitInv'
    BY <1>5, <2>1 DEF PostPush, PostUnlock, ExitInv
  <2> QED
    BY <1>5, <2>2 DEF Next, PosterStep
<1>6. ASSUME NEW p \in Posters, NEW m \in Messages, HandlerPosts(p, m)
      PROVE  [Next]_vars /\ ExitInv'
  <2>1. p \in threads /\ postPc[p] = "idle"
    BY <1>6 DEF HandlerPosts, Runs
  <2>2. dtorPc = "alive"
    BY <2>1 DEF ExitInv
  <2>3. PostLock(p, m)
    BY <1>6, <2>1, <2>2 DEF HandlerPosts, PostLock
  <2>4. ExitInv'
    BY <1>6, <2>1 DEF HandlerPosts, ExitInv
  <2> QED
    BY <2>3, <2>4 DEF Next, PosterStep
<1>7. CASE (WorkerStep \/ DealSpurious) /\ UNCHANGED procVars
  <2>1. UNCHANGED <<postPc, dtorPc>>
    BY <1>7 DEF WorkerStep, DealLock, DealCheck, DealBlock, DealWake, DealSpurious, DealRelock,
                DealBranch, DealTake, DrainTake, TakeFront, DealCallback, DrainCallback,
                FinishCallback, DrainRelock, DrainEnd, posterVars
  <2> QED
    BY <1>7, <2>1 DEF ExitInv, Next
<1>8. CASE (DtorNotify \/ DtorJoin) /\ UNCHANGED procVars
  BY <1>8 DEF DtorNotify, DtorJoin, ExitInv, Next, DtorStep
<1>9. CASE UNCHANGED allVars
  BY <1>9 DEF allVars, vars, ExitInv
<1> QED
  BY <1>1, <1>2, <1>3, <1>4, <1>5, <1>6, <1>7, <1>8, <1>9
  DEF ShutdownNext, MainStep, PoolStep, LogicStep, DtorEnds

\* What LogicSystem takes for granted, that nobody posts once ~LogicSystem()
\* runs, is seen to by AsioIOServicePool::Stop(): the process refines it.
THEOREM ShutdownImplements == ShutdownSafety => ImplementsLogicSystem
<1>1. ShutdownInit => Init
  BY DEF ShutdownInit
<1> QED
  BY <1>1, ExitInvInit, ShutdownStep, PTL DEF ShutdownSafety, ImplementsLogicSystem, Spec

\* So messages are handled once each and in order in the whole process, from
\* the first accept to the last destructor,
THEOREM ProcessOrderKept == ShutdownSafety => []InOrderExactlyOnce
BY ShutdownImplements, OrderKept, PTL DEF ImplementsLogicSystem

\* and a process that ends with the worker joined has dropped none of them.
THEOREM ProcessExitsDrained == ShutdownSafety => []ExitOnlyWhenDrained
BY ShutdownImplements, ExitsDrained, PTL DEF ImplementsLogicSystem
=============================================================================
