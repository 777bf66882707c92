---------------------------- MODULE LogicSystem ----------------------------
(***************************************************************************)
(* The logic thread of the asynchronous servers (3. AsyncServerIOservice-  *)
(* pool and 4. CoroutineAsyncServer, logicsystem.cpp is the same in both): *)
(* the threads of the I/O pool post messages with PostMsgToQue(), one      *)
(* worker thread executes DealMsg() and the destructor of the singleton    *)
(* stops it when main() has returned.                                      *)
(***************************************************************************)
EXTENDS Naturals, Sequences

CONSTANTS
  Posters,       \* threads of the I/O service pool
  Worker,        \* _worker_thread
  Messages,      \* LogicNodes, each posted at most once
  NoMsg, NoOne

ASSUME LogicAssumption ==
  /\ Worker \notin Posters
  /\ NoOne \notin Posters \cup {Worker}
  /\ NoMsg \notin Messages

VARIABLES
  _msg_que,
  _mutex,        \* the thread that holds it, or NoOne
  _b_stop,
  notified,      \* the waiting worker has been chosen by notify_one()
  postPc,        \* where each poster is in PostMsgToQue()
  msg,           \* the argument of each poster's call
  dealPc,        \* where the worker is in DealMsg()
  node,          \* msg_node, the message whose callback runs
  dtorPc,        \* where the destructor is: "alive", "set", "join", "gone"
  posted,        \* history: messages in the order they were pushed
  handled        \* history: messages whose callback has returned

vars == <<_msg_que, _mutex, _b_stop, notified, postPc, msg, dealPc, node, dtorPc,
          posted, handled>>

DealPcs == {"lock", "check", "block", "asleep", "awake", "branch", "take", "drain",
            "callback", "drainCallback", "relock", "exit"}

Init ==
  /\ _msg_que = << >> /\ _mutex = NoOne
  /\ _b_stop = FALSE /\ notified = FALSE
  /\ postPc = [p \in Posters |-> "idle"]
  /\ msg = [p \in Posters |-> NoMsg]
  /\ dealPc = "lock" /\ node = NoMsg
  /\ dtorPc = "alive"
  /\ posted = << >> /\ handled = << >>

-----------------------------------------------------------------------------
(* std::mutex and std::condition_variable                                  *)

lock(t) == _mutex = NoOne /\ _mutex' = t
unlock(t) == _mutex = t /\ _mutex' = NoOne

\* notify_one() is forgotten unless the worker is already asleep.
notify_one == notified' = (notified \/ dealPc = "asleep")

-----------------------------------------------------------------------------
(* PostMsgToQue(), called from HandleReadBody() on a pool thread           *)

Queued(m) == \E i \in DOMAIN posted : posted[i] = m

PostLock(p, m) ==
  /\ postPc[p] = "idle" /\ dtorPc = "alive"
  /\ ~Queued(m) /\ \A q \in Posters : msg[q] # m
  /\ lock(p)
  /\ postPc' = [postPc EXCEPT ![p] = "locked"]
  /\ msg' = [msg EXCEPT ![p] = m]
  /\ UNCHANGED <<_msg_que, _b_stop, notified, dealPc, node, dtorPc, posted, handled>>

\* Mutant: the notification when the size passes 1, not when it reaches it.
becameReady_Late == Len(_msg_que') = 2

\* The test for "from 0 to 1".
becameReady == Len(_msg_que') = 1

\* Mutant: the pointer has been moved from before it is pushed.
pushed_Moved(p) == NoMsg

pushed(p) == msg[p]

PostPush(p) ==
  /\ postPc[p] = "locked"
  /\ _msg_que' = Append(_msg_que, pushed(p))
  /\ posted' = Append(posted, pushed(p))
  /\ IF becameReady THEN notify_one ELSE UNCHANGED notified
  /\ postPc' = [postPc EXCEPT ![p] = "pushed"]
  /\ UNCHANGED <<_mutex, _b_stop, msg, dealPc, node, dtorPc, handled>>

PostUnlock(p) ==
  /\ postPc[p] = "pushed"
  /\ unlock(p)
  /\ postPc' = [postPc EXCEPT ![p] = "idle"]
  /\ msg' = [msg EXCEPT ![p] = NoMsg]
  /\ UNCHANGED <<_msg_que, _b_stop, notified, dealPc, node, dtorPc, posted, handled>>

-----------------------------------------------------------------------------
(* DealMsg(), executed by the worker thread                                *)

Goto(from, to) == dealPc = from /\ dealPc' = to
posterVars == <<postPc, msg, dtorPc, posted>>

DealLock ==
  /\ Goto("lock", "check")
  /\ lock(Worker)
  /\ UNCHANGED <<_msg_que, _b_stop, notified, node, posterVars, handled>>

\* The loop condition around wait().
mustWait == _msg_que = << >> /\ ~_b_stop

DealCheck ==
  /\ Goto("check", IF mustWait THEN "block" ELSE "branch")
  /\ UNCHANGED <<_msg_que, _mutex, _b_stop, notified, node, posterVars, handled>>

\* wait() gives up the mutex and falls asleep in one step ...
DealBlock ==
  /\ Goto("block", "asleep")
  /\ unlock(Worker)
  /\ notified' = FALSE
  /\ UNCHANGED <<_msg_que, _b_stop, node, posterVars, handled>>

\* ... wakes up when notified ...
DealWake ==
  /\ Goto("asleep", "awake")
  /\ notified
  /\ UNCHANGED <<_msg_que, _mutex, _b_stop, notified, node, posterVars, handled>>

\* ... or spuriously, and takes the mutex again.
DealSpurious ==
  /\ Goto("asleep", "awake")
  /\ ~notified
  /\ UNCHANGED <<_msg_que, _mutex, _b_stop, notified, node, posterVars, handled>>

\* Mutant: "if" in place of "while" around wait().
DealRelock_NoRecheck ==
  /\ Goto("awake", "branch")
  /\ lock(Worker)
  /\ UNCHANGED <<_msg_que, _b_stop, notified, node, posterVars, handled>>

DealRelock ==
  /\ Goto("awake", "check")
  /\ lock(Worker)
  /\ UNCHANGED <<_msg_que, _b_stop, notified, node, posterVars, handled>>

\* Stopped: finish what is queued; otherwise take one message.
DealBranch ==
  /\ Goto("branch", IF _b_stop THEN "drain" ELSE "take")
  /\ UNCHANGED <<_msg_que, _mutex, _b_stop, notified, node, posterVars, handled>>

\* Mutant: pop() called twice.
rest_Twice == IF Len(_msg_que) > 1 THEN Tail(Tail(_msg_que)) ELSE << >>

rest == Tail(_msg_que)

\* front(), pop() and unlock().
TakeFront ==
  /\ _msg_que # << >>
  /\ node' = Head(_msg_que)
  /\ _msg_que' = rest
  /\ unlock(Worker)
  /\ UNCHANGED <<_b_stop, notified, posterVars, handled>>

DealTake == Goto("take", "callback") /\ TakeFront

DrainTake == Goto("drain", "drainCallback") /\ TakeFront

\* The callback, if there is one for the id, runs; what it throws is caught.
FinishCallback ==
  /\ handled' = Append(handled, node)
  /\ node' = NoMsg
  /\ UNCHANGED <<_msg_que, _mutex, _b_stop, notified, posterVars>>

DealCallback == Goto("callback", "lock") /\ FinishCallback

DrainCallback == Goto("drainCallback", "relock") /\ FinishCallback

DrainRelock ==
  /\ Goto("relock", "drain")
  /\ lock(Worker)
  /\ UNCHANGED <<_msg_que, _b_stop, notified, node, posterVars, handled>>

\* Mutant: a stopped worker leaves at once.
drained_Always == TRUE

drained == _msg_que = << >>

DrainEnd ==
  /\ Goto("drain", "exit")
  /\ drained
  /\ unlock(Worker)
  /\ UNCHANGED <<_msg_que, _b_stop, notified, node, posterVars, handled>>

-----------------------------------------------------------------------------
(* ~LogicSystem(), after the I/O pool's threads have been joined           *)

DtorSet ==
  /\ dtorPc = "alive"
  /\ \A p \in Posters : postPc[p] = "idle"
  /\ _b_stop' = TRUE
  /\ dtorPc' = "set"
  /\ UNCHANGED <<_msg_que, _mutex, notified, postPc, msg, dealPc, node, posted, handled>>

DtorNotify ==
  /\ dtorPc = "set"
  /\ notify_one
  /\ dtorPc' = "join"
  /\ UNCHANGED <<_msg_que, _mutex, _b_stop, postPc, msg, dealPc, node, posted, handled>>

DtorJoin ==
  /\ dtorPc = "join" /\ dealPc = "exit"
  /\ dtorPc' = "gone"
  /\ UNCHANGED <<_msg_que, _mutex, _b_stop, notified, postPc, msg, dealPc, node, posted, handled>>

-----------------------------------------------------------------------------
PosterStep(p) == (\E m \in Messages : PostLock(p, m)) \/ PostPush(p) \/ PostUnlock(p)

WorkerStep ==
  \/ DealLock \/ DealCheck \/ DealBlock \/ DealWake \/ DealRelock
  \/ DealBranch \/ DealTake \/ DealCallback
  \/ DrainTake \/ DrainCallback \/ DrainRelock \/ DrainEnd

DtorStep == DtorSet \/ DtorNotify \/ DtorJoin

Next == (\E p \in Posters : PosterStep(p)) \/ WorkerStep \/ DealSpurious \/ DtorStep

Spec == Init /\ [][Next]_vars

\* Threads keep running; a thread that tries to take the mutex again and again
\* gets it in the end.  Nobody has to post, main() need not return, and no
\* spurious wakeup is promised.
Fairness ==
  /\ WF_vars(WorkerStep)
  /\ SF_vars(DealLock) /\ SF_vars(DealRelock) /\ SF_vars(DrainRelock)
  /\ \A p \in Posters : WF_vars(PostPush(p)) /\ WF_vars(PostUnlock(p))
  /\ WF_vars(DtorNotify) /\ WF_vars(DtorJoin)

FairSpec == Spec /\ Fairness

-----------------------------------------------------------------------------
(* Properties                                                              *)

TypeOK ==
  /\ _msg_que \in Seq(Messages)
  /\ _mutex \in Posters \cup {Worker, NoOne}
  /\ _b_stop \in BOOLEAN /\ notified \in BOOLEAN
  /\ postPc \in [Posters -> {"idle", "locked", "pushed"}]
  /\ msg \in [Posters -> Messages \cup {NoMsg}]
  /\ dealPc \in DealPcs /\ node \in Messages \cup {NoMsg}
  /\ dtorPc \in {"alive", "set", "join", "gone"}
  /\ posted \in Seq(Messages) /\ handled \in Seq(Messages)

\* The worker never sleeps on a non-empty queue, although PostMsgToQue()
\* notifies only when the size becomes 1: whenever messages wait, the worker
\* is awake or its wakeup is on the way.
NeverAsleepWithWork == (dealPc = "asleep" /\ _msg_que # << >>) => notified

\* Messages of all threads are handled once each and in the order in which
\* PostMsgToQue() took the mutex.
InOrderExactlyOnce ==
  posted = handled \o (IF node = NoMsg THEN << >> ELSE <<node>>) \o _msg_que

\* front() is called on a non-empty queue only.
FrontDefined == dealPc = "take" => _msg_que # << >>

\* The worker thread ends only with an empty queue: what was posted before
\* the destructor ran has been handled (logicsystem.cpp:49).
ExitOnlyWhenDrained == dealPc = "exit" => handled = posted

\* Every posted message is handled, also when the server stops meanwhile.
PostedIsHandled ==
  \A m \in Messages : Queued(m) ~> \E i \in DOMAIN handled : handled[i] = m

\* logicsystem.cpp:49: in the stopped state DealMsg() leaves its loop, so that
\* the join() of the destructor returns.
StopEndsWorker == _b_stop ~> (dtorPc = "gone")
=============================================================================
