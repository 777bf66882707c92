------------------------------ MODULE Shutdown ------------------------------
(***************************************************************************)
(* The life of the process of 3. AsyncServerIOservicepool and 4. Coroutine-*)
(* AsyncServer, from main() to the destructors: LogicSystem composed with  *)
(* the I/O service pool.  The threads that post to the logic thread are    *)
(* those that run the pool's io_contexts; the signal handler, on the main  *)
(* thread, stops them with AsioIOServicePool::Stop(); when main() returns, *)
(* ~LogicSystem() runs.  LogicSystem assumes that nobody posts any more by *)
(* then: here nothing but Stop() sees to it.                               *)
(*                                                                         *)
(* Of a session only its outstanding read matters, which keeps run() of    *)
(* its io_context from returning.                                          *)
(***************************************************************************)
EXTENDS LogicSystem

VARIABLES
  stops,     \* Stop() also stops the io_contexts: 4, not 3
  mainPc,    \* "start", "run", in the signal handler "reset", "stop", "join",
             \* then "return", or "abort"
  works,     \* io_contexts with a work guard, each named by its thread
  stopped,   \* io_contexts that have been stopped
  threads,   \* threads of the pool that are still in run()
  served     \* io_contexts with a session

poolVars == <<works, stopped, threads>>
procVars == <<stops, mainPc, poolVars, served>>
allVars == <<vars, procVars>>

ShutdownInit ==
  /\ Init
  /\ stops \in BOOLEAN
  /\ mainPc = "start"
  /\ works = Posters /\ stopped = {} /\ threads = Posters /\ served = {}

-----------------------------------------------------------------------------
(* Sessions on the pool's threads                                          *)

\* The main thread accepts a connection, as long as it runs its io_context.
Connect(p) ==
  /\ mainPc = "run"
  /\ served' = served \cup {p}
  /\ UNCHANGED <<vars, stops, mainPc, poolVars>>

\* A thread of the pool may start a handler.
Runs(p) == p \in threads /\ p \notin stopped /\ postPc[p] = "idle"

\* The last client of an io_context leaves; the read handler ends the session.
Disconnect(p) ==
  /\ p \in served /\ Runs(p)
  /\ served' = served \ {p}
  /\ UNCHANGED <<vars, stops, mainPc, poolVars>>

\* A read handler has a complete message and calls PostMsgToQue().
HandlerPosts(p, m) ==
  /\ p \in served /\ Runs(p)
  /\ ~Queued(m) /\ \A q \in Posters : msg[q] # m
  /\ lock(p)
  /\ postPc' = [postPc EXCEPT ![p] = "locked"]
  /\ msg' = [msg EXCEPT ![p] = m]
  /\ UNCHANGED <<_msg_que, _b_stop, notified, dealPc, node, dtorPc, posted, handled, procVars>>

\* run() returns: the io_context is stopped, or has neither guard nor work.
RunReturns(p) ==
  /\ p \in threads /\ postPc[p] = "idle"
  /\ p \in stopped \/ p \notin works \cup served
  /\ threads' = threads \ {p}
  /\ UNCHANGED <<vars, stops, mainPc, works, stopped, served>>

-----------------------------------------------------------------------------
(* main() and the signal handler                                           *)

\* The port is free: Server is there and io_context runs.
Listen ==
  /\ mainPc = "start" /\ mainPc' = "run"
  /\ UNCHANGED <<vars, stops, poolVars, served>>

\* Server's constructor throws, main() catches and returns; the pool's threads
\* have not been joined, and their destructors abort the process.
ListenFails ==
  /\ mainPc = "start" /\ mainPc' = "abort"
  /\ UNCHANGED <<vars, stops, poolVars, served>>

\* SIGINT or SIGTERM: the handler stops main()'s io_context.
Signal ==
  /\ mainPc = "run" /\ mainPc' = "reset"
  /\ UNCHANGED <<vars, stops, poolVars, served>>

\* Mutant: the work guards are kept.
guardsLeft_All == works

guardsLeft == {}

\* Stop() resets the work guards ...
StopResets ==
  /\ mainPc = "reset" /\ mainPc' = IF stops THEN "stop" ELSE "join"
  /\ works' = guardsLeft
  /\ UNCHANGED <<vars, stops, stopped, threads, served>>

\* ... in 4 it stops the io_contexts ...
StopStops ==
  /\ mainPc = "stop" /\ mainPc' = "join"
  /\ stopped' = Posters
  /\ UNCHANGED <<vars, stops, works, threads, served>>

\* Mutant: the threads are detached.
joinable_Not == TRUE

joinable == threads = {}

\* ... and joins the threads.  The handler and run() return, and main() does.
StopJoins ==
  /\ mainPc = "join" /\ mainPc' = "return"
  /\ joinable
  /\ UNCHANGED <<vars, stops, poolVars, served>>

\* ~LogicSystem(), after main(): DtorSet of LogicSystem without its assumption.
ExitSets ==
  /\ mainPc = "return" /\ dtorPc = "alive"
  /\ _b_stop' = TRUE
  /\ dtorPc' = "set"
  /\ UNCHANGED <<_msg_que, _mutex, notified, postPc, msg, dealPc, node, posted, handled, procVars>>

-----------------------------------------------------------------------------
MainStep == StopResets \/ StopStops \/ StopJoins \/ ExitSets

PoolStep(p) == RunReturns(p) \/ ((PostPush(p) \/ PostUnlock(p)) /\ UNCHANGED procVars)

LogicStep == WorkerStep /\ UNCHANGED procVars

DtorEnds == (DtorNotify \/ DtorJoin) /\ UNCHANGED procVars

ShutdownNext ==
  \/ Listen \/ ListenFails \/ Signal \/ MainStep
  \/ \E p \in Posters :
       Connect(p) \/ Disconnect(p) \/ PoolStep(p) \/ \E m \in Messages : HandlerPosts(p, m)
  \/ LogicStep
  \/ DealSpurious /\ UNCHANGED procVars
  \/ DtorEnds

ShutdownSafety == ShutdownInit /\ [][ShutdownNext]_allVars

\* The threads run, as in LogicSystem.  No signal has to come, and no client
\* has to leave.
ShutdownSpec ==
  /\ ShutdownSafety
  /\ WF_allVars(MainStep) /\ WF_allVars(DtorEnds) /\ WF_allVars(LogicStep)
  /\ SF_allVars(DealLock /\ UNCHANGED procVars) /\ SF_allVars(DealRelock /\ UNCHANGED procVars)
  /\ SF_allVars(DrainRelock /\ UNCHANGED procVars)
  /\ \A p \in Posters : WF_allVars(PoolStep(p))

-----------------------------------------------------------------------------
(* Properties, besides those of LogicSystem                                *)

\* What LogicSystem assumes of the rest of the process holds: Stop() has joined
\* every thread that posts before ~LogicSystem() runs, so that the proofs about
\* LogicSystem apply to the servers.
ImplementsLogicSystem == Spec

\* The worker sleeps through the destructor's notification (StopEndsWorker).
NotificationLost == dtorPc = "join" /\ dealPc = "asleep" /\ ~notified

\* A signal ends the process, with every thread joined: in 4 whatever the
\* clients do, in 3 once the last client has left, for the read of a session
\* keeps join() waiting; unless the worker misses the destructor's notification.
ShutdownEnds ==
  (mainPc = "join" /\ (stops \/ served = {})) ~> (dtorPc = "gone" \/ NotificationLost)
=============================================================================
