------------------------------ MODULE Session ------------------------------
(***************************************************************************)
(* The connections of 3. AsyncServerIOservicepool: Server (main thread)    *)
(* accepts them, a Session reads frames on the thread of its io_context    *)
(* and posts them to the logic thread, whose callback calls Send(); the    *)
(* replies leave through _send_que with one async_write() at a time.  One  *)
(* action is one handler; the two statements of HandleAccept() between     *)
(* which the pool threads may run are two.  The logic thread appears as    *)
(* the FIFO that LogicSystem shows it to be.                               *)
(***************************************************************************)
EXTENDS Integers, Sequences, FiniteSets

CONSTANTS
  Sessions,      \* Session objects
  NoSession,
  NumServices,   \* _ioServices.size()
  MaxSendQue,    \* MAX_SENDQUE
  MaxFrames      \* bound: frames the clients send altogether

ASSUME SessionAssumption ==
  /\ NoSession \notin Sessions /\ Sessions # {}
  /\ NumServices \in Nat \ {0}
  /\ MaxSendQue \in Nat /\ MaxFrames \in Nat

\* What the server tells apart in a frame: the callback replies to it; no
\* callback is registered for its id, or the callback throws; its head holds
\* an id or a length out of range.
Kinds == {"hello", "silent", "badHead"}
Frames == [n : 1..MaxFrames, kind : Kinds]
NoFrame == [n |-> 0, kind |-> "silent"]

VARIABLES
  accepting,       \* the session of the outstanding async_accept()
  acceptPc,        \* HandleAccept(): "wait" for it, or "started" the session
  _nextIOService,  \* of the pool
  ioOf,            \* index of the io_context each session was made with
  _sessions,       \* keys of Server::_sessions
  open,            \* sessions whose _socket is open
  read,            \* the outstanding async_read() of each session
  _recv_msg_node,  \* frame whose body is read
  _send_que,       \* replies, by the number of the frame they answer
  writing,         \* buffers of the outstanding async_write()s, oldest first
  doomed,          \* <<session, "read" or "write">> started on a closed socket
  _msg_que,        \* LogicNodes at the logic thread
  inbox,           \* frames the client has sent and the session has not read
  frames,          \* number of frames sent so far
  gone,            \* sessions whose peer has closed or reset the connection
  sent,            \* history: replies written completely
  late             \* history: sessions inserted after they were last cleared

acceptVars == <<accepting, acceptPc, _nextIOService, ioOf>>
clientVars == <<inbox, frames, gone>>
vars == <<acceptVars, _sessions, late, open, read, _recv_msg_node, _send_que, writing,
          doomed, _msg_que, clientVars, sent>>

-----------------------------------------------------------------------------
(* Accepting: Server and AsioIOServicePool                                 *)

\* Mutant: the index wraps one too late.
advance_Late(i) == IF i = NumServices THEN 0 ELSE i + 1

\* GetIOService(): the next index, back to 0 at the end.
advance(i) == IF i + 1 = NumServices THEN 0 ELSE i + 1

Made == {s \in Sessions : ioOf[s] >= 0}

\* The next session object; they are all alike.
fresh(made) == CHOOSE s \in Sessions : s \notin made

\* StartAccept() makes a session on the next io_context and waits for a peer.
StartAccept ==
  /\ Made # Sessions
  /\ ioOf' = [ioOf EXCEPT ![fresh(Made)] = _nextIOService]
  /\ _nextIOService' = advance(_nextIOService)
  /\ accepting' = fresh(Made)
  /\ acceptPc' = "wait"

\* Bound: no session object left to model the next one.
LastAccept ==
  /\ Made = Sessions
  /\ accepting' = NoSession
  /\ acceptPc' = "wait"
  /\ UNCHANGED <<ioOf, _nextIOService>>

AcceptNext == StartAccept \/ LastAccept

\* The session still reads from its socket.
Served(s) == s \in open /\ read[s] # "none"

\* HandleAccept() of a connection: Start() comes first ...
HandleAcceptStart ==
  /\ accepting # NoSession /\ acceptPc = "wait"
  /\ acceptPc' = "started"
  /\ open' = open \cup {accepting}
  /\ read' = [read EXCEPT ![accepting] = "head"]
  /\ UNCHANGED <<accepting, _nextIOService, ioOf, late, _sessions, _recv_msg_node,
                 _send_que, writing, doomed, _msg_que, clientVars, sent>>

\* ... and the session enters the map when its handlers may already have run.
HandleAcceptInsert ==
  /\ acceptPc = "started"
  /\ _sessions' = _sessions \cup {accepting}
  /\ late' = IF Served(accepting) THEN late ELSE late \cup {accepting}
  /\ AcceptNext
  /\ UNCHANGED <<open, read, _recv_msg_node, _send_que, writing, doomed, _msg_que,
                 clientVars, sent>>

\* HandleAccept() with an error: the session is dropped.
HandleAcceptError ==
  /\ accepting # NoSession /\ acceptPc = "wait"
  /\ AcceptNext
  /\ UNCHANGED <<late, _sessions, open, read, _recv_msg_node, _send_que, writing, doomed,
                 _msg_que, clientVars, sent>>

Init ==
  /\ accepting = fresh({})
  /\ ioOf = [s \in Sessions |-> IF s = fresh({}) THEN 0 ELSE -1]
  /\ acceptPc = "wait" /\ _nextIOService = advance(0)
  /\ _sessions = {} /\ open = {} /\ late = {} /\ gone = {} /\ doomed = {}
  /\ read = [s \in Sessions |-> "none"]
  /\ _recv_msg_node = [s \in Sessions |-> NoFrame]
  /\ _send_que = [s \in Sessions |-> << >>] /\ writing = _send_que
  /\ sent = _send_que /\ inbox = _send_que
  /\ _msg_que = << >> /\ frames = 0

-----------------------------------------------------------------------------
(* The clients                                                             *)

Connected(s) == s \in Made /\ s \notin gone /\ (s # accepting \/ acceptPc = "started")

ClientSends(s, k) ==
  /\ Connected(s) /\ (s \in open \/ read[s] # "none")
  /\ frames < MaxFrames
  /\ frames' = frames + 1
  /\ inbox' = [inbox EXCEPT ![s] = Append(@, [n |-> frames + 1, kind |-> k])]
  /\ UNCHANGED <<acceptVars, _sessions, late, open, read, _recv_msg_node, _send_que, writing,
                 doomed, _msg_que, gone, sent>>

ClientLeaves(s) ==
  /\ Connected(s) /\ (s \in open \/ read[s] # "none")
  /\ gone' = gone \cup {s}
  /\ UNCHANGED <<acceptVars, _sessions, late, open, read, _recv_msg_node, _send_que, writing,
                 doomed, _msg_que, inbox, frames, sent>>

-----------------------------------------------------------------------------
(* Handlers of a session, on the thread of its io_context                  *)

\* Mutant: an error path that forgets the map.
CloseAndClear_OnlyClose(s) == open' = open \ {s} /\ UNCHANGED <<_sessions, late>>

\* Close() and ClearSession(), as every error path calls them.
CloseAndClear(s) ==
  /\ open' = open \ {s}
  /\ _sessions' = _sessions \ {s} /\ late' = late \ {s}

\* An operation started on a closed socket can only fail.
doom(s, op) == IF s \in open THEN doomed \ {<<s, op>>} ELSE doomed \cup {<<s, op>>}

\* An outstanding operation fails because the peer left or the socket was closed.
MayFail(s, op) == s \in gone \/ s \notin open \/ <<s, op>> \in doomed

\* HandleReadHead() or HandleReadBody() with an error; the body or the next
\* head is not read any more.
HandleReadError(s) ==
  /\ read[s] # "none" /\ MayFail(s, "read")
  /\ read' = [read EXCEPT ![s] = "none"]
  /\ doomed' = doomed \ {<<s, "read">>}
  /\ CloseAndClear(s)
  /\ UNCHANGED <<acceptVars, _recv_msg_node, _send_que, writing, _msg_que, clientVars, sent>>

HeadArrives(s) ==
  /\ read[s] = "head" /\ inbox[s] # << >> /\ <<s, "read">> \notin doomed

HandleReadHead(s) ==
  /\ HeadArrives(s) /\ Head(inbox[s]).kind # "badHead"
  /\ _recv_msg_node' = [_recv_msg_node EXCEPT ![s] = Head(inbox[s])]
  /\ read' = [read EXCEPT ![s] = "body"]
  /\ doomed' = doom(s, "read")
  /\ UNCHANGED <<acceptVars, _sessions, late, open, _send_que, writing, _msg_que, clientVars, sent>>

HandleReadBadHead(s) ==
  /\ HeadArrives(s) /\ Head(inbox[s]).kind = "badHead"
  /\ read' = [read EXCEPT ![s] = "none"]
  /\ CloseAndClear(s)
  /\ UNCHANGED <<acceptVars, _recv_msg_node, _send_que, writing, doomed, _msg_que,
                 clientVars, sent>>

\* Mutant: the next head is not asked for.
nextRead_None == "none"

nextRead == "head"

\* HandleReadBody(): post the frame and ask for the next head.
HandleReadBody(s) ==
  /\ read[s] = "body" /\ <<s, "read">> \notin doomed
  /\ _msg_que' = Append(_msg_que, [session |-> s, frame |-> _recv_msg_node[s]])
  /\ inbox' = [inbox EXCEPT ![s] = Tail(@)]
  /\ read' = [read EXCEPT ![s] = nextRead]
  /\ doomed' = doom(s, "read")
  /\ UNCHANGED <<acceptVars, _sessions, late, open, _recv_msg_node, _send_que, writing, frames,
                 gone, sent>>

\* Replies wait behind the one just written.
more(que) == que # << >>

\* Mutant: the reply just written is left in the queue.
popped_Not(que) == que

popped(que) == Tail(que)

\* HandleWrite() without an error: the next reply, if any, is written.
HandleWrite(s) ==
  /\ writing[s] # << >> /\ <<s, "write">> \notin doomed
  /\ sent' = [sent EXCEPT ![s] = Append(@, Head(writing[s]))]
  /\ LET que == popped(_send_que[s])
     IN  /\ _send_que' = [_send_que EXCEPT ![s] = que]
         /\ writing' = [writing EXCEPT ![s] =
                          Tail(@) \o (IF more(que) THEN <<Head(que)>> ELSE << >>)]
         /\ doomed' = IF more(que) THEN doom(s, "write") ELSE doomed
  /\ UNCHANGED <<acceptVars, _sessions, late, open, read, _recv_msg_node, _msg_que, clientVars>>

\* With an error the reply stays in the queue and nothing is written any more.
HandleWriteError(s) ==
  /\ writing[s] # << >> /\ MayFail(s, "write")
  /\ writing' = [writing EXCEPT ![s] = Tail(@)]
  /\ doomed' = doomed \ {<<s, "write">>}
  /\ CloseAndClear(s)
  /\ UNCHANGED <<acceptVars, read, _recv_msg_node, _send_que, _msg_que, clientVars, sent>>

-----------------------------------------------------------------------------
(* The logic thread                                                        *)

full(s) == Len(_send_que[s]) > MaxSendQue

\* Mutant: Send() starts a write whenever the queue is short.
idle_Short(s) == Len(_send_que[s]) =< 1

\* Send() writes itself only when nothing was queued.
idle(s) == _send_que[s] = << >>

Send(s, r) ==
  IF full(s) THEN UNCHANGED <<_send_que, writing, doomed>>
  ELSE LET que == Append(_send_que[s], r)
       IN  /\ _send_que' = [_send_que EXCEPT ![s] = que]
           /\ IF idle(s) THEN /\ writing' = [writing EXCEPT ![s] = Append(@, Head(que))]
                              /\ doomed' = doom(s, "write")
                         ELSE UNCHANGED <<writing, doomed>>

\* DealMsg() with HelloWordCallBack(), which replies on the frame's session.
DealMsg ==
  /\ _msg_que # << >>
  /\ _msg_que' = Tail(_msg_que)
  /\ LET m == Head(_msg_que)
     IN  IF m.frame.kind = "hello" THEN Send(m.session, m.frame.n)
         ELSE UNCHANGED <<_send_que, writing, doomed>>
  /\ UNCHANGED <<acceptVars, _sessions, late, open, read, _recv_msg_node, clientVars, sent>>

-----------------------------------------------------------------------------
Handler(s) ==
  \/ HandleReadError(s) \/ HandleReadHead(s) \/ HandleReadBadHead(s) \/ HandleReadBody(s)
  \/ HandleWrite(s) \/ HandleWriteError(s)

Client(s) == (\E k \in Kinds : ClientSends(s, k)) \/ ClientLeaves(s)

Next ==
  \/ HandleAcceptStart \/ HandleAcceptInsert \/ HandleAcceptError
  \/ \E s \in Sessions : Client(s) \/ Handler(s)
  \/ DealMsg

Spec == Init /\ [][Next]_vars

\* The threads keep running: HandleAccept() ends, the logic thread deals its
\* messages, and asio completes the operations of a connection whose peer has
\* left or whose socket is closed.  A write to a peer that stays and does not
\* read may wait for ever.
Fairness ==
  /\ WF_vars(HandleAcceptInsert) /\ WF_vars(DealMsg)
  /\ \A s \in Sessions : WF_vars((s \in gone \/ s \notin open) /\ Handler(s))

FairSpec == Spec /\ Fairness

-----------------------------------------------------------------------------
(* Properties                                                              *)

TypeOK ==
  /\ accepting \in Sessions \cup {NoSession} /\ acceptPc \in {"wait", "started"}
  /\ _nextIOService \in 0..(NumServices - 1)
  /\ ioOf \in [Sessions -> -1..(NumServices - 1)]
  /\ _sessions \subseteq Sessions /\ open \subseteq Sessions
  /\ late \subseteq Sessions /\ gone \subseteq Sessions
  /\ read \in [Sessions -> {"none", "head", "body"}]
  /\ _recv_msg_node \in [Sessions -> Frames \cup {NoFrame}]
  /\ _send_que \in [Sessions -> Seq(1..MaxFrames)]
  /\ writing \in [Sessions -> Seq(1..MaxFrames)]
  /\ sent \in [Sessions -> Seq(1..MaxFrames)]
  /\ doomed \subseteq Sessions \X {"read", "write"}
  /\ _msg_que \in Seq([session : Sessions, frame : Frames])
  /\ inbox \in [Sessions -> Seq(Frames)]
  /\ frames \in 0..MaxFrames

\* Send() on the logic thread and the handlers on the io thread never have two
\* async_write()s outstanding on one socket, whose bytes would mix, and the
\* buffer of the outstanding one is the front of the queue, so it stays alive.
OneWriteAtATime ==
  \A s \in Sessions :
    writing[s] # << >> =>
      /\ Len(writing[s]) = 1
      /\ _send_que[s] # << >> /\ Head(_send_que[s]) = Head(writing[s])

\* A reply in the queue of an open session has a write under way: nobody
\* waits for a HandleWrite() that will not come.
NoStall == \A s \in open : _send_que[s] # << >> => writing[s] # << >>

\* What Send() really enforces: one reply more than MAX_SENDQUE.
SendQueBound == \A s \in Sessions : Len(_send_que[s]) =< MaxSendQue + 1

\* Through both queues and both threads every reply of a session leaves once
\* and in the order in which its requests arrived (Send() may drop some).
RepliesInOrder ==
  \A s \in Sessions :
    LET out == sent[s] \o _send_que[s]
    IN  \A i, j \in DOMAIN out : i < j => out[i] < out[j]

\* The map holds exactly the sessions that read from an open socket, but for
\* those that the last error path cleared before HandleAccept() had inserted
\* them: they stay.
RegistryMatches ==
  \A s \in Sessions :
    s \in _sessions <=> \/ Served(s) /\ ~(s = accepting /\ acceptPc = "started")
                        \/ s \in late

\* Somebody holds a shared_ptr to the session.
Alive(s) ==
  \/ s \in _sessions \/ s = accepting
  \/ read[s] # "none" \/ writing[s] # << >>
  \/ \E i \in DOMAIN _msg_que : _msg_que[i].session = s

\* When the peer leaves, the session is noticed, closed and destroyed, whatever
\* its handlers and the logic thread are doing, unless HandleAccept() inserted
\* it too late.
GoneIsReleased == \A s \in Sessions : s \in gone ~> (~Alive(s) \/ s \in late)
=============================================================================
