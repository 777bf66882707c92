---------------------------- MODULE EchoServers ----------------------------
(***************************************************************************)
(* The two single-threaded echo servers: 2. AsyncServer (frames with a     *)
(* length) and 6. WebSocketServer (WebSocket messages).  One thread runs   *)
(* all handlers, so that one action is one handler.  Both keep a queue of  *)
(* messages to send and write its front; both drop a broken connection     *)
(* from their map without closing its socket, so that shared_ptrs in the   *)
(* handlers decide how long it lives.  They differ in who is registered    *)
(* when, in the limit of the queue and in the buffer async_write() gets.   *)
(***************************************************************************)
EXTENDS Naturals, Sequences

CONSTANTS
  Conns,        \* connections, each one made at most once
  MaxSendQue,   \* MAX_SENDQUEUE_SIZE of 2. AsyncServer
  MaxMessages,  \* bound: messages each client sends
  Garbage       \* the bytes of a string that has been destroyed

ASSUME EchoAssumption ==
  MaxSendQue \in Nat /\ MaxMessages \in Nat /\ Garbage \notin 0..MaxMessages

Bad == 0   \* a length out of range, or a violation of the protocol

VARIABLES
  server,       \* "frames" (2. AsyncServer) or "websocket"
  met,          \* connections that have been accepted or refused
  registered,   \* keys of _sessions, or of _map_cons
  read,         \* outstanding: "none", "handshake", "head", "body", "message"
  _send_que,
  writing,      \* outstanding async_write()s: [m, kept], oldest first
  inbox,        \* what the client has sent and the server has not read
  next,         \* number of the client's next message
  ended,        \* clients that have shut down their sending side
  gone,         \* clients that have reset the connection
  failed,       \* WebSocket streams that Beast has failed: it aborts their writes
  echoed,       \* what has been written to each client's socket
  queued        \* history: the messages put into _send_que

clientVars == <<inbox, next, ended, gone>>
streamVars == <<server, failed>>
vars == <<streamVars, met, registered, read, _send_que, writing, clientVars, echoed, queued>>

Init ==
  /\ server \in {"frames", "websocket"}
  /\ met = {} /\ registered = {} /\ ended = {} /\ gone = {} /\ failed = {}
  /\ read = [c \in Conns |-> "none"]
  /\ _send_que = [c \in Conns |-> << >>]
  /\ writing = _send_que /\ inbox = _send_que /\ echoed = _send_que /\ queued = _send_que
  /\ next = [c \in Conns |-> 1]

-----------------------------------------------------------------------------
(* The clients                                                             *)

Speaks(c) == c \in met /\ c \notin ended \cup gone /\ read[c] # "none"

ClientSends(c) ==
  /\ Speaks(c) /\ next[c] =< MaxMessages
  /\ \E m \in {next[c], Bad} : inbox' = [inbox EXCEPT ![c] = Append(@, m)]
  /\ next' = [next EXCEPT ![c] = @ + 1]
  /\ UNCHANGED <<streamVars, met, registered, read, _send_que, writing, ended, gone, echoed,
                 queued>>

\* The client has no more to say but keeps reading.
ClientEnds(c) ==
  /\ Speaks(c)
  /\ ended' = ended \cup {c}
  /\ UNCHANGED <<streamVars, met, registered, read, _send_que, writing, inbox, next, gone, echoed,
                 queued>>

ClientResets(c) ==
  /\ c \in met \ gone /\ read[c] # "none"
  /\ gone' = gone \cup {c}
  /\ UNCHANGED <<streamVars, met, registered, read, _send_que, writing, inbox, next, ended, echoed,
                 queued>>

\* An outstanding read ends: nothing more will come.
ReadFails(c) == c \in gone \/ (c \in ended /\ inbox[c] = << >>)

Arrives(c) == c \notin gone /\ inbox[c] # << >>

\* The message whose write has completed is in the client's socket.
Delivered(c, w) ==
  \E m \in {w.m} \cup (IF w.kept THEN {} ELSE {Garbage}) :
    echoed' = [echoed EXCEPT ![c] = Append(@, m)]

-----------------------------------------------------------------------------
(* 2. AsyncServer                                                          *)

\* Mutant: the map keeps the session.
ClearSession_Not(c) == UNCHANGED registered

ClearSession(c) == registered' = registered \ {c}

\* handle_accept(): Start(), then the map; or nothing, after an error.  Then
\* start_accept().
handle_accept(c) ==
  /\ server = "frames" /\ c \notin met
  /\ met' = met \cup {c}
  /\ \/ /\ read' = [read EXCEPT ![c] = "head"]
        /\ registered' = registered \cup {c}
     \/ UNCHANGED <<read, registered>>
  /\ UNCHANGED <<streamVars, _send_que, writing, clientVars, echoed, queued>>

\* Mutant: Send() looks for pending messages after it has pushed its own.
pending_After(c) == _send_que'[c] # << >>

pending(c) == _send_que[c] # << >>

full(c) == Len(_send_que[c]) > MaxSendQue

\* The buffer is that of the node at the front of the queue.
Send(c, m) ==
  IF full(c) THEN UNCHANGED <<_send_que, writing, queued>>
  ELSE /\ _send_que' = [_send_que EXCEPT ![c] = Append(@, m)]
       /\ queued' = [queued EXCEPT ![c] = Append(@, m)]
       /\ IF pending(c) THEN UNCHANGED writing
          ELSE writing' = [writing EXCEPT ![c] = Append(@, [m |-> m, kept |-> TRUE])]

\* The error path of the read handlers, and the one for a bad length.
ReadEnds(c) ==
  /\ read' = [read EXCEPT ![c] = "none"]
  /\ ClearSession(c)
  /\ UNCHANGED <<streamVars, met, _send_que, writing, clientVars, echoed, queued>>

handle_read_head(c) ==
  /\ server = "frames" /\ read[c] = "head"
  /\ \/ ReadFails(c) /\ ReadEnds(c)
     \/ Arrives(c) /\ Head(inbox[c]) = Bad /\ ReadEnds(c)
     \/ /\ Arrives(c) /\ Head(inbox[c]) # Bad
        /\ read' = [read EXCEPT ![c] = "body"]
        /\ UNCHANGED <<streamVars, met, registered, _send_que, writing, clientVars, echoed, queued>>

\* The echo and the next head; the client may have ended inside the last frame.
handle_read_body(c) ==
  /\ server = "frames" /\ read[c] = "body"
  /\ \/ (c \in gone \/ (c \in ended /\ Len(inbox[c]) = 1)) /\ ReadEnds(c)
     \/ /\ Arrives(c)
        /\ inbox' = [inbox EXCEPT ![c] = Tail(@)]
        /\ Send(c, Head(inbox[c]))
        /\ read' = [read EXCEPT ![c] = "head"]
        /\ UNCHANGED <<streamVars, met, registered, next, ended, gone, echoed>>

rest(c) == Tail(_send_que[c])

\* handle_write() of a message that has been written: the next one, if any.
handle_write(c) ==
  /\ server = "frames" /\ writing[c] # << >> /\ c \notin gone
  /\ Delivered(c, Head(writing[c]))
  /\ _send_que' = [_send_que EXCEPT ![c] = rest(c)]
  /\ writing' = [writing EXCEPT ![c] =
       Tail(@) \o (IF rest(c) = << >> THEN << >> ELSE <<[m |-> Head(rest(c)), kept |-> TRUE]>>)]
  /\ UNCHANGED <<streamVars, met, registered, read, clientVars, queued>>

handle_write_error(c) ==
  /\ server = "frames" /\ writing[c] # << >> /\ c \in gone
  /\ writing' = [writing EXCEPT ![c] = Tail(@)]
  /\ ClearSession(c)
  /\ UNCHANGED <<streamVars, met, read, _send_que, clientVars, echoed, queued>>

FramesStep(c) ==
  handle_accept(c) \/ handle_read_head(c) \/ handle_read_body(c) \/ handle_write(c)
    \/ handle_write_error(c)

-----------------------------------------------------------------------------
(* 6. WebSocketServer                                                      *)

RmvConnection(c) == registered' = registered \ {c}

\* StartAccept()'s handler: AsyncAccept() waits for the upgrade, unless there
\* was an error.  Then StartAccept() again.
StartAccept(c) ==
  /\ server = "websocket" /\ c \notin met
  /\ met' = met \cup {c}
  /\ read' = [read EXCEPT ![c] = "handshake"] \/ UNCHANGED read
  /\ UNCHANGED <<streamVars, registered, _send_que, writing, clientVars, echoed, queued>>

AddConnection(c) == registered' = registered \cup {c}

\* AsyncAccept()'s handler: registered first, then Start(); or neither, when the
\* client has left or its upgrade request is bad.
AsyncAccept(c) ==
  /\ server = "websocket" /\ read[c] = "handshake"
  /\ \/ /\ read' = [read EXCEPT ![c] = "none"]
        /\ UNCHANGED registered
     \/ /\ c \notin gone
        /\ AddConnection(c)
        /\ read' = [read EXCEPT ![c] = "message"]
  /\ UNCHANGED <<streamVars, met, _send_que, writing, clientVars, echoed, queued>>

\* SendCallBack() hands async_write() the buffer of its own argument, which is
\* gone when it returns: unless the kernel has taken all of it by then, the
\* rest is read from memory that has been freed.
SendCallBack(c, before, m) ==
  \E kept \in BOOLEAN : writing' = [writing EXCEPT ![c] = before \o <<[m |-> m, kept |-> kept]>>]

\* Mutant: AsyncSend() writes at once although a write is under way.
idle_Always(c) == TRUE

idle(c) == _send_que[c] = << >>

AsyncSend(c, m) ==
  /\ _send_que' = [_send_que EXCEPT ![c] = Append(@, m)]
  /\ queued' = [queued EXCEPT ![c] = Append(@, m)]
  /\ IF idle(c) THEN SendCallBack(c, writing[c], m) ELSE UNCHANGED writing

\* Start()'s handler: the echo and the next read.  A read that fails leaves a
\* stream that cannot be written to either.
Start(c) ==
  /\ server = "websocket" /\ read[c] = "message"
  /\ \/ /\ ReadFails(c) \/ (Arrives(c) /\ Head(inbox[c]) = Bad)
        /\ read' = [read EXCEPT ![c] = "none"]
        /\ RmvConnection(c)
        /\ failed' = failed \cup {c}
        /\ UNCHANGED <<_send_que, writing, inbox, queued>>
     \/ /\ Arrives(c) /\ Head(inbox[c]) # Bad
        /\ inbox' = [inbox EXCEPT ![c] = Tail(@)]
        /\ AsyncSend(c, Head(inbox[c]))
        /\ UNCHANGED <<registered, read, failed>>
  /\ UNCHANGED <<server, met, next, ended, gone, echoed>>

\* The handler of SendCallBack(): pop, and the next message, if any.
WriteHandler(c) ==
  /\ server = "websocket" /\ writing[c] # << >> /\ c \notin gone \cup failed
  /\ Delivered(c, Head(writing[c]))
  /\ _send_que' = [_send_que EXCEPT ![c] = Tail(@)]
  /\ IF Tail(_send_que[c]) = << >>
     THEN writing' = [writing EXCEPT ![c] = Tail(@)]
     ELSE SendCallBack(c, Tail(writing[c]), Head(Tail(_send_que[c])))
  /\ UNCHANGED <<streamVars, met, registered, read, clientVars, queued>>

\* An error: the connection was reset, or the stream has failed, whether or not
\* the message had reached the kernel.
WriteHandlerError(c) ==
  /\ server = "websocket" /\ writing[c] # << >> /\ c \in gone \cup failed
  /\ writing' = [writing EXCEPT ![c] = Tail(@)]
  /\ (c \notin gone /\ Delivered(c, Head(writing[c]))) \/ UNCHANGED echoed
  /\ RmvConnection(c)
  /\ UNCHANGED <<streamVars, met, read, _send_que, clientVars, queued>>

WebSocketStep(c) ==
  StartAccept(c) \/ AsyncAccept(c) \/ Start(c) \/ WriteHandler(c) \/ WriteHandlerError(c)

-----------------------------------------------------------------------------
Next ==
  \E c \in Conns :
    \/ ClientSends(c) \/ ClientEnds(c) \/ ClientResets(c)
    \/ FramesStep(c) \/ WebSocketStep(c)

Spec == Init /\ [][Next]_vars

\* The thread runs every handler that can run, and a client that has not reset
\* the connection goes on reading.  Nobody has to connect or to ask for the
\* upgrade.
FairSpec ==
  /\ Spec
  /\ \A c \in Conns :
       WF_vars(/\ c \in met /\ (read[c] # "handshake" \/ c \in ended \cup gone)
               /\ FramesStep(c) \/ WebSocketStep(c))

-----------------------------------------------------------------------------
(* Properties                                                              *)

\* Somebody holds a shared_ptr to the connection.
Alive(c) == c \in registered \/ read[c] # "none" \/ writing[c] # << >>

\* Every message put into the queue is there or has been written, once, and in
\* the order of arrival; what goes out is that message, but for the
\* WebSocket server, which may have sent freed memory in its place, and whose
\* last message may go out although its write was aborted.
EchoesInOrder ==
  \A c \in Conns :
    LET popped == Len(queued[c]) - Len(_send_que[c]) IN
    /\ Len(echoed[c]) \in popped..(IF c \in failed THEN popped + 1 ELSE popped)
    /\ \A i \in DOMAIN echoed[c] :
         echoed[c][i] \in {queued[c][i]} \cup (IF server = "frames" THEN {} ELSE {Garbage})
    /\ \A i \in DOMAIN _send_que[c] : _send_que[c][i] = queued[c][popped + i]
    /\ Len(writing[c]) =< 1

\* Every message in the queue is written to its client.  In 2. AsyncServer this is so
\* also when the session has meanwhile been dropped from the map because the
\* client ended its side or sent something bad: the handler of the write keeps
\* it alive (the comment on pseudo-closures in AsyncServer.h), and only a reset
\* prevents it.  In the WebSocket server a read that fails gives up the queue.
QueuedIsEchoed ==
  \A c \in Conns : \A n \in 1..MaxMessages :
    (Len(queued[c]) >= n) ~> (Len(echoed[c]) >= n \/ c \in gone \cup failed)

\* A connection that has been dropped from the map, or whose client has left,
\* is destroyed at last and with it its socket, although neither server closes
\* it.
EndedIsDestroyed ==
  \A c \in Conns : (c \in met /\ (c \in ended \cup gone \/ read[c] = "none")) ~> ~Alive(c)
=============================================================================
