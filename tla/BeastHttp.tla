----------------------------- MODULE BeastHttp -----------------------------
(***************************************************************************)
(* The HTTP server of 5. HTTPserver: one thread runs io_context; each      *)
(* connection reads one request, writes one response and has a timer of 60 *)
(* seconds that closes its socket.  Nothing but the handlers of its two    *)
(* outstanding operations, the read or write and the wait for the timer,   *)
(* keeps an http_connection alive.  An operation completes (its handler is *)
(* queued with an error code) in one step and its handler runs in another: *)
(* in between the other handler may run, and cancel() comes too late.      *)
(***************************************************************************)
EXTENDS Naturals, FiniteSets

CONSTANTS
  Conns,         \* connections, each one made at most once
  NoRequest, NoReply

\* Requests: the targets of a GET, a POST and another method.
Requests == {"/count", "/time", "other", "post", "put"}

\* What a client can tell apart in the responses; "page" has the number of
\* /count, or none.
Replies == [what : {"page", "notFound", "badRequest", "empty"}, n : 0..Cardinality(Conns)]

ASSUME BeastAssumption ==
  /\ IsFiniteSet(Conns) /\ NoRequest \notin Requests /\ NoReply \notin Replies

VARIABLES
  met,         \* connections that have been accepted or refused
  op,          \* outstanding operation: "none", "read", "write"
  done,        \* its state: "pending", or its handler is queued: "ok", "error"
  timer,       \* "none", "wait", or its handler is queued: "expired", "aborted"
  open,        \* connections whose _socket is open
  gone,        \* clients that have closed or reset the connection
  _request,
  _response,
  reply,       \* what the client has received
  count,       \* of request_count()
  late         \* history: connections whose deadline has passed

connVars == <<met, gone>>
vars == <<connVars, op, done, timer, open, _request, _response, reply, count, late>>

Init ==
  /\ met = {} /\ gone = {} /\ open = {} /\ late = {}
  /\ op = [c \in Conns |-> "none"] /\ done = [c \in Conns |-> "pending"]
  /\ timer = op
  /\ _request = [c \in Conns |-> NoRequest]
  /\ _response = [c \in Conns |-> NoReply] /\ reply = _response
  /\ count = 0

\* Somebody holds a shared_ptr to the connection.
Alive(c) == op[c] # "none" \/ timer[c] # "none"

-----------------------------------------------------------------------------
(* http_connection                                                         *)

\* An operation on a closed socket fails at once.
StartOp(c, o) ==
  /\ op' = [op EXCEPT ![c] = o]
  /\ done' = [done EXCEPT ![c] = IF c \in open' THEN "pending" ELSE "error"]

\* The last handler ends: the destructor closes the socket.
EndOp(c) ==
  /\ op' = [op EXCEPT ![c] = "none"]
  /\ done' = [done EXCEPT ![c] = "pending"]

\* Mutant: no deadline.
check_deadline_Not(c) == UNCHANGED timer

check_deadline(c) == timer' = [timer EXCEPT ![c] = "wait"]

\* http_server(): a new connection, start(), and the next accept.
Accept(c) ==
  /\ c \notin met
  /\ met' = met \cup {c} /\ open' = open \cup {c}
  /\ StartOp(c, "read")
  /\ check_deadline(c)
  /\ UNCHANGED <<gone, _request, _response, reply, count, late>>

\* async_accept() failed: only the next accept.
AcceptError(c) ==
  /\ c \notin met
  /\ met' = met \cup {c}
  /\ UNCHANGED <<gone, op, done, timer, open, _request, _response, reply, count, late>>

\* create_response() for the targets of a GET.
create_response(target) ==
  CASE target = "/count" -> [what |-> "page", n |-> count + 1]
    [] target = "/time" -> [what |-> "page", n |-> 0]
    [] OTHER -> [what |-> "notFound", n |-> 0]

\* The response to each method: create_post_response() is not called.
ResponseTo(r) ==
  CASE r = "post" -> [what |-> "empty", n |-> 0]
    [] r = "put" -> [what |-> "badRequest", n |-> 0]
    [] OTHER -> create_response(r)

\* Mutant: the socket is shut down before the response is written.
write_response_Shut(c) ==
  /\ op' = [op EXCEPT ![c] = "write"]
  /\ done' = [done EXCEPT ![c] = "error"]

write_response(c) == StartOp(c, "write")

\* process_request() and write_response().
process_request(c) ==
  /\ _response' = [_response EXCEPT ![c] = ResponseTo(_request[c])]
  /\ count' = IF _request[c] = "/count" THEN count + 1 ELSE count
  /\ write_response(c)

\* The handler of async_read().  After an error only the timer holds the
\* connection, whose socket stays open until then.
HandleRead(c) ==
  /\ op[c] = "read" /\ done[c] # "pending"
  /\ open' = IF done[c] = "ok" \/ timer[c] # "none" THEN open ELSE open \ {c}
  /\ IF done[c] = "ok" THEN process_request(c)
                       ELSE EndOp(c) /\ UNCHANGED <<_response, count>>
  /\ UNCHANGED <<connVars, timer, _request, reply, late>>

\* cancel(): a timer that has expired is not called back.
cancel(c) == timer' = [timer EXCEPT ![c] = IF @ = "wait" THEN "aborted" ELSE @]

\* The handler of async_write(), whatever the error: shutdown, cancel().
HandleWrite(c) ==
  /\ op[c] = "write" /\ done[c] # "pending"
  /\ cancel(c)
  /\ EndOp(c)
  /\ open' = IF timer'[c] # "none" THEN open ELSE open \ {c}
  /\ UNCHANGED <<connVars, _request, _response, reply, count, late>>

\* The handler of async_wait(): unless it was cancelled, it closes the socket,
\* and an operation that is still pending ends with an error.
HandleTimer(c) ==
  /\ timer[c] \in {"expired", "aborted"}
  /\ timer' = [timer EXCEPT ![c] = "none"]
  /\ open' = IF timer[c] = "expired" \/ op[c] = "none" THEN open \ {c} ELSE open
  /\ done' = IF timer[c] = "expired" /\ op[c] # "none" /\ done[c] = "pending"
             THEN [done EXCEPT ![c] = "error"] ELSE done
  /\ UNCHANGED <<connVars, op, _request, _response, reply, count, late>>

-----------------------------------------------------------------------------
(* asio, the clients and the clock                                         *)

\* A complete request has arrived.
ReadCompletes(c) ==
  /\ op[c] = "read" /\ done[c] = "pending" /\ c \notin gone
  /\ \E r \in Requests : _request' = [_request EXCEPT ![c] = r]
  /\ done' = [done EXCEPT ![c] = "ok"]
  /\ UNCHANGED <<connVars, op, timer, open, _response, reply, count, late>>

\* The response has been written, and the client receives it.
WriteCompletes(c) ==
  /\ op[c] = "write" /\ done[c] = "pending" /\ c \notin gone
  /\ reply' = [reply EXCEPT ![c] = _response[c]]
  /\ done' = [done EXCEPT ![c] = "ok"]
  /\ UNCHANGED <<connVars, op, timer, open, _request, _response, count, late>>

\* What was read is no request.
ReadGarbled(c) ==
  /\ op[c] = "read" /\ done[c] = "pending"
  /\ done' = [done EXCEPT ![c] = "error"]
  /\ UNCHANGED <<connVars, op, timer, open, _request, _response, reply, count, late>>

\* The client has left, and the operation fails.
OpFails(c) ==
  /\ op[c] # "none" /\ done[c] = "pending" /\ c \in gone
  /\ done' = [done EXCEPT ![c] = "error"]
  /\ UNCHANGED <<connVars, op, timer, open, _request, _response, reply, count, late>>

ClientLeaves(c) ==
  /\ c \in open \ gone
  /\ gone' = gone \cup {c}
  /\ UNCHANGED <<met, op, done, timer, open, _request, _response, reply, count, late>>

Expires(c) ==
  /\ timer[c] = "wait"
  /\ timer' = [timer EXCEPT ![c] = "expired"]
  /\ late' = late \cup {c}
  /\ UNCHANGED <<connVars, op, done, open, _request, _response, reply, count>>

-----------------------------------------------------------------------------
Handler(c) == HandleRead(c) \/ HandleWrite(c) \/ HandleTimer(c)

Environment(c) ==
  ReadCompletes(c) \/ WriteCompletes(c) \/ ReadGarbled(c) \/ ClientLeaves(c) \/ OpFails(c)

Next ==
  \E c \in Conns :
    Accept(c) \/ AcceptError(c) \/ Handler(c) \/ Expires(c) \/ Environment(c)

Spec == Init /\ [][Next]_vars

\* The thread runs every queued handler, and 60 seconds pass.  Clients need
\* not do anything: not even leave, or read the response.
FairSpec == Spec /\ \A c \in Conns : WF_vars(Handler(c)) /\ WF_vars(Expires(c))

-----------------------------------------------------------------------------
(* Properties                                                              *)

\* A connection that had a complete request ends without a response only when
\* its client left or its deadline passed, in whichever order the handlers of
\* read, write and timer run.
UnansweredOnlyLate ==
  \A c \in Conns :
    (_request[c] # NoRequest /\ ~Alive(c) /\ reply[c] = NoReply) => c \in gone \cup late

\* Every connection is destroyed at last and its descriptor given back: also
\* when the client sends nothing, or never reads, or the read failed, after
\* which nothing but the timer is left.
Released == \A c \in Conns : Alive(c) ~> (~Alive(c) /\ c \notin open)
=============================================================================
