-------------------------- MODULE BeastHttpProofs --------------------------
(***************************************************************************)
(* Proofs about 5. HTTPserver, for any number of connections.              *)
(***************************************************************************)
EXTENDS BeastHttp, FiniteSetTheorems, TLAPS

BeastTypes ==
  /\ op \in [Conns -> {"none", "read", "write"}]
  /\ done \in [Conns -> {"pending", "ok", "error"}]
  /\ timer \in [Conns -> {"none", "wait", "expired", "aborted"}]
  /\ _request \in [Conns -> Requests \cup {NoRequest}]
  /\ _response \in [Conns -> Replies \cup {NoReply}]
  /\ reply \in [Conns -> Replies \cup {NoReply}]
  /\ count \in Nat

\* Connections whose /count has been answered.
Counted == {c \in Conns : _request[c] = "/count" /\ op[c] # "read"}

\* The request counter counts each of them once.
CountInv == count = Cardinality(Counted)

\* Nothing has happened to a connection before it is accepted, and a request
\* is there only once its read has ended well.
RequestInv ==
  \A c \in Conns :
    /\ c \notin met => op[c] = "none" /\ timer[c] = "none" /\ _request[c] = NoRequest
    /\ op[c] = "read" /\ done[c] # "ok" => _request[c] = NoRequest
    /\ op[c] = "read" /\ done[c] = "ok" => _request[c] # NoRequest
    /\ op[c] = "write" => _response[c] # NoReply

\* Only a deadline closes the socket under an operation; the handler of a
\* write, which cancels the timer, is the last of its connection.
DeadlineInv ==
  \A c \in Conns :
    /\ timer[c] = "expired" => c \in late
    /\ timer[c] = "aborted" => op[c] = "none"
    /\ op[c] # "none" /\ c \notin late => c \in open

\* A connection with a request and without a reply is on its way to one.
AnswerInv ==
  \A c \in Conns :
    _request[c] # NoRequest /\ reply[c] = NoReply /\ c \notin gone \cup late =>
      (op[c] = "read" /\ done[c] = "ok") \/ (op[c] = "write" /\ done[c] = "pending")

BeastInv == BeastTypes /\ CountInv /\ RequestInv /\ DeadlineInv /\ AnswerInv

-----------------------------------------------------------------------------
\* A connection is not among the counted ones while it reads, so there is a
\* number left for it.
LEMMA CountRoom ==
  ASSUME BeastInv, NEW c \in Conns, op[c] = "read"
  PROVE  /\ Cardinality(Counted \cup {c}) = count + 1
         /\ count + 1 \in 0..Cardinality(Conns)
<1>1. c \notin Counted /\ Counted \subseteq Conns /\ IsFiniteSet(Conns)
  BY BeastAssumption DEF Counted
<1>2. IsFiniteSet(Counted)
  BY <1>1, FS_Subset
<1>3. Cardinality(Counted \cup {c}) = count + 1
  BY <1>1, <1>2, FS_AddElement DEF BeastInv, CountInv
<1>4. Cardinality(Counted \cup {c}) =< Cardinality(Conns) /\ Cardinality(Conns) \in Nat
  BY <1>1, FS_Subset, FS_CardinalityType
<1> QED
  BY <1>3, <1>4 DEF BeastInv, BeastTypes

\* process_request() makes a response to every request.
LEMMA ResponseMade ==
  ASSUME BeastInv, NEW c \in Conns, op[c] = "read", NEW r \in Requests
  PROVE  ResponseTo(r) \in Replies /\ ResponseTo(r) # NoReply
<1>1. count + 1 \in 0..Cardinality(Conns) /\ 0 \in 0..Cardinality(Conns)
  <2>1. Cardinality(Conns) \in Nat
    BY BeastAssumption, FS_CardinalityType
  <2>2. 0 \in 0..Cardinality(Conns)
    BY <2>1
  <2> QED
    BY <2>2, CountRoom, Zenon
<1>2. ResponseTo(r) \in Replies
  BY <1>1 DEF ResponseTo, create_response, Requests, Replies
<1> QED
  BY <1>2, BeastAssumption

\* A connection starts with a read and its deadline ahead, or accepting it failed.
LEMMA AcceptStep ==
  ASSUME BeastInv, NEW c \in Conns, Accept(c) \/ AcceptError(c)
  PROVE  BeastInv'
<1>1. CASE AcceptError(c)
  BY <1>1 DEF AcceptError, BeastInv, BeastTypes, CountInv, Counted, RequestInv, DeadlineInv,
              AnswerInv
<1>2. CASE Accept(c)
  <2>1. /\ op' = [op EXCEPT ![c] = "read"] /\ done' = [done EXCEPT ![c] = "pending"]
        /\ timer' = [timer EXCEPT ![c] = "wait"]
        /\ met' = met \cup {c} /\ open' = open \cup {c}
        /\ UNCHANGED <<gone, _request, _response, reply, count, late>>
    BY <1>2 DEF Accept, StartOp, check_deadline
  <2>2. c \notin met /\ _request[c] = NoRequest /\ op[c] = "none"
    BY <1>2 DEF Accept, BeastInv, RequestInv
  <2>3. BeastTypes'
    BY <2>1 DEF BeastInv, BeastTypes
  <2>4. CountInv'
    <3>1. Counted' = Counted
      BY <2>1, <2>2, BeastAssumption DEF BeastInv, BeastTypes, Counted, Requests
    <3> QED
      BY <2>1, <3>1 DEF BeastInv, CountInv
  <2>5. RequestInv'
    BY <2>1, <2>2 DEF BeastInv, BeastTypes, RequestInv
  <2>6. DeadlineInv' /\ AnswerInv'
    BY <2>1, <2>2 DEF BeastInv, BeastTypes, DeadlineInv, AnswerInv
  <2> QED
    BY <2>3, <2>4, <2>5, <2>6 DEF BeastInv
<1> QED
  BY <1>1, <1>2

\* The read handler: only here the counter of /count moves, with the response chosen.
LEMMA HandleReadStep ==
  ASSUME BeastInv, NEW c \in Conns, HandleRead(c)
  PROVE  BeastInv'
<1>1. op[c] = "read" /\ done[c] # "pending" /\ UNCHANGED <<met, gone, timer, _request, reply, late>>
  BY DEF HandleRead, connVars
<1>2. CASE done[c] = "ok"
  <2>1. /\ _response' = [_response EXCEPT ![c] = ResponseTo(_request[c])]
        /\ count' = IF _request[c] = "/count" THEN count + 1 ELSE count
        /\ op' = [op EXCEPT ![c] = "write"] /\ open' = open
        /\ done' = [done EXCEPT ![c] = IF c \in open THEN "pending" ELSE "error"]
    BY <1>2 DEF HandleRead, process_request, write_response, StartOp
  <2>2. _request[c] \in Requests
    BY <1>1, <1>2 DEF BeastInv, BeastTypes, RequestInv
  <2>3. ResponseTo(_request[c]) \in Replies /\ ResponseTo(_request[c]) # NoReply
    BY <1>1, <2>2, ResponseMade
  <2>4. BeastTypes'
    BY <1>1, <2>1, <2>3 DEF BeastInv, BeastTypes
  <2>5. CountInv'
    <3>1. Counted' = IF _request[c] = "/count" THEN Counted \cup {c} ELSE Counted
      BY <1>1, <2>1 DEF Counted, BeastInv, BeastTypes
    <3> QED
      BY <1>1, <2>1, <3>1, CountRoom DEF BeastInv, CountInv
  <2>6. RequestInv'
    BY <1>1, <2>1, <2>3 DEF BeastInv, BeastTypes, RequestInv
  <2>7. DeadlineInv'
    BY <1>1, <2>1 DEF BeastInv, BeastTypes, DeadlineInv
  <2>8. AnswerInv'
    BY <1>1, <2>1 DEF BeastInv, BeastTypes, DeadlineInv, AnswerInv
  <2> QED
    BY <2>4, <2>5, <2>6, <2>7, <2>8 DEF BeastInv
<1>3. CASE done[c] # "ok"
  <2>1. /\ op' = [op EXCEPT ![c] = "none"] /\ done' = [done EXCEPT ![c] = "pending"]
        /\ UNCHANGED <<_response, count>>
        /\ \A d \in Conns : d # c => (d \in open' <=> d \in open)
    BY <1>3 DEF HandleRead, EndOp
  <2>2. _request[c] = NoRequest /\ c \in met
    BY <1>1, <1>3 DEF BeastInv, RequestInv
  <2>3. BeastTypes'
    BY <1>1, <2>1 DEF BeastInv, BeastTypes
  <2>4. CountInv'
    <3>1. Counted' = Counted
      BY <1>1, <2>1, <2>2, BeastAssumption DEF BeastInv, BeastTypes, Counted, Requests
    <3> QED
      BY <2>1, <3>1 DEF BeastInv, CountInv
  <2>5. RequestInv'
    BY <1>1, <2>1, <2>2 DEF BeastInv, BeastTypes, RequestInv
  <2>6. DeadlineInv' /\ AnswerInv'
    BY <1>1, <2>1, <2>2 DEF BeastInv, BeastTypes, DeadlineInv, AnswerInv
  <2> QED
    BY <2>3, <2>4, <2>5, <2>6 DEF BeastInv
<1> QED
  BY <1>2, <1>3

\* The write handler shuts down the sending side and cancels the deadline.
LEMMA HandleWriteStep ==
  ASSUME BeastInv, NEW c \in Conns, HandleWrite(c)
  PROVE  BeastInv'
<1>1. /\ op[c] = "write" /\ done[c] # "pending"
      /\ op' = [op EXCEPT ![c] = "none"] /\ done' = [done EXCEPT ![c] = "pending"]
      /\ timer' = [timer EXCEPT ![c] = IF @ = "wait" THEN "aborted" ELSE @]
      /\ UNCHANGED <<met, gone, _request, _response, reply, count, late>>
      /\ \A d \in Conns : d # c => (d \in open' <=> d \in open)
  BY DEF HandleWrite, cancel, EndOp, connVars
<1>2. BeastTypes'
  BY <1>1 DEF BeastInv, BeastTypes
<1>3. CountInv'
  <2>1. Counted' = Counted
    BY <1>1 DEF BeastInv, BeastTypes, Counted
  <2> QED
    BY <1>1, <2>1 DEF BeastInv, CountInv
<1>4. RequestInv'
  BY <1>1 DEF BeastInv, BeastTypes, RequestInv
<1>5. DeadlineInv' /\ AnswerInv'
  BY <1>1 DEF BeastInv, BeastTypes, DeadlineInv, AnswerInv
<1> QED
  BY <1>2, <1>3, <1>4, <1>5 DEF BeastInv

\* The handler of check_deadline(): it closes the socket unless it was cancelled.
LEMMA HandleTimerStep ==
  ASSUME BeastInv, NEW c \in Conns, HandleTimer(c)
  PROVE  BeastInv'
<1>1. /\ timer' = [timer EXCEPT ![c] = "none"]
      /\ UNCHANGED <<met, gone, op, _request, _response, reply, count, late>>
      /\ \A d \in Conns : d # c => (d \in open' <=> d \in open)
  BY DEF HandleTimer, connVars
<1>2. CASE timer[c] = "expired"
  <2>1. c \in late
    BY <1>2 DEF BeastInv, DeadlineInv
  <2>2. done' = done \/ (done' = [done EXCEPT ![c] = "error"] /\ done[c] = "pending")
    BY DEF HandleTimer
  <2>3. BeastTypes'
    BY <1>1, <2>2 DEF BeastInv, BeastTypes
  <2>4. CountInv'
    BY <1>1 DEF BeastInv, CountInv, Counted
  <2>5. RequestInv'
    BY <1>1, <2>2 DEF BeastInv, BeastTypes, RequestInv
  <2>6. DeadlineInv' /\ AnswerInv'
    BY <1>1, <2>1, <2>2 DEF BeastInv, BeastTypes, DeadlineInv, AnswerInv
  <2> QED
    BY <2>3, <2>4, <2>5, <2>6 DEF BeastInv
<1>3. CASE timer[c] = "aborted"
  <2>1. op[c] = "none" /\ done' = done
    BY <1>3 DEF HandleTimer, BeastInv, DeadlineInv
  <2> QED
    BY <1>1, <2>1 DEF BeastInv, BeastTypes, CountInv, Counted, RequestInv, DeadlineInv, AnswerInv
<1> QED
  BY <1>2, <1>3 DEF HandleTimer

\* The deadline of one connection passes, which is late from now on.
LEMMA ExpiresStep ==
  ASSUME BeastInv, NEW c \in Conns, Expires(c)
  PROVE  BeastInv'
<1> USE DEF Expires, connVars
<1>1. BeastTypes' /\ RequestInv'
  BY DEF BeastInv, BeastTypes, RequestInv
<1>2. CountInv'
  BY DEF BeastInv, CountInv, Counted
<1>3. DeadlineInv' /\ AnswerInv'
  BY DEF BeastInv, BeastTypes, DeadlineInv, AnswerInv
<1> QED
  BY <1>1, <1>2, <1>3 DEF BeastInv

\* What the client and the kernel do between two handlers.
LEMMA EnvironmentStep ==
  ASSUME BeastInv, NEW c \in Conns, Environment(c)
  PROVE  BeastInv'
<1> USE DEF connVars
<1>1. CASE ReadCompletes(c)
  <2>1. PICK r \in Requests : _request' = [_request EXCEPT ![c] = r]
    BY <1>1 DEF ReadCompletes
  <2>2. r # NoRequest
    BY BeastAssumption
  <2>3. BeastTypes'
    BY <1>1, <2>1 DEF ReadCompletes, BeastInv, BeastTypes
  <2>4. CountInv'
    <3>1. Counted' = Counted
      BY <1>1, <2>1 DEF ReadCompletes, BeastInv, BeastTypes, Counted
    <3> QED
      BY <1>1, <3>1 DEF ReadCompletes, BeastInv, CountInv
  <2>5. RequestInv'
    BY <1>1, <2>1, <2>2 DEF ReadCompletes, BeastInv, BeastTypes, RequestInv
  <2>6. DeadlineInv' /\ AnswerInv'
    BY <1>1, <2>1 DEF ReadCompletes, BeastInv, BeastTypes, DeadlineInv, AnswerInv
  <2> QED
    BY <2>3, <2>4, <2>5, <2>6 DEF BeastInv
<1>2. CASE WriteCompletes(c)
  <2>1. _response[c] # NoReply
    BY <1>2 DEF WriteCompletes, BeastInv, RequestInv
  <2>2. BeastTypes' /\ RequestInv'
    BY <1>2 DEF WriteCompletes, BeastInv, BeastTypes, RequestInv
  <2>3. CountInv'
    BY <1>2 DEF WriteCompletes, BeastInv, CountInv, Counted
  <2>4. DeadlineInv' /\ AnswerInv'
    BY <1>2, <2>1 DEF WriteCompletes, BeastInv, BeastTypes, DeadlineInv, AnswerInv
  <2> QED
    BY <2>2, <2>3, <2>4 DEF BeastInv
<1>3. CASE ReadGarbled(c) \/ OpFails(c)
  <2>1. /\ done[c] = "pending" /\ done' = [done EXCEPT ![c] = "error"]
        /\ op[c] = "read" \/ c \in gone
        /\ UNCHANGED <<met, gone, op, timer, open, _request, _response, reply, count, late>>
    BY <1>3 DEF ReadGarbled, OpFails
  <2>2. BeastTypes' /\ RequestInv'
    BY <2>1 DEF BeastInv, BeastTypes, RequestInv
  <2>3. CountInv' /\ DeadlineInv'
    BY <2>1 DEF BeastInv, CountInv, Counted, DeadlineInv
  <2>4. AnswerInv'
    BY <2>1 DEF BeastInv, BeastTypes, RequestInv, AnswerInv
  <2> QED
    BY <2>2, <2>3, <2>4 DEF BeastInv
<1>4. CASE ClientLeaves(c)
  BY <1>4 DEF ClientLeaves, BeastInv, BeastTypes, CountInv, Counted, RequestInv, DeadlineInv,
              AnswerInv
<1> QED
  BY <1>1, <1>2, <1>3, <1>4 DEF Environment

\* The inductive invariant: how far each connection is, what its timer may
\* still do, and that the counter of /count numbers the answers one by one.
THEOREM BeastInvariant == Spec => []BeastInv
<1>1. Init => BeastInv
  <2> SUFFICES ASSUME Init PROVE BeastInv
    OBVIOUS
  <2>1. Counted = {}
    BY BeastAssumption DEF Init, Counted, Requests
  <2>2. CountInv
    BY <2>1, FS_EmptySet DEF Init, CountInv
  <2> QED
    BY <2>2 DEF Init, BeastInv, BeastTypes, RequestInv, DeadlineInv, AnswerInv
<1>2. BeastInv /\ [Next]_vars => BeastInv'
  <2>1. CASE UNCHANGED vars
    BY <2>1 DEF vars, connVars, BeastInv, BeastTypes, CountInv, Counted, RequestInv,
                DeadlineInv, AnswerInv
  <2> QED
    BY <2>1, AcceptStep, HandleReadStep, HandleWriteStep, HandleTimerStep, ExpiresStep,
       EnvironmentStep DEF Next, Handler
<1> QED
  BY <1>1, <1>2, PTL DEF Spec

\* However the handlers of read, write and timer are ordered, a connection with
\* a complete request ends without a response only when its client has left or
\* its 60 seconds are over.
THEOREM AnsweredUnlessLate == Spec => []UnansweredOnlyLate
<1>1. BeastInv => UnansweredOnlyLate
  BY DEF BeastInv, AnswerInv, UnansweredOnlyLate, Alive
<1> QED
  BY <1>1, BeastInvariant, PTL

\* The counter of request_count() counts each answered GET of /count once.
THEOREM CountExact == Spec => []CountInv
<1>1. BeastInv => CountInv
  BY DEF BeastInv
<1> QED
  BY <1>1, BeastInvariant, PTL
=============================================================================
