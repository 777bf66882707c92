--------------------------- MODULE SessionProofs ---------------------------
(***************************************************************************)
(* Proofs about the sessions of 3. AsyncServerIOservicepool and 4. Corou-  *)
(* tineAsyncServer, for any number of sessions, io_contexts and frames and *)
(* any limit of the send queue.                                            *)
(***************************************************************************)
EXTENDS CoroutineSession, SequenceTheorems, TLAPS

\* A session that StartAccept() has not made, or whose peer is not there yet.
Untouched(s) == s \notin Made \/ (s = accepting /\ acceptPc = "wait")

\* The session of the outstanding accept is one that has been made, and
\* HandleAccept() holds one when it is between Start() and insert().
AcceptInv ==
  /\ accepting # NoSession => accepting \in Made
  /\ acceptPc = "started" => accepting # NoSession

\* Nothing has happened to such a session.
FreshInv ==
  \A s \in Sessions :
    Untouched(s) =>
      /\ s \notin open /\ s \notin _sessions /\ s \notin late
      /\ read[s] = "none" /\ _send_que[s] = << >> /\ writing[s] = << >>
      /\ \A i \in DOMAIN _msg_que : _msg_que[i].session # s

\* While a body is read, its frame is the first that has not been consumed.
ReadInv ==
  \A s \in Sessions :
    read[s] = "body" => inbox[s] # << >> /\ _recv_msg_node[s] = Head(inbox[s])

\* The outstanding write is that of the front of the queue; without one an open
\* session has an empty queue.
ChainInv ==
  \A s \in Sessions :
    /\ writing[s] # << >> => _send_que[s] # << >> /\ writing[s] = <<Head(_send_que[s])>>
    /\ s \in open /\ _send_que[s] # << >> => writing[s] # << >>
    /\ Len(_send_que[s]) =< MaxSendQue + 1

\* The late ones read no more, and HandleAccept() inserts each session once.
LateInv ==
  /\ \A s \in late : ~Served(s)
  /\ acceptPc = "started" => accepting \notin late

\* Frames are numbered in the order they are sent.  Of one session, the numbers
\* increase within the replies out, the messages of the logic thread and the
\* unread frames, from each of them to the next, and up to n.
InOrder(s, out, que, box, n) ==
  /\ \A i, j \in DOMAIN out : i < j => out[i] < out[j]
  /\ \A i, j \in DOMAIN que :
       i < j /\ que[i].session = s /\ que[j].session = s => que[i].frame.n < que[j].frame.n
  /\ \A i, j \in DOMAIN box : i < j => box[i].n < box[j].n
  /\ \A i \in DOMAIN out : \A j \in DOMAIN que :
       que[j].session = s => out[i] < que[j].frame.n
  /\ \A i \in DOMAIN out : \A j \in DOMAIN box : out[i] < box[j].n
  /\ \A i \in DOMAIN que : \A j \in DOMAIN box :
       que[i].session = s => que[i].frame.n < box[j].n
  /\ \A i \in DOMAIN out : out[i] =< n
  /\ \A i \in DOMAIN que : que[i].frame.n =< n
  /\ \A i \in DOMAIN box : box[i].n =< n

\* What has left and what waits to be written.
Out(s) == sent[s] \o _send_que[s]

OrderInv == \A s \in Sessions : InOrder(s, Out(s), _msg_que, inbox[s], frames)

\* The steps of a session, those of both servers together.
SessionStep(s) ==
  \/ \E k \in Kinds : ClientSends(s, k)
  \/ ClientLeaves(s)
  \/ HandleReadError(s) \/ HandleReadHead(s) \/ HandleReadBadHead(s) \/ HandleReadBody(s)
  \/ CoHeadTooLarge(s) \/ CoReadBody(s)
  \/ HandleWrite(s) \/ HandleWriteError(s)

\* A step is one of the acceptor, of one session or of the logic thread.
LEMMA StepCases ==
  ASSUME [CoNext]_coVars
  PROVE  \/ HandleAcceptStart \/ HandleAcceptInsert \/ HandleAcceptError
         \/ (\E s \in Sessions : SessionStep(s)) \/ DealMsg
         \/ UNCHANGED vars
<1>1. CASE UNCHANGED coVars
  BY <1>1 DEF coVars
<1>2. CASE CoNext
  <2>1. ASSUME NEW s \in Sessions, Client(s) \/ AnyHandler(s) PROVE SessionStep(s)
    BY <2>1 DEF Client, AnyHandler, Handler, CoHandler, CoReadHead, CoHeadNoLength,
                CoReadError, CoHandleWrite, SessionStep
  <2> QED
    BY <1>2, <2>1 DEF CoNext
<1> QED
  BY <1>1, <1>2

-----------------------------------------------------------------------------
(* Accepting                                                               *)

LEMMA FreshIsNew ==
  ASSUME Made # Sessions
  PROVE  fresh(Made) \in Sessions \ Made
BY DEF Made, fresh

\* StartAccept() makes one session that did not exist before, or none.
LEMMA AcceptNextMakes ==
  ASSUME TypeOK, AcceptNext
  PROVE  /\ acceptPc' = "wait"
         /\ _nextIOService' \in 0..(NumServices - 1)
         /\ ioOf' \in [Sessions -> -1..(NumServices - 1)]
         /\ \/ accepting' = NoSession /\ Made' = Made
            \/ accepting' \in Sessions \ Made /\ Made' = Made \cup {accepting'}
<1>1. CASE StartAccept
  <2>1. fresh(Made) \in Sessions \ Made
    BY <1>1, FreshIsNew DEF StartAccept
  <2>2. _nextIOService' \in 0..(NumServices - 1)
    BY <1>1, SessionAssumption DEF StartAccept, advance, TypeOK
  <2>3. ioOf' = [ioOf EXCEPT ![fresh(Made)] = _nextIOService]
    BY <1>1 DEF StartAccept
  <2>4. ioOf' \in [Sessions -> -1..(NumServices - 1)]
    BY <2>1, <2>3, SessionAssumption DEF TypeOK
  <2>5. Made' = Made \cup {fresh(Made)}
    <3> DEFINE f == fresh(Made)
    <3>1. f \in Sessions /\ ioOf' = [ioOf EXCEPT ![f] = _nextIOService]
      BY <2>1, <2>3
    <3>2. _nextIOService >= 0 /\ ioOf \in [Sessions -> -1..(NumServices - 1)]
      BY SessionAssumption DEF TypeOK
    <3> HIDE DEF f
    <3>3. Made' = Made \cup {f}
      BY <3>1, <3>2 DEF Made
    <3> QED
      BY <3>3 DEF f
  <2> QED
    BY <1>1, <2>1, <2>2, <2>4, <2>5 DEF StartAccept
<1>2. CASE LastAccept
  BY <1>2 DEF LastAccept, TypeOK, Made
<1> QED
  BY <1>1, <1>2 DEF AcceptNext

-----------------------------------------------------------------------------
(* Sequences                                                               *)

LEMMA TailElements ==
  ASSUME NEW S, NEW q \in Seq(S), q # << >>
  PROVE  /\ Tail(q) \in Seq(S) /\ Len(Tail(q)) = Len(q) - 1
         /\ \A i \in DOMAIN Tail(q) : i + 1 \in DOMAIN q /\ Tail(q)[i] = q[i + 1]
<1>1. /\ Tail(q) \in Seq(S) /\ Len(Tail(q)) = Len(q) - 1
      /\ \A i \in 1..Len(Tail(q)) : Tail(q)[i] = q[i + 1]
  BY HeadTailProperties
<1>2. DOMAIN q = 1..Len(q) /\ DOMAIN Tail(q) = 1..Len(Tail(q)) /\ Len(q) \in Nat
  BY <1>1, LenProperties
<1> QED
  BY <1>1, <1>2

\* The elements of an extended sequence are the old ones and the new one.
LEMMA AppendElements ==
  ASSUME NEW S, NEW q \in Seq(S), NEW e \in S
  PROVE  /\ Append(q, e) \in Seq(S) /\ Len(Append(q, e)) = Len(q) + 1
         /\ \A i \in DOMAIN Append(q, e) :
              \/ i \in DOMAIN q /\ Append(q, e)[i] = q[i]
              \/ i = Len(q) + 1 /\ Append(q, e)[i] = e
<1>1. DOMAIN q = 1..Len(q) /\ DOMAIN Append(q, e) = 1..Len(Append(q, e)) /\ Len(q) \in Nat
  BY AppendProperties, LenProperties
<1> QED
  BY <1>1, AppendProperties

-----------------------------------------------------------------------------
(* Types                                                                   *)

LEMMA DoomTyped ==
  ASSUME TypeOK, NEW s \in Sessions, NEW op \in {"read", "write"}
  PROVE  doom(s, op) \subseteq Sessions \X {"read", "write"}
BY DEF doom, TypeOK

\* Send() keeps the types of the queue and of the write it starts.
LEMMA SendTyped ==
  ASSUME TypeOK, NEW s \in Sessions, NEW r \in 1..MaxFrames, Send(s, r)
  PROVE  /\ _send_que' \in [Sessions -> Seq(1..MaxFrames)]
         /\ writing' \in [Sessions -> Seq(1..MaxFrames)]
         /\ doomed' \subseteq Sessions \X {"read", "write"}
<1>1. CASE full(s)
  BY <1>1 DEF Send, TypeOK
<1>2. CASE ~full(s)
  <2> DEFINE que == Append(_send_que[s], r)
  <2>0. _send_que[s] \in Seq(1..MaxFrames) /\ writing[s] \in Seq(1..MaxFrames)
    BY DEF TypeOK
  <2>1. que \in Seq(1..MaxFrames) /\ que # << >> /\ Head(que) \in 1..MaxFrames
    <3>1. que \in Seq(1..MaxFrames) /\ que # << >>
      BY <2>0, AppendProperties
    <3> HIDE DEF que
    <3> QED
      BY <3>1, HeadTailProperties
  <2>2. _send_que' = [_send_que EXCEPT ![s] = que]
    BY <1>2 DEF Send
  <2>3. CASE idle(s)
    <3>1. writing' = [writing EXCEPT ![s] = Append(@, Head(que))] /\ doomed' = doom(s, "write")
      BY <1>2, <2>3 DEF Send
    <3> HIDE DEF que
    <3>2. Append(writing[s], Head(que)) \in Seq(1..MaxFrames)
      BY <2>0, <2>1, AppendProperties
    <3> QED
      BY <2>1, <2>2, <3>1, <3>2, DoomTyped DEF TypeOK
  <2>4. CASE ~idle(s)
    <3>1. UNCHANGED <<writing, doomed>>
      BY <1>2, <2>4 DEF Send
    <3> HIDE DEF que
    <3> QED
      BY <2>1, <2>2, <3>1 DEF TypeOK
  <2> QED
    BY <2>3, <2>4
<1> QED
  BY <1>1, <1>2

\* DealMsg() takes a message of the right type and keeps the types.
LEMMA DealMsgTyped ==
  ASSUME TypeOK, DealMsg
  PROVE  /\ Head(_msg_que) \in [session : Sessions, frame : Frames]
         /\ _msg_que' \in Seq([session : Sessions, frame : Frames])
         /\ _send_que' \in [Sessions -> Seq(1..MaxFrames)]
         /\ writing' \in [Sessions -> Seq(1..MaxFrames)]
         /\ doomed' \subseteq Sessions \X {"read", "write"}
<1> DEFINE m == Head(_msg_que)
<1>1. m \in [session : Sessions, frame : Frames] /\ _msg_que' = Tail(_msg_que)
  BY HeadTailProperties DEF DealMsg, TypeOK
<1>2. _msg_que' \in Seq([session : Sessions, frame : Frames])
  BY HeadTailProperties DEF DealMsg, TypeOK
<1>3. m.session \in Sessions /\ m.frame.n \in 1..MaxFrames
  BY <1>1 DEF Frames
<1>4. CASE m.frame.kind = "hello"
  <2>1. Send(m.session, m.frame.n)
    BY <1>4 DEF DealMsg
  <2> HIDE DEF m
  <2> QED
    BY <1>1, <1>2, <1>3, <2>1, SendTyped DEF m
<1>5. CASE m.frame.kind # "hello"
  BY <1>1, <1>2, <1>5 DEF DealMsg, TypeOK
<1> QED
  BY <1>4, <1>5

\* All variables keep their types.
LEMMA TypeStep ==
  ASSUME TypeOK, AcceptInv, ReadInv, ChainInv, [CoNext]_coVars
  PROVE  TypeOK'
<1>1. CASE HandleAcceptStart
  BY <1>1 DEF HandleAcceptStart, TypeOK, clientVars
<1>2. CASE HandleAcceptInsert
  <2>1. accepting \in Sessions
    BY <1>2 DEF HandleAcceptInsert, AcceptInv, Made
  <2>2. late' \subseteq Sessions /\ _sessions' \subseteq Sessions
    BY <1>2, <2>1 DEF HandleAcceptInsert, TypeOK
  <2> QED
    BY <1>2, <2>2, AcceptNextMakes DEF HandleAcceptInsert, TypeOK, clientVars
<1>3. CASE HandleAcceptError
  BY <1>3, AcceptNextMakes DEF HandleAcceptError, TypeOK, clientVars
<1>4. ASSUME NEW s \in Sessions, NEW k \in Kinds, ClientSends(s, k) PROVE TypeOK'
  <2>1. [n |-> frames + 1, kind |-> k] \in Frames
    BY <1>4, SessionAssumption DEF ClientSends, TypeOK, Frames
  <2>2. inbox' \in [Sessions -> Seq(Frames)]
    BY <1>4, <2>1 DEF ClientSends, TypeOK
  <2>3. frames' \in 0..MaxFrames
    BY <1>4, SessionAssumption DEF ClientSends, TypeOK
  <2> QED
    BY <1>4, <2>2, <2>3 DEF ClientSends, TypeOK, acceptVars
<1>5. ASSUME NEW s \in Sessions, ClientLeaves(s) PROVE TypeOK'
  BY <1>5 DEF ClientLeaves, TypeOK, acceptVars
<1>6. ASSUME NEW s \in Sessions, HandleReadError(s) PROVE TypeOK'
  BY <1>6 DEF HandleReadError, CloseAndClear, TypeOK, acceptVars, clientVars
<1>7. ASSUME NEW s \in Sessions, HandleReadHead(s) PROVE TypeOK'
  <2>1. Head(inbox[s]) \in Frames
    BY <1>7 DEF HandleReadHead, HeadArrives, TypeOK
  <2> QED
    BY <1>7, <2>1, DoomTyped DEF HandleReadHead, TypeOK, acceptVars, clientVars
<1>8. ASSUME NEW s \in Sessions, HandleReadBadHead(s) PROVE TypeOK'
  BY <1>8 DEF HandleReadBadHead, CloseAndClear, TypeOK, acceptVars, clientVars
<1>9. ASSUME NEW s \in Sessions, HandleReadBody(s) \/ CoReadBody(s) PROVE TypeOK'
  <2>0. inbox[s] \in Seq(Frames) /\ inbox[s] # << >> /\ _recv_msg_node[s] = Head(inbox[s])
    BY <1>9 DEF HandleReadBody, CoReadBody, TypeOK, ReadInv
  <2>1. _recv_msg_node[s] \in Frames /\ Tail(inbox[s]) \in Seq(Frames)
    BY <2>0, HeadTailProperties
  <2>2. inbox' \in [Sessions -> Seq(Frames)]
    BY <1>9, <2>1 DEF HandleReadBody, CoReadBody, TypeOK
  <2>3. _msg_que' \in Seq([session : Sessions, frame : Frames])
    <3> DEFINE Nodes == [session : Sessions, frame : Frames]
               node == [session |-> s, frame |-> _recv_msg_node[s]]
    <3>1. node \in Nodes /\ _msg_que \in Seq(Nodes) /\ _msg_que' = Append(_msg_que, node)
      BY <1>9, <2>1 DEF HandleReadBody, CoReadBody, TypeOK
    <3> HIDE DEF Nodes, node
    <3>2. _msg_que' \in Seq(Nodes)
      BY <3>1, AppendProperties
    <3> QED
      BY <3>2 DEF Nodes
  <2>4. doomed' \subseteq Sessions \X {"read", "write"}
    BY <1>9, DoomTyped DEF HandleReadBody, CoReadBody, TypeOK
  <2>5. read' \in [Sessions -> {"none", "head", "body"}]
    BY <1>9 DEF HandleReadBody, CoReadBody, TypeOK, nextRead
  <2> QED
    BY <1>9, <2>2, <2>3, <2>4, <2>5 DEF HandleReadBody, CoReadBody, TypeOK, acceptVars
<1>10. ASSUME NEW s \in Sessions, CoHeadTooLarge(s) PROVE TypeOK'
  BY <1>10 DEF CoHeadTooLarge, TypeOK, acceptVars, clientVars
<1>11. ASSUME NEW s \in Sessions, HandleWrite(s) PROVE TypeOK'
  <2> DEFINE que == Tail(_send_que[s])
             next == IF que # << >> THEN <<Head(que)>> ELSE << >>
  <2>1. /\ writing[s] \in Seq(1..MaxFrames) /\ writing[s] # << >>
        /\ _send_que[s] \in Seq(1..MaxFrames) /\ _send_que[s] # << >>
        /\ sent[s] \in Seq(1..MaxFrames)
    BY <1>11 DEF HandleWrite, TypeOK, ChainInv
  <2>2. /\ que \in Seq(1..MaxFrames)
        /\ Head(writing[s]) \in 1..MaxFrames /\ Tail(writing[s]) \in Seq(1..MaxFrames)
    BY <2>1, HeadTailProperties
  <2>3. next \in Seq(1..MaxFrames)
    <3> HIDE DEF que
    <3>1. que # << >> => Head(que) \in 1..MaxFrames
      BY <2>2, HeadTailProperties
    <3>2. CASE que = << >>
      BY <3>2
    <3>3. CASE que # << >>
      <4>1. next = <<Head(que)>> /\ Head(que) \in 1..MaxFrames
        BY <3>1, <3>3
      <4> HIDE DEF next
      <4> QED
        BY <4>1
    <3> QED
      BY <3>2, <3>3
  <2>4. /\ Append(sent[s], Head(writing[s])) \in Seq(1..MaxFrames)
        /\ Tail(writing[s]) \o next \in Seq(1..MaxFrames)
    <3> HIDE DEF next
    <3> QED
      BY <2>1, <2>2, <2>3, AppendProperties, ConcatProperties
  <2>5. /\ sent' = [sent EXCEPT ![s] = Append(@, Head(writing[s]))]
        /\ _send_que' = [_send_que EXCEPT ![s] = que]
        /\ writing' = [writing EXCEPT ![s] = Tail(@) \o next]
        /\ doomed' = IF que # << >> THEN doom(s, "write") ELSE doomed
    BY <1>11 DEF HandleWrite, popped, more
  <2> HIDE DEF que, next
  <2>6. /\ sent' \in [Sessions -> Seq(1..MaxFrames)]
        /\ _send_que' \in [Sessions -> Seq(1..MaxFrames)]
        /\ writing' \in [Sessions -> Seq(1..MaxFrames)]
    BY <2>2, <2>4, <2>5 DEF TypeOK
  <2>7. doomed' \subseteq Sessions \X {"read", "write"}
    BY <2>5, DoomTyped DEF TypeOK
  <2> QED
    BY <1>11, <2>6, <2>7 DEF HandleWrite, TypeOK, acceptVars, clientVars
<1>12. ASSUME NEW s \in Sessions, HandleWriteError(s) PROVE TypeOK'
  <2>1. Tail(writing[s]) \in Seq(1..MaxFrames)
    BY <1>12, HeadTailProperties DEF HandleWriteError, TypeOK
  <2> QED
    BY <1>12, <2>1 DEF HandleWriteError, CloseAndClear, TypeOK, acceptVars, clientVars
<1>13. CASE DealMsg
  BY <1>13, DealMsgTyped DEF DealMsg, TypeOK, acceptVars, clientVars
<1>14. CASE UNCHANGED vars
  BY <1>14 DEF vars, TypeOK, acceptVars, clientVars
<1> QED
  BY <1>1, <1>2, <1>3, <1>4, <1>5, <1>6, <1>7, <1>8, <1>9, <1>10, <1>11, <1>12, <1>13, <1>14,
     StepCases DEF SessionStep

-----------------------------------------------------------------------------
(* Sessions without a peer                                                 *)

LEMMA AcceptVarsKept ==
  ASSUME UNCHANGED acceptVars
  PROVE  Made' = Made /\ (AcceptInv => AcceptInv') /\ \A s : Untouched(s)' <=> Untouched(s)
BY DEF acceptVars, Made, AcceptInv, Untouched

\* No handler of a session touches the acceptor.
LEMMA SessionStepKeeps ==
  ASSUME NEW s, SessionStep(s)
  PROVE  UNCHANGED acceptVars
<1>1. ASSUME NEW k \in Kinds, ClientSends(s, k) PROVE UNCHANGED acceptVars
  BY <1>1 DEF ClientSends
<1>2. CASE ClientLeaves(s)
  BY <1>2 DEF ClientLeaves
<1> QED
  BY <1>1, <1>2 DEF SessionStep, HandleReadError, HandleReadHead, HandleReadBadHead,
    HandleReadBody, CoHeadTooLarge, CoReadBody, HandleWrite, HandleWriteError

\* Only a session with a peer takes steps.
LEMMA SessionStepTouched ==
  ASSUME FreshInv, NEW s \in Sessions, SessionStep(s)
  PROVE  ~Untouched(s)
<1>1. ASSUME NEW k \in Kinds, ClientSends(s, k) PROVE ~Untouched(s)
  BY <1>1 DEF ClientSends, Connected, Untouched
<1>2. CASE ClientLeaves(s)
  BY <1>2 DEF ClientLeaves, Connected, Untouched
<1>3. CASE \/ HandleReadError(s) \/ HandleReadHead(s) \/ HandleReadBadHead(s)
           \/ HandleReadBody(s) \/ CoHeadTooLarge(s) \/ CoReadBody(s)
  <2>1. read[s] # "none"
    BY <1>3 DEF HandleReadError, HandleReadHead, HandleReadBadHead, HandleReadBody,
                CoHeadTooLarge, CoReadBody, HeadArrives
  <2> QED
    BY <2>1 DEF FreshInv
<1>4. CASE HandleWrite(s) \/ HandleWriteError(s)
  <2>1. writing[s] # << >>
    BY <1>4 DEF HandleWrite, HandleWriteError
  <2> QED
    BY <2>1 DEF FreshInv
<1> QED
  BY <1>1, <1>2, <1>3, <1>4 DEF SessionStep

\* The acceptor holds one new session, counted as made.
LEMMA AcceptInvStep ==
  ASSUME TypeOK, AcceptInv, [CoNext]_coVars
  PROVE  AcceptInv'
<1>1. CASE HandleAcceptStart
  BY <1>1 DEF HandleAcceptStart, AcceptInv, Made
<1>2. CASE HandleAcceptInsert \/ HandleAcceptError
  <2>1. AcceptNext
    BY <1>2 DEF HandleAcceptInsert, HandleAcceptError
  <2> QED
    BY <2>1, AcceptNextMakes DEF AcceptInv
<1>3. ASSUME NEW s \in Sessions, SessionStep(s) PROVE AcceptInv'
  BY <1>3, SessionStepKeeps, AcceptVarsKept
<1>4. CASE DealMsg \/ UNCHANGED vars
  BY <1>4, AcceptVarsKept DEF DealMsg, vars
<1> QED
  BY <1>1, <1>2, <1>3, <1>4, StepCases

\* What a step of session s does to another session: nothing.
LEMMA OthersKept ==
  ASSUME TypeOK, NEW s \in Sessions, SessionStep(s), NEW t \in Sessions, t # s
  PROVE  /\ t \in open' <=> t \in open
         /\ t \in _sessions' <=> t \in _sessions
         /\ t \in late' <=> t \in late
         /\ read'[t] = read[t] /\ _recv_msg_node'[t] = _recv_msg_node[t]
         /\ inbox'[t] = inbox[t] /\ _send_que'[t] = _send_que[t]
         /\ writing'[t] = writing[t] /\ sent'[t] = sent[t]
<1> USE DEF TypeOK
<1>1. ASSUME NEW k \in Kinds, ClientSends(s, k) PROVE inbox'[t] = inbox[t]
  BY <1>1 DEF ClientSends
<1>2. ASSUME NEW k \in Kinds, ClientSends(s, k)
      PROVE UNCHANGED <<open, _sessions, late, read, _recv_msg_node, _send_que, writing, sent>>
  BY <1>2 DEF ClientSends
<1>3. CASE ClientLeaves(s)
  BY <1>3 DEF ClientLeaves
<1>4. CASE HandleReadError(s)
  BY <1>4 DEF HandleReadError, CloseAndClear, clientVars
<1>5. CASE HandleReadHead(s)
  BY <1>5 DEF HandleReadHead, clientVars
<1>6. CASE HandleReadBadHead(s)
  BY <1>6 DEF HandleReadBadHead, CloseAndClear, clientVars
<1>7. CASE HandleReadBody(s)
  BY <1>7 DEF HandleReadBody
<1>8. CASE CoHeadTooLarge(s)
  BY <1>8 DEF CoHeadTooLarge, clientVars
<1>9. CASE CoReadBody(s)
  BY <1>9 DEF CoReadBody
<1>10. CASE HandleWrite(s)
  BY <1>10 DEF HandleWrite, clientVars
<1>11. CASE HandleWriteError(s)
  BY <1>11 DEF HandleWriteError, CloseAndClear, clientVars
<1> QED
  BY <1>1, <1>2, <1>3, <1>4, <1>5, <1>6, <1>7, <1>8, <1>9, <1>10, <1>11 DEF SessionStep

\* The queue of the logic thread grows only by a body that has been read.
LEMMA MsgQueStep ==
  ASSUME NEW s, SessionStep(s)
  PROVE  \/ UNCHANGED _msg_que
         \/ _msg_que' = Append(_msg_que, [session |-> s, frame |-> _recv_msg_node[s]])
            /\ (HandleReadBody(s) \/ CoReadBody(s))
<1>1. ASSUME NEW k \in Kinds, ClientSends(s, k) PROVE UNCHANGED _msg_que
  BY <1>1 DEF ClientSends
<1> QED
  BY <1>1 DEF SessionStep, ClientLeaves, HandleReadError, HandleReadHead, HandleReadBadHead,
    HandleReadBody, CoHeadTooLarge, CoReadBody, HandleWrite, HandleWriteError

\* DealMsg() as a step of the session of the first message.
LEMMA DealMsgSends ==
  ASSUME TypeOK, DealMsg, NEW m, m = Head(_msg_que)
  PROVE  /\ m.session \in Sessions /\ m.frame.n \in 1..MaxFrames
         /\ _msg_que # << >> /\ m = _msg_que[1]
         /\ Send(m.session, m.frame.n) \/ UNCHANGED <<_send_que, writing, doomed>>
<1>1. m \in [session : Sessions, frame : Frames]
  BY DealMsgTyped
<1>2. m.session \in Sessions /\ m.frame.n \in 1..MaxFrames
  BY <1>1 DEF Frames
<1> QED
  BY <1>2 DEF DealMsg, TypeOK

\* Send() of one session leaves the queues of the others alone.
LEMMA SendOthersKept ==
  ASSUME TypeOK, NEW s \in Sessions, NEW r, Send(s, r), NEW t \in Sessions, t # s
  PROVE  _send_que'[t] = _send_que[t] /\ writing'[t] = writing[t]
BY DEF Send, TypeOK

\* A session that has not been started yet is untouched.
LEMMA FreshInvStep ==
  ASSUME TypeOK, AcceptInv, FreshInv, [CoNext]_coVars
  PROVE  FreshInv'
<1>1. CASE HandleAcceptStart
  <2> SUFFICES ASSUME NEW t \in Sessions, Untouched(t)' PROVE t # accepting /\ Untouched(t)
    BY <1>1 DEF HandleAcceptStart, FreshInv, TypeOK
  <2> QED
    BY <1>1 DEF HandleAcceptStart, Untouched, Made, AcceptInv
<1>2. CASE HandleAcceptInsert \/ HandleAcceptError
  <2> SUFFICES ASSUME NEW t \in Sessions, Untouched(t)'
               PROVE  Untouched(t) /\ (HandleAcceptInsert => t # accepting)
    BY <1>2 DEF HandleAcceptInsert, HandleAcceptError, FreshInv
  <2>1. AcceptNext
    BY <1>2 DEF HandleAcceptInsert, HandleAcceptError
  <2>2. t \notin Made
    BY <2>1, AcceptNextMakes, SessionAssumption DEF Untouched
  <2>3. HandleAcceptInsert => accepting \in Made
    BY DEF HandleAcceptInsert, AcceptInv
  <2> QED
    BY <2>2, <2>3 DEF Untouched
<1>3. ASSUME NEW s \in Sessions, SessionStep(s) PROVE FreshInv'
  <2> SUFFICES ASSUME NEW t \in Sessions, Untouched(t)'
               PROVE  /\ t \notin open' /\ t \notin _sessions' /\ t \notin late'
                      /\ read'[t] = "none" /\ _send_que'[t] = << >> /\ writing'[t] = << >>
                      /\ \A i \in DOMAIN _msg_que' : _msg_que'[i].session # t
    BY DEF FreshInv
  <2>1. Untouched(t)
    BY <1>3, SessionStepKeeps, AcceptVarsKept
  <2>2. t # s
    BY <1>3, <2>1, SessionStepTouched
  <2>3. \A i \in DOMAIN _msg_que : _msg_que[i].session # t
    BY <2>1 DEF FreshInv
  <2>4. \A i \in DOMAIN _msg_que' : _msg_que'[i].session # t
    <3> DEFINE new == [session |-> s, frame |-> _recv_msg_node[s]]
    <3>1. CASE UNCHANGED _msg_que
      BY <2>3, <3>1
    <3>2. CASE _msg_que' = Append(_msg_que, new)
      <4>1. new.session # t
        BY <2>2
      <4>2. _msg_que \in Seq([session : Sessions, frame : Frames])
        BY DEF TypeOK
      <4> HIDE DEF new
      <4> QED
        BY <2>3, <3>2, <4>1, <4>2
    <3> QED
      BY <1>3, <3>1, <3>2, MsgQueStep
  <2> QED
    BY <1>3, <2>1, <2>2, <2>4, OthersKept DEF FreshInv
<1>4. CASE DealMsg
  <2> DEFINE m == Head(_msg_que)
  <2>1. /\ m.session \in Sessions /\ _msg_que # << >> /\ m = _msg_que[1]
        /\ Send(m.session, m.frame.n) \/ UNCHANGED <<_send_que, writing, doomed>>
    BY <1>4, DealMsgSends
  <2>2. /\ UNCHANGED <<acceptVars, open, _sessions, late, read>>
        /\ _msg_que' = Tail(_msg_que)
    BY <1>4 DEF DealMsg
  <2> HIDE DEF m
  <2> SUFFICES ASSUME NEW t \in Sessions, Untouched(t)
               PROVE  /\ _send_que'[t] = _send_que[t] /\ writing'[t] = writing[t]
                      /\ \A i \in DOMAIN _msg_que' : _msg_que'[i].session # t
    BY <2>2, AcceptVarsKept DEF FreshInv
  <2>3. _msg_que \in Seq([session : Sessions, frame : Frames])
    BY DEF TypeOK
  <2>4. \A i \in DOMAIN _msg_que : _msg_que[i].session # t
    BY DEF FreshInv
  <2>5. \A i \in DOMAIN _msg_que' : _msg_que'[i].session # t
    <3>1. \A i \in DOMAIN _msg_que' : i + 1 \in DOMAIN _msg_que /\ _msg_que'[i] = _msg_que[i + 1]
      BY <2>1, <2>2, <2>3, TailElements
    <3> QED
      BY <2>4, <3>1
  <2>6. m.session # t
    BY <2>1, <2>3, <2>4
  <2> QED
    BY <2>1, <2>5, <2>6, SendOthersKept
<1>5. CASE UNCHANGED vars
  BY <1>5 DEF vars, acceptVars, FreshInv, Untouched, Made
<1> QED
  BY <1>1, <1>2, <1>3, <1>4, <1>5, StepCases

\* While a body is read, its frame stays the first that has not been consumed.
LEMMA ReadInvStep ==
  ASSUME TypeOK, FreshInv, ReadInv, [CoNext]_coVars
  PROVE  ReadInv'
<1>1. CASE HandleAcceptStart
  BY <1>1 DEF HandleAcceptStart, ReadInv, TypeOK, clientVars
<1>2. CASE HandleAcceptInsert \/ HandleAcceptError \/ DealMsg \/ UNCHANGED vars
  BY <1>2 DEF HandleAcceptInsert, HandleAcceptError, DealMsg, vars, ReadInv, clientVars
<1>3. ASSUME NEW s \in Sessions, SessionStep(s) PROVE ReadInv'
  <2> SUFFICES ASSUME NEW t \in Sessions, read'[t] = "body"
               PROVE  inbox'[t] # << >> /\ _recv_msg_node'[t] = Head(inbox'[t])
    BY DEF ReadInv
  <2>1. CASE t # s
    BY <1>3, <2>1, OthersKept DEF ReadInv
  <2>2. CASE t = s
    <3>1. ASSUME NEW k \in Kinds, ClientSends(s, k)
          PROVE  inbox'[s] # << >> /\ _recv_msg_node'[s] = Head(inbox'[s])
      <4> DEFINE new == [n |-> frames + 1, kind |-> k]
      <4>1. /\ inbox'[s] = Append(inbox[s], new) /\ UNCHANGED <<read, _recv_msg_node>>
        BY <3>1 DEF ClientSends, TypeOK
      <4>2. inbox[s] \in Seq(Frames) /\ inbox[s] # << >> /\ _recv_msg_node[s] = Head(inbox[s])
        BY <2>2, <4>1 DEF ReadInv, TypeOK
      <4> HIDE DEF new
      <4> QED
        BY <4>1, <4>2
    <3>2. CASE ClientLeaves(s) \/ HandleWrite(s) \/ HandleWriteError(s)
      BY <2>2, <3>2 DEF ClientLeaves, HandleWrite, HandleWriteError, ReadInv, clientVars
    <3>3. CASE HandleReadHead(s)
      BY <2>2, <3>3 DEF HandleReadHead, HeadArrives, TypeOK, clientVars
    <3>4. CASE \/ HandleReadError(s) \/ HandleReadBadHead(s) \/ HandleReadBody(s)
               \/ CoHeadTooLarge(s) \/ CoReadBody(s)
      <4>1. read'[s] # "body"
        BY <3>4 DEF HandleReadError, HandleReadBadHead, HandleReadBody, CoHeadTooLarge,
                    CoReadBody, TypeOK, nextRead
      <4> QED
        BY <2>2, <4>1
    <3> QED
      BY <1>3, <2>2, <3>1, <3>2, <3>3, <3>4 DEF SessionStep
  <2> QED
    BY <2>1, <2>2
<1> QED
  BY <1>1, <1>2, <1>3, StepCases

-----------------------------------------------------------------------------
(* The chain of writes                                                     *)

\* The conjuncts of ChainInv for one session.
Chained(s) ==
  /\ writing[s] # << >> => _send_que[s] # << >> /\ writing[s] = <<Head(_send_que[s])>>
  /\ s \in open /\ _send_que[s] # << >> => writing[s] # << >>
  /\ Len(_send_que[s]) =< MaxSendQue + 1

\* Send() starts a write exactly when the queue was empty.
LEMMA SendChained ==
  ASSUME TypeOK, NEW s \in Sessions, NEW r \in 1..MaxFrames, Chained(s), Send(s, r),
         UNCHANGED open
  PROVE  Chained(s)'
<1>1. CASE full(s)
  BY <1>1 DEF Send, Chained
<1>2. CASE ~full(s)
  <2> DEFINE que == Append(_send_que[s], r)
  <2>1. _send_que[s] \in Seq(1..MaxFrames) /\ writing[s] \in Seq(1..MaxFrames)
    BY DEF TypeOK
  <2>2. /\ que # << >> /\ Len(que) = Len(_send_que[s]) + 1
        /\ Head(que) = IF _send_que[s] = << >> THEN r ELSE Head(_send_que[s])
    <3>1. /\ Len(que) = Len(_send_que[s]) + 1 /\ que # << >>
          /\ que[1] = IF Len(_send_que[s]) = 0 THEN r ELSE _send_que[s][1]
      <4>1. Len(_send_que[s]) \in Nat
        BY <2>1
      <4>2. \A q \in Seq(1..MaxFrames) :
              /\ Append(q, r) # << >> /\ Len(Append(q, r)) = Len(q) + 1
              /\ \A i \in 1..Len(q) : Append(q, r)[i] = q[i]
              /\ Append(q, r)[Len(q) + 1] = r
        BY AppendProperties
      <4> QED
        BY <2>1, <4>1, <4>2
    <3>2. Head(que) = que[1]
      OBVIOUS
    <3>3. Len(_send_que[s]) = 0 <=> _send_que[s] = << >>
      BY <2>1, EmptySeq
    <3>4. Head(_send_que[s]) = _send_que[s][1]
      OBVIOUS
    <3> QED
      BY <3>1, <3>2, <3>3, <3>4
  <2>3. Len(que) =< MaxSendQue + 1
    BY <1>2, <2>1, <2>2, SessionAssumption DEF full
  <2>4. _send_que'[s] = que
    BY <1>2 DEF Send, TypeOK
  <2>5. CASE idle(s)
    <3>1. writing'[s] = Append(writing[s], Head(que)) /\ writing[s] = << >>
      BY <1>2, <2>5 DEF Send, TypeOK, Chained, idle
    <3> HIDE DEF que
    <3> QED
      BY <2>2, <2>3, <2>4, <3>1 DEF Chained
  <2>6. CASE ~idle(s)
    <3>1. writing' = writing /\ _send_que[s] # << >>
      BY <1>2, <2>6 DEF Send, idle
    <3> HIDE DEF que
    <3> QED
      BY <2>2, <2>3, <2>4, <3>1 DEF Chained
  <2> QED
    BY <2>5, <2>6
<1> QED
  BY <1>1, <1>2

\* HandleWrite() starts the next write exactly when something is left.
LEMMA WriteChained ==
  ASSUME TypeOK, NEW s \in Sessions, Chained(s), HandleWrite(s)
  PROVE  Chained(s)'
<1> DEFINE que == Tail(_send_que[s])
<1>1. /\ _send_que[s] \in Seq(1..MaxFrames) /\ _send_que[s] # << >>
      /\ writing[s] = <<Head(_send_que[s])>>
  BY DEF TypeOK, Chained, HandleWrite
<1>2. que \in Seq(1..MaxFrames) /\ Len(que) = Len(_send_que[s]) - 1
  BY <1>1, TailElements
<1>3. _send_que'[s] = que
  BY DEF HandleWrite, popped, TypeOK
<1>4. writing'[s] = Tail(writing[s]) \o (IF que # << >> THEN <<Head(que)>> ELSE << >>)
  BY DEF HandleWrite, popped, more, TypeOK
<1>5. Tail(writing[s]) = << >>
  BY <1>1
<1>6. Len(que) =< MaxSendQue + 1
  BY <1>1, <1>2, SessionAssumption DEF Chained
<1> HIDE DEF que
<1>7. writing'[s] = IF que # << >> THEN <<Head(que)>> ELSE << >>
  <2>1. CASE que # << >>
    <3>1. <<Head(que)>> \in Seq({Head(que)})
      OBVIOUS
    <3> QED
      BY <1>4, <1>5, <2>1, <3>1, ConcatEmptySeq
  <2>2. CASE que = << >>
    BY <1>2, <1>4, <1>5, <2>2, ConcatEmptySeq
  <2> QED
    BY <2>1, <2>2
<1> QED
  BY <1>3, <1>6, <1>7 DEF Chained

\* Every handler keeps the write under way equal to the front of the queue.
LEMMA ChainInvStep ==
  ASSUME TypeOK, FreshInv, ChainInv, AcceptInv, [CoNext]_coVars
  PROVE  ChainInv'
<1> SUFFICES ASSUME NEW t \in Sessions PROVE Chained(t)'
  BY DEF ChainInv, Chained
<1>0. Chained(t)
  BY DEF ChainInv, Chained
<1>1. CASE HandleAcceptStart
  <2>1. Untouched(accepting) /\ accepting \in Sessions
    BY <1>1 DEF HandleAcceptStart, Untouched, TypeOK
  <2> QED
    BY <1>0, <1>1, <2>1 DEF HandleAcceptStart, Chained, FreshInv
<1>2. CASE HandleAcceptInsert \/ HandleAcceptError \/ UNCHANGED vars
  BY <1>0, <1>2 DEF HandleAcceptInsert, HandleAcceptError, vars, Chained
<1>3. ASSUME NEW s \in Sessions, SessionStep(s) PROVE Chained(t)'
  <2>1. CASE t # s
    BY <1>0, <1>3, <2>1, OthersKept DEF Chained
  <2>2. CASE t = s
    <3>1. ASSUME NEW k \in Kinds, ClientSends(s, k) PROVE Chained(s)'
      BY <1>0, <2>2, <3>1 DEF ClientSends, Chained
    <3>2. CASE ClientLeaves(s) \/ HandleReadHead(s) \/ HandleReadBody(s) \/ CoHeadTooLarge(s)
               \/ CoReadBody(s)
      BY <1>0, <2>2, <3>2 DEF ClientLeaves, HandleReadHead, HandleReadBody, CoHeadTooLarge,
                              CoReadBody, Chained
    <3>3. CASE HandleReadError(s) \/ HandleReadBadHead(s)
      BY <1>0, <2>2, <3>3 DEF HandleReadError, HandleReadBadHead, CloseAndClear, Chained
    <3>4. CASE HandleWrite(s)
      BY <1>0, <2>2, <3>4, WriteChained
    <3>5. CASE HandleWriteError(s)
      <4>1. writing'[s] = Tail(writing[s]) /\ writing[s] = <<Head(_send_que[s])>>
        BY <1>0, <2>2, <3>5 DEF HandleWriteError, Chained, TypeOK
      <4>2. writing'[s] = << >>
        BY <4>1
      <4> QED
        BY <1>0, <2>2, <3>5, <4>2 DEF HandleWriteError, CloseAndClear, Chained
    <3> QED
      BY <1>3, <2>2, <3>1, <3>2, <3>3, <3>4, <3>5 DEF SessionStep
  <2> QED
    BY <2>1, <2>2
<1>4. CASE DealMsg
  <2> DEFINE m == Head(_msg_que)
  <2>1. /\ m.session \in Sessions /\ m.frame.n \in 1..MaxFrames
        /\ Send(m.session, m.frame.n) \/ UNCHANGED <<_send_que, writing, doomed>>
    BY <1>4, DealMsgSends
  <2>2. UNCHANGED open
    BY <1>4 DEF DealMsg
  <2> HIDE DEF m
  <2>3. CASE UNCHANGED <<_send_que, writing, doomed>>
    BY <1>0, <2>2, <2>3 DEF Chained
  <2>4. CASE Send(m.session, m.frame.n)
    <3>1. CASE t = m.session
      BY <1>0, <2>1, <2>2, <2>4, <3>1, SendChained
    <3>2. CASE t # m.session
      BY <1>0, <2>1, <2>2, <2>4, <3>2, SendOthersKept DEF Chained
    <3> QED
      BY <3>1, <3>2
  <2> QED
    BY <2>1, <2>3, <2>4
<1> QED
  BY <1>1, <1>2, <1>3, <1>4, StepCases

-----------------------------------------------------------------------------
(* The map of sessions                                                     *)

RegistryInv == RegistryMatches /\ LateInv

\* Every step keeps the map of sessions equal to the sessions it must hold.
LEMMA RegistryInvStep ==
  ASSUME TypeOK, FreshInv, AcceptInv, ReadInv, ChainInv, RegistryInv, [CoNext]_coVars
  PROVE  RegistryInv'
<1> USE DEF RegistryInv, RegistryMatches, LateInv, Served
<1>1. CASE HandleAcceptStart
  <2>1. Untouched(accepting) /\ accepting \in Sessions
    BY <1>1 DEF HandleAcceptStart, Untouched, TypeOK
  <2> QED
    BY <1>1, <2>1 DEF HandleAcceptStart, FreshInv, TypeOK
<1>2. CASE HandleAcceptInsert
  <2>1. /\ accepting \in Made /\ accepting \in Sessions
        /\ acceptPc' = "wait" /\ accepting' # accepting
    BY <1>2, AcceptNextMakes, SessionAssumption DEF HandleAcceptInsert, AcceptInv, Made
  <2>2. /\ _sessions' = _sessions \cup {accepting} /\ acceptPc = "started"
        /\ late' = IF Served(accepting) THEN late ELSE late \cup {accepting}
        /\ UNCHANGED <<open, read>>
    BY <1>2 DEF HandleAcceptInsert
  <2> QED
    BY <2>1, <2>2
<1>3. CASE HandleAcceptError
  <2>1. acceptPc' = "wait" /\ acceptPc = "wait" /\ UNCHANGED <<open, read, _sessions, late>>
    BY <1>3, AcceptNextMakes DEF HandleAcceptError
  <2> QED
    BY <2>1
<1>4. ASSUME NEW s \in Sessions, SessionStep(s) PROVE RegistryInv'
  <2>1. ~Untouched(s) /\ UNCHANGED <<accepting, acceptPc>>
    BY <1>4, SessionStepTouched, SessionStepKeeps DEF acceptVars
  <2>2. ASSUME NEW t \in Sessions, t # s
        PROVE  /\ t \in open' <=> t \in open
               /\ t \in _sessions' <=> t \in _sessions
               /\ t \in late' <=> t \in late
               /\ read'[t] = read[t]
    BY <1>4, <2>2, OthersKept
  <2>3. \/ (s \in open' <=> s \in open) /\ (read'[s] = "none" <=> read[s] = "none")
           /\ UNCHANGED <<_sessions, late>>
        \/ s \notin open /\ UNCHANGED <<open, _sessions, late>>
        \/ (s \notin open' \/ read'[s] = "none") /\ s \notin _sessions' /\ s \notin late'
    <3>1. ASSUME NEW k \in Kinds, ClientSends(s, k) PROVE UNCHANGED <<open, read, _sessions, late>>
      BY <3>1 DEF ClientSends
    <3>2. CASE ClientLeaves(s) \/ HandleWrite(s)
      BY <3>2 DEF ClientLeaves, HandleWrite
    <3>3. CASE HandleReadHead(s)
      BY <3>3 DEF HandleReadHead, HeadArrives, TypeOK
    <3>4. CASE HandleReadBody(s)
      BY <3>4 DEF HandleReadBody, nextRead, TypeOK
    <3>5. CASE CoReadBody(s)
      BY <3>5 DEF CoReadBody, goesOn, TypeOK
    <3>6. CASE CoHeadTooLarge(s)
      BY <3>6 DEF CoHeadTooLarge, TypeOK
    <3>7. CASE HandleReadError(s) \/ HandleReadBadHead(s) \/ HandleWriteError(s)
      BY <3>7 DEF HandleReadError, HandleReadBadHead, HandleWriteError, CloseAndClear
    <3> QED
      BY <1>4, <3>1, <3>2, <3>3, <3>4, <3>5, <3>6, <3>7 DEF SessionStep
  <2>4. late \subseteq Sessions /\ late' \subseteq Sessions
    BY <1>4, <2>2, TypeStep DEF TypeOK
  <2> QED
    BY <2>1, <2>2, <2>3, <2>4
<1>5. CASE DealMsg \/ UNCHANGED vars
  BY <1>5 DEF DealMsg, vars, acceptVars
<1> QED
  BY <1>1, <1>2, <1>3, <1>4, <1>5, StepCases

-----------------------------------------------------------------------------
(* The order of the replies                                                *)

Messages == [session : Sessions, frame : Frames]

\* Frames, replies and messages carry frame numbers.
LEMMA ElementsTyped ==
  ASSUME NEW out \in Seq(1..MaxFrames), NEW que \in Seq(Messages), NEW box \in Seq(Frames)
  PROVE  /\ \A i \in DOMAIN box : box[i].n \in 1..MaxFrames
         /\ \A i \in DOMAIN out : out[i] \in 1..MaxFrames
         /\ \A i \in DOMAIN que : que[i].frame.n \in 1..MaxFrames
<1>1. /\ \A i \in DOMAIN box : box[i] \in Frames
      /\ \A i \in DOMAIN out : out[i] \in 1..MaxFrames
      /\ \A i \in DOMAIN que : que[i] \in Messages
  BY LenProperties, ElementOfSeq
<1> QED
  BY <1>1 DEF Frames, Messages

\* A client sends a frame to this session,
LEMMA OrderSend ==
  ASSUME NEW s, NEW out \in Seq(1..MaxFrames), NEW que \in Seq(Messages),
         NEW box \in Seq(Frames), NEW n \in Nat, NEW f \in Frames, f.n = n + 1,
         InOrder(s, out, que, box, n)
  PROVE  InOrder(s, out, que, Append(box, f), n + 1)
<1> DEFINE new == Append(box, f)
<1>1. \A i \in DOMAIN new : \/ i \in DOMAIN box /\ new[i] = box[i]
                            \/ i = Len(box) + 1 /\ new[i] = f
  BY AppendElements
<1>2. DOMAIN box = 1..Len(box) /\ Len(box) \in Nat
  BY LenProperties
<1>3. /\ \A i \in DOMAIN box : box[i].n \in Nat
      /\ \A i \in DOMAIN out : out[i] \in Nat
      /\ \A i \in DOMAIN que : que[i].frame.n \in Nat
  BY ElementsTyped
<1> HIDE DEF new
<1>4. InOrder(s, out, que, new, n + 1)
  <2>1. \A i, j \in DOMAIN new : i < j => new[i].n < new[j].n
    BY <1>1, <1>2, <1>3 DEF InOrder
  <2>2. \A i \in DOMAIN out : \A j \in DOMAIN new : out[i] < new[j].n
    BY <1>1, <1>2, <1>3 DEF InOrder
  <2>3. \A i \in DOMAIN que : \A j \in DOMAIN new :
          que[i].session = s => que[i].frame.n < new[j].n
    BY <1>1, <1>2, <1>3 DEF InOrder
  <2>4. \A i \in DOMAIN new : new[i].n =< n + 1
    BY <1>1, <1>2, <1>3 DEF InOrder
  <2>5. /\ \A i \in DOMAIN out : out[i] =< n + 1
        /\ \A i \in DOMAIN que : que[i].frame.n =< n + 1
    BY <1>3 DEF InOrder
  <2> QED
    BY <2>1, <2>2, <2>3, <2>4, <2>5 DEF InOrder
<1> QED
  BY <1>4 DEF new

\* or to another one.
LEMMA OrderCount ==
  ASSUME NEW s, NEW out \in Seq(1..MaxFrames), NEW que \in Seq(Messages),
         NEW box \in Seq(Frames), NEW n \in Nat, InOrder(s, out, que, box, n)
  PROVE  InOrder(s, out, que, box, n + 1)
<1>1. /\ \A i \in DOMAIN box : box[i].n \in Nat
      /\ \A i \in DOMAIN out : out[i] \in Nat
      /\ \A i \in DOMAIN que : que[i].frame.n \in Nat
  BY ElementsTyped
<1> QED
  BY <1>1 DEF InOrder

\* A body is read: its frame moves from the unread ones to the messages.
LEMMA OrderBody ==
  ASSUME NEW s, NEW out \in Seq(1..MaxFrames), NEW que \in Seq(Messages),
         NEW box \in Seq(Frames), NEW n \in Nat, NEW m \in Messages, box # << >>,
         m.session = s, m.frame = Head(box), InOrder(s, out, que, box, n)
  PROVE  InOrder(s, out, Append(que, m), Tail(box), n)
<1> DEFINE new == Append(que, m)
           rest == Tail(box)
<1>1. \A i \in DOMAIN new : \/ i \in DOMAIN que /\ new[i] = que[i]
                            \/ i = Len(que) + 1 /\ new[i] = m
  BY AppendElements
<1>2. \A i \in DOMAIN rest : i \in Nat \ {0} /\ i + 1 \in DOMAIN box /\ rest[i] = box[i + 1]
  BY TailElements, LenProperties
<1>3. DOMAIN que = 1..Len(que) /\ Len(que) \in Nat
  BY LenProperties
<1>4. 1 \in DOMAIN box /\ m.frame = box[1]
  BY LenProperties, EmptySeq
<1> HIDE DEF new, rest
<1>5. InOrder(s, out, new, rest, n)
  <2>1. \A i, j \in DOMAIN new :
          i < j /\ new[i].session = s /\ new[j].session = s => new[i].frame.n < new[j].frame.n
    BY <1>1, <1>3, <1>4 DEF InOrder
  <2>2. \A i, j \in DOMAIN rest : i < j => rest[i].n < rest[j].n
    BY <1>2, SMTT(30) DEF InOrder
  <2>3. \A i \in DOMAIN out : \A j \in DOMAIN new : new[j].session = s => out[i] < new[j].frame.n
    BY <1>1, <1>4 DEF InOrder
  <2>4. \A i \in DOMAIN out : \A j \in DOMAIN rest : out[i] < rest[j].n
    BY <1>2 DEF InOrder
  <2>5. \A i \in DOMAIN new : \A j \in DOMAIN rest :
          new[i].session = s => new[i].frame.n < rest[j].n
    BY <1>1, <1>2, <1>4 DEF InOrder
  <2>6. \A i \in DOMAIN new : new[i].frame.n =< n
    BY <1>1, <1>4 DEF InOrder
  <2>7. \A i \in DOMAIN rest : rest[i].n =< n
    BY <1>2 DEF InOrder
  <2> QED
    BY <2>1, <2>2, <2>3, <2>4, <2>5, <2>6, <2>7 DEF InOrder
<1> QED
  BY <1>5 DEF new, rest

\* A body of another session.
LEMMA OrderOtherBody ==
  ASSUME NEW s, NEW out \in Seq(1..MaxFrames), NEW que \in Seq(Messages),
         NEW box \in Seq(Frames), NEW n \in Nat, NEW m \in Messages,
         m.session # s, m.frame.n =< n, InOrder(s, out, que, box, n)
  PROVE  InOrder(s, out, Append(que, m), box, n)
<1> DEFINE new == Append(que, m)
<1>1. \A i \in DOMAIN new : \/ i \in DOMAIN que /\ new[i] = que[i]
                            \/ i = Len(que) + 1 /\ new[i] = m
  BY AppendElements
<1> HIDE DEF new
<1>2. InOrder(s, out, new, box, n)
  BY <1>1 DEF InOrder
<1> QED
  BY <1>2 DEF new

\* A message leaves the queue without a reply,
LEMMA OrderDrop ==
  ASSUME NEW s, NEW out \in Seq(1..MaxFrames), NEW que \in Seq(Messages),
         NEW box \in Seq(Frames), NEW n \in Nat, que # << >>, InOrder(s, out, que, box, n)
  PROVE  InOrder(s, out, Tail(que), box, n)
<1> DEFINE rest == Tail(que)
<1>1. \A i \in DOMAIN rest : i \in Nat /\ i + 1 \in DOMAIN que /\ rest[i] = que[i + 1]
  BY TailElements, LenProperties
<1> HIDE DEF rest
<1>2. InOrder(s, out, rest, box, n)
  BY <1>1 DEF InOrder
<1> QED
  BY <1>2 DEF rest

\* or its reply is queued.
LEMMA OrderReply ==
  ASSUME NEW s, NEW out \in Seq(1..MaxFrames), NEW que \in Seq(Messages),
         NEW box \in Seq(Frames), NEW n \in Nat, que # << >>, Head(que).session = s,
         InOrder(s, out, que, box, n)
  PROVE  InOrder(s, Append(out, Head(que).frame.n), Tail(que), box, n)
<1> DEFINE rest == Tail(que)
           r == Head(que).frame.n
           new == Append(out, r)
<1>1. \A i \in DOMAIN rest : i \in Nat \ {0} /\ i + 1 \in DOMAIN que /\ rest[i] = que[i + 1]
  BY TailElements, LenProperties
<1>2. 1 \in DOMAIN que /\ que[1].frame.n = r /\ que[1].session = s
  BY LenProperties, EmptySeq
<1>3. r \in 1..MaxFrames
  BY <1>2, ElementsTyped DEF Frames
<1>4. \A i \in DOMAIN new : \/ i \in DOMAIN out /\ new[i] = out[i]
                            \/ i = Len(out) + 1 /\ new[i] = r
  BY <1>3, AppendElements
<1>5. DOMAIN out = 1..Len(out) /\ Len(out) \in Nat
  BY LenProperties
<1> HIDE DEF rest, r, new
<1>6. InOrder(s, new, rest, box, n)
  <2>1. \A i, j \in DOMAIN new : i < j => new[i] < new[j]
    BY <1>2, <1>4, <1>5 DEF InOrder
  <2>2. \A i, j \in DOMAIN rest :
          i < j /\ rest[i].session = s /\ rest[j].session = s
            => rest[i].frame.n < rest[j].frame.n
    <3> SUFFICES ASSUME NEW i \in DOMAIN rest, NEW j \in DOMAIN rest,
                        i < j, rest[i].session = s, rest[j].session = s
                 PROVE  rest[i].frame.n < rest[j].frame.n
      OBVIOUS
    <3>1. /\ i + 1 \in DOMAIN que /\ rest[i] = que[i + 1]
          /\ j + 1 \in DOMAIN que /\ rest[j] = que[j + 1] /\ i + 1 < j + 1
      BY <1>1
    <3> QED
      BY <3>1 DEF InOrder
  <2>3. \A i \in DOMAIN new : \A j \in DOMAIN rest :
          rest[j].session = s => new[i] < rest[j].frame.n
    <3> SUFFICES ASSUME NEW i \in DOMAIN new, NEW j \in DOMAIN rest, rest[j].session = s
                 PROVE  new[i] < rest[j].frame.n
      OBVIOUS
    <3>1. j + 1 \in DOMAIN que /\ rest[j] = que[j + 1] /\ 1 < j + 1
      BY <1>1
    <3>2. CASE i \in DOMAIN out /\ new[i] = out[i]
      BY <3>1, <3>2 DEF InOrder
    <3>3. CASE new[i] = que[1].frame.n
      BY <1>2, <3>1, <3>3 DEF InOrder
    <3> QED
      BY <1>2, <1>4, <3>2, <3>3
  <2>4. \A i \in DOMAIN new : \A j \in DOMAIN box : new[i] < box[j].n
    BY <1>2, <1>4 DEF InOrder
  <2>5. \A i \in DOMAIN rest : \A j \in DOMAIN box :
          rest[i].session = s => rest[i].frame.n < box[j].n
    BY <1>1 DEF InOrder
  <2>6. \A i \in DOMAIN new : new[i] =< n
    BY <1>2, <1>4 DEF InOrder
  <2>7. \A i \in DOMAIN rest : rest[i].frame.n =< n
    BY <1>1 DEF InOrder
  <2> QED
    BY <2>1, <2>2, <2>3, <2>4, <2>5, <2>6, <2>7 DEF InOrder
<1> QED
  BY <1>6 DEF rest, r, new

\* HandleWrite() moves the front of the queue to the end of what has left.
LEMMA MoveFront ==
  ASSUME NEW S, NEW q \in Seq(S), NEW p \in Seq(S), p # << >>
  PROVE  Append(q, Head(p)) \o Tail(p) = q \o p
<1>1. Head(p) \in S /\ Tail(p) \in Seq(S) /\ <<Head(p)>> \in Seq(S)
  BY HeadTailProperties
<1>2. Append(q, Head(p)) = q \o <<Head(p)>>
  BY <1>1, AppendIsConcat
<1>3. (q \o <<Head(p)>>) \o Tail(p) = q \o (<<Head(p)>> \o Tail(p))
  BY <1>1, ConcatAssociative
<1>4. <<Head(p)>> \o Tail(p) = p
  BY <1>1
<1> QED
  BY <1>2, <1>3, <1>4

\* Appending to the second of two sequences is appending to both.
LEMMA AppendToConcat ==
  ASSUME NEW S, NEW q \in Seq(S), NEW p \in Seq(S), NEW e \in S
  PROVE  q \o Append(p, e) = Append(q \o p, e)
<1>1. <<e>> \in Seq(S) /\ q \o p \in Seq(S)
  BY ConcatProperties
<1>2. (q \o p) \o <<e>> = q \o (p \o <<e>>)
  BY <1>1, ConcatAssociative
<1> QED
  BY <1>1, <1>2, AppendIsConcat

\* What a session sent and has queued are sequences of frame numbers.
LEMMA OrderTyped ==
  ASSUME TypeOK, NEW s \in Sessions
  PROVE  /\ Out(s) \in Seq(1..MaxFrames) /\ sent[s] \in Seq(1..MaxFrames)
         /\ _send_que[s] \in Seq(1..MaxFrames)
         /\ _msg_que \in Seq(Messages) /\ inbox[s] \in Seq(Frames) /\ frames \in Nat
<1>1. sent[s] \in Seq(1..MaxFrames) /\ _send_que[s] \in Seq(1..MaxFrames)
  BY DEF TypeOK
<1> QED
  BY <1>1, ConcatProperties, SessionAssumption DEF TypeOK, Out, Messages

\* HandleWrite() moves the front of the queue to what was sent: together they are the same.
LEMMA WriteKeepsOut ==
  ASSUME TypeOK, ChainInv, NEW s \in Sessions, HandleWrite(s)
  PROVE  Out(s)' = Out(s)
<1>1. _send_que[s] # << >> /\ Head(writing[s]) = Head(_send_que[s])
  BY DEF ChainInv, HandleWrite
<1>2. sent'[s] = Append(sent[s], Head(_send_que[s])) /\ _send_que'[s] = Tail(_send_que[s])
  BY <1>1 DEF HandleWrite, popped, TypeOK
<1> QED
  BY <1>1, <1>2, OrderTyped, MoveFront DEF Out

\* The frame of a body that is read is the first of the unread ones.
LEMMA BodyOrdered ==
  ASSUME TypeOK, ReadInv, OrderInv, NEW s \in Sessions,
         HandleReadBody(s) \/ CoReadBody(s), NEW t \in Sessions
  PROVE  InOrder(t, Out(t), _msg_que, inbox[t], frames)'
<1> DEFINE m == [session |-> s, frame |-> _recv_msg_node[s]]
<1>1. /\ _msg_que' = Append(_msg_que, m) /\ inbox' = [inbox EXCEPT ![s] = Tail(@)]
      /\ read[s] = "body" /\ UNCHANGED <<sent, _send_que, frames>>
  BY DEF HandleReadBody, CoReadBody
<1>2. inbox[s] \in Seq(Frames) /\ inbox[s] # << >> /\ _recv_msg_node[s] = Head(inbox[s])
  BY <1>1 DEF ReadInv, TypeOK
<1>3. 1 \in DOMAIN inbox[s] /\ _recv_msg_node[s] = inbox[s][1] /\ _recv_msg_node[s] \in Frames
  BY <1>2, LenProperties, EmptySeq, HeadTailProperties
<1>4. m \in Messages /\ m.session = s /\ m.frame = Head(inbox[s]) /\ m.frame.n =< frames
  BY <1>2, <1>3 DEF Messages, OrderInv, InOrder
<1>5. Out(t)' = Out(t)
  BY <1>1 DEF Out
<1>6. inbox'[t] = IF t = s THEN Tail(inbox[t]) ELSE inbox[t]
  BY <1>1 DEF TypeOK
<1>7. InOrder(t, Out(t), _msg_que, inbox[t], frames)
  BY DEF OrderInv
<1> HIDE DEF m
<1>8. CASE t = s
  BY <1>1, <1>2, <1>4, <1>5, <1>6, <1>7, <1>8, OrderTyped, OrderBody
<1>9. CASE t # s
  BY <1>1, <1>4, <1>5, <1>6, <1>7, <1>9, OrderTyped, OrderOtherBody
<1> QED
  BY <1>8, <1>9

\* The logic thread takes the oldest message, so its reply comes last.
LEMMA DealMsgOrdered ==
  ASSUME TypeOK, OrderInv, DealMsg, NEW t \in Sessions
  PROVE  InOrder(t, Out(t), _msg_que, inbox[t], frames)'
<1> DEFINE m == Head(_msg_que)
<1>1. /\ m.session \in Sessions /\ m.frame.n \in 1..MaxFrames /\ _msg_que # << >>
      /\ Send(m.session, m.frame.n) \/ UNCHANGED <<_send_que, writing, doomed>>
  BY DealMsgSends
<1>2. _msg_que' = Tail(_msg_que) /\ UNCHANGED <<inbox, frames, sent>>
  BY DEF DealMsg, clientVars
<1>3. InOrder(t, Out(t), _msg_que, inbox[t], frames)
  BY DEF OrderInv
<1>4. \/ _send_que'[t] = _send_que[t]
      \/ m.session = t /\ _send_que'[t] = Append(_send_que[t], m.frame.n)
  <2> HIDE DEF m
  <2>1. CASE t # m.session
    BY <1>1, <2>1, SendOthersKept
  <2>2. CASE t = m.session
    BY <1>1, <2>2 DEF Send, TypeOK
  <2> QED
    BY <2>1, <2>2
<1>5. CASE _send_que'[t] = _send_que[t]
  <2>1. Out(t)' = Out(t)
    BY <1>2, <1>5 DEF Out
  <2> QED
    BY <1>1, <1>2, <1>3, <2>1, OrderTyped, OrderDrop
<1>6. CASE m.session = t /\ _send_que'[t] = Append(_send_que[t], m.frame.n)
  <2>1. Out(t)' = Append(Out(t), m.frame.n)
    <3> DEFINE r == m.frame.n
    <3>1. Out(t)' = sent[t] \o Append(_send_que[t], r)
      BY <1>2, <1>6 DEF Out
    <3>2. sent[t] \in Seq(1..MaxFrames) /\ _send_que[t] \in Seq(1..MaxFrames)
      BY OrderTyped
    <3>3. r \in 1..MaxFrames
      BY <1>1
    <3> HIDE DEF r
    <3>4. sent[t] \o Append(_send_que[t], r) = Append(sent[t] \o _send_que[t], r)
      <4>1. \A q, p \in Seq(1..MaxFrames) : q \o Append(p, r) = Append(q \o p, r)
        BY <3>3, AppendToConcat
      <4> QED
        BY <3>2, <4>1
    <3>5. Out(t)' = Append(Out(t), r)
      BY <3>1, <3>4 DEF Out
    <3> QED
      BY <3>5 DEF r
  <2>2. /\ Out(t) \in Seq(1..MaxFrames) /\ _msg_que \in Seq(Messages)
        /\ inbox[t] \in Seq(Frames) /\ frames \in Nat
    BY OrderTyped
  <2>3. InOrder(t, Append(Out(t), m.frame.n), Tail(_msg_que), inbox[t], frames)
    BY <1>1, <1>3, <1>6, <2>2, OrderReply
  <2> QED
    BY <1>2, <2>1, <2>3
<1> QED
  BY <1>4, <1>5, <1>6

\* Every step keeps frames, messages and replies in one increasing line.
LEMMA OrderInvStep ==
  ASSUME TypeOK, ReadInv, ChainInv, OrderInv, [CoNext]_coVars
  PROVE  OrderInv'
<1> SUFFICES ASSUME NEW t \in Sessions
             PROVE  InOrder(t, Out(t), _msg_que, inbox[t], frames)'
  BY DEF OrderInv
<1>0. InOrder(t, Out(t), _msg_que, inbox[t], frames)
  BY DEF OrderInv
<1>1. CASE UNCHANGED <<sent, _send_que, _msg_que, inbox, frames>>
  BY <1>0, <1>1 DEF Out
<1>2. CASE HandleAcceptStart \/ HandleAcceptInsert \/ HandleAcceptError \/ UNCHANGED vars
  BY <1>1, <1>2 DEF HandleAcceptStart, HandleAcceptInsert, HandleAcceptError, vars, clientVars
<1>3. ASSUME NEW s \in Sessions, SessionStep(s)
      PROVE  InOrder(t, Out(t), _msg_que, inbox[t], frames)'
  <2>1. ASSUME NEW k \in Kinds, ClientSends(s, k)
        PROVE  InOrder(t, Out(t), _msg_que, inbox[t], frames)'
    <3> DEFINE f == [n |-> frames + 1, kind |-> k]
    <3>1. /\ UNCHANGED <<sent, _send_que, _msg_que>> /\ frames' = frames + 1
          /\ inbox'[t] = IF t = s THEN Append(inbox[t], f) ELSE inbox[t]
      BY <2>1 DEF ClientSends, TypeOK
    <3>2. f \in Frames /\ f.n = frames + 1
      <4>1. frames + 1 \in 1..MaxFrames
        BY <2>1, SessionAssumption DEF ClientSends, TypeOK
      <4> QED
        BY <4>1 DEF Frames
    <3>3. Out(t)' = Out(t)
      BY <3>1 DEF Out
    <3> HIDE DEF f
    <3>4. CASE t = s
      BY <1>0, <3>1, <3>2, <3>3, <3>4, OrderTyped, OrderSend
    <3>5. CASE t # s
      BY <1>0, <3>1, <3>3, <3>5, OrderTyped, OrderCount
    <3> QED
      BY <3>4, <3>5
  <2>2. CASE HandleReadBody(s) \/ CoReadBody(s)
    BY <2>2, BodyOrdered
  <2>3. CASE HandleWrite(s)
    <3>1. UNCHANGED <<_msg_que, inbox, frames>>
      BY <2>3 DEF HandleWrite, clientVars
    <3>2. Out(t)' = Out(t)
      <4>1. CASE t = s
        BY <2>3, <4>1, WriteKeepsOut
      <4>2. CASE t # s
        BY <1>3, <4>2, OthersKept DEF Out
      <4> QED
        BY <4>1, <4>2
    <3> QED
      BY <1>0, <3>1, <3>2
  <2>4. CASE \/ ClientLeaves(s) \/ HandleReadError(s) \/ HandleReadHead(s)
             \/ HandleReadBadHead(s) \/ CoHeadTooLarge(s) \/ HandleWriteError(s)
    BY <1>1, <2>4 DEF ClientLeaves, HandleReadError, HandleReadHead, HandleReadBadHead,
                      CoHeadTooLarge, HandleWriteError, clientVars
  <2> QED
    BY <1>3, <2>1, <2>2, <2>3, <2>4 DEF SessionStep
<1>4. CASE DealMsg
  BY <1>4, DealMsgOrdered
<1> QED
  BY <1>2, <1>3, <1>4, StepCases

-----------------------------------------------------------------------------
(* The theorems                                                            *)

\* Together the parts are inductive.
SessionInv ==
  TypeOK /\ AcceptInv /\ FreshInv /\ ReadInv /\ ChainInv /\ RegistryInv /\ OrderInv

\* The initial states satisfy the invariant.
LEMMA SessionInvInit == CoInit => SessionInv
<1> SUFFICES ASSUME Init PROVE SessionInv
  BY DEF CoInit
<1> USE DEF Init
<1>1. accepting \in Sessions /\ accepting = fresh({})
  BY SessionAssumption DEF fresh
<1>2. TypeOK
  <2>1. /\ _send_que \in [Sessions -> Seq(1..MaxFrames)] /\ inbox \in [Sessions -> Seq(Frames)]
        /\ _msg_que \in Seq([session : Sessions, frame : Frames])
    OBVIOUS
  <2>2. ioOf \in [Sessions -> -1..(NumServices - 1)] /\ _nextIOService \in 0..(NumServices - 1)
    BY SessionAssumption DEF advance
  <2> QED
    BY <1>1, <2>1, <2>2, SessionAssumption DEF TypeOK
<1>3. accepting \in Made
  BY <1>1 DEF Made
<1>4. AcceptInv /\ FreshInv /\ ReadInv /\ RegistryInv
  BY <1>3 DEF AcceptInv, FreshInv, ReadInv, RegistryInv, RegistryMatches, LateInv, Served
<1>5. ChainInv
  BY SessionAssumption DEF ChainInv
<1>6. OrderInv
  <2>1. ASSUME NEW s \in Sessions PROVE Out(s) = << >> /\ inbox[s] = << >>
    BY DEF Out
  <2> QED
    BY <2>1 DEF OrderInv, InOrder
<1> QED
  BY <1>2, <1>4, <1>5, <1>6 DEF SessionInv

\* Every step keeps the invariant.
LEMMA SessionInvStep == SessionInv /\ [CoNext]_coVars => SessionInv'
BY TypeStep, AcceptInvStep, FreshInvStep, ReadInvStep, ChainInvStep, RegistryInvStep,
   OrderInvStep DEF SessionInv

\* The inductive invariant of both servers: accepting, reading, the chain of
\* writes, the map of sessions and the order of frames and replies together.
THEOREM SessionInvariant == CoSpec => []SessionInv
BY SessionInvInit, SessionInvStep, PTL DEF CoSpec

\* Both servers keep their variables within their types: in particular the
\* frame that HandleReadBody() posts is one that has been received.
THEOREM SessionTypes == CoSpec => []TypeOK
<1>1. SessionInv => TypeOK
  BY DEF SessionInv
<1> QED
  BY <1>1, SessionInvariant, PTL

\* Send() on the logic thread and HandleWrite() on the pool thread, which share
\* _send_que, keep one write outstanding as long as replies wait, of the front
\* of the queue, and never let in more than MAX_SENDQUE + 1.
THEOREM SessionSendChain == CoSpec => []SendChain
<1>1. SessionInv => SendChain
  <2> SUFFICES ASSUME SessionInv PROVE SendChain
    OBVIOUS
  <2>1. ChainInv /\ open \subseteq Sessions
    BY DEF SessionInv, TypeOK
  <2>2. OneWriteAtATime
    <3> SUFFICES ASSUME NEW s \in Sessions, writing[s] # << >>
                 PROVE  /\ Len(writing[s]) = 1
                        /\ _send_que[s] # << >> /\ Head(_send_que[s]) = Head(writing[s])
      BY DEF OneWriteAtATime
    <3>1. _send_que[s] # << >> /\ writing[s] = <<Head(_send_que[s])>>
      BY <2>1 DEF ChainInv
    <3> QED
      BY <3>1
  <2> QED
    BY <2>1, <2>2 DEF ChainInv, SendChain, NoStall, SendQueBound
<1> QED
  BY <1>1, SessionInvariant, PTL

\* The replies of a session leave in the order of its requests, each once,
\* through the inbox of the socket, _msg_que and _send_que.
THEOREM SessionRepliesInOrder == CoSpec => []RepliesInOrder
<1>1. SessionInv => RepliesInOrder
  BY DEF SessionInv, OrderInv, InOrder, Out, RepliesInOrder
<1> QED
  BY <1>1, SessionInvariant, PTL

\* Server::_sessions holds the sessions that are served, and besides them only
\* those that HandleAccept() inserted after their last handler had cleared them.
THEOREM SessionRegistry == CoSpec => []RegistryMatches
<1>1. SessionInv => RegistryMatches
  BY DEF SessionInv, RegistryInv
<1> QED
  BY <1>1, SessionInvariant, PTL
=============================================================================
