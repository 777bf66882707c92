------------------------- MODULE EchoServersProofs -------------------------
(***************************************************************************)
(* Proofs about the echo servers 2. AsyncServer and 6. WebSocketServer,    *)
(* for any number of connections and messages and any limit of the queue.  *)
(***************************************************************************)
EXTENDS EchoServers, SequenceTheorems, TLAPS

Messages == 0..MaxMessages
Writes == [m : Messages, kept : BOOLEAN]

EchoTypes ==
  /\ read \in [Conns -> {"none", "handshake", "head", "body", "message"}]
  /\ next \in [Conns -> 1..(MaxMessages + 1)]
  /\ inbox \in [Conns -> Seq(Messages)]
  /\ _send_que \in [Conns -> Seq(Messages)]
  /\ queued \in [Conns -> Seq(Messages)]
  /\ writing \in [Conns -> Seq(Writes)]
  /\ echoed \in [Conns -> Seq(Messages \cup {Garbage})]

\* A stream that Beast has failed reads no more, for good.
FailedInv ==
  \A c \in Conns :
    /\ read[c] # "none" => c \in met
    /\ c \in failed => c \in met /\ read[c] = "none" /\ server # "frames"

\* The messages of one connection: q the queue, all what was ever queued, e what
\* went out, w the outstanding writes.  The queue holds the last of all; what went
\* out are the messages before them, and one more at most if the stream has
\* failed (slack); the write under way is that of the front of the queue.
EchoLine(srv, slack, q, all, e, w) ==
  /\ Len(q) =< Len(all)
  /\ \A i \in 1..Len(q) : q[i] = all[Len(all) - Len(q) + i]
  /\ \A i \in 1..Len(e) : e[i] = all[i] \/ (srv # "frames" /\ e[i] = Garbage)
  /\ w # << >> => /\ Len(w) = 1 /\ Len(q) > 0 /\ w[1].m = q[1]
                  /\ srv = "frames" => w[1].kept = TRUE
  /\ w # << >> \/ slack = 0 => Len(e) = Len(all) - Len(q)
  /\ Len(e) \in (Len(all) - Len(q))..(Len(all) - Len(q) + slack)

Slack(c) == IF c \in failed THEN 1 ELSE 0

LineInv ==
  \A c \in Conns : EchoLine(server, Slack(c), _send_que[c], queued[c], echoed[c], writing[c])

EchoInv == EchoTypes /\ FailedInv /\ LineInv

-----------------------------------------------------------------------------
(* What the handlers do to the line of messages of their connection        *)

\* A message is queued behind others,
LEMMA LineQueues ==
  ASSUME NEW srv, NEW q \in Seq(Messages), NEW all \in Seq(Messages),
         NEW e \in Seq(Messages \cup {Garbage}), NEW w \in Seq(Writes), NEW m \in Messages,
         Len(q) > 0, EchoLine(srv, 0, q, all, e, w)
  PROVE  EchoLine(srv, 0, Append(q, m), Append(all, m), e, w)
<1> DEFINE q2 == Append(q, m)
           all2 == Append(all, m)
<1>1. /\ Len(q2) = Len(q) + 1 /\ Len(q) \in Nat
      /\ \A i \in 1..Len(q) : q2[i] = q[i]
      /\ q2[Len(q) + 1] = m
  BY AppendProperties, LenProperties
<1>2. /\ Len(all2) = Len(all) + 1 /\ Len(all) \in Nat
      /\ \A i \in 1..Len(all) : all2[i] = all[i]
      /\ all2[Len(all) + 1] = m
  BY AppendProperties, LenProperties
<1>3. Len(e) \in Nat /\ Len(e) =< Len(all)
  BY <1>1, <1>2, LenProperties DEF EchoLine
<1> HIDE DEF q2, all2
<1>4. \A i \in 1..Len(q2) : q2[i] = all2[Len(all2) - Len(q2) + i]
  <2> SUFFICES ASSUME NEW i \in 1..Len(q2) PROVE q2[i] = all2[Len(all2) - Len(q2) + i]
    OBVIOUS
  <2>1. Len(all2) - Len(q2) = Len(all) - Len(q) /\ Len(q) =< Len(all)
    BY <1>1, <1>2 DEF EchoLine
  <2>2. CASE i \in 1..Len(q)
    <3>1. q[i] = all[Len(all) - Len(q) + i] /\ Len(all) - Len(q) + i \in 1..Len(all)
      BY <1>1, <1>2, <2>1, <2>2, SMTT(20) DEF EchoLine
    <3> QED
      BY <1>1, <1>2, <2>1, <2>2, <3>1
  <2>3. CASE i = Len(q) + 1
    <3>1. Len(all) - Len(q) + i = Len(all) + 1
      BY <1>1, <1>2, <2>3
    <3> QED
      BY <1>1, <1>2, <2>1, <2>3, <3>1
  <2> QED
    BY <1>1, <2>2, <2>3
<1>5. \A i \in 1..Len(e) : e[i] = all2[i] \/ (srv # "frames" /\ e[i] = Garbage)
  BY <1>2, <1>3 DEF EchoLine
<1>6. /\ Len(q2) =< Len(all2) /\ Len(q2) > 0 /\ q2[1] = q[1]
      /\ Len(all2) - Len(q2) = Len(all) - Len(q)
  BY <1>1, <1>2 DEF EchoLine
<1>7. EchoLine(srv, 0, q2, all2, e, w)
  BY <1>4, <1>5, <1>6 DEF EchoLine
<1> QED
  BY <1>7 DEF q2, all2

\* or into an empty queue, and its write is started.
LEMMA LineStarts ==
  ASSUME NEW srv, NEW q \in Seq(Messages), NEW all \in Seq(Messages),
         NEW e \in Seq(Messages \cup {Garbage}), NEW w \in Seq(Writes), NEW m, NEW v \in Writes,
         v.m = m, Len(q) = 0, srv = "frames" => v.kept = TRUE, EchoLine(srv, 0, q, all, e, w)
  PROVE  EchoLine(srv, 0, Append(q, m), Append(all, m), e, <<v>>)
<1> DEFINE q2 == Append(q, m)
           all2 == Append(all, m)
<1>0. m \in Messages
  BY DEF Writes
<1>1. Len(q2) = 1 /\ q2[1] = m
  BY <1>0, AppendProperties
<1>2. /\ Len(all2) = Len(all) + 1 /\ Len(all) \in Nat
      /\ \A i \in 1..Len(all) : all2[i] = all[i]
      /\ all2[Len(all) + 1] = m
  BY <1>0, AppendProperties, LenProperties
<1>3. Len(e) = Len(all)
  BY <1>2 DEF EchoLine
<1>4. <<v>> # << >> /\ Len(<<v>>) = 1 /\ <<v>>[1] = v
  OBVIOUS
<1> HIDE DEF q2, all2
<1>5. \A i \in 1..Len(q2) : q2[i] = all2[Len(all2) - Len(q2) + i]
  BY <1>1, <1>2
<1>6. \A i \in 1..Len(e) : e[i] = all2[i] \/ (srv # "frames" /\ e[i] = Garbage)
  BY <1>2, <1>3 DEF EchoLine
<1>7. EchoLine(srv, 0, q2, all2, e, <<v>>)
  BY <1>1, <1>2, <1>3, <1>4, <1>5, <1>6 DEF EchoLine
<1> QED
  BY <1>7 DEF q2, all2

\* What the completed write w has put into the socket.
Wrote(w, x) == x = w[1].m \/ (w[1].kept # TRUE /\ x = Garbage)

\* The state in which it completes.
WriteDone(srv, q, all, e, w, x) ==
  /\ q \in Seq(Messages) /\ all \in Seq(Messages) /\ e \in Seq(Messages \cup {Garbage})
  /\ x \in Messages \cup {Garbage} /\ w # << >> /\ Wrote(w, x)
  /\ EchoLine(srv, 0, q, all, e, w) \/ EchoLine(srv, 1, q, all, e, w)

\* A write of the front message extends what was echoed by the next message queued.
LEMMA WroteFront ==
  ASSUME NEW srv, NEW q, NEW all, NEW e, NEW w, NEW x, WriteDone(srv, q, all, e, w, x)
  PROVE  /\ Append(e, x) \in Seq(Messages \cup {Garbage}) /\ Len(Append(e, x)) = Len(e) + 1
         /\ Len(e) = Len(all) - Len(q) /\ Len(e) \in Nat /\ Len(q) > 0
         /\ \A i \in 1..Len(Append(e, x)) :
              Append(e, x)[i] = all[i] \/ (srv # "frames" /\ Append(e, x)[i] = Garbage)
<1>0. /\ q \in Seq(Messages) /\ all \in Seq(Messages) /\ e \in Seq(Messages \cup {Garbage})
      /\ x \in Messages \cup {Garbage} /\ w # << >> /\ Wrote(w, x)
      /\ EchoLine(srv, 0, q, all, e, w) \/ EchoLine(srv, 1, q, all, e, w)
  BY DEF WriteDone
<1>1. /\ Len(Append(e, x)) = Len(e) + 1 /\ Len(e) \in Nat
      /\ Append(e, x) \in Seq(Messages \cup {Garbage})
      /\ \A i \in 1..Len(e) : Append(e, x)[i] = e[i]
      /\ Append(e, x)[Len(e) + 1] = x
  BY <1>0, AppendProperties, LenProperties
<1>2. /\ Len(e) = Len(all) - Len(q) /\ Len(q) > 0 /\ Len(q) \in Nat /\ Len(all) \in Nat
      /\ w[1].m = q[1] /\ (srv = "frames" => w[1].kept = TRUE)
  BY <1>0, LenProperties DEF EchoLine
<1>3. q[1] = all[Len(e) + 1]
  <2>1. \A i \in 1..Len(q) : q[i] = all[Len(all) - Len(q) + i]
    BY <1>0, Zenon DEF EchoLine
  <2>2. 1 \in 1..Len(q)
    BY <1>2
  <2>3. q[1] = all[Len(all) - Len(q) + 1]
    BY <2>1, <2>2
  <2> QED
    BY <1>2, <2>3
<1>4. x = all[Len(e) + 1] \/ (srv # "frames" /\ x = Garbage)
  BY <1>0, <1>2, <1>3 DEF Wrote
<1> DEFINE e2 == Append(e, x)
<1> HIDE DEF e2
<1>5. \A i \in 1..Len(e) : e2[i] = all[i] \/ (srv # "frames" /\ e2[i] = Garbage)
  BY <1>0, <1>1 DEF e2, EchoLine
<1>6. /\ Len(e2) = Len(e) + 1 /\ Len(e) \in Nat /\ e2[Len(e) + 1] = x
      /\ e2 \in Seq(Messages \cup {Garbage})
  BY <1>1 DEF e2
<1>7. \A i \in 1..Len(e2) : e2[i] = all[i] \/ (srv # "frames" /\ e2[i] = Garbage)
  <2> SUFFICES ASSUME NEW i \in 1..Len(e2)
               PROVE  e2[i] = all[i] \/ (srv # "frames" /\ e2[i] = Garbage)
    OBVIOUS
  <2>1. CASE i = Len(e) + 1
    BY <1>4, <1>6, <2>1
  <2>2. CASE i \in 1..Len(e)
    BY <1>5, <2>2
  <2> QED
    BY <1>6, <2>1, <2>2
<1> QED
  BY <1>2, <1>6, <1>7 DEF e2

\* A write completes: the front leaves the queue, and the next write starts if
\* there is another message.
LEMMA LinePops ==
  ASSUME NEW srv, NEW q \in Seq(Messages), NEW all \in Seq(Messages),
         NEW e \in Seq(Messages \cup {Garbage}), NEW w \in Seq(Writes),
         NEW x \in Messages \cup {Garbage}, NEW w2 \in Seq(Writes),
         w # << >>, Wrote(w, x), EchoLine(srv, 0, q, all, e, w),
         w2 # << >> => /\ Len(w2) = 1 /\ Tail(q) # << >> /\ w2[1].m = Head(Tail(q))
                       /\ srv = "frames" => w2[1].kept = TRUE
  PROVE  EchoLine(srv, 0, Tail(q), all, Append(e, x), w2)
<1> DEFINE q2 == Tail(q)
           e2 == Append(e, x)
<1>0. WriteDone(srv, q, all, e, w, x)
  BY DEF WriteDone
<1>1. /\ Len(e2) = Len(e) + 1 /\ Len(e) = Len(all) - Len(q) /\ Len(e) \in Nat /\ Len(q) > 0
      /\ \A i \in 1..Len(e2) : e2[i] = all[i] \/ (srv # "frames" /\ e2[i] = Garbage)
  BY <1>0, WroteFront, SMTT(20)
<1>2. q # << >> /\ Len(q) \in Nat /\ Len(all) \in Nat
  BY <1>1, LenProperties
<1>3. /\ q2 \in Seq(Messages) /\ Len(q2) = Len(q) - 1
      /\ \A i \in 1..Len(q2) : q2[i] = q[i + 1]
  BY <1>2, HeadTailProperties
<1>4. \A i \in 1..Len(q2) : q2[i] = all[Len(all) - Len(q2) + i]
  <2> SUFFICES ASSUME NEW i \in 1..Len(q2) PROVE q2[i] = all[Len(all) - Len(q2) + i]
    OBVIOUS
  <2>1. i + 1 \in 1..Len(q) /\ Len(all) - Len(q2) + i = Len(all) - Len(q) + (i + 1)
    BY <1>2, <1>3
  <2>2. q[i + 1] = all[Len(all) - Len(q) + (i + 1)]
    BY <2>1 DEF EchoLine
  <2> QED
    BY <1>3, <2>1, <2>2
<1>5. w2 # << >> => Len(q2) > 0 /\ w2[1].m = q2[1]
  <2>1. q2 # << >> => Len(q2) > 0 /\ Head(q2) = q2[1]
    BY <1>3, EmptySeq, LenProperties
  <2> QED
    BY <2>1
<1> HIDE DEF q2, e2
<1>6. EchoLine(srv, 0, q2, all, e2, w2)
  BY <1>1, <1>2, <1>3, <1>4, <1>5 DEF EchoLine, q2
<1> QED
  BY <1>6 DEF q2, e2

\* A write fails and the queue stays,
LEMMA LineAborts ==
  ASSUME NEW srv, NEW slack, NEW q, NEW all, NEW e, NEW w \in Seq(Writes),
         w # << >>, EchoLine(srv, slack, q, all, e, w)
  PROVE  Tail(w) = << >> /\ EchoLine(srv, slack, q, all, e, << >>)
<1>1. Len(w) = 1
  BY DEF EchoLine
<1>2. Tail(w) \in Seq(Writes) /\ Len(Tail(w)) = 0
  BY <1>1, HeadTailProperties
<1> QED
  BY <1>2, EmptySeq DEF EchoLine

\* also after all of it had gone out.
LEMMA LineAbortsSent ==
  ASSUME NEW srv, NEW q \in Seq(Messages), NEW all \in Seq(Messages),
         NEW e \in Seq(Messages \cup {Garbage}), NEW w \in Seq(Writes),
         NEW x \in Messages \cup {Garbage}, w # << >>, Wrote(w, x), EchoLine(srv, 1, q, all, e, w)
  PROVE  EchoLine(srv, 1, q, all, Append(e, x), << >>)
<1> DEFINE e2 == Append(e, x)
<1>0. WriteDone(srv, q, all, e, w, x)
  BY DEF WriteDone
<1>1. /\ Len(e2) = Len(e) + 1 /\ Len(e) = Len(all) - Len(q) /\ Len(e) \in Nat
      /\ \A i \in 1..Len(e2) : e2[i] = all[i] \/ (srv # "frames" /\ e2[i] = Garbage)
  BY <1>0, WroteFront
<1>2. Len(q) \in Nat /\ Len(all) \in Nat
  BY LenProperties
<1> HIDE DEF e2
<1>3. EchoLine(srv, 1, q, all, e2, << >>)
  BY <1>1, <1>2 DEF EchoLine
<1> QED
  BY <1>3 DEF e2

\* The stream fails.
LEMMA LineFails ==
  ASSUME NEW srv, NEW q \in Seq(Messages), NEW all \in Seq(Messages),
         NEW e \in Seq(Messages \cup {Garbage}), NEW w, EchoLine(srv, 0, q, all, e, w)
  PROVE  EchoLine(srv, 1, q, all, e, w)
<1>1. Len(q) \in Nat /\ Len(all) \in Nat /\ Len(e) \in Nat
  BY LenProperties
<1> QED
  BY <1>1 DEF EchoLine

-----------------------------------------------------------------------------
(* The handlers as such steps                                              *)

lineVars == <<server, failed, _send_que, queued, echoed, writing>>

\* Send() and AsyncSend() of a message that is let in.
Sends(c) ==
  /\ c \notin failed /\ UNCHANGED <<server, failed, echoed>>
  /\ \E m \in Messages :
       /\ _send_que' = [_send_que EXCEPT ![c] = Append(@, m)]
       /\ queued' = [queued EXCEPT ![c] = Append(@, m)]
       /\ \/ _send_que[c] # << >> /\ UNCHANGED writing
          \/ /\ _send_que[c] = << >>
             /\ \E v \in Writes : /\ v.m = m /\ (server = "frames" => v.kept = TRUE)
                                  /\ writing' = [writing EXCEPT ![c] = <<v>>]

\* The write that follows in w, if any, is that of the front of q.
NextWrite(q, w) ==
  w # << >> => /\ Len(w) = 1 /\ q # << >> /\ w[1].m = Head(q)
               /\ server = "frames" => w[1].kept = TRUE

\* The handlers of a completed write.
Pops(c) ==
  /\ c \notin failed /\ writing[c] # << >> /\ UNCHANGED <<server, failed, queued>>
  /\ _send_que' = [_send_que EXCEPT ![c] = Tail(@)]
  /\ \E x \in Messages \cup {Garbage} :
       Wrote(writing[c], x) /\ echoed' = [echoed EXCEPT ![c] = Append(@, x)]
  /\ \E w \in Seq(Writes) : NextWrite(Tail(_send_que[c]), w) /\ writing' = [writing EXCEPT ![c] = w]

\* Those of a write that failed.
Aborts(c) ==
  /\ writing[c] # << >> /\ UNCHANGED <<server, failed, _send_que, queued>>
  /\ writing' = [writing EXCEPT ![c] = << >>]
  /\ \/ UNCHANGED echoed
     \/ /\ c \in failed
        /\ \E x \in Messages \cup {Garbage} :
             Wrote(writing[c], x) /\ echoed' = [echoed EXCEPT ![c] = Append(@, x)]

\* A read that fails the stream.
Fails(c) ==
  /\ c \notin failed /\ failed' = failed \cup {c}
  /\ UNCHANGED <<server, _send_que, queued, echoed, writing>>

\* The queue, its history and what was echoed are sequences of messages.
LEMMA LineTyped ==
  ASSUME EchoTypes, NEW c \in Conns
  PROVE  /\ _send_que[c] \in Seq(Messages) /\ queued[c] \in Seq(Messages)
         /\ echoed[c] \in Seq(Messages \cup {Garbage}) /\ writing[c] \in Seq(Writes)
         /\ inbox[c] \in Seq(Messages)
BY DEF EchoTypes

\* With an empty queue no write is outstanding, and there is never a second one.
LEMMA WritesShort ==
  ASSUME EchoTypes, LineInv, NEW c \in Conns
  PROVE  /\ _send_que[c] = << >> => writing[c] = << >>
         /\ writing[c] # << >> => Tail(writing[c]) = << >> /\ Head(writing[c]) = writing[c][1]
                                  /\ writing[c][1] \in Writes /\ _send_que[c] # << >>
<1>1. EchoLine(server, Slack(c), _send_que[c], queued[c], echoed[c], writing[c])
  BY DEF LineInv
<1>2. writing[c] # << >> => Len(writing[c]) = 1 /\ Len(_send_que[c]) > 0
  BY <1>1 DEF EchoLine
<1>3. writing[c] # << >> => _send_que[c] # << >>
  BY <1>2, LineTyped, EmptySeq
<1>4. ASSUME writing[c] # << >>
      PROVE  Tail(writing[c]) = << >> /\ Head(writing[c]) = writing[c][1] /\ writing[c][1] \in Writes
  <2>1. writing[c] \in Seq(Writes) /\ Len(writing[c]) = 1
    BY <1>2, <1>4, LineTyped
  <2>2. Tail(writing[c]) \in Seq(Writes) /\ Len(Tail(writing[c])) = 0 /\ Head(writing[c]) \in Writes
    BY <1>4, <2>1, HeadTailProperties
  <2>3. Head(writing[c]) = writing[c][1]
    OBVIOUS
  <2> QED
    BY <2>2, <2>3, EmptySeq
<1> QED
  BY <1>3, <1>4

\* What arrives for the client is the message of the write, or garbage.
LEMMA DeliveredWrote ==
  ASSUME EchoTypes, LineInv, NEW c \in Conns, writing[c] # << >>,
         Delivered(c, Head(writing[c]))
  PROVE  \E x \in Messages \cup {Garbage} :
           Wrote(writing[c], x) /\ echoed' = [echoed EXCEPT ![c] = Append(@, x)]
<1> DEFINE v == writing[c][1]
<1>1. Head(writing[c]) = v /\ v \in Writes
  BY WritesShort
<1>2. v.m \in Messages /\ v.kept \in BOOLEAN
  BY <1>1 DEF Writes
<1>3. Delivered(c, v)
  BY <1>1
<1> HIDE DEF v
<1>4. PICK x \in {v.m} \cup (IF v.kept THEN {} ELSE {Garbage}) :
        echoed' = [echoed EXCEPT ![c] = Append(@, x)]
  BY <1>3 DEF Delivered
<1>5. x \in Messages \cup {Garbage} /\ (x = v.m \/ (v.kept # TRUE /\ x = Garbage))
  BY <1>2, <1>4
<1> QED
  BY <1>4, <1>5 DEF Wrote, v

\* The write that follows a completed one, of either server.
LEMMA NextWriteMade ==
  ASSUME NEW q \in Seq(Messages), NEW kept \in BOOLEAN, server = "frames" => kept = TRUE
  PROVE  /\ << >> \in Seq(Writes) /\ NextWrite(q, << >>)
         /\ q # << >> => /\ <<[m |-> Head(q), kept |-> kept]>> \in Seq(Writes)
                         /\ NextWrite(q, <<[m |-> Head(q), kept |-> kept]>>)
<1>1. << >> \in Seq(Writes) /\ NextWrite(q, << >>)
  BY DEF NextWrite
<1>2. ASSUME q # << >>
      PROVE  /\ <<[m |-> Head(q), kept |-> kept]>> \in Seq(Writes)
             /\ NextWrite(q, <<[m |-> Head(q), kept |-> kept]>>)
  <2> DEFINE v == [m |-> Head(q), kept |-> kept]
  <2>1. Head(q) \in Messages
    BY <1>2, HeadTailProperties
  <2>2. v \in Writes /\ v.m = Head(q) /\ v.kept = kept
    BY <2>1 DEF Writes
  <2> HIDE DEF v
  <2>3. <<v>> \in Seq(Writes) /\ Len(<<v>>) = 1 /\ <<v>>[1] = v
    BY <2>2
  <2>4. NextWrite(q, <<v>>)
    BY <1>2, <2>2, <2>3 DEF NextWrite
  <2> QED
    BY <2>3, <2>4 DEF v
<1> QED
  BY <1>1, <1>2

\* What a handler of project 2 does to the line of its connection.
LEMMA FramesEffects ==
  ASSUME EchoInv, NEW c \in Conns, FramesStep(c)
  PROVE  UNCHANGED lineVars \/ Sends(c) \/ Pops(c) \/ Aborts(c)
<1> USE DEF lineVars, streamVars, EchoInv
<1>0. server = "frames" /\ c \notin failed
  BY DEF FramesStep, handle_accept, handle_read_head, handle_read_body, handle_write,
         handle_write_error, FailedInv
<1>1. CASE handle_accept(c)
  BY <1>1 DEF handle_accept
<1>2. CASE handle_read_head(c)
  BY <1>2 DEF handle_read_head, ReadEnds
<1>3. CASE handle_read_body(c)
  <2>1. CASE ReadEnds(c)
    BY <2>1 DEF ReadEnds
  <2>2. CASE Arrives(c) /\ Send(c, Head(inbox[c])) /\ UNCHANGED <<streamVars, echoed>>
    <3> DEFINE m == Head(inbox[c])
               v == [m |-> m, kept |-> TRUE]
    <3>1. m \in Messages
      BY <2>2, LineTyped, HeadTailProperties DEF Arrives
    <3>2. v \in Writes /\ v.m = m /\ v.kept = TRUE
      BY <3>1 DEF Writes
    <3>3. Send(c, m)
      BY <2>2
    <3>4. CASE full(c)
      BY <2>2, <3>4 DEF Send
    <3>5. CASE ~full(c) /\ pending(c)
      BY <1>0, <2>2, <3>1, <3>5 DEF Send, pending, Sends
    <3>6. CASE ~full(c) /\ ~pending(c)
      <4>1. _send_que[c] = << >> /\ writing[c] = << >>
        BY <3>6, WritesShort DEF pending
      <4>2. writing' = [writing EXCEPT ![c] = Append(@, v)]
        BY <2>2, <3>6 DEF Send
      <4> HIDE DEF v
      <4>3. writing' = [writing EXCEPT ![c] = <<v>>]
        BY <4>1, <4>2
      <4>4. /\ _send_que' = [_send_que EXCEPT ![c] = Append(@, m)]
            /\ queued' = [queued EXCEPT ![c] = Append(@, m)]
        BY <2>2, <3>6 DEF Send
      <4> QED
        BY <1>0, <2>2, <3>1, <3>2, <4>1, <4>3, <4>4 DEF Sends
    <3> QED
      BY <3>4, <3>5, <3>6
  <2> QED
    BY <1>3, <2>1, <2>2 DEF handle_read_body
<1>4. CASE handle_write(c)
  <2> DEFINE q == rest(c)
             w == IF q = << >> THEN << >> ELSE <<[m |-> Head(q), kept |-> TRUE]>>
  <2>1. writing[c] # << >> /\ Delivered(c, Head(writing[c])) /\ UNCHANGED <<server, failed, queued>>
        /\ _send_que' = [_send_que EXCEPT ![c] = Tail(@)]
    BY <1>4 DEF handle_write, rest
  <2>2. q \in Seq(Messages) /\ q = Tail(_send_que[c])
    BY <2>1, WritesShort, LineTyped, HeadTailProperties DEF rest
  <2>3. w \in Seq(Writes) /\ NextWrite(Tail(_send_que[c]), w)
    BY <2>2, NextWriteMade
  <2>4. writing' = [writing EXCEPT ![c] = w]
    <3>1. writing' = [writing EXCEPT ![c] = Tail(@) \o w]
      BY <1>4 DEF handle_write
    <3>2. Tail(writing[c]) = << >>
      BY <2>1, WritesShort
    <3> HIDE DEF w
    <3>3. << >> \o w = w
      BY <2>3, ConcatEmptySeq
    <3> QED
      BY <3>1, <3>2, <3>3
  <2>5. \E x \in Messages \cup {Garbage} :
           Wrote(writing[c], x) /\ echoed' = [echoed EXCEPT ![c] = Append(@, x)]
    BY <2>1, DeliveredWrote
  <2> QED
    BY <1>0, <2>1, <2>3, <2>4, <2>5 DEF Pops
<1>5. CASE handle_write_error(c)
  BY <1>5, WritesShort DEF handle_write_error, Aborts
<1> QED
  BY <1>1, <1>2, <1>3, <1>4, <1>5 DEF FramesStep

\* What a handler of project 6 does to the line of its connection.
LEMMA WebSocketEffects ==
  ASSUME EchoInv, NEW c \in Conns, WebSocketStep(c)
  PROVE  UNCHANGED lineVars \/ Sends(c) \/ Pops(c) \/ Aborts(c) \/ Fails(c)
<1> USE DEF lineVars, streamVars, EchoInv
<1>0. server # "frames"
  BY DEF WebSocketStep, StartAccept, AsyncAccept, Start, WriteHandler, WriteHandlerError
<1>1. CASE StartAccept(c) \/ AsyncAccept(c)
  BY <1>1 DEF StartAccept, AsyncAccept
<1>2. CASE Start(c)
  <2>0. c \notin failed /\ UNCHANGED <<server, echoed>>
    BY <1>2 DEF Start, FailedInv
  <2>1. CASE failed' = failed \cup {c} /\ UNCHANGED <<_send_que, writing, queued>>
    BY <2>0, <2>1 DEF Fails
  <2>2. CASE Arrives(c) /\ AsyncSend(c, Head(inbox[c])) /\ UNCHANGED failed
    <3> DEFINE m == Head(inbox[c])
    <3>1. m \in Messages
      BY <2>2, LineTyped, HeadTailProperties DEF Arrives
    <3>2. /\ _send_que' = [_send_que EXCEPT ![c] = Append(@, m)]
          /\ queued' = [queued EXCEPT ![c] = Append(@, m)]
      BY <2>2 DEF AsyncSend
    <3>3. CASE ~idle(c)
      BY <2>0, <2>2, <3>1, <3>2, <3>3 DEF AsyncSend, idle, Sends
    <3>4. CASE idle(c)
      <4>1. PICK kept \in BOOLEAN :
              writing' = [writing EXCEPT ![c] = writing[c] \o <<[m |-> m, kept |-> kept]>>]
        BY <2>2, <3>4 DEF AsyncSend, SendCallBack
      <4> DEFINE v == [m |-> m, kept |-> kept]
      <4>2. v \in Writes /\ v.m = m
        BY <3>1 DEF Writes
      <4>3. _send_que[c] = << >> /\ writing[c] = << >>
        BY <3>4, WritesShort DEF idle
      <4> HIDE DEF v
      <4>4. << >> \o <<v>> = <<v>>
        <5>1. <<v>> \in Seq(Writes)
          BY <4>2
        <5> QED
          BY <5>1, ConcatEmptySeq
      <4>5. writing' = [writing EXCEPT ![c] = <<v>>]
        BY <4>1, <4>3, <4>4 DEF v
      <4> QED
        BY <1>0, <2>0, <2>2, <3>1, <3>2, <4>2, <4>3, <4>5 DEF Sends
    <3> QED
      BY <3>3, <3>4
  <2> QED
    BY <1>2, <2>1, <2>2 DEF Start
<1>3. CASE WriteHandler(c)
  <2> DEFINE q == Tail(_send_que[c])
  <2>1. /\ writing[c] # << >> /\ Delivered(c, Head(writing[c])) /\ c \notin failed
        /\ UNCHANGED <<server, failed, queued>> /\ _send_que' = [_send_que EXCEPT ![c] = Tail(@)]
    BY <1>3 DEF WriteHandler
  <2>2. q \in Seq(Messages) /\ Tail(writing[c]) = << >>
    BY <2>1, WritesShort, LineTyped, HeadTailProperties
  <2>3. \E w \in Seq(Writes) : NextWrite(q, w) /\ writing' = [writing EXCEPT ![c] = w]
    <3>1. CASE q = << >>
      <4>1. writing' = [writing EXCEPT ![c] = << >>]
        BY <1>3, <2>2, <3>1 DEF WriteHandler
      <4>2. << >> \in Seq(Writes) /\ NextWrite(q, << >>)
        BY <1>0, <2>2, NextWriteMade
      <4> QED
        BY <4>1, <4>2
    <3>2. CASE q # << >>
      <4>1. PICK kept \in BOOLEAN :
              writing' = [writing EXCEPT ![c] =
                            Tail(writing[c]) \o <<[m |-> Head(q), kept |-> kept]>>]
        BY <1>3, <3>2 DEF WriteHandler, SendCallBack
      <4> DEFINE w == <<[m |-> Head(q), kept |-> kept]>>
      <4>2. w \in Seq(Writes) /\ NextWrite(q, w)
        BY <1>0, <2>2, <3>2, NextWriteMade
      <4> HIDE DEF w
      <4>3. << >> \o w = w
        BY <4>2, ConcatEmptySeq
      <4>4. writing' = [writing EXCEPT ![c] = w]
        BY <2>2, <4>1, <4>3 DEF w
      <4> QED
        BY <4>2, <4>4
    <3> QED
      BY <3>1, <3>2
  <2>4. \E x \in Messages \cup {Garbage} :
           Wrote(writing[c], x) /\ echoed' = [echoed EXCEPT ![c] = Append(@, x)]
    BY <2>1, DeliveredWrote
  <2> QED
    BY <2>1, <2>3, <2>4 DEF Pops
<1>4. CASE WriteHandlerError(c)
  <2>1. /\ writing[c] # << >> /\ UNCHANGED <<server, failed, _send_que, queued>>
        /\ writing' = [writing EXCEPT ![c] = Tail(@)]
        /\ (c \in failed /\ Delivered(c, Head(writing[c]))) \/ UNCHANGED echoed
    BY <1>4 DEF WriteHandlerError
  <2>2. Tail(writing[c]) = << >>
    BY <2>1, WritesShort
  <2>3. Delivered(c, Head(writing[c])) =>
          \E x \in Messages \cup {Garbage} :
             Wrote(writing[c], x) /\ echoed' = [echoed EXCEPT ![c] = Append(@, x)]
    BY <2>1, DeliveredWrote
  <2> QED
    BY <2>1, <2>2, <2>3 DEF Aborts
<1> QED
  BY <1>1, <1>2, <1>3, <1>4 DEF WebSocketStep

-----------------------------------------------------------------------------
(* The invariant                                                           *)

\* The line of one connection moves on to q2, all2, e2 and w2.
LineTo(c, q2, all2, e2, w2) ==
  /\ q2 \in Seq(Messages) /\ all2 \in Seq(Messages) /\ w2 \in Seq(Writes)
  /\ e2 \in Seq(Messages \cup {Garbage})
  /\ server' = server /\ \A d \in Conns \ {c} : d \in failed' <=> d \in failed
  /\ _send_que' = [_send_que EXCEPT ![c] = q2] /\ queued' = [queued EXCEPT ![c] = all2]
  /\ echoed' = [echoed EXCEPT ![c] = e2] /\ writing' = [writing EXCEPT ![c] = w2]
  /\ EchoLine(server, Slack(c)', q2, all2, e2, w2)

LineTypes ==
  /\ _send_que \in [Conns -> Seq(Messages)] /\ queued \in [Conns -> Seq(Messages)]
  /\ writing \in [Conns -> Seq(Writes)] /\ echoed \in [Conns -> Seq(Messages \cup {Garbage})]

\* A step that moves the line of one connection correctly leaves all lines correct.
LEMMA LineMoves ==
  ASSUME LineTypes, LineInv, NEW c \in Conns, NEW q2, NEW all2, NEW e2, NEW w2,
         LineTo(c, q2, all2, e2, w2)
  PROVE  LineInv' /\ LineTypes'
<1>1. LineTypes'
  BY DEF LineTypes, LineTo
<1>2. ASSUME NEW d \in Conns
      PROVE  EchoLine(server, Slack(d), _send_que[d], queued[d], echoed[d], writing[d])'
  <2>1. CASE d = c
    <3>1. _send_que'[d] = q2 /\ queued'[d] = all2 /\ echoed'[d] = e2 /\ writing'[d] = w2
      BY <2>1 DEF LineTypes, LineTo
    <3>2. EchoLine(server, Slack(c)', q2, all2, e2, w2) /\ server' = server
      BY DEF LineTo
    <3> QED
      BY <2>1, <3>1, <3>2
  <2>2. CASE d # c
    <3>1. /\ _send_que'[d] = _send_que[d] /\ queued'[d] = queued[d]
          /\ echoed'[d] = echoed[d] /\ writing'[d] = writing[d]
          /\ Slack(d)' = Slack(d) /\ server' = server
      BY <2>2 DEF LineTypes, LineTo, Slack
    <3>2. EchoLine(server, Slack(d), _send_que[d], queued[d], echoed[d], writing[d])
      BY DEF LineInv
    <3> QED
      BY <3>1, <3>2
  <2> QED
    BY <2>1, <2>2
<1> QED
  BY <1>1, <1>2 DEF LineInv

\* Each of the effects keeps every line correct.
LEMMA LineStep ==
  ASSUME EchoInv, NEW c \in Conns,
         UNCHANGED lineVars \/ Sends(c) \/ Pops(c) \/ Aborts(c) \/ Fails(c)
  PROVE  LineInv' /\ LineTypes'
<1> DEFINE q == _send_que[c]
           all == queued[c]
           e == echoed[c]
           w == writing[c]
<1>1. LineTypes /\ LineInv
  BY DEF EchoInv, EchoTypes, LineTypes
<1>2. /\ q \in Seq(Messages) /\ all \in Seq(Messages) /\ w \in Seq(Writes)
      /\ e \in Seq(Messages \cup {Garbage})
  BY <1>1 DEF LineTypes
<1>3. EchoLine(server, Slack(c), q, all, e, w)
  BY <1>1 DEF LineInv
<1>4. /\ _send_que = [_send_que EXCEPT ![c] = q] /\ queued = [queued EXCEPT ![c] = all]
      /\ echoed = [echoed EXCEPT ![c] = e] /\ writing = [writing EXCEPT ![c] = w]
  BY <1>1 DEF LineTypes
<1>5. CASE UNCHANGED lineVars
  BY <1>1, <1>5 DEF lineVars, LineTypes, LineInv, Slack
<1>6. CASE Sends(c)
  <2>1. PICK m \in Messages :
          /\ _send_que' = [_send_que EXCEPT ![c] = Append(q, m)]
          /\ queued' = [queued EXCEPT ![c] = Append(all, m)]
          /\ \/ q # << >> /\ UNCHANGED writing
             \/ /\ q = << >>
                /\ \E v \in Writes : /\ v.m = m /\ (server = "frames" => v.kept = TRUE)
                                     /\ writing' = [writing EXCEPT ![c] = <<v>>]
    BY <1>6 DEF Sends
  <2>2. Slack(c) = 0 /\ Slack(c)' = 0 /\ UNCHANGED <<server, failed, echoed>>
    BY <1>6 DEF Sends, Slack
  <2>3. echoed' = [echoed EXCEPT ![c] = e]
    BY <1>4, <2>2
  <2>4. Append(q, m) \in Seq(Messages) /\ Append(all, m) \in Seq(Messages)
    BY <1>2, AppendProperties
  <2>5. EchoLine(server, 0, q, all, e, w)
    BY <1>3, <2>2
  <2> HIDE DEF q, all, e, w
  <2>6. CASE q # << >> /\ UNCHANGED writing
    <3>1. writing' = [writing EXCEPT ![c] = w]
      BY <1>4, <2>6
    <3>2. Len(q) > 0
      BY <1>2, <2>6, EmptySeq, LenProperties
    <3>3. EchoLine(server, 0, Append(q, m), Append(all, m), e, w)
      BY <1>2, <2>5, <3>2, LineQueues
    <3>4. LineTo(c, Append(q, m), Append(all, m), e, w)
      BY <1>2, <2>1, <2>2, <2>3, <2>4, <3>1, <3>3 DEF LineTo
    <3> QED
      BY <1>1, <3>4, LineMoves
  <2>7. ASSUME q = << >>, NEW v \in Writes, v.m = m, server = "frames" => v.kept = TRUE,
               writing' = [writing EXCEPT ![c] = <<v>>]
        PROVE  LineInv' /\ LineTypes'
    <3>1. Len(q) = 0 /\ <<v>> \in Seq(Writes)
      BY <2>7
    <3>2. EchoLine(server, 0, Append(q, m), Append(all, m), e, <<v>>)
      BY <1>2, <2>5, <2>7, <3>1, LineStarts
    <3>3. LineTo(c, Append(q, m), Append(all, m), e, <<v>>)
      BY <1>2, <2>1, <2>2, <2>3, <2>4, <2>7, <3>1, <3>2 DEF LineTo
    <3> QED
      BY <1>1, <3>3, LineMoves
  <2> QED
    BY <2>1, <2>6, <2>7
<1>7. CASE Pops(c)
  <2>1. PICK x \in Messages \cup {Garbage} :
          Wrote(w, x) /\ echoed' = [echoed EXCEPT ![c] = Append(e, x)]
    BY <1>7 DEF Pops
  <2>2. PICK w2 \in Seq(Writes) :
          NextWrite(Tail(q), w2) /\ writing' = [writing EXCEPT ![c] = w2]
    BY <1>7 DEF Pops
  <2>3. /\ Slack(c) = 0 /\ Slack(c)' = 0 /\ UNCHANGED <<server, failed, queued>> /\ w # << >>
        /\ _send_que' = [_send_que EXCEPT ![c] = Tail(q)]
    BY <1>7 DEF Pops, Slack
  <2>4. queued' = [queued EXCEPT ![c] = all] /\ q # << >>
    BY <1>4, <2>3, WritesShort DEF EchoInv
  <2>5. Tail(q) \in Seq(Messages) /\ Append(e, x) \in Seq(Messages \cup {Garbage})
    BY <1>2, <2>4, AppendProperties, HeadTailProperties
  <2> HIDE DEF q, all, e, w
  <2>6. EchoLine(server, 0, Tail(q), all, Append(e, x), w2)
    <3>1. EchoLine(server, 0, q, all, e, w)
      BY <1>3, <2>3
    <3> QED
      BY <1>2, <2>1, <2>2, <2>3, <3>1, LinePops DEF NextWrite
  <2>7. LineTo(c, Tail(q), all, Append(e, x), w2)
    BY <1>2, <2>1, <2>2, <2>3, <2>4, <2>5, <2>6 DEF LineTo
  <2> QED
    BY <1>1, <2>7, LineMoves
<1>8. CASE Aborts(c)
  <2>1. /\ w # << >> /\ UNCHANGED <<server, failed, _send_que, queued>>
        /\ writing' = [writing EXCEPT ![c] = << >>] /\ Slack(c)' = Slack(c)
        /\ _send_que' = [_send_que EXCEPT ![c] = q] /\ queued' = [queued EXCEPT ![c] = all]
    BY <1>4, <1>8 DEF Aborts, Slack
  <2>2. << >> \in Seq(Writes)
    OBVIOUS
  <2>3. CASE UNCHANGED echoed
    <3>1. echoed' = [echoed EXCEPT ![c] = e]
      BY <1>4, <2>3
    <3> HIDE DEF q, all, e, w
    <3>2. EchoLine(server, Slack(c)', q, all, e, << >>)
      BY <1>2, <1>3, <2>1, LineAborts
    <3>3. LineTo(c, q, all, e, << >>)
      BY <1>2, <2>1, <2>2, <3>1, <3>2 DEF LineTo
    <3> QED
      BY <1>1, <3>3, LineMoves
  <2>4. ASSUME c \in failed, NEW x \in Messages \cup {Garbage}, Wrote(w, x),
               echoed' = [echoed EXCEPT ![c] = Append(e, x)]
        PROVE  LineInv' /\ LineTypes'
    <3>1. Append(e, x) \in Seq(Messages \cup {Garbage})
      BY <1>2, AppendProperties
    <3>2. Slack(c) = 1
      BY <2>4 DEF Slack
    <3> HIDE DEF q, all, e, w
    <3>3. EchoLine(server, 1, q, all, Append(e, x), << >>)
      BY <1>2, <1>3, <2>1, <2>4, <3>2, LineAbortsSent
    <3>4. LineTo(c, q, all, Append(e, x), << >>)
      BY <1>2, <2>1, <2>2, <2>4, <3>1, <3>2, <3>3 DEF LineTo
    <3> QED
      BY <1>1, <3>4, LineMoves
  <2> QED
    BY <1>8, <2>3, <2>4 DEF Aborts
<1>9. CASE Fails(c)
  <2>1. /\ Slack(c) = 0 /\ Slack(c)' = 1 /\ UNCHANGED <<server, _send_que, queued, echoed, writing>>
        /\ \A d \in Conns \ {c} : d \in failed' <=> d \in failed
    BY <1>9 DEF Fails, Slack
  <2>2. /\ _send_que' = [_send_que EXCEPT ![c] = q] /\ queued' = [queued EXCEPT ![c] = all]
        /\ echoed' = [echoed EXCEPT ![c] = e] /\ writing' = [writing EXCEPT ![c] = w]
    BY <1>4, <2>1
  <2> HIDE DEF q, all, e, w
  <2>3. EchoLine(server, 1, q, all, e, w)
    BY <1>2, <1>3, <2>1, LineFails
  <2>4. LineTo(c, q, all, e, w)
    BY <1>2, <2>1, <2>2, <2>3 DEF LineTo
  <2> QED
    BY <1>1, <2>4, LineMoves
<1> QED
  BY <1>5, <1>6, <1>7, <1>8, <1>9

\* The reading side keeps its types, and a connection that has failed is done
\* with.
LEMMA ReadStep ==
  ASSUME EchoInv, NEW c \in Conns,
         \/ ClientSends(c) \/ ClientEnds(c) \/ ClientResets(c)
         \/ FramesStep(c) \/ WebSocketStep(c)
  PROVE  /\ read' \in [Conns -> {"none", "handshake", "head", "body", "message"}]
         /\ next' \in [Conns -> 1..(MaxMessages + 1)]
         /\ inbox' \in [Conns -> Seq(Messages)]
         /\ FailedInv'
<1> USE DEF EchoInv, EchoTypes, FailedInv, streamVars, clientVars
<1>0. Arrives(c) => Tail(inbox[c]) \in Seq(Messages)
  BY LineTyped, HeadTailProperties DEF Arrives
<1>1. CASE ClientSends(c)
  <2>1. PICK m \in {next[c], Bad} : inbox' = [inbox EXCEPT ![c] = Append(@, m)]
    BY <1>1 DEF ClientSends
  <2>2. m \in Messages /\ next[c] + 1 \in 1..(MaxMessages + 1)
    BY <1>1, EchoAssumption, SMTT(20) DEF ClientSends, Messages, Bad
  <2>3. Append(inbox[c], m) \in Seq(Messages)
    BY <2>2, LineTyped, AppendProperties
  <2> QED
    BY <1>1, <2>1, <2>2, <2>3 DEF ClientSends
<1>2. CASE ClientEnds(c) \/ ClientResets(c)
  BY <1>2 DEF ClientEnds, ClientResets
<1>3. CASE handle_accept(c)
  BY <1>3 DEF handle_accept
<1>4. CASE handle_read_head(c)
  BY <1>4 DEF handle_read_head, ReadEnds
<1>5. CASE handle_read_body(c)
  BY <1>0, <1>5 DEF handle_read_body, ReadEnds
<1>6. CASE handle_write(c) \/ handle_write_error(c)
  BY <1>6 DEF handle_write, handle_write_error
<1>7. CASE StartAccept(c)
  BY <1>7 DEF StartAccept
<1>8. CASE AsyncAccept(c)
  BY <1>8 DEF AsyncAccept
<1>9. CASE Start(c)
  BY <1>0, <1>9 DEF Start
<1>10. CASE WriteHandler(c) \/ WriteHandlerError(c)
  BY <1>10 DEF WriteHandler, WriteHandlerError
<1> QED
  BY <1>1, <1>2, <1>3, <1>4, <1>5, <1>6, <1>7, <1>8, <1>9, <1>10 DEF FramesStep, WebSocketStep

\* The inductive invariant of both echo servers: the line of messages of every
\* connection, and that a failed stream stays so.
THEOREM EchoInvariant == Spec => []EchoInv
<1>1. Init => EchoInv
  <2> SUFFICES ASSUME Init PROVE EchoInv
    OBVIOUS
  <2> USE DEF Init
  <2>1. EchoTypes
    BY EchoAssumption DEF EchoTypes
  <2>2. FailedInv
    BY DEF FailedInv
  <2>3. LineInv
    <3>1. ASSUME NEW c \in Conns
          PROVE  /\ _send_que[c] = << >> /\ queued[c] = << >> /\ echoed[c] = << >>
                 /\ writing[c] = << >> /\ Slack(c) = 0
      BY DEF Slack
    <3>2. EchoLine(server, 0, << >>, << >>, << >>, << >>)
      BY DEF EchoLine
    <3> QED
      BY <3>1, <3>2 DEF LineInv
  <2> QED
    BY <2>1, <2>2, <2>3 DEF EchoInv
<1>2. EchoInv /\ [Next]_vars => EchoInv'
  <2> SUFFICES ASSUME EchoInv, [Next]_vars PROVE EchoInv'
    OBVIOUS
  <2>1. CASE UNCHANGED vars
    BY <2>1 DEF vars, streamVars, clientVars, EchoInv, EchoTypes, FailedInv, LineInv, Slack
  <2>2. ASSUME NEW c \in Conns, \/ ClientSends(c) \/ ClientEnds(c) \/ ClientResets(c)
                                \/ FramesStep(c) \/ WebSocketStep(c)
        PROVE  EchoInv'
    <3>1. UNCHANGED lineVars \/ Sends(c) \/ Pops(c) \/ Aborts(c) \/ Fails(c)
      BY <2>2, FramesEffects, WebSocketEffects
      DEF ClientSends, ClientEnds, ClientResets, streamVars, lineVars
    <3> QED
      BY <2>2, <3>1, LineStep, ReadStep DEF EchoInv, EchoTypes, LineTypes
  <2> QED
    BY <2>1, <2>2 DEF Next
<1> QED
  BY <1>1, <1>2, PTL DEF Spec

\* Every message that a server queued is in its queue or has gone out, once and
\* in order, one write at a time; only the WebSocket server may send bytes of
\* freed memory in the place of one.
THEOREM EchoesKeepOrder == Spec => []EchoesInOrder
<1>1. EchoInv => EchoesInOrder
  <2> SUFFICES ASSUME EchoInv, NEW c \in Conns
               PROVE  LET popped == Len(queued[c]) - Len(_send_que[c]) IN
                 /\ Len(echoed[c]) \in popped..(IF c \in failed THEN popped + 1 ELSE popped)
                 /\ \A i \in DOMAIN echoed[c] :
                      echoed[c][i] \in {queued[c][i]}
                                         \cup (IF server = "frames" THEN {} ELSE {Garbage})
                 /\ \A i \in DOMAIN _send_que[c] : _send_que[c][i] = queued[c][popped + i]
                 /\ Len(writing[c]) =< 1
    BY DEF EchoesInOrder
  <2>1. EchoLine(server, Slack(c), _send_que[c], queued[c], echoed[c], writing[c])
    BY DEF EchoInv, LineInv
  <2>2. /\ DOMAIN echoed[c] = 1..Len(echoed[c]) /\ DOMAIN _send_que[c] = 1..Len(_send_que[c])
        /\ Len(queued[c]) \in Nat /\ Len(_send_que[c]) \in Nat
    BY LineTyped, LenProperties DEF EchoInv
  <2>3. Len(writing[c]) =< 1
    <3>1. CASE writing[c] = << >>
      BY <3>1
    <3>2. CASE writing[c] # << >>
      <4>1. Len(writing[c]) = 1
        BY <2>1, <3>2 DEF EchoLine
      <4> QED
        BY <4>1
    <3> QED
      BY <3>1, <3>2
  <2> DEFINE popped == Len(queued[c]) - Len(_send_que[c])
  <2>4. Len(echoed[c]) \in popped..(popped + Slack(c))
    BY <2>1 DEF EchoLine
  <2>5. popped + Slack(c) = IF c \in failed THEN popped + 1 ELSE popped
    <3>1. popped \in Int
      BY <2>2
    <3>2. CASE c \in failed
      BY <3>2 DEF Slack
    <3>3. CASE c \notin failed
      <4>1. Slack(c) = 0
        BY <3>3 DEF Slack
      <4> HIDE DEF popped
      <4> QED
        BY <3>1, <3>3, <4>1
    <3> QED
      BY <3>2, <3>3
  <2>6. \A i \in DOMAIN echoed[c] :
          echoed[c][i] \in {queued[c][i]} \cup (IF server = "frames" THEN {} ELSE {Garbage})
    BY <2>1, <2>2 DEF EchoLine
  <2>7. \A i \in DOMAIN _send_que[c] : _send_que[c][i] = queued[c][popped + i]
    BY <2>1, <2>2 DEF EchoLine
  <2> QED
    BY <2>3, <2>4, <2>5, <2>6, <2>7
<1> QED
  BY <1>1, EchoInvariant, PTL
=============================================================================
