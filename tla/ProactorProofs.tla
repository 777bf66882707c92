--------------------------- MODULE ProactorProofs ---------------------------
(***************************************************************************)
(* Proofs about the Proactor server, for every number of descriptors,      *)
(* connections, workers and requests.  The private init() overruns         *)
(* m_write_buf and clears the m_sockfd of the next object of users[] (the  *)
(* run SockfdMatches shows it); the theorems are therefore about every     *)
(* behaviour in which no open connection loses its m_sockfd,               *)
(* Spec /\ []SockfdMatches.  The last one says which behaviours these are. *)
(***************************************************************************)
EXTENDS Proactor, SequenceTheorems, FiniteSetTheorems, TLAPS

\* The queue can hold every descriptor but standard input and one more.
Roomy == Cardinality(Fds) =< MaxRequest + 2

-----------------------------------------------------------------------------
(* The inductive invariant                                                 *)

\* A connection is in the backlog once or has one descriptor; descriptors of
\* connections, and only they, are registered with epoll.
ConnInv ==
  /\ file[0] = Other
  /\ \A f \in Fds : file[f] \in Conns => cstate[file[f]] = "open"
  /\ \A f, g \in Fds : file[f] \in Conns /\ file[f] = file[g] => f = g
  /\ \A f \in Fds : epoll[f] = "none" <=> file[f] \notin Conns
  /\ \A i \in 1..Len(backlog) : cstate[backlog[i]] = "backlog"
  /\ \A i, j \in 1..Len(backlog) : backlog[i] = backlog[j] => i = j

Armed(f) == epoll[f] \in {"in", "out"}
InBatch(f) == \E e \in events : e.fd = f
InQueue(f) == \E i \in 1..Len(queue) : queue[i] = f
AtWork(f) == \E w \in Workers : running[w] = f

\* The four owners of Owners(f) exclude each other, each has f once, and all of
\* them have open connections only.
OwnerInv ==
  /\ \A f \in Fds : Armed(f) \/ InBatch(f) \/ InQueue(f) \/ AtWork(f) => file[f] \in Conns
  /\ \A f \in Fds : Armed(f) => ~InBatch(f) /\ ~InQueue(f) /\ ~AtWork(f)
  /\ \A f \in Fds : InBatch(f) => ~InQueue(f) /\ ~AtWork(f)
  /\ \A f \in Fds : InQueue(f) => ~AtWork(f)
  /\ \A d, e \in events : d.fd = e.fd => d = e
  /\ \A i, j \in 1..Len(queue) : queue[i] = queue[j] => i = j
  /\ \A v, w \in Workers : running[v] # NoTask /\ running[v] = running[w] => v = w

WorkInv == \A w \in Workers : rearm[w] # "none" => running[w] # NoTask

\* Between process() and the end of write(): the object holds a response.
WillWrite(f) ==
  \/ epoll[f] = "out"
  \/ Pending(f, "out")
  \/ \E w \in Workers : running[w] = f /\ rearm[w] = "out"

\* The response u holds answers a request of its buffer, and its file is mapped.
HoldsReply(u) ==
  /\ u.m_write_buf \in Chunks
  /\ u.m_write_buf.file => u.m_file_address # "null"
  /\ u.m_write_buf.end
  /\ \E i \in 1..Len(u.m_read_buf) : u.m_read_buf[i] = u.m_write_buf

ReplyInv == \A f \in Fds : WillWrite(f) => HoldsReply(users[f])

\* The replies r answer, in this order, some of the first n chunks of s.
Matched(s, r, n) ==
  \E at \in [1..Len(r) -> 1..n] :
    /\ \A i, j \in 1..Len(r) : i < j => at[i] < at[j]
    /\ \A i \in 1..Len(r) : s[at[i]] = r[i] /\ r[i].end

\* Of the chunks s a client has sent, recv() has returned n; the last of these
\* are in the buffer b, and the replies r answer those before them.
Line(s, n, r, b) ==
  /\ Len(b) =< n /\ n =< Len(s)
  /\ \A i \in 1..Len(b) : b[i] = s[n - Len(b) + i]
  /\ Matched(s, r, n - Len(b))

LineInv ==
  /\ \A c \in Conns : taken[c] =< Len(sent[c]) /\ Matched(sent[c], replies[c], Len(sent[c]))
  /\ \A c \in Conns : cstate[c] \in {"new", "backlog"} => taken[c] = 0 /\ replies[c] = << >>
  /\ \A f \in Fds : file[f] \in Conns
       => Line(sent[file[f]], taken[file[f]], replies[file[f]], users[f].m_read_buf)

ProactorInv ==
  TypeOK /\ ConnInv /\ OwnerInv /\ WorkInv /\ UserCountExact /\ EventsFresh /\ ReplyInv /\ LineInv

\* Somebody is going to look at every open connection.
OwnedInv ==
  \A f \in Fds : file[f] \in Conns => Armed(f) \/ InBatch(f) \/ InQueue(f) \/ AtWork(f)

-----------------------------------------------------------------------------
(* What the handlers do to the object, the descriptor and the connection   *)
(* of their event                                                          *)

\* The response of users[f] has gone out to its client.
Replied(f) == replies' = [replies EXCEPT ![file[f]] = Append(@, users[f].m_write_buf)]

\* An event of f is at hand and done with: f is open and nobody else has it.
Handling(f) ==
  /\ file[f] \in Conns /\ epoll[f] = "off" /\ users[f].m_sockfd = f
  /\ InBatch(f) /\ ~InQueue(f) /\ ~AtWork(f)
  /\ events' = Others(f)
  /\ UNCHANGED <<backlog, lready, clientVars, accepting, running, rearm, alive>>

\* closeconn()
Closing(f) ==
  /\ epoll' = [epoll EXCEPT ![f] = "none"]
  /\ file' = [file EXCEPT ![f] = Free]
  /\ cstate' = [c \in Conns |-> IF file[f] = c THEN "closed" ELSE cstate[c]]
  /\ m_user_count' = m_user_count - 1
  /\ users' \in {[us EXCEPT ![f].m_sockfd = -1] : us \in {users, unmap(users, f)}}
  /\ UNCHANGED replies \/ (Replied(f) /\ Pending(f, "out"))
  /\ UNCHANGED <<taken, queue>>

\* read() and append()
Reading(f) ==
  /\ Pending(f, "in")
  /\ users' = [users EXCEPT ![f].m_read_buf = @ \o Unread(file[f])]
  /\ taken' = [taken EXCEPT ![file[f]] = Len(sent[file[f]])]
  /\ queue' = Append(queue, f) \/ (UNCHANGED queue /\ ~Pool!HasRoom)
  /\ UNCHANGED <<epoll, file, cstate, m_user_count, replies>>

\* write() on a kept connection
Keeping(f) ==
  /\ Pending(f, "out")
  /\ users' = initAll(unmap(users, f), f)
  /\ Replied(f)
  /\ epoll' = [epoll EXCEPT ![f] = "in"]
  /\ UNCHANGED <<file, cstate, m_user_count, taken, queue>>

\* write() without room in the socket buffer
Waiting(f) ==
  /\ Pending(f, "out")
  /\ epoll' = [epoll EXCEPT ![f] = "out"]
  /\ UNCHANGED <<file, cstate, m_user_count, taken, queue, users, replies>>

\* While no m_sockfd is lost, main() works on nothing but the connection of the
\* event and its own object.
LEMMA HandlerEffects ==
  ASSUME ProactorInv, SockfdMatches, NEW f \in Fds, Handle(f)
  PROVE  Handling(f) /\ (Closing(f) \/ Reading(f) \/ Keeping(f) \/ Waiting(f))
<1>1. Pending(f, "hup") \/ Pending(f, "in") \/ Pending(f, "out")
  BY DEF Handle, HandleHup, HandleIn, HandleOutDone, HandleOutAgain, HandleOutFails
<1>2. InBatch(f)
  BY <1>1 DEF Pending, InBatch
<1>3. /\ file[f] \in Conns /\ ~InQueue(f) /\ ~AtWork(f) /\ ~Armed(f)
  BY <1>2 DEF ProactorInv, OwnerInv
<1>4. users[f].m_sockfd = f
  BY <1>3 DEF SockfdMatches, OpenFds
<1>5. epoll[f] = "off"
  <2>1. epoll[f] \in {"none", "off", "in", "out"}
    BY DEF ProactorInv, TypeOK
  <2>2. epoll[f] # "none"
    BY <1>3 DEF ProactorInv, ConnInv
  <2> QED
    BY <1>3, <2>1, <2>2 DEF Armed
<1>6. f # -1
  BY ProactorAssumption
<1>7. Handling(f)
  BY <1>2, <1>3, <1>4, <1>5
  DEF Handling, Handle, HandleHup, HandleIn, HandleOutDone, HandleOutAgain, HandleOutFails,
      poolVars, kernelVars, clientVars, closeconn, Pool!Accept
<1>8. unmap(users, f)[f].m_sockfd = f /\ users \in [Fds -> [m_sockfd : Fds \cup {-1},
         m_read_buf : Seq(Chunks \cup {Part}), m_linger : BOOLEAN,
         m_write_buf : Chunks \cup {NoReply}, m_file_address : {"null", "file", "failed"}]]
  BY <1>4 DEF unmap, ProactorInv, TypeOK
<1>9. \A s, ev : s = f => modifyfd(s, ev) = [epoll EXCEPT ![f] = ev]
  BY <1>5 DEF modifyfd
<1>10. Pending(f, "out") => users[f].m_write_buf # NoReply
  BY ProactorAssumption DEF ProactorInv, ReplyInv, WillWrite, HoldsReply
<1>11. closeconn(users, f) \/ closeconn(unmap(users, f), f)
         => /\ epoll' = [epoll EXCEPT ![f] = "none"]
            /\ file' = [file EXCEPT ![f] = Free]
            /\ cstate' = [c \in Conns |-> IF file[f] = c THEN "closed" ELSE cstate[c]]
            /\ m_user_count' = m_user_count - 1
            /\ users' \in {[us EXCEPT ![f].m_sockfd = -1] : us \in {users, unmap(users, f)}}
  BY <1>4, <1>6, <1>8 DEF closeconn, userRemoved
<1>12. CASE HandleHup(f)
  BY <1>7, <1>11, <1>12 DEF HandleHup, poolVars, Closing
<1>13. CASE HandleIn(f)
  <2>1. CASE readFails(f)
    <3>1. closeconn(users, f) /\ UNCHANGED <<taken, queue, running>> /\ UNCHANGED replies
      BY <1>13, <2>1, Zenon DEF HandleIn
    <3> QED
      BY <1>7, <1>11, <3>1 DEF Closing
  <2>2. CASE ~readFails(f)
    <3>1. /\ Pending(f, "in")
          /\ users' = [users EXCEPT ![f].m_read_buf = @ \o Unread(file[f])]
          /\ taken' = [taken EXCEPT ![file[f]] = Len(sent[file[f]])]
          /\ IF Pool!HasRoom THEN Pool!Accept(f) ELSE UNCHANGED <<queue, running>>
          /\ UNCHANGED <<epoll, file, cstate, m_user_count, replies>>
      BY <1>4, <1>13, <2>2, Zenon DEF HandleIn
    <3> QED
      BY <1>7, <3>1 DEF Reading, Pool!Accept
  <2> QED
    BY <1>7, <2>1, <2>2
<1>14. CASE HandleOutDone(f)
  <2>1. Replied(f) /\ Pending(f, "out")
    BY <1>3, <1>4, <1>10, <1>14 DEF HandleOutDone, Replied
  <2>2. CASE users[f].m_linger
    <3>1. /\ users' = initAll(unmap(users, f), f) /\ epoll' = modifyfd(f, "in")
          /\ UNCHANGED <<file, cstate, m_user_count, taken, queue>>
      BY <1>4, <1>14, <2>2, Zenon DEF HandleOutDone, poolVars
    <3> QED
      BY <1>7, <1>9, <2>1, <3>1 DEF Keeping
  <2>3. CASE ~users[f].m_linger
    <3>1. closeconn(unmap(users, f), f) /\ UNCHANGED <<taken, queue>>
      BY <1>10, <1>14, <2>1, <2>3, Zenon DEF HandleOutDone, poolVars
    <3> QED
      BY <1>7, <1>11, <2>1, <3>1 DEF Closing
  <2> QED
    BY <1>7, <2>2, <2>3
<1>15. CASE HandleOutAgain(f)
  BY <1>4, <1>7, <1>9, <1>15 DEF HandleOutAgain, Waiting, kernelVars, poolVars
<1>16. CASE HandleOutFails(f)
  BY <1>7, <1>11, <1>16 DEF HandleOutFails, poolVars, Closing
<1> QED
  BY <1>7, <1>12, <1>13, <1>14, <1>15, <1>16 DEF Handle

\* The last modifyfd() of process(): the worker gives back the open connection
\* that nobody else has.
Rearming(w, f) ==
  /\ running[w] = f /\ file[f] \in Conns /\ epoll[f] = "off" /\ rearm[w] \in {"in", "out"}
  /\ epoll' = [epoll EXCEPT ![f] = rearm[w]]
  /\ rearm' = [rearm EXCEPT ![w] = "none"]
  /\ running' = [running EXCEPT ![w] = NoTask]
  /\ UNCHANGED <<kernelVars, clientVars, taken, replies, users, m_user_count,
                 accepting, events, queue, alive>>

\* The modifyfd() at the end of process() acts on the descriptor it was started for.
LEMMA RearmEffects ==
  ASSUME ProactorInv, SockfdMatches, NEW w \in Workers, Rearm(w)
  PROVE  \E f \in Fds : Rearming(w, f)
<1> DEFINE f == running[w]
<1>1. f \in Fds /\ rearm[w] \in {"in", "out"}
  BY DEF Rearm, Pool!Finish, ProactorInv, TypeOK
<1> HIDE DEF f
<1>2. AtWork(f)
  BY DEF AtWork, f
<1>3. file[f] \in Conns /\ ~Armed(f)
  BY <1>1, <1>2 DEF ProactorInv, OwnerInv
<1>4. users[f].m_sockfd = f
  BY <1>1, <1>3 DEF SockfdMatches, OpenFds
<1>5. epoll[f] = "off"
  BY <1>1, <1>3 DEF ProactorInv, TypeOK, ConnInv, Armed
<1>6. epoll' = [epoll EXCEPT ![f] = rearm[w]]
  BY <1>1, <1>4, <1>5 DEF Rearm, modifyfd, f
<1>7. Rearming(w, f)
  BY <1>1, <1>3, <1>5, <1>6 DEF Rearming, Rearm, Pool!Finish, f
<1> QED
  BY <1>1, <1>7

\* Everything the system does, while no m_sockfd is lost.
Effect ==
  \/ UNCHANGED vars
  \/ \E c \in Conns : Connect(c) \/ HangUp(c) \/ \E chunk \in Chunks : Send(c, chunk)
  \/ EpollWait \/ AcceptFails
  \/ \E f \in Fds : Accept(f)
  \/ \E f \in Fds : Handling(f) /\ (Closing(f) \/ Reading(f) \/ Keeping(f) \/ Waiting(f))
  \/ \E w \in Workers : Take(w) \/ Process(w) \/ \E f \in Fds : Rearming(w, f)

\* Every step of the program has one of the effects.
LEMMA StepEffects ==
  ASSUME ProactorInv, SockfdMatches, [Next]_vars
  PROVE  Effect
<1>1. CASE ClientStep \/ UNCHANGED vars
  BY <1>1 DEF ClientStep, Effect
<1>2. CASE MainStep
  BY <1>2, HandlerEffects DEF MainStep, Effect
<1>3. CASE \E w \in Workers : WorkerStep(w)
  BY <1>3, RearmEffects DEF WorkerStep, Effect
<1> QED
  BY <1>1, <1>2, <1>3 DEF Next

-----------------------------------------------------------------------------
(* Descriptors and connections                                             *)

LEMMA ConnStep ==
  ASSUME ProactorInv, Effect
  PROVE  ConnInv'
<1> USE DEF ConnInv
<1>0. TypeOK /\ ConnInv
  BY DEF ProactorInv
<1>1. CASE UNCHANGED <<file, cstate, epoll, backlog>>
  BY <1>0, <1>1
<1>2. ASSUME NEW c \in Conns, Connect(c) PROVE ConnInv'
  <2>1. /\ Len(backlog') = Len(backlog) + 1 /\ Len(backlog) \in Nat
        /\ \A i \in 1..Len(backlog') : backlog'[i] = IF i = Len(backlog) + 1 THEN c ELSE backlog[i]
    BY <1>0, <1>2 DEF Connect, TypeOK
  <2>2. /\ cstate' = [cstate EXCEPT ![c] = "backlog"] /\ cstate[c] = "new"
        /\ UNCHANGED <<file, epoll>>
        /\ cstate \in [Conns -> {"new", "backlog", "open", "closed"}]
    BY <1>0, <1>2 DEF Connect, TypeOK
  <2>3. \A i \in 1..Len(backlog) : backlog[i] \in Conns
    BY <1>0 DEF TypeOK
  <2> QED
    BY <1>0, <2>1, <2>2, <2>3
<1>3. ASSUME NEW f \in Fds, Accept(f) PROVE ConnInv'
  <2> DEFINE c == Head(backlog)
  <2>1. /\ Len(backlog') = Len(backlog) - 1 /\ Len(backlog) \in Nat \ {0}
        /\ \A i \in 1..Len(backlog') : backlog'[i] = backlog[i + 1]
        /\ c = backlog[1]
        /\ \A i \in 1..Len(backlog) : backlog[i] \in Conns
    BY <1>0, <1>3 DEF Accept, TypeOK
  <2>2. c \in Conns /\ cstate[c] = "backlog" /\ file[f] = Free /\ f # 0
    BY <1>0, <1>3, <2>1, ProactorAssumption DEF Accept, Acceptable, FreeFds
  <2> HIDE DEF c
  <2>3. \/ cstate' = [cstate EXCEPT ![c] = "closed"] /\ UNCHANGED <<file, epoll>>
        \/ /\ cstate' = [cstate EXCEPT ![c] = "open"]
           /\ file' = [file EXCEPT ![f] = c]
           /\ epoll' = [epoll EXCEPT ![f] = "in"]
    BY <1>3 DEF Accept, c
  <2>4. /\ cstate \in [Conns -> {"new", "backlog", "open", "closed"}]
        /\ file \in [Fds -> Conns \cup {Free, Other}]
        /\ epoll \in [Fds -> {"none", "off", "in", "out"}]
    BY <1>0 DEF TypeOK
  <2>5. \A i \in 1..Len(backlog') : i + 1 \in 1..Len(backlog) /\ i + 1 # 1
    BY <2>1
  <2>6. /\ \A i \in 1..Len(backlog') : backlog'[i] \in Conns /\ backlog'[i] # c
                                        /\ cstate[backlog'[i]] = "backlog"
        /\ \A i, j \in 1..Len(backlog') : backlog'[i] = backlog'[j] => i = j
    <3>1. \A i \in 1..Len(backlog') : backlog'[i] = backlog[i + 1] /\ i + 1 \in 1..Len(backlog)
                                       /\ i + 1 # 1
      BY <2>1, <2>5
    <3>2. 1 \in 1..Len(backlog) /\ c = backlog[1]
      BY <2>1
    <3>3. \A i, j \in 1..Len(backlog') : i + 1 = j + 1 => i = j
      BY <2>1
    <3>4. \A i, j \in 1..Len(backlog) : backlog[i] = backlog[j] => i = j
      BY <1>0
    <3>5. \A i \in 1..Len(backlog) : backlog[i] \in Conns /\ cstate[backlog[i]] = "backlog"
      BY <1>0, <2>1
    <3>6. ASSUME NEW i \in 1..Len(backlog')
          PROVE  backlog'[i] \in Conns /\ backlog'[i] # c /\ cstate[backlog'[i]] = "backlog"
      BY <3>1, <3>2, <3>4, <3>5
    <3>7. ASSUME NEW i \in 1..Len(backlog'), NEW j \in 1..Len(backlog'), backlog'[i] = backlog'[j]
          PROVE  i = j
      <4>1. i + 1 = j + 1
        BY <3>1, <3>4, <3>7
      <4> QED
        BY <3>3, <4>1
    <3> QED
      BY <3>6, <3>7
  <2>7. \A g \in Fds : file[g] # c
    BY <1>0, <2>2
  <2>8. \A i \in 1..Len(backlog') : cstate'[backlog'[i]] = "backlog"
    BY <2>2, <2>3, <2>4, <2>6
  <2>9. CASE UNCHANGED <<file, epoll>>
    <3>1. \A g \in Fds : file[g] \in Conns => cstate'[file[g]] = "open"
      BY <1>0, <2>2, <2>3, <2>4, <2>7
    <3> QED
      BY <1>0, <2>6, <2>8, <2>9, <3>1
  <2>10. CASE /\ cstate' = [cstate EXCEPT ![c] = "open"]
              /\ file' = [file EXCEPT ![f] = c]
              /\ epoll' = [epoll EXCEPT ![f] = "in"]
    <3>1. \A g \in Fds : file'[g] \in Conns => cstate'[file'[g]] = "open"
      BY <1>0, <2>2, <2>4, <2>7, <2>10
    <3>2. \A g, h \in Fds : file'[g] \in Conns /\ file'[g] = file'[h] => g = h
      BY <1>0, <2>2, <2>4, <2>7, <2>10
    <3>3. file'[0] = Other /\ \A g \in Fds : epoll'[g] = "none" <=> file'[g] \notin Conns
      BY <1>0, <2>2, <2>4, <2>10, ProactorAssumption
    <3> QED
      BY <2>6, <2>8, <3>1, <3>2, <3>3
  <2> QED
    BY <2>3, <2>9, <2>10
<1>4. CASE EpollWait
  <2>1. /\ \A f \in Fds : epoll'[f] = epoll[f] \/ (epoll'[f] = "off" /\ epoll[f] # "none")
        /\ UNCHANGED <<file, cstate, backlog>>
    BY <1>4 DEF EpollWait, disarmed, Ready
  <2> QED
    BY <1>0, <2>1
<1>5. ASSUME NEW f \in Fds, Handling(f), Closing(f) PROVE ConnInv'
  <2>1. /\ cstate \in [Conns -> {"new", "backlog", "open", "closed"}]
        /\ file \in [Fds -> Conns \cup {Free, Other}]
        /\ epoll \in [Fds -> {"none", "off", "in", "out"}]
        /\ \A i \in 1..Len(backlog) : backlog[i] \in Conns
    BY <1>0 DEF TypeOK
  <2>2. UNCHANGED backlog /\ file[f] \in Conns /\ f # 0
    BY <1>0, <1>5, ProactorAssumption DEF Handling
  <2> QED
    BY <1>0, <1>5, <2>1, <2>2, ProactorAssumption DEF Closing
<1>6. ASSUME NEW f \in Fds, Handling(f), Reading(f) \/ Keeping(f) \/ Waiting(f) PROVE ConnInv'
  <2>1. /\ file[f] \in Conns /\ UNCHANGED <<file, cstate, backlog>>
        /\ epoll' = epoll \/ epoll' = [epoll EXCEPT ![f] = "in"] \/ epoll' = [epoll EXCEPT ![f] = "out"]
    BY <1>6 DEF Handling, Reading, Keeping, Waiting
  <2>2. epoll \in [Fds -> {"none", "off", "in", "out"}]
    BY <1>0 DEF TypeOK
  <2>3. \A g \in Fds : epoll'[g] = "none" <=> file[g] \notin Conns
    BY <1>0, <2>1, <2>2
  <2> QED
    BY <1>0, <2>1, <2>3
<1>7. ASSUME NEW w \in Workers, NEW f \in Fds, Rearming(w, f) PROVE ConnInv'
  BY <1>0, <1>7 DEF Rearming, TypeOK, kernelVars
<1>8. ASSUME NEW w \in Workers, Take(w) \/ Process(w) PROVE ConnInv'
  BY <1>1, <1>8 DEF Take, Process, kernelVars
<1>9. ASSUME NEW c \in Conns, HangUp(c) \/ \E chunk \in Chunks : Send(c, chunk) PROVE ConnInv'
  BY <1>1, <1>9 DEF HangUp, Send, kernelVars
<1>10. CASE UNCHANGED vars \/ AcceptFails
  BY <1>1, <1>10 DEF vars, AcceptFails, kernelVars
<1> HIDE DEF ConnInv
<1> QED
  BY <1>2, <1>3, <1>4, <1>5, <1>6, <1>7, <1>8, <1>9, <1>10 DEF Effect

-----------------------------------------------------------------------------
(* Who has which descriptor                                                *)

\* A step that moves the descriptors of moved, each one to at most one owner,
\* and leaves the others where they are.
Moves(moved) ==
  /\ \A g \in Fds \ moved : /\ file'[g] = file[g]
                            /\ Armed(g)' <=> Armed(g)
                            /\ InBatch(g)' <=> InBatch(g)
                            /\ InQueue(g)' <=> InQueue(g)
                            /\ AtWork(g)' <=> AtWork(g)
  /\ \A g \in moved : /\ Armed(g)' \/ InBatch(g)' \/ InQueue(g)' \/ AtWork(g)'
                           => file'[g] \in Conns
                      /\ Armed(g)' => ~InBatch(g)' /\ ~InQueue(g)' /\ ~AtWork(g)'
                      /\ InBatch(g)' => ~InQueue(g)' /\ ~AtWork(g)'
                      /\ InQueue(g)' => ~AtWork(g)'
                      /\ file'[g] \in Conns
                           => \/ Armed(g)' \/ InBatch(g)' \/ InQueue(g)' \/ AtWork(g)'
                              \/ Handling(g) /\ ~Pool!HasRoom
  /\ \A d, e \in events' : d.fd = e.fd => d = e
  /\ \A i, j \in 1..Len(queue') : queue'[i] = queue'[j] => i = j
  /\ \A v, w \in Workers : running'[v] # NoTask /\ running'[v] = running'[w] => v = w

\* Whoever has a descriptor has it alone, and no descriptor of a connection is
\* dropped, unless by append() on a full queue.
Passed ==
  /\ OwnerInv'
  /\ OwnedInv /\ (\A g \in Fds : Handling(g) => Pool!HasRoom) => OwnedInv'

\* If the connection changes hands in at most one place, one owner stays one owner.
LEMMA OwnerExclusion ==
  ASSUME OwnerInv, NEW moved, Moves(moved)
  PROVE  Passed
<1>1. \A g \in Fds : /\ Armed(g)' \/ InBatch(g)' \/ InQueue(g)' \/ AtWork(g)'
                          => file'[g] \in Conns
                     /\ Armed(g)' => ~InBatch(g)' /\ ~InQueue(g)' /\ ~AtWork(g)'
                     /\ InBatch(g)' => ~InQueue(g)' /\ ~AtWork(g)'
                     /\ InQueue(g)' => ~AtWork(g)'
  BY DEF OwnerInv, Moves
<1>2. OwnerInv'
  BY <1>1 DEF OwnerInv, Moves
<1>3. ASSUME OwnedInv, \A g \in Fds : Handling(g) => Pool!HasRoom
      PROVE  OwnedInv'
  BY <1>3 DEF OwnedInv, Moves
<1> QED
  BY <1>2, <1>3 DEF Passed

\* Every effect passes a connection on from one holder to the next.
LEMMA OwnerStep ==
  ASSUME ProactorInv, Effect
  PROVE  Passed
<1>0. /\ TypeOK /\ ConnInv /\ OwnerInv
      /\ \A d, e \in events : d.fd = e.fd => d = e
      /\ \A i, j \in 1..Len(queue) : queue[i] = queue[j] => i = j
      /\ \A v, w \in Workers : running[v] # NoTask /\ running[v] = running[w] => v = w
  BY DEF ProactorInv, OwnerInv
<1>1. CASE UNCHANGED <<file, epoll, events, queue, running>>
  BY <1>0, <1>1 DEF Passed, OwnerInv, OwnedInv, Armed, InBatch, InQueue, AtWork
<1>2. ASSUME NEW f \in Fds, Accept(f) PROVE Passed
  <2>1. CASE m_user_count >= MAX_FD
    BY <1>1, <1>2, <2>1 DEF Accept, poolVars
  <2>2. CASE ~(m_user_count >= MAX_FD)
    <3>1. /\ file' = [file EXCEPT ![f] = Head(backlog)] /\ Head(backlog) \in Conns
          /\ epoll' = [epoll EXCEPT ![f] = "in"] /\ file[f] = Free
          /\ UNCHANGED <<events, queue, running>>
      BY <1>0, <1>2, <2>2 DEF Accept, Acceptable, FreeFds, poolVars, TypeOK
    <3>2. ~InBatch(f) /\ ~InQueue(f) /\ ~AtWork(f)
      BY <1>0, <3>1, ProactorAssumption DEF OwnerInv
    <3>3. \A g \in Fds \ {f} : file'[g] = file[g] /\ epoll'[g] = epoll[g]
      BY <1>0, <3>1 DEF TypeOK
    <3>4. file'[f] \in Conns /\ Armed(f)'
      BY <1>0, <3>1 DEF TypeOK, Armed
    <3>5. \A g \in Fds : /\ InBatch(g)' <=> InBatch(g)
                         /\ InQueue(g)' <=> InQueue(g)
                         /\ AtWork(g)' <=> AtWork(g)
      BY <3>1 DEF InBatch, InQueue, AtWork
    <3>6. \A g \in Fds \ {f} : Armed(g)' <=> Armed(g)
      BY <3>3 DEF Armed
    <3>7. Moves({f})
      BY <1>0, <3>1, <3>2, <3>3, <3>4, <3>5, <3>6 DEF Moves
    <3> QED
      BY <1>0, <3>7, OwnerExclusion
  <2> QED
    BY <2>1, <2>2
<1>3. CASE EpollWait
  <2>1. \A g \in Fds : Ready(g) => file[g] \in Conns /\ Armed(g)
    BY DEF Ready, Armed
  <2>2. /\ events = {} /\ events' = {EventOf(g) : g \in {h \in Fds : Ready(h)}}
        /\ UNCHANGED <<file, queue, running>>
        /\ \A g \in Fds : epoll'[g] = IF Ready(g) THEN "off" ELSE epoll[g]
    <3>1. /\ events = {} /\ events' = {EventOf(g) : g \in {h \in Fds : Ready(h)}}
          /\ UNCHANGED <<file, queue, running>> /\ epoll' = disarmed
      BY <1>3, Zenon DEF EpollWait, poolVars
    <3> QED
      BY <3>1 DEF disarmed
  <2>3. \A g \in Fds : InBatch(g)' <=> Ready(g)
    <3>1. \A g \in Fds : EventOf(g).fd = g
      BY DEF EventOf
    <3>2. \A e \in events' : \E g \in Fds : Ready(g) /\ e = EventOf(g)
      BY <2>2
    <3>3. \A g \in Fds : Ready(g) => EventOf(g) \in events'
      BY <2>2
    <3> QED
      BY <3>1, <3>2, <3>3 DEF InBatch
  <2>4. \A g \in Fds : Armed(g)' <=> Armed(g) /\ ~Ready(g)
    BY <2>2 DEF Armed
  <2>5. \A g \in Fds : ~InBatch(g) /\ (InQueue(g)' <=> InQueue(g)) /\ (AtWork(g)' <=> AtWork(g))
    BY <2>2 DEF InBatch, InQueue, AtWork
  <2>6. \A d, e \in events' : d.fd = e.fd => d = e
    BY <2>2 DEF EventOf
  <2>7. \A g \in Fds : Ready(g) => ~InQueue(g) /\ ~AtWork(g)
    BY <1>0, <2>1 DEF OwnerInv
  <2> DEFINE moved == {g \in Fds : Ready(g)}
  <2>8. moved \in SUBSET Fds /\ \A g \in Fds : g \in moved <=> Ready(g)
    OBVIOUS
  <2> HIDE DEF moved
  <2>9. Moves(moved)
    BY <1>0, <2>1, <2>2, <2>3, <2>4, <2>5, <2>6, <2>7, <2>8 DEF Moves
  <2> QED
    BY <1>0, <2>9, OwnerExclusion
<1>4. ASSUME NEW f \in Fds, Handling(f), Closing(f) \/ Reading(f) \/ Keeping(f) \/ Waiting(f)
      PROVE  Passed
  <2>1. /\ file[f] \in Conns /\ ~Armed(f) /\ ~InQueue(f) /\ ~AtWork(f)
        /\ events' = {e \in events : e.fd # f} /\ UNCHANGED running
    BY <1>4 DEF Handling, Others, Armed
  <2>2. \A g \in Fds : /\ InBatch(g)' <=> InBatch(g) /\ g # f
                       /\ AtWork(g)' <=> AtWork(g)
    BY <2>1 DEF InBatch, AtWork
  <2>3. \A d, e \in events' : d.fd = e.fd => d = e
    BY <1>0, <2>1
  <2>4. \A v, w \in Workers : running'[v] # NoTask /\ running'[v] = running'[w] => v = w
    BY <1>0, <2>1
  <2>5. CASE /\ UNCHANGED queue
             /\ \/ Closing(f) \/ Keeping(f) \/ Waiting(f)
                \/ UNCHANGED <<epoll, file>> /\ ~Pool!HasRoom
    <3>1. \A g \in Fds \ {f} : file'[g] = file[g] /\ epoll'[g] = epoll[g]
      BY <1>0, <2>5 DEF TypeOK, Closing, Keeping, Waiting
    <3>2. /\ Armed(f)' => file'[f] \in Conns
          /\ file'[f] \in Conns => Armed(f)' \/ ~Pool!HasRoom
      BY <1>0, <2>1, <2>5, ProactorAssumption DEF TypeOK, Closing, Keeping, Waiting, Armed
    <3>3. \A g \in Fds : InQueue(g)' <=> InQueue(g)
      BY <2>5 DEF InQueue
    <3>4. \A g \in Fds \ {f} : Armed(g)' <=> Armed(g)
      BY <3>1 DEF Armed
    <3>5. Moves({f})
      BY <1>0, <1>4, <2>1, <2>2, <2>3, <2>4, <2>5, <3>1, <3>2, <3>3, <3>4 DEF Moves
    <3> QED
      BY <1>0, <3>5, OwnerExclusion
  <2>6. CASE queue' = Append(queue, f) /\ UNCHANGED <<epoll, file>>
    <3>1. /\ Len(queue) \in Nat /\ Len(queue') = Len(queue) + 1
          /\ \A i \in 1..Len(queue') : queue'[i] = IF i = Len(queue) + 1 THEN f ELSE queue[i]
      BY <1>0, <2>6 DEF TypeOK
    <3>2. \A g \in Fds : InQueue(g)' <=> InQueue(g) \/ g = f
      <4>1. ASSUME NEW g \in Fds, InQueue(g) PROVE InQueue(g)'
        BY <3>1, <4>1 DEF InQueue
      <4>2. InQueue(f)'
        <5>1. Len(queue) + 1 \in 1..Len(queue')
          BY <3>1
        <5> QED
          BY <3>1, <5>1 DEF InQueue
      <4>3. ASSUME NEW g \in Fds, InQueue(g)', g # f PROVE InQueue(g)
        BY <3>1, <4>3 DEF InQueue
      <4> QED
        BY <4>1, <4>2, <4>3
    <3>3. \A i, j \in 1..Len(queue') : queue'[i] = queue'[j] => i = j
      BY <1>0, <2>1, <3>1 DEF InQueue
    <3>4. \A g \in Fds : (Armed(g)' <=> Armed(g)) /\ file'[g] = file[g]
      BY <2>6 DEF Armed
    <3>5. Moves({f})
      BY <1>0, <2>1, <2>2, <2>3, <2>4, <3>2, <3>3, <3>4 DEF Moves
    <3> QED
      BY <1>0, <3>5, OwnerExclusion
  <2>7. CASE Reading(f)
    BY <2>5, <2>6, <2>7 DEF Reading
  <2>8. CASE Closing(f) \/ Keeping(f) \/ Waiting(f)
    <3>1. UNCHANGED queue
      BY <2>8 DEF Closing, Keeping, Waiting
    <3> QED
      BY <2>5, <2>8, <3>1
  <2> QED
    BY <1>4, <2>7, <2>8
<1>5. ASSUME NEW w \in Workers, Take(w) PROVE Passed
  <2> DEFINE f == Head(queue)
  <2>1. /\ running[w] = NoTask /\ queue # << >> /\ running' = [running EXCEPT ![w] = f]
        /\ queue' = Tail(queue) /\ UNCHANGED <<file, epoll, events>>
        /\ queue \in Seq(Fds) /\ running \in [Workers -> Fds \cup {NoTask}]
    BY <1>0, <1>5 DEF Take, Pool!Take, kernelVars, TypeOK
  <2>2. /\ Len(queue) \in Nat \ {0} /\ Len(queue') = Len(queue) - 1 /\ f = queue[1] /\ f \in Fds
        /\ \A i \in 1..Len(queue') : queue'[i] = queue[i + 1] /\ i + 1 \in 1..Len(queue) /\ i + 1 # 1
    BY <2>1
  <2> HIDE DEF f
  <2>3. InQueue(f)
    BY <2>2 DEF InQueue
  <2>4. \A g \in Fds : InQueue(g)' <=> InQueue(g) /\ g # f
    <3>1. ASSUME NEW g \in Fds, InQueue(g)' PROVE InQueue(g) /\ g # f
      <4>1. PICK i \in 1..Len(queue') : queue'[i] = g
        BY <3>1 DEF InQueue
      <4>2. g = queue[i + 1] /\ i + 1 \in 1..Len(queue) /\ i + 1 # 1
        BY <2>2, <4>1
      <4>3. 1 \in 1..Len(queue)
        BY <2>2
      <4> QED
        BY <1>0, <2>2, <4>2, <4>3 DEF InQueue
    <3>2. ASSUME NEW g \in Fds, InQueue(g), g # f PROVE InQueue(g)'
      <4>1. PICK i \in 1..Len(queue) : queue[i] = g
        BY <3>2 DEF InQueue
      <4>2. i # 1
        BY <2>2, <3>2, <4>1
      <4>3. i - 1 \in 1..Len(queue') /\ (i - 1) + 1 = i
        BY <2>2, <4>2
      <4>4. queue'[i - 1] = g
        BY <2>2, <4>1, <4>3
      <4> QED
        BY <4>3, <4>4 DEF InQueue
    <3> QED
      BY <3>1, <3>2
  <2>5. \A g \in Fds : AtWork(g)' <=> AtWork(g) \/ g = f
    BY <2>1, <2>2, ProactorAssumption DEF AtWork
  <2>6. ~AtWork(f) /\ ~Armed(f) /\ ~InBatch(f) /\ file[f] \in Conns
    BY <1>0, <2>2, <2>3 DEF OwnerInv
  <2>7. \A u, v \in Workers : running'[u] # NoTask /\ running'[u] = running'[v] => u = v
    BY <1>0, <2>1, <2>6 DEF AtWork
  <2>8. \A i, j \in 1..Len(queue') : queue'[i] = queue'[j] => i = j
    <3> SUFFICES ASSUME NEW i \in 1..Len(queue'), NEW j \in 1..Len(queue'), queue'[i] = queue'[j]
                 PROVE  i = j
      OBVIOUS
    <3>1. i + 1 = j + 1
      BY <1>0, <2>2
    <3> QED
      BY <3>1
  <2>9. \A g \in Fds : (Armed(g)' <=> Armed(g)) /\ (InBatch(g)' <=> InBatch(g)) /\ file'[g] = file[g]
    BY <2>1 DEF Armed, InBatch
  <2>10. \A d, e \in events' : d.fd = e.fd => d = e
    BY <1>0, <2>1
  <2>11. Moves({f})
    BY <1>0, <2>2, <2>4, <2>5, <2>6, <2>7, <2>8, <2>9, <2>10 DEF Moves
  <2> QED
    BY <1>0, <2>11, OwnerExclusion
<1>6. ASSUME NEW w \in Workers, NEW f \in Fds, Rearming(w, f) PROVE Passed
  <2>1. /\ running[w] = f /\ file[f] \in Conns /\ epoll' = [epoll EXCEPT ![f] = rearm[w]]
        /\ rearm[w] \in {"in", "out"} /\ running' = [running EXCEPT ![w] = NoTask]
        /\ UNCHANGED <<file, events, queue>>
    BY <1>6 DEF Rearming, kernelVars
  <2>2. AtWork(f) /\ ~InBatch(f) /\ ~InQueue(f) /\ f # NoTask
    BY <1>0, <2>1, ProactorAssumption DEF OwnerInv, AtWork
  <2>3. running \in [Workers -> Fds \cup {NoTask}] /\ epoll \in [Fds -> {"none", "off", "in", "out"}]
    BY <1>0 DEF TypeOK
  <2>4. \A g \in Fds : AtWork(g)' <=> AtWork(g) /\ g # f
    BY <1>0, <2>1, <2>2, <2>3, ProactorAssumption DEF AtWork
  <2>5. Armed(f)' /\ \A g \in Fds \ {f} : Armed(g)' <=> Armed(g)
    BY <2>1, <2>3 DEF Armed
  <2>6. \A g \in Fds : (InQueue(g)' <=> InQueue(g)) /\ (InBatch(g)' <=> InBatch(g)) /\ file'[g] = file[g]
    BY <2>1 DEF InQueue, InBatch
  <2>7. \A u, v \in Workers : running'[u] # NoTask /\ running'[u] = running'[v] => u = v
    BY <1>0, <2>1, <2>3
  <2>8. /\ \A d, e \in events' : d.fd = e.fd => d = e
        /\ \A i, j \in 1..Len(queue') : queue'[i] = queue'[j] => i = j
    BY <1>0, <2>1
  <2>9. Moves({f})
    BY <1>0, <2>1, <2>2, <2>4, <2>5, <2>6, <2>7, <2>8 DEF Moves
  <2> QED
    BY <1>0, <2>9, OwnerExclusion
<1>7. ASSUME NEW c \in Conns, Connect(c) \/ HangUp(c) \/ \E chunk \in Chunks : Send(c, chunk)
      PROVE  Passed
  BY <1>1, <1>7 DEF Connect, HangUp, Send, kernelVars, poolVars
<1>8. ASSUME NEW w \in Workers, Process(w) PROVE Passed
  BY <1>1, <1>8 DEF Process, kernelVars
<1>9. CASE UNCHANGED vars \/ AcceptFails
  BY <1>1, <1>9 DEF vars, AcceptFails, kernelVars, poolVars
<1> QED
  BY <1>2, <1>3, <1>4, <1>5, <1>6, <1>7, <1>8, <1>9 DEF Effect

\* An event is still for the connection it was reported for.
LEMMA EventsStep ==
  ASSUME ProactorInv, Effect
  PROVE  EventsFresh'
<1>0. TypeOK /\ OwnerInv /\ EventsFresh
  BY DEF ProactorInv
<1>1. CASE UNCHANGED <<file, events>>
  BY <1>0, <1>1 DEF EventsFresh
<1>2. ASSUME NEW f \in Fds, Accept(f) PROVE EventsFresh'
  <2>1. file[f] = Free /\ UNCHANGED events
        /\ (file' = [file EXCEPT ![f] = Head(backlog)] \/ UNCHANGED file)
    BY <1>2 DEF Accept, Acceptable, FreeFds
  <2>2. \A e \in events : e.fd # f /\ e.fd \in Fds
    <3>1. \A e \in events : e.fd \in Fds
      BY <1>0 DEF TypeOK
    <3>2. ~InBatch(f)
      BY <1>0, <2>1, ProactorAssumption DEF OwnerInv
    <3> QED
      BY <3>1, <3>2 DEF InBatch
  <2> QED
    BY <1>0, <2>1, <2>2 DEF EventsFresh, TypeOK
<1>3. CASE EpollWait
  <2>1. events' = {EventOf(g) : g \in {h \in Fds : Ready(h)}} /\ UNCHANGED file
    BY <1>3, Zenon DEF EpollWait
  <2>2. \A g \in Fds : EventOf(g).fd = g /\ EventOf(g).conn = file[g]
    BY DEF EventOf
  <2> QED
    BY <2>1, <2>2 DEF EventsFresh
<1>4. ASSUME NEW f \in Fds, Handling(f), Closing(f) \/ Reading(f) \/ Keeping(f) \/ Waiting(f)
      PROVE  EventsFresh'
  <2>1. /\ events' = {e \in events : e.fd # f}
        /\ file' = [file EXCEPT ![f] = Free] \/ UNCHANGED file
    BY <1>4 DEF Handling, Others, Closing, Reading, Keeping, Waiting
  <2>2. \A e \in events' : e \in events /\ e.fd \in Fds /\ e.fd # f
    BY <1>0, <2>1 DEF TypeOK
  <2>3. \A g \in Fds \ {f} : file'[g] = file[g]
    BY <1>0, <2>1 DEF TypeOK
  <2> QED
    BY <1>0, <2>2, <2>3 DEF EventsFresh
<1>5. ASSUME NEW w \in Workers, Take(w) \/ Process(w) \/ \E f \in Fds : Rearming(w, f)
      PROVE  EventsFresh'
  BY <1>1, <1>5 DEF Take, Process, Rearming, kernelVars
<1>6. ASSUME NEW c \in Conns, Connect(c) \/ HangUp(c) \/ \E chunk \in Chunks : Send(c, chunk)
      PROVE  EventsFresh'
  BY <1>1, <1>6 DEF Connect, HangUp, Send, kernelVars
<1>7. CASE UNCHANGED vars \/ AcceptFails
  BY <1>1, <1>7 DEF vars, AcceptFails, kernelVars
<1> QED
  BY <1>2, <1>3, <1>4, <1>5, <1>6, <1>7 DEF Effect

\* A worker that waits for its modifyfd() has a connection at work.
LEMMA WorkStep ==
  ASSUME ProactorInv, Effect
  PROVE  WorkInv'
<1>0. TypeOK /\ WorkInv
  BY DEF ProactorInv
<1>1. CASE UNCHANGED <<running, rearm>>
  BY <1>0, <1>1 DEF WorkInv
<1>2. ASSUME NEW w \in Workers, Take(w) PROVE WorkInv'
  BY <1>0, <1>2 DEF WorkInv, Take, Pool!Take, TypeOK
<1>3. ASSUME NEW w \in Workers, Process(w) PROVE WorkInv'
  <2>1. running[w] # NoTask /\ UNCHANGED running /\ \E r : rearm' = [rearm EXCEPT ![w] = r]
    BY <1>3 DEF Process
  <2> QED
    BY <1>0, <2>1 DEF WorkInv, TypeOK
<1>4. ASSUME NEW w \in Workers, NEW f \in Fds, Rearming(w, f) PROVE WorkInv'
  BY <1>0, <1>4 DEF WorkInv, Rearming, TypeOK
<1>5. ASSUME NEW f \in Fds, Accept(f) \/ Handling(f) PROVE WorkInv'
  BY <1>1, <1>5 DEF Accept, Handling, poolVars
<1>6. ASSUME NEW c \in Conns, Connect(c) \/ HangUp(c) \/ \E chunk \in Chunks : Send(c, chunk)
      PROVE  WorkInv'
  BY <1>1, <1>6 DEF Connect, HangUp, Send, poolVars
<1>7. CASE UNCHANGED vars \/ AcceptFails \/ EpollWait
  BY <1>1, <1>7 DEF vars, AcceptFails, EpollWait, poolVars
<1> QED
  BY <1>2, <1>3, <1>4, <1>5, <1>6, <1>7 DEF Effect

\* m_user_count goes with the descriptors that accept() hands out and
\* closeconn() gives back.
LEMMA CountStep ==
  ASSUME ProactorInv, Effect
  PROVE  UserCountExact' /\ m_user_count' \in Nat
<1>0. TypeOK /\ ConnInv /\ UserCountExact
  BY DEF ProactorInv
<1>1. IsFiniteSet(OpenFds) /\ IsFiniteSet(OpenFds')
  BY ProactorAssumption, FS_Subset DEF OpenFds
<1>2. ASSUME UserCountExact' PROVE m_user_count' \in Nat
  BY <1>1, <1>2, FS_CardinalityType DEF UserCountExact
<1>3. CASE UNCHANGED <<file, m_user_count>>
  BY <1>0, <1>2, <1>3 DEF UserCountExact, OpenFds
<1>4. ASSUME NEW f \in Fds, Accept(f) PROVE UserCountExact'
  <2>1. CASE m_user_count >= MAX_FD
    BY <1>3, <1>4, <2>1 DEF Accept
  <2>2. CASE ~(m_user_count >= MAX_FD)
    <3>1. /\ file' = [file EXCEPT ![f] = Head(backlog)] /\ file[f] = Free
          /\ m_user_count' = m_user_count + 1 /\ Head(backlog) \in Conns
      BY <1>0, <1>4, <2>2 DEF Accept, Acceptable, FreeFds, userAdded, TypeOK
    <3>2. OpenFds' = OpenFds \cup {f} /\ f \notin OpenFds
      BY <1>0, <3>1, ProactorAssumption DEF OpenFds, TypeOK
    <3> QED
      BY <1>0, <1>1, <3>1, <3>2, FS_AddElement DEF UserCountExact
  <2> QED
    BY <2>1, <2>2
<1>5. ASSUME NEW f \in Fds, Handling(f), Closing(f) PROVE UserCountExact'
  <2>1. /\ file' = [file EXCEPT ![f] = Free] /\ file[f] \in Conns
        /\ m_user_count' = m_user_count - 1
    BY <1>5 DEF Handling, Closing
  <2>2. OpenFds' = OpenFds \ {f} /\ f \in OpenFds
    BY <1>0, <2>1, ProactorAssumption DEF OpenFds, TypeOK
  <2> QED
    BY <1>0, <1>1, <2>1, <2>2, FS_RemoveElement DEF UserCountExact
<1>6. ASSUME NEW f \in Fds, Reading(f) \/ Keeping(f) \/ Waiting(f) PROVE UserCountExact'
  BY <1>3, <1>6 DEF Reading, Keeping, Waiting
<1>7. ASSUME NEW w \in Workers, Take(w) \/ Process(w) \/ \E f \in Fds : Rearming(w, f)
      PROVE  UserCountExact'
  BY <1>3, <1>7 DEF Take, Process, Rearming, kernelVars
<1>8. ASSUME NEW c \in Conns, Connect(c) \/ HangUp(c) \/ \E chunk \in Chunks : Send(c, chunk)
      PROVE  UserCountExact'
  BY <1>3, <1>8 DEF Connect, HangUp, Send, kernelVars
<1>9. CASE UNCHANGED vars \/ AcceptFails \/ EpollWait
  BY <1>3, <1>9 DEF vars, AcceptFails, EpollWait, kernelVars
<1> QED
  BY <1>2, <1>4, <1>5, <1>6, <1>7, <1>8, <1>9 DEF Effect

\* A set of natural numbers that is not empty has a least element, so that the
\* CHOOSE of Process() has something to choose.
LEMMA SmallestIndex ==
  ASSUME NEW T \in SUBSET Nat, T # {}
  PROVE  \E k \in T : \A j \in T : k =< j
<1>1. PICK k \in T : \A j \in T : ~(<<j, k>> \in OpToRel(<, Nat))
  BY WFMin, NatLessThanWellFounded
<1>2. \A j \in T : ~(j < k)
  BY <1>1 DEF OpToRel
<1> QED
  BY <1>2

\* process() either finds no complete request or answers one of its buffer.
Answering(w, f) ==
  /\ running[w] = f /\ rearm[w] = "none" /\ rearm' = [rearm EXCEPT ![w] = "out"]
  /\ \E i \in 1..Len(users[f].m_read_buf) :
       /\ users[f].m_read_buf[i].end /\ users[f].m_read_buf[i] \in Chunks
       /\ \E address \in {"file", "failed"} :
            users' = respond(users, f, users[f].m_read_buf[i], address)

\* process() asks for more bytes or answers the first complete request.
LEMMA ProcessEffect ==
  ASSUME TypeOK, NEW w \in Workers, Process(w)
  PROVE  \/ UNCHANGED users /\ rearm' = [rearm EXCEPT ![w] = "in"]
         \/ \E f \in Fds : Answering(w, f)
<1> DEFINE f == running[w]
           buf == users[f].m_read_buf
           i == CHOOSE i \in Completing(buf) : \A j \in Completing(buf) : i =< j
<1>1. f \in Fds /\ rearm[w] = "none"
  BY DEF Process, TypeOK
<1>2. /\ buf \in Seq(Chunks \cup {Part}) /\ DOMAIN buf = 1..Len(buf) /\ Len(buf) \in Nat
  <2>1. buf \in Seq(Chunks \cup {Part})
    BY <1>1 DEF TypeOK
  <2> HIDE DEF buf
  <2> QED
    BY <2>1, LenProperties
<1>3. CASE Completing(buf) = {}
  BY <1>3, Zenon DEF Process
<1>4. CASE Completing(buf) # {}
  <2>1. /\ rearm' = [rearm EXCEPT ![w] = "out"]
        /\ \E address \in {"file", "failed"} : users' = respond(users, f, buf[i], address)
    BY <1>4, Zenon DEF Process
  <2> HIDE DEF f, buf
  <2>2. i \in Completing(buf)
    <3>1. Completing(buf) \subseteq 1..Len(buf)
      BY <1>2 DEF Completing
    <3>2. \E k \in Completing(buf) : \A j \in Completing(buf) : k =< j
      BY <1>2, <1>4, <3>1, SmallestIndex
    <3> QED
      BY <3>2
  <2> HIDE DEF i
  <2>3. i \in 1..Len(buf) /\ buf[i].end
    BY <1>2, <2>2 DEF Completing
  <2>4. buf[i] \in Chunks
    BY <1>2, <2>3, ProactorAssumption
  <2>5. Answering(w, f)
    BY <1>1, <2>1, <2>3, <2>4 DEF Answering, f, buf
  <2> QED
    BY <1>1, <2>5
<1> QED
  BY <1>3, <1>4

-----------------------------------------------------------------------------
(* The types                                                               *)

\* The objects of users[].
UserType == [m_sockfd : Fds \cup {-1}, m_read_buf : Seq(Chunks \cup {Part}),
             m_linger : BOOLEAN, m_write_buf : Chunks \cup {NoReply},
             m_file_address : {"null", "file", "failed"}]

\* The private init() leaves objects in users[], and only that of its own
\* connection and the one behind it are other than before.
LEMMA InitAllTypes ==
  ASSUME NEW us \in [Fds -> UserType], NEW f \in Fds
  PROVE  /\ initAll(us, f) \in [Fds -> UserType]
         /\ initAll(us, f)[f].m_read_buf = << >>
         /\ initAll(us, f)[f].m_sockfd = us[f].m_sockfd
         /\ \A g \in Fds : g # f /\ g # f + 1 => initAll(us, f)[g] = us[g]
         /\ \A g \in Fds : g = f + 1 => initAll(us, f)[g].m_sockfd = 0
<1>1. f + 1 # f /\ 0 \in Fds /\ f \in Nat
  BY ProactorAssumption
<1> DEFINE own == [us[f] EXCEPT !.m_read_buf = << >>, !.m_linger = FALSE,
                                !.m_write_buf = NoReply, !.m_file_address = "null"]
           hit(g) == [us[g] EXCEPT !.m_sockfd = 0,
                                   !.m_read_buf = [i \in DOMAIN us[g].m_read_buf |-> Part]]
<1>2. own \in UserType /\ own.m_read_buf = << >> /\ own.m_sockfd = us[f].m_sockfd
  <2>1. us[f] \in UserType /\ << >> \in Seq(Chunks \cup {Part})
    OBVIOUS
  <2> DEFINE one == [us[f] EXCEPT !.m_read_buf = << >>]
             two == [one EXCEPT !.m_linger = FALSE]
             three == [two EXCEPT !.m_write_buf = NoReply]
             four == [three EXCEPT !.m_file_address = "null"]
  <2>2. one \in UserType /\ one.m_read_buf = << >> /\ one.m_sockfd = us[f].m_sockfd
    BY <2>1 DEF UserType
  <2>3. own = four
    OBVIOUS
  <2> HIDE DEF one, own
  <2>4. two \in UserType /\ two.m_read_buf = << >> /\ two.m_sockfd = us[f].m_sockfd
    BY <2>2 DEF UserType
  <2> HIDE DEF two
  <2>5. three \in UserType /\ three.m_read_buf = << >> /\ three.m_sockfd = us[f].m_sockfd
    BY <2>4 DEF UserType
  <2> HIDE DEF three
  <2> QED
    BY <2>3, <2>5 DEF UserType
<1>3. ASSUME NEW g \in Fds PROVE hit(g) \in UserType /\ hit(g).m_sockfd = 0
  <2>1. us[g].m_read_buf \in Seq(Chunks \cup {Part})
    BY DEF UserType
  <2>2. [i \in DOMAIN us[g].m_read_buf |-> Part] \in Seq(Chunks \cup {Part})
    <3>1. /\ Len(us[g].m_read_buf) \in Nat
          /\ DOMAIN us[g].m_read_buf = 1..Len(us[g].m_read_buf)
      BY <2>1, LenProperties
    <3> QED
      BY <3>1, IsASeq
  <2> QED
    BY <1>1, <2>2 DEF UserType
<1> HIDE DEF own, hit
<1>4. initAll(us, f) = [g \in Fds |-> IF g = f THEN own ELSE IF g = f + 1 THEN hit(g) ELSE us[g]]
  BY <1>1 DEF initAll, own, hit
<1> QED
  BY <1>1, <1>2, <1>3, <1>4

\* Every object of users[] keeps its type.
LEMMA UserTypes ==
  ASSUME ProactorInv, Effect
  PROVE  users' \in [Fds -> UserType]
<1>0. users \in [Fds -> UserType] /\ TypeOK
  BY DEF ProactorInv, TypeOK, UserType
<1>1. ASSUME NEW f \in Fds, Accept(f) PROVE users' \in [Fds -> UserType]
  <2>1. [users EXCEPT ![f].m_sockfd = f] \in [Fds -> UserType]
    BY <1>0 DEF UserType
  <2>2. initConn(users, f) \in [Fds -> UserType]
    BY <2>1, InitAllTypes DEF initConn
  <2>3. users' = users \/ users' = initConn(users, f)
    BY <1>1, Zenon DEF Accept
  <2> QED
    BY <1>0, <2>2, <2>3
<1>2. \A f \in Fds : unmap(users, f) \in [Fds -> UserType]
  BY <1>0 DEF unmap, UserType
<1>3. ASSUME NEW f \in Fds, Closing(f) PROVE users' \in [Fds -> UserType]
  <2>1. \/ users' = [users EXCEPT ![f].m_sockfd = -1]
        \/ users' = [unmap(users, f) EXCEPT ![f].m_sockfd = -1]
    BY <1>3 DEF Closing
  <2>2. \A us \in [Fds -> UserType] : [us EXCEPT ![f].m_sockfd = -1] \in [Fds -> UserType]
    BY DEF UserType
  <2> QED
    BY <1>0, <1>2, <2>1, <2>2
<1>4. ASSUME NEW f \in Fds, Handling(f), Reading(f) PROVE users' \in [Fds -> UserType]
  <2>1. Unread(file[f]) \in Seq(Chunks)
    <3>1. sent[file[f]] \in Seq(Chunks) /\ taken[file[f]] \in Nat
      BY <1>0, <1>4 DEF TypeOK, Handling
    <3>2. Len(sent[file[f]]) \in Nat
      BY <3>1, LenProperties
    <3> QED
      BY <3>1, <3>2, SubSeqProperties DEF Unread
  <2>2. users[f].m_read_buf \o Unread(file[f]) \in Seq(Chunks \cup {Part})
    <3>1. users[f].m_read_buf \in Seq(Chunks \cup {Part})
      BY <1>0 DEF UserType
    <3>2. Unread(file[f]) \in Seq(Chunks \cup {Part})
      BY <2>1
    <3> QED
      BY <3>1, <3>2, ConcatProperties
  <2>3. users' = [users EXCEPT ![f].m_read_buf = users[f].m_read_buf \o Unread(file[f])]
    BY <1>4 DEF Reading
  <2> QED
    BY <1>0, <2>2, <2>3 DEF UserType
<1>5. ASSUME NEW f \in Fds, Keeping(f) \/ Waiting(f) PROVE users' \in [Fds -> UserType]
  BY <1>0, <1>2, <1>5, InitAllTypes DEF Keeping, Waiting
<1>6. ASSUME NEW w \in Workers, Process(w) PROVE users' \in [Fds -> UserType]
  <2>1. CASE UNCHANGED users
    BY <1>0, <2>1
  <2>2. ASSUME NEW f \in Fds, Answering(w, f) PROVE users' \in [Fds -> UserType]
    <3>1. PICK r \in Chunks, a \in {"file", "failed"} : users' = respond(users, f, r, a)
      BY <2>2 DEF Answering
    <3> DEFINE address == IF r.file THEN a ELSE users[f].m_file_address
    <3>2. r.keep \in BOOLEAN /\ address \in {"null", "file", "failed"}
      BY <1>0, ProactorAssumption DEF UserType
    <3>5. respond(users, f, r, a) = [users EXCEPT ![f] =
            [[[users[f] EXCEPT !.m_write_buf = r] EXCEPT !.m_linger = r.keep]
               EXCEPT !.m_file_address = address]]
      BY <1>0 DEF respond, UserType
    <3> HIDE DEF address
    <3>3. /\ [users[f] EXCEPT !.m_write_buf = r] \in UserType
          /\ \A u \in UserType : [u EXCEPT !.m_linger = r.keep] \in UserType
          /\ \A u \in UserType : [u EXCEPT !.m_file_address = address] \in UserType
      BY <1>0, <3>2 DEF UserType
    <3>4. [[[users[f] EXCEPT !.m_write_buf = r] EXCEPT !.m_linger = r.keep]
             EXCEPT !.m_file_address = address] \in UserType
      BY <3>3
    <3> QED
      BY <1>0, <3>1, <3>4, <3>5
  <2> QED
    BY <1>0, <1>6, <2>1, <2>2, ProcessEffect
<1>7. ASSUME NEW w \in Workers, Take(w) \/ \E f \in Fds : Rearming(w, f)
      PROVE  users' \in [Fds -> UserType]
  BY <1>0, <1>7 DEF Take, Rearming
<1>8. ASSUME NEW c \in Conns, Connect(c) \/ HangUp(c) \/ \E chunk \in Chunks : Send(c, chunk)
      PROVE  users' \in [Fds -> UserType]
  BY <1>0, <1>8 DEF Connect, HangUp, Send
<1>9. CASE UNCHANGED vars \/ AcceptFails \/ EpollWait
  BY <1>0, <1>9 DEF vars, AcceptFails, EpollWait
<1> QED
  BY <1>1, <1>3, <1>4, <1>5, <1>6, <1>7, <1>8, <1>9 DEF Effect

\* The types of the other variables.
Flags == lready \in BOOLEAN /\ accepting \in BOOLEAN /\ alive \in BOOLEAN

Rest ==
  /\ file \in [Fds -> Conns \cup {Free, Other}] /\ backlog \in Seq(Conns)
  /\ epoll \in [Fds -> {"none", "off", "in", "out"}]
  /\ sent \in [Conns -> Seq(Chunks)] /\ taken \in [Conns -> Nat]
  /\ hup \in [Conns -> BOOLEAN] /\ replies \in [Conns -> Seq(Chunks)]
  /\ cstate \in [Conns -> {"new", "backlog", "open", "closed"}]
  /\ events \subseteq [fd : Fds, conn : Conns, what : {"hup", "in", "out"}]
  /\ queue \in Seq(Fds) /\ running \in [Workers -> Fds \cup {NoTask}]
  /\ rearm \in [Workers -> {"none", "in", "out"}]

\* The Boolean variables keep their type.
LEMMA FlagStep ==
  ASSUME Flags, Effect
  PROVE  Flags'
<1> USE Zenon DEF Flags
<1>1. CASE UNCHANGED <<lready, accepting, alive>>
  BY <1>1
<1>2. ASSUME NEW c \in Conns, Connect(c) PROVE Flags'
  BY <1>2 DEF Connect
<1>3. ASSUME NEW c \in Conns, HangUp(c) PROVE Flags'
  BY <1>3 DEF HangUp, kernelVars
<1>4. ASSUME NEW c \in Conns, NEW chunk \in Chunks, Send(c, chunk) PROVE Flags'
  BY <1>4 DEF Send, kernelVars
<1>5. CASE EpollWait
  BY <1>5 DEF EpollWait
<1>6. CASE AcceptFails
  BY <1>6 DEF AcceptFails, kernelVars
<1>7. ASSUME NEW f \in Fds, Accept(f) PROVE Flags'
  BY <1>7 DEF Accept
<1>8. ASSUME NEW f \in Fds, Handling(f) PROVE Flags'
  BY <1>8 DEF Handling
<1>9. ASSUME NEW w \in Workers, Take(w) PROVE Flags'
  BY <1>9 DEF Take, kernelVars
<1>10. ASSUME NEW w \in Workers, Process(w) PROVE Flags'
  BY <1>10 DEF Process, kernelVars
<1>11. ASSUME NEW w \in Workers, NEW f \in Fds, Rearming(w, f) PROVE Flags'
  BY <1>11 DEF Rearming, kernelVars
<1>12. CASE UNCHANGED vars
  BY <1>12 DEF vars
<1> HIDE DEF Flags
<1> QED
  BY <1>2, <1>3, <1>4, <1>5, <1>6, <1>7, <1>8, <1>9, <1>10, <1>11, <1>12 DEF Effect

\* The kernel's and the clients' variables keep their types.
LEMMA RestStep ==
  ASSUME ProactorInv, Effect
  PROVE  Rest'
<1>2. Rest
  BY DEF ProactorInv, TypeOK, Rest
<1> USE DEF Rest
<1>3. ASSUME NEW c \in Conns, Connect(c) PROVE Rest'
  BY <1>2, <1>3 DEF Connect, clientVars, poolVars
<1>4. ASSUME NEW c \in Conns, HangUp(c) PROVE Rest'
  BY <1>2, <1>4 DEF HangUp, kernelVars, poolVars
<1>5. ASSUME NEW c \in Conns, NEW chunk \in Chunks, Send(c, chunk) PROVE Rest'
  BY <1>2, <1>5 DEF Send, kernelVars, poolVars
<1>6. CASE EpollWait
  <2>1. /\ events' = {EventOf(f) : f \in {g \in Fds : Ready(g)}}
        /\ epoll' = disarmed
        /\ UNCHANGED <<file, backlog, sent, hup, taken, replies, cstate, queue, running, rearm>>
    BY <1>6, Zenon DEF EpollWait, clientVars, poolVars
  <2>2. disarmed \in [Fds -> {"none", "off", "in", "out"}]
    BY <1>2 DEF disarmed
  <2>3. \A g \in Fds : Ready(g) => EventOf(g) \in [fd : Fds, conn : Conns, what : {"hup", "in", "out"}]
    BY DEF EventOf, Ready
  <2>4. events' \subseteq [fd : Fds, conn : Conns, what : {"hup", "in", "out"}]
    BY <2>1, <2>3
  <2>5. epoll' \in [Fds -> {"none", "off", "in", "out"}]
    BY <2>1, <2>2
  <2> QED
    BY <1>2, <2>1, <2>4, <2>5, Zenon
<1>7. CASE AcceptFails
  BY <1>2, <1>7, Zenon DEF AcceptFails, kernelVars, clientVars, poolVars
<1>8. ASSUME NEW f \in Fds, Accept(f) PROVE Rest'
  <2>1. /\ backlog' = Tail(backlog) /\ backlog # << >>
        /\ UNCHANGED <<sent, hup, taken, replies, events, queue, running, rearm>>
    BY <1>8 DEF Accept, clientVars, poolVars
  <2>2. Head(backlog) \in Conns /\ Tail(backlog) \in Seq(Conns)
    BY <1>2, <2>1
  <2>3. /\ file' \in [Fds -> Conns \cup {Free, Other}]
        /\ epoll' \in [Fds -> {"none", "off", "in", "out"}]
        /\ cstate' \in [Conns -> {"new", "backlog", "open", "closed"}]
    <3>1. CASE m_user_count >= MAX_FD
      BY <1>2, <1>8, <2>2, <3>1 DEF Accept
    <3>2. CASE ~(m_user_count >= MAX_FD)
      BY <1>2, <1>8, <2>2, <3>2 DEF Accept
    <3> QED
      BY <3>1, <3>2
  <2> QED
    BY <1>2, <2>1, <2>2, <2>3
<1>9. ASSUME NEW f \in Fds, Handling(f), Closing(f) \/ Reading(f) \/ Keeping(f) \/ Waiting(f)
      PROVE  Rest'
  <2>1. /\ UNCHANGED <<backlog, sent, hup, running, rearm>>
        /\ events' \subseteq events /\ file[f] \in Conns
    BY <1>9 DEF Handling, clientVars, Others
  <2>2. replies' \in [Conns -> Seq(Chunks)]
    <3>1. CASE Pending(f, "out") /\ Replied(f)
      <4>1. users[f].m_write_buf \in Chunks
        BY <3>1 DEF ProactorInv, ReplyInv, WillWrite, HoldsReply
      <4> QED
        BY <1>2, <2>1, <3>1, <4>1 DEF Replied
    <3>2. CASE UNCHANGED replies
      BY <1>2, <3>2
    <3> QED
      BY <1>9, <3>1, <3>2 DEF Closing, Reading, Keeping, Waiting
  <2>3. queue' \in Seq(Fds)
    <3>1. queue' = queue \/ queue' = Append(queue, f)
      BY <1>9, Zenon DEF Closing, Reading, Keeping, Waiting
    <3>2. queue \in Seq(Fds)
      BY <1>2
    <3> HIDE DEF Rest
    <3> QED
      BY <3>1, <3>2, AppendProperties
  <2>4. taken' \in [Conns -> Nat]
    <3>1. taken' = taken \/ taken' = [taken EXCEPT ![file[f]] = Len(sent[file[f]])]
      BY <1>9, Zenon DEF Closing, Reading, Keeping, Waiting
    <3>2. Len(sent[file[f]]) \in Nat
      BY <1>2, <2>1
    <3> QED
      BY <1>2, <3>1, <3>2
  <2>5. /\ file' \in [Fds -> Conns \cup {Free, Other}]
        /\ epoll' \in [Fds -> {"none", "off", "in", "out"}]
        /\ cstate' \in [Conns -> {"new", "backlog", "open", "closed"}]
    <3>1. CASE Closing(f)
      BY <1>2, <3>1 DEF Closing
    <3>2. CASE UNCHANGED <<file, cstate>> /\ (Keeping(f) \/ Waiting(f) \/ UNCHANGED epoll)
      BY <1>2, <3>2 DEF Keeping, Waiting
    <3> QED
      BY <1>9, <3>1, <3>2 DEF Reading, Keeping, Waiting
  <2> QED
    BY <1>2, <2>1, <2>2, <2>3, <2>4, <2>5
<1>10. ASSUME NEW w \in Workers, Take(w) PROVE Rest'
  BY <1>2, <1>10 DEF Take, Pool!Take, kernelVars, clientVars
<1>11. ASSUME NEW w \in Workers, Process(w) PROVE Rest'
  <2>1. /\ UNCHANGED <<file, backlog, cstate, epoll, sent, hup, taken, replies,
                       events, queue, running>>
        /\ rearm' = [rearm EXCEPT ![w] = "in"] \/ rearm' = [rearm EXCEPT ![w] = "out"]
    BY <1>11, Zenon DEF Process, kernelVars, clientVars
  <2> QED
    BY <1>2, <2>1
<1>12. ASSUME NEW w \in Workers, NEW f \in Fds, Rearming(w, f) PROVE Rest'
  BY <1>2, <1>12 DEF Rearming, kernelVars, clientVars
<1>13. CASE UNCHANGED vars
  BY <1>2, <1>13, Zenon DEF vars
<1> HIDE DEF Rest
<1> QED
  BY <1>3, <1>4, <1>5, <1>6, <1>7, <1>8, <1>9, <1>10, <1>11, <1>12, <1>13 DEF Effect

\* All variables keep their types.
LEMMA TypeStep ==
  ASSUME ProactorInv, Effect
  PROVE  TypeOK'
<1>1. Flags'
  BY FlagStep DEF ProactorInv, TypeOK, Flags
<1> QED
  BY <1>1, UserTypes, CountStep, RestStep DEF TypeOK, UserType, Rest, Flags

-----------------------------------------------------------------------------
(* Responses                                                               *)

\* As long as no open connection loses its m_sockfd the overrun of init() hits
\* no object of an open connection at all.
LEMMA ClearedOthers ==
  ASSUME SockfdMatches', NEW f \in Fds, users \in [Fds -> UserType],
         initAll(unmap(users, f), f) = users' \/ initConn(users, f) = users'
  PROVE  /\ users'[f].m_read_buf = << >>
         /\ \A g \in Fds \ {f} : file'[g] \in Conns => users'[g] = users[g]
<1>1. ASSUME NEW us \in [Fds -> UserType], \A g \in Fds \ {f} : us[g] = users[g],
             users' = initAll(us, f)
      PROVE  /\ users'[f].m_read_buf = << >>
             /\ \A g \in Fds \ {f} : file'[g] \in Conns => users'[g] = users[g]
  <2>1. /\ users'[f].m_read_buf = << >>
        /\ \A g \in Fds : g # f /\ g # f + 1 => users'[g] = us[g]
        /\ \A g \in Fds : g = f + 1 => users'[g].m_sockfd = 0
    BY <1>1, InitAllTypes
  <2>2. \A g \in Fds : g = f + 1 => file'[g] \notin Conns
    BY <2>1, ProactorAssumption DEF SockfdMatches, OpenFds
  <2> QED
    BY <1>1, <2>1, <2>2
<1>2. /\ unmap(users, f) \in [Fds -> UserType]
      /\ \A g \in Fds \ {f} : unmap(users, f)[g] = users[g]
  BY DEF unmap, UserType
<1>3. /\ [users EXCEPT ![f].m_sockfd = f] \in [Fds -> UserType]
      /\ \A g \in Fds \ {f} : [users EXCEPT ![f].m_sockfd = f][g] = users[g]
  BY DEF UserType
<1>4. CASE initAll(unmap(users, f), f) = users'
  BY <1>1, <1>2, <1>4
<1>5. CASE initConn(users, f) = users'
  BY <1>1, <1>3, <1>5 DEF initConn
<1> QED
  BY <1>4, <1>5

\* A descriptor that is about to be written to is an open connection.
LEMMA WriterOpen ==
  ASSUME OwnerInv, NEW f \in Fds, WillWrite(f)
  PROVE  file[f] \in Conns
BY DEF OwnerInv, WillWrite, Pending, Armed, InBatch, AtWork

\* Whoever is going to write has a response to write.
LEMMA ReplyStep ==
  ASSUME ProactorInv, SockfdMatches', Effect
  PROVE  ReplyInv'
<1>0. /\ TypeOK /\ OwnerInv /\ WorkInv /\ ReplyInv /\ users \in [Fds -> UserType]
      /\ running \in [Workers -> Fds \cup {NoTask}] /\ rearm \in [Workers -> {"none", "in", "out"}]
      /\ epoll \in [Fds -> {"none", "off", "in", "out"}]
  BY DEF ProactorInv, TypeOK, UserType
<1>1. ASSUME \A g \in Fds : WillWrite(g)' => HoldsReply(users'[g])
      PROVE  ReplyInv'
  BY <1>1 DEF ReplyInv, HoldsReply
<1>2. ASSUME NEW g \in Fds, WillWrite(g), users'[g] = users[g]
      PROVE  HoldsReply(users'[g])
  BY <1>0, <1>2 DEF ReplyInv
<1>3. CASE UNCHANGED <<epoll, events, running, rearm, users>>
  BY <1>0, <1>3 DEF ReplyInv, WillWrite, Pending, HoldsReply
<1>4. ASSUME NEW f \in Fds, Accept(f) PROVE ReplyInv'
  <2>1. CASE m_user_count >= MAX_FD
    BY <1>3, <1>4, <2>1 DEF Accept, poolVars
  <2>2. CASE ~(m_user_count >= MAX_FD)
    <3>1. /\ file' = [file EXCEPT ![f] = Head(backlog)] /\ file[f] = Free
          /\ epoll' = [epoll EXCEPT ![f] = "in"] /\ UNCHANGED <<events, running, rearm>>
          /\ users' = initConn(users, f)
      BY <1>4, <2>2 DEF Accept, Acceptable, FreeFds, poolVars
    <3>2. ~InBatch(f) /\ ~AtWork(f)
      BY <1>0, <3>1, ProactorAssumption DEF OwnerInv
    <3>3. \A g \in Fds : WillWrite(g)' => g # f /\ WillWrite(g)
      BY <1>0, <3>1, <3>2 DEF WillWrite, Pending, InBatch, AtWork
    <3>4. \A g \in Fds : WillWrite(g)' => file'[g] \in Conns
      BY <1>0, <3>1, <3>3, WriterOpen DEF TypeOK
    <3> QED
      BY <1>0, <1>1, <1>2, <3>1, <3>3, <3>4, ClearedOthers
  <2> QED
    BY <2>1, <2>2
<1>5. CASE EpollWait
  <2>1. /\ events' = {EventOf(g) : g \in {h \in Fds : Ready(h)}}
        /\ UNCHANGED <<running, rearm, users>>
        /\ epoll' = disarmed
    BY <1>5, Zenon DEF EpollWait, poolVars
  <2>2. \A g \in Fds : Pending(g, "out")' => epoll[g] = "out"
    <3>1. \A e \in events' : \E g \in Fds : e = EventOf(g)
      BY <2>1
    <3>2. \A g \in Fds : EventOf(g).fd = g /\ (EventOf(g).what = "out" => epoll[g] = "out")
      BY DEF EventOf
    <3> QED
      BY <3>1, <3>2 DEF Pending
  <2>3. \A g \in Fds : epoll'[g] = "out" => epoll[g] = "out"
    BY <2>1 DEF disarmed
  <2>4. \A g \in Fds : WillWrite(g)' => WillWrite(g)
    BY <2>1, <2>2, <2>3 DEF WillWrite
  <2> QED
    BY <1>1, <1>2, <2>1, <2>4
<1>6. ASSUME NEW f \in Fds, Handling(f), Closing(f) \/ Reading(f) \/ Keeping(f) \/ Waiting(f)
      PROVE  ReplyInv'
  <2>1. /\ events' = {e \in events : e.fd # f} /\ ~AtWork(f) /\ epoll[f] = "off"
        /\ UNCHANGED <<running, rearm>>
    BY <1>6 DEF Handling, Others
  <2>2. \A g \in Fds : Pending(g, "out")' => Pending(g, "out") /\ g # f
    BY <2>1 DEF Pending
  <2>3. epoll' = epoll \/ \E ev \in {"none", "in", "out"} : epoll' = [epoll EXCEPT ![f] = ev]
    BY <1>6 DEF Closing, Reading, Keeping, Waiting
  <2>4. \A g \in Fds \ {f} : WillWrite(g)' => WillWrite(g)
    BY <1>0, <2>1, <2>2, <2>3 DEF WillWrite
  <2>5. CASE Waiting(f)
    <3>1. WillWrite(f) /\ UNCHANGED users
      BY <2>5 DEF Waiting, WillWrite
    <3> QED
      BY <1>1, <1>2, <2>4, <3>1
  <2>6. CASE Closing(f) \/ Reading(f) \/ Keeping(f)
    <3>1. epoll'[f] # "out"
      BY <1>0, <2>1, <2>6 DEF Closing, Reading, Keeping
    <3>2. ~WillWrite(f)'
      BY <2>1, <2>2, <3>1 DEF WillWrite, AtWork
    <3>3. \A g \in Fds \ {f} : WillWrite(g)' => users'[g] = users[g]
      <4>1. CASE Closing(f)
        <5>1. \/ users' = [users EXCEPT ![f].m_sockfd = -1]
              \/ users' = [unmap(users, f) EXCEPT ![f].m_sockfd = -1]
          BY <4>1 DEF Closing
        <5> QED
          BY <1>0, <5>1 DEF unmap
      <4>2. CASE Reading(f)
        BY <1>0, <4>2 DEF Reading
      <4>3. CASE Keeping(f)
        <5>1. UNCHANGED file /\ users' = initAll(unmap(users, f), f)
          BY <4>3 DEF Keeping
        <5>2. \A g \in Fds \ {f} : WillWrite(g)' => file'[g] \in Conns
          BY <1>0, <2>4, <5>1, WriterOpen
        <5> QED
          BY <1>0, <5>1, <5>2, ClearedOthers
      <4> QED
        BY <2>6, <4>1, <4>2, <4>3
    <3> QED
      BY <1>1, <1>2, <2>4, <3>2, <3>3
  <2> QED
    BY <1>6, <2>5, <2>6
<1>7. ASSUME NEW w \in Workers, Take(w) PROVE ReplyInv'
  <2>1. /\ UNCHANGED <<epoll, events, rearm, users>> /\ rearm[w] = "none"
        /\ \E t : running' = [running EXCEPT ![w] = t]
    BY <1>0, <1>7 DEF Take, Pool!Take, WorkInv
  <2>2. \A g \in Fds : WillWrite(g)' => WillWrite(g)
    BY <1>0, <2>1 DEF WillWrite, Pending
  <2> QED
    BY <1>1, <1>2, <2>1, <2>2
<1>8. ASSUME NEW w \in Workers, Process(w) PROVE ReplyInv'
  <2>1. UNCHANGED <<epoll, events, running>>
    BY <1>8 DEF Process
  <2>2. CASE UNCHANGED users /\ rearm' = [rearm EXCEPT ![w] = "in"]
    <3>1. \A g \in Fds : WillWrite(g)' => WillWrite(g)
      BY <1>0, <2>1, <2>2 DEF WillWrite, Pending
    <3> QED
      BY <1>1, <1>2, <2>2, <3>1
  <2>3. ASSUME NEW f \in Fds, Answering(w, f) PROVE ReplyInv'
    <3>1. running[w] = f /\ rearm' = [rearm EXCEPT ![w] = "out"]
      BY <2>3 DEF Answering
    <3>2. \A g \in Fds \ {f} : WillWrite(g)' => WillWrite(g)
      BY <1>0, <2>1, <3>1 DEF WillWrite, Pending
    <3>3. PICK i \in 1..Len(users[f].m_read_buf) :
            /\ users[f].m_read_buf[i].end /\ users[f].m_read_buf[i] \in Chunks
            /\ \E address \in {"file", "failed"} :
                 users' = respond(users, f, users[f].m_read_buf[i], address)
      BY <2>3 DEF Answering
    <3>4. \A g \in Fds \ {f} : users'[g] = users[g]
      BY <1>0, <3>3 DEF respond
    <3>5. /\ users'[f].m_write_buf = users[f].m_read_buf[i]
          /\ users[f].m_read_buf[i].file => users'[f].m_file_address # "null"
          /\ users'[f].m_read_buf = users[f].m_read_buf
      BY <1>0, <3>3 DEF respond, UserType
    <3>6. HoldsReply(users'[f])
      BY <3>3, <3>5 DEF HoldsReply
    <3> QED
      BY <1>1, <1>2, <3>2, <3>4, <3>6
  <2> QED
    BY <1>0, <1>8, <2>2, <2>3, ProcessEffect
<1>9. ASSUME NEW w \in Workers, NEW f \in Fds, Rearming(w, f) PROVE ReplyInv'
  <2>1. \A g \in Fds : WillWrite(g)' => WillWrite(g)
    BY <1>0, <1>9 DEF Rearming, WillWrite, Pending
  <2>2. UNCHANGED users
    BY <1>9 DEF Rearming
  <2> QED
    BY <1>1, <1>2, <2>1, <2>2
<1>10. ASSUME NEW c \in Conns, Connect(c) \/ HangUp(c) \/ \E chunk \in Chunks : Send(c, chunk)
       PROVE  ReplyInv'
  BY <1>3, <1>10 DEF Connect, HangUp, Send, poolVars
<1>11. CASE UNCHANGED vars \/ AcceptFails
  BY <1>3, <1>11 DEF vars, AcceptFails, poolVars
<1> QED
  BY <1>4, <1>5, <1>6, <1>7, <1>8, <1>9, <1>10, <1>11 DEF Effect

-----------------------------------------------------------------------------
(* Requests and replies                                                    *)

\* What n chunks account for, more chunks do.
LEMMA MatchedMore ==
  ASSUME NEW s, NEW r \in Seq(Chunks), NEW n \in Nat, NEW m \in Nat, n =< m, Matched(s, r, n)
  PROVE  Matched(s, r, m)
<1>1. PICK at \in [1..Len(r) -> 1..n] :
        /\ \A i, j \in 1..Len(r) : i < j => at[i] < at[j]
        /\ \A i \in 1..Len(r) : s[at[i]] = r[i] /\ r[i].end
  BY DEF Matched
<1>2. at \in [1..Len(r) -> 1..m]
  BY <1>1
<1> QED
  BY <1>1, <1>2 DEF Matched

\* What a client sends later changes nothing.
LEMMA MatchedSend ==
  ASSUME NEW s \in Seq(Chunks), NEW x \in Chunks, NEW r \in Seq(Chunks), NEW n \in Nat,
         n =< Len(s), Matched(s, r, n)
  PROVE  Matched(Append(s, x), r, n)
<1>1. PICK at \in [1..Len(r) -> 1..n] :
        /\ \A i, j \in 1..Len(r) : i < j => at[i] < at[j]
        /\ \A i \in 1..Len(r) : s[at[i]] = r[i] /\ r[i].end
  BY DEF Matched
<1>2. \A k \in 1..n : Append(s, x)[k] = s[k]
  BY AppendProperties
<1>3. \A i \in 1..Len(r) : Append(s, x)[at[i]] = r[i] /\ r[i].end
  <2>1. \A i \in 1..Len(r) : at[i] \in 1..n
    BY <1>1
  <2> QED
    BY <1>1, <1>2, <2>1
<1> DEFINE s2 == Append(s, x)
<1>4. Matched(s2, r, n)
  <2> HIDE DEF s2
  <2>1. \A i \in 1..Len(r) : s2[at[i]] = r[i] /\ r[i].end
    BY <1>3 DEF s2
  <2> QED
    BY <1>1, <2>1 DEF Matched
<1> QED
  BY <1>4

\* A reply to a chunk that comes after the first n.
LEMMA MatchedReply ==
  ASSUME NEW s, NEW r \in Seq(Chunks), NEW x \in Chunks, NEW n \in Nat, NEW m \in Nat,
         NEW k \in 1..m, n < k, s[k] = x, x.end, Matched(s, r, n)
  PROVE  Matched(s, Append(r, x), m)
<1> DEFINE r2 == Append(r, x)
<1>1. PICK at \in [1..Len(r) -> 1..n] :
        /\ \A i, j \in 1..Len(r) : i < j => at[i] < at[j]
        /\ \A i \in 1..Len(r) : s[at[i]] = r[i] /\ r[i].end
  BY DEF Matched
<1>2. /\ Len(r) \in Nat /\ Len(r2) = Len(r) + 1 /\ r2[Len(r) + 1] = x
      /\ \A i \in 1..Len(r) : r2[i] = r[i]
  BY AppendProperties
<1> HIDE DEF r2
<1> DEFINE to == [i \in 1..Len(r2) |-> IF i = Len(r) + 1 THEN k ELSE at[i]]
<1>3. \A i \in 1..Len(r2) : i = Len(r) + 1 \/ i \in 1..Len(r)
  BY <1>2
<1>4. \A i \in 1..Len(r) : at[i] \in 1..n /\ at[i] \in 1..m
  BY <1>1
<1>5. to \in [1..Len(r2) -> 1..m]
  BY <1>2, <1>3, <1>4
<1>6. \A i \in 1..Len(r) : i \in 1..Len(r2) /\ i # Len(r) + 1 /\ to[i] = at[i]
  BY <1>2
<1>7. Len(r) + 1 \in 1..Len(r2) /\ to[Len(r) + 1] = k
  BY <1>2
<1> HIDE DEF to
<1>8. \A i, j \in 1..Len(r2) : i < j => to[i] < to[j]
  <2> SUFFICES ASSUME NEW i \in 1..Len(r2), NEW j \in 1..Len(r2), i < j PROVE to[i] < to[j]
    OBVIOUS
  <2>1. i \in 1..Len(r) /\ to[i] = at[i] /\ at[i] \in 1..n
    BY <1>2, <1>3, <1>4, <1>6
  <2>2. CASE j = Len(r) + 1
    BY <1>7, <2>1, <2>2
  <2>3. CASE j \in 1..Len(r)
    BY <1>1, <1>6, <2>1, <2>3
  <2> QED
    BY <1>3, <2>2, <2>3
<1>9. \A i \in 1..Len(r2) : s[to[i]] = r2[i] /\ r2[i].end
  BY <1>1, <1>2, <1>3, <1>6, <1>7
<1>10. Matched(s, r2, m)
  BY <1>5, <1>8, <1>9 DEF Matched
<1> QED
  BY <1>10 DEF r2

\* The line of one connection: it begins empty,
LEMMA LineBegins ==
  ASSUME NEW s \in Seq(Chunks)
  PROVE  Line(s, 0, << >>, << >>)
<1>1. Matched(s, << >>, 0)
  <2>1. [i \in 1..0 |-> 0] \in [1..Len(<< >>) -> 1..0] /\ 1..Len(<< >>) = {}
    OBVIOUS
  <2> QED
    BY <2>1 DEF Matched
<1>2. Len(s) \in Nat /\ Len(<< >>) = 0 /\ 0 - 0 = 0
  BY LenProperties
<1> QED
  BY <1>1, <1>2 DEF Line

\* does not mind what arrives at the socket,
LEMMA LineSends ==
  ASSUME NEW s \in Seq(Chunks), NEW n \in Nat, NEW r \in Seq(Chunks),
         NEW b \in Seq(Chunks \cup {Part}), NEW x \in Chunks, Line(s, n, r, b)
  PROVE  Line(Append(s, x), n, r, b)
<1>1. /\ Len(s) \in Nat /\ Len(b) \in Nat /\ Len(b) =< n /\ n =< Len(s)
      /\ Matched(s, r, n - Len(b)) /\ \A i \in 1..Len(b) : b[i] = s[n - Len(b) + i]
  BY LenProperties DEF Line
<1>2. n - Len(b) \in Nat /\ n - Len(b) =< Len(s)
  BY <1>1
<1>3. Matched(Append(s, x), r, n - Len(b))
  BY <1>1, <1>2, MatchedSend
<1>4. Len(Append(s, x)) = Len(s) + 1 /\ \A k \in 1..Len(s) : Append(s, x)[k] = s[k]
  BY AppendProperties
<1>5. \A i \in 1..Len(b) : b[i] = Append(s, x)[n - Len(b) + i]
  BY <1>1, <1>4
<1> QED
  BY <1>1, <1>3, <1>4, <1>5 DEF Line

\* takes it into the buffer,
LEMMA LineReads ==
  ASSUME NEW s \in Seq(Chunks), NEW n \in Nat, NEW r \in Seq(Chunks),
         NEW b \in Seq(Chunks \cup {Part}), Line(s, n, r, b)
  PROVE  Line(s, Len(s), r, b \o SubSeq(s, n + 1, Len(s)))
<1> DEFINE u == SubSeq(s, n + 1, Len(s))
           b2 == b \o u
<1>1. /\ Len(s) \in Nat /\ Len(b) \in Nat /\ Len(b) =< n /\ n =< Len(s)
      /\ Matched(s, r, n - Len(b)) /\ \A i \in 1..Len(b) : b[i] = s[n - Len(b) + i]
  BY LenProperties DEF Line
<1>2. /\ u \in Seq(Chunks) /\ Len(u) = Len(s) - n
      /\ \A i \in 1..(Len(s) - n) : u[i] = s[n + i]
  <2>1. n + 1 \in 1..(Len(s) + 1)
    BY <1>1
  <2>2. /\ u \in Seq(Chunks)
        /\ Len(u) = IF n + 1 <= Len(s) THEN Len(s) - (n + 1) + 1 ELSE 0
        /\ \A i \in 1..(Len(s) - (n + 1) + 1) : u[i] = s[(n + 1) + i - 1]
    BY <1>1, <2>1, SubSeqProperties
  <2> HIDE DEF u
  <2>3. Len(u) = Len(s) - n
    BY <1>1, <2>2
  <2>4. ASSUME NEW i \in 1..(Len(s) - n) PROVE u[i] = s[n + i]
    <3>1. i \in 1..(Len(s) - (n + 1) + 1) /\ (n + 1) + i - 1 = n + i
      BY <1>1
    <3> QED
      BY <2>2, <3>1
  <2> QED
    BY <2>2, <2>3, <2>4
<1> HIDE DEF u
<1>3. /\ Len(b2) = Len(b) + Len(u)
      /\ \A i \in 1..(Len(b) + Len(u)) : b2[i] = IF i <= Len(b) THEN b[i] ELSE u[i - Len(b)]
  <2>1. u \in Seq(Chunks \cup {Part})
    BY <1>2
  <2> QED
    BY <2>1, ConcatProperties
<1> HIDE DEF b2
<1>4. Len(b2) =< Len(s) /\ Len(s) - Len(b2) = n - Len(b)
  BY <1>1, <1>2, <1>3
<1>5. ASSUME NEW i \in 1..Len(b2) PROVE b2[i] = s[Len(s) - Len(b2) + i]
  <2>1. CASE i =< Len(b)
    <3>1. i \in 1..Len(b) /\ n - Len(b) + i = Len(s) - Len(b2) + i
      BY <1>1, <1>2, <1>3, <1>4, <2>1
    <3>2. b2[i] = b[i]
      BY <1>1, <1>2, <1>3, <2>1
    <3> QED
      BY <1>1, <3>1, <3>2
  <2>2. CASE i > Len(b)
    <3>1. i - Len(b) \in 1..(Len(s) - n) /\ n + (i - Len(b)) = Len(s) - Len(b2) + i
      BY <1>1, <1>2, <1>3, <1>4, <2>2
    <3>2. b2[i] = u[i - Len(b)]
      BY <1>1, <1>2, <1>3, <2>2
    <3> QED
      BY <1>2, <3>1, <3>2
  <2> QED
    BY <1>1, <1>2, <1>3, <2>1, <2>2
<1>6. Line(s, Len(s), r, b2)
  <2>1. Matched(s, r, Len(s) - Len(b2))
    BY <1>1, <1>4, Zenon
  <2>2. \A i \in 1..Len(b2) : b2[i] = s[Len(s) - Len(b2) + i]
    BY <1>5
  <2>3. Len(b2) =< Len(s) /\ Len(s) =< Len(s)
    BY <1>1, <1>4
  <2> QED
    BY <2>1, <2>2, <2>3, Zenon DEF Line
<1> QED
  BY <1>6 DEF u, b2

\* and starts again when a request of the buffer has been answered.
LEMMA LineReplies ==
  ASSUME NEW s \in Seq(Chunks), NEW n \in Nat, NEW r \in Seq(Chunks),
         NEW b \in Seq(Chunks \cup {Part}), Line(s, n, r, b),
         NEW i \in 1..Len(b), b[i].end, b[i] \in Chunks
  PROVE  Line(s, n, Append(r, b[i]), << >>)
<1>1. /\ Len(s) \in Nat /\ Len(b) \in Nat /\ Len(b) =< n /\ n =< Len(s)
      /\ Matched(s, r, n - Len(b)) /\ b[i] = s[n - Len(b) + i]
  BY LenProperties DEF Line
<1>2. /\ n - Len(b) \in Nat /\ n - Len(b) + i \in 1..n /\ n - Len(b) < n - Len(b) + i
  BY <1>1
<1>3. Matched(s, Append(r, b[i]), n)
  BY <1>1, <1>2, MatchedReply
<1>4. Len(<< >>) = 0 /\ n - 0 = n
  OBVIOUS
<1> QED
  BY <1>1, <1>3, <1>4 DEF Line

\* The line of every connection after a step.
LEMMA LineStep ==
  ASSUME ProactorInv, SockfdMatches', Effect
  PROVE  LineInv'
<1>0. TypeOK /\ ConnInv /\ LineInv /\ users \in [Fds -> UserType]
  BY DEF ProactorInv, TypeOK, UserType
<1> DEFINE Accounted(s, n, r) == n =< Len(s) /\ Matched(s, r, Len(s))
<1>1. /\ \A c \in Conns : sent[c] \in Seq(Chunks) /\ taken[c] \in Nat /\ replies[c] \in Seq(Chunks)
      /\ \A f \in Fds : users[f].m_read_buf \in Seq(Chunks \cup {Part})
      /\ \A c \in Conns : Len(sent[c]) \in Nat
  BY <1>0, LenProperties DEF TypeOK, UserType
<1>2. /\ \A c \in Conns : Accounted(sent[c], taken[c], replies[c])
      /\ \A c \in Conns : cstate[c] \in {"new", "backlog"} => taken[c] = 0 /\ replies[c] = << >>
      /\ \A f \in Fds : file[f] \in Conns
           => Line(sent[file[f]], taken[file[f]], replies[file[f]], users[f].m_read_buf)
  BY <1>0 DEF LineInv
<1>3. ASSUME \A c \in Conns : Accounted(sent'[c], taken'[c], replies'[c]),
             \A c \in Conns : cstate'[c] \in {"new", "backlog"} => taken'[c] = 0 /\ replies'[c] = << >>,
             \A f \in Fds : file'[f] \in Conns
               => Line(sent'[file'[f]], taken'[file'[f]], replies'[file'[f]], users'[f].m_read_buf)
      PROVE  LineInv'
  BY <1>3 DEF LineInv, Line, Matched
<1>4. ASSUME NEW s \in Seq(Chunks), NEW n \in Nat, NEW r \in Seq(Chunks),
             NEW b \in Seq(Chunks \cup {Part}), Line(s, n, r, b)
      PROVE  Accounted(s, n, r)
  <2>1. /\ Len(b) \in Nat /\ Len(s) \in Nat /\ Len(b) =< n /\ n =< Len(s) /\ Matched(s, r, n - Len(b))
    BY <1>4, LenProperties DEF Line
  <2>2. n - Len(b) \in Nat /\ n - Len(b) =< Len(s)
    BY <2>1
  <2> QED
    BY <2>1, <2>2, MatchedMore
<1> HIDE DEF Accounted
<1>5. CASE UNCHANGED <<sent, taken, replies, file, cstate>> /\ \A f \in Fds : users'[f].m_read_buf = users[f].m_read_buf
  BY <1>2, <1>3, <1>5
<1>6. ASSUME NEW c \in Conns, Connect(c) PROVE LineInv'
  <2>1. /\ cstate' = [cstate EXCEPT ![c] = "backlog"] /\ cstate[c] = "new"
        /\ UNCHANGED <<sent, taken, replies, file, users>>
    BY <1>6 DEF Connect, clientVars
  <2>2. \A d \in Conns : cstate'[d] \in {"new", "backlog"} => cstate[d] \in {"new", "backlog"}
    BY <1>0, <2>1 DEF TypeOK
  <2> QED
    BY <1>2, <1>3, <2>1, <2>2
<1>7. ASSUME NEW c \in Conns, NEW chunk \in Chunks, Send(c, chunk) PROVE LineInv'
  <2>1. /\ sent' = [sent EXCEPT ![c] = Append(sent[c], chunk)]
        /\ UNCHANGED <<cstate, taken, replies, file, users>>
    BY <1>7 DEF Send, kernelVars
  <2>2. /\ sent'[c] = Append(sent[c], chunk) /\ sent'[c] \in Seq(Chunks)
        /\ \A d \in Conns \ {c} : sent'[d] = sent[d]
    BY <1>0, <2>1 DEF TypeOK
  <2>3. Accounted(sent'[c], taken[c], replies[c])
    <3>1. taken[c] =< Len(sent[c]) /\ Matched(sent[c], replies[c], Len(sent[c]))
      BY <1>2 DEF Accounted
    <3>2. Matched(sent'[c], replies[c], Len(sent[c])) /\ Len(sent'[c]) = Len(sent[c]) + 1
      BY <1>1, <2>2, <3>1, MatchedSend, AppendProperties
    <3>3. Matched(sent'[c], replies[c], Len(sent'[c]))
      BY <1>1, <3>2, MatchedMore
    <3> QED
      BY <1>1, <3>1, <3>2, <3>3 DEF Accounted
  <2>4. ASSUME NEW f \in Fds, file[f] \in Conns
        PROVE  Line(sent'[file[f]], taken[file[f]], replies[file[f]], users[f].m_read_buf)
    <3>1. CASE file[f] = c
      <4>1. Line(sent[c], taken[c], replies[c], users[f].m_read_buf)
        BY <1>2, <2>4, <3>1
      <4>2. Line(Append(sent[c], chunk), taken[c], replies[c], users[f].m_read_buf)
        BY <1>1, <4>1, LineSends
      <4> QED
        BY <2>2, <3>1, <4>2
    <3>2. CASE file[f] # c
      BY <1>2, <2>2, <2>4, <3>2
    <3> QED
      BY <3>1, <3>2
  <2>5. \A d \in Conns : Accounted(sent'[d], taken[d], replies[d])
    BY <1>2, <2>2, <2>3
  <2> QED
    BY <1>2, <1>3, <2>1, <2>4, <2>5
<1>8. ASSUME NEW f \in Fds, Accept(f) PROVE LineInv'
  <2> DEFINE c == Head(backlog)
  <2>1. /\ c \in Conns /\ file[f] = Free /\ cstate[c] = "backlog"
        /\ UNCHANGED <<sent, taken, replies>>
    <3>1. /\ file[f] = Free /\ backlog # << >> /\ UNCHANGED <<sent, taken, replies>>
      BY <1>8 DEF Accept, Acceptable, FreeFds, clientVars
    <3>2. backlog \in Seq(Conns) /\ \A i \in 1..Len(backlog) : cstate[backlog[i]] = "backlog"
      BY <1>0 DEF TypeOK, ConnInv
    <3> QED
      BY <3>1, <3>2
  <2>2. \/ cstate' = [cstate EXCEPT ![c] = "closed"] /\ UNCHANGED <<file, users>>
        \/ /\ cstate' = [cstate EXCEPT ![c] = "open"] /\ file' = [file EXCEPT ![f] = c]
           /\ users' = initConn(users, f)
    BY <1>8, Zenon DEF Accept
  <2> HIDE DEF c
  <2>3. \A d \in Conns : cstate'[d] \in {"new", "backlog"} => cstate[d] \in {"new", "backlog"}
    BY <1>0, <2>2 DEF TypeOK
  <2>4. CASE UNCHANGED <<file, users>>
    BY <1>2, <1>3, <2>1, <2>3, <2>4
  <2>5. CASE file' = [file EXCEPT ![f] = c] /\ users' = initConn(users, f)
    <3>1. file'[f] = c /\ \A g \in Fds \ {f} : file'[g] = file[g]
      BY <1>0, <2>5 DEF TypeOK
    <3>2. /\ users'[f].m_read_buf = << >>
          /\ \A g \in Fds \ {f} : file'[g] \in Conns => users'[g] = users[g]
      BY <1>0, <2>5, ClearedOthers
    <3>3. Line(sent[c], taken[c], replies[c], users'[f].m_read_buf)
      BY <1>1, <1>2, <2>1, <3>2, LineBegins
    <3> QED
      BY <1>2, <1>3, <2>1, <2>3, <3>1, <3>2, <3>3
  <2> QED
    BY <2>2, <2>4, <2>5
<1>9. ASSUME NEW f \in Fds, Handling(f), Reading(f) PROVE LineInv'
  <2> DEFINE c == file[f]
  <2>1. /\ c \in Conns /\ UNCHANGED <<sent, replies, file, cstate>>
        /\ users' = [users EXCEPT ![f].m_read_buf = users[f].m_read_buf \o Unread(c)]
        /\ taken' = [taken EXCEPT ![c] = Len(sent[c])]
        /\ cstate[c] = "open"
    BY <1>0, <1>9 DEF Handling, Reading, clientVars, ConnInv
  <2>2. \A g \in Fds : file[g] = c => g = f
    BY <1>0, <2>1 DEF ConnInv
  <2> HIDE DEF c
  <2>3. /\ taken'[c] = Len(sent[c]) /\ \A d \in Conns \ {c} : taken'[d] = taken[d]
        /\ users'[f].m_read_buf = users[f].m_read_buf \o SubSeq(sent[c], taken[c] + 1, Len(sent[c]))
        /\ \A g \in Fds \ {f} : users'[g] = users[g]
    BY <1>0, <2>1 DEF TypeOK, UserType, Unread
  <2>4. Line(sent[c], taken'[c], replies[c], users'[f].m_read_buf)
    <3>1. Line(sent[c], taken[c], replies[c], users[f].m_read_buf)
      BY <1>2, <2>1 DEF c
    <3>2. Line(sent[c], Len(sent[c]), replies[c],
               users[f].m_read_buf \o SubSeq(sent[c], taken[c] + 1, Len(sent[c])))
      BY <1>1, <2>1, <3>1, LineReads
    <3> QED
      BY <2>3, <3>2
  <2>5. Accounted(sent[c], taken'[c], replies[c])
    BY <1>1, <1>2, <2>1, <2>3 DEF Accounted
  <2>6. \A d \in Conns : Accounted(sent[d], taken'[d], replies[d])
    BY <1>2, <2>3, <2>5
  <2>7. ASSUME NEW g \in Fds, file[g] \in Conns
        PROVE  Line(sent[file[g]], taken'[file[g]], replies[file[g]], users'[g].m_read_buf)
    <3>1. CASE g = f
      BY <2>4, <3>1 DEF c
    <3>2. CASE g # f
      BY <1>2, <2>2, <2>3, <2>7, <3>2
    <3> QED
      BY <3>1, <3>2
  <2>8. \A d \in Conns : cstate[d] \in {"new", "backlog"} => taken'[d] = 0 /\ replies[d] = << >>
    BY <1>2, <2>1, <2>3
  <2> QED
    BY <1>3, <2>1, <2>6, <2>7, <2>8
<1>10. ASSUME NEW f \in Fds, Handling(f)
       PROVE  LET c == file[f] IN
              /\ c \in Conns /\ cstate[c] = "open" /\ UNCHANGED sent
              /\ \A g \in Fds : file[g] = c => g = f
              /\ Replied(f) => /\ replies'[c] = Append(replies[c], users[f].m_write_buf)
                               /\ \A d \in Conns \ {c} : replies'[d] = replies[d]
              /\ Replied(f) /\ Pending(f, "out")
                   => /\ replies'[c] \in Seq(Chunks)
                      /\ Line(sent[c], taken[c], replies'[c], << >>)
                      /\ Accounted(sent[c], taken[c], replies'[c])
  <2> DEFINE c == file[f]
  <2>1. c \in Conns /\ cstate[c] = "open" /\ UNCHANGED sent
    BY <1>0, <1>10 DEF Handling, clientVars, ConnInv
  <2>2. \A g \in Fds : file[g] = c => g = f
    BY <1>0, <2>1 DEF ConnInv
  <2>3. Replied(f) => /\ replies'[c] = Append(replies[c], users[f].m_write_buf)
                      /\ \A d \in Conns \ {c} : replies'[d] = replies[d]
    BY <1>0, <2>1 DEF Replied, TypeOK
  <2>4. ASSUME Replied(f), Pending(f, "out")
        PROVE  /\ replies'[c] \in Seq(Chunks)
               /\ Line(sent[c], taken[c], replies'[c], << >>)
               /\ Accounted(sent[c], taken[c], replies'[c])
    <3> DEFINE b == users[f].m_read_buf
    <3>1. HoldsReply(users[f])
      BY <2>4 DEF ProactorInv, ReplyInv, WillWrite
    <3>2. PICK i \in 1..Len(b) : b[i] = users[f].m_write_buf
      BY <3>1 DEF HoldsReply
    <3>3. b[i].end /\ b[i] \in Chunks
      BY <3>1, <3>2 DEF HoldsReply
    <3>4. replies'[c] = Append(replies[c], b[i])
      BY <2>3, <2>4, <3>2
    <3>5. Line(sent[c], taken[c], replies[c], b) /\ b \in Seq(Chunks \cup {Part})
      BY <1>1, <1>2, <2>1
    <3> HIDE DEF b, c
    <3>6. sent[c] \in Seq(Chunks) /\ taken[c] \in Nat /\ replies[c] \in Seq(Chunks)
      BY <1>1, <2>1
    <3>7. Line(sent[c], taken[c], Append(replies[c], b[i]), << >>)
      BY <3>3, <3>5, <3>6, LineReplies
    <3>8. Append(replies[c], b[i]) \in Seq(Chunks) /\ << >> \in Seq(Chunks \cup {Part})
      BY <3>3, <3>6, AppendProperties
    <3>9. Accounted(sent[c], taken[c], Append(replies[c], b[i]))
      BY <1>4, <3>6, <3>7, <3>8
    <3> QED
      BY <3>4, <3>7, <3>8, <3>9
  <2> QED
    BY <2>1, <2>2, <2>3, <2>4
<1>11. ASSUME NEW f \in Fds, Handling(f), Keeping(f) PROVE LineInv'
  <2> DEFINE c == file[f]
  <2>1. /\ Replied(f) /\ Pending(f, "out") /\ UNCHANGED <<file, cstate, taken>>
        /\ users' = initAll(unmap(users, f), f)
    BY <1>11 DEF Keeping
  <2>2. /\ c \in Conns /\ cstate[c] = "open" /\ UNCHANGED sent
        /\ \A g \in Fds : file[g] = c => g = f
        /\ \A d \in Conns \ {c} : replies'[d] = replies[d]
        /\ Line(sent[c], taken[c], replies'[c], << >>)
        /\ Accounted(sent[c], taken[c], replies'[c])
    BY <1>10, <1>11, <2>1
  <2>3. /\ users'[f].m_read_buf = << >>
        /\ \A g \in Fds \ {f} : file[g] \in Conns => users'[g] = users[g]
    BY <1>0, <2>1, ClearedOthers
  <2> HIDE DEF c
  <2>4. \A d \in Conns : Accounted(sent[d], taken[d], replies'[d])
    BY <1>2, <2>2
  <2>5. \A d \in Conns : cstate[d] \in {"new", "backlog"} => taken[d] = 0 /\ replies'[d] = << >>
    BY <1>2, <2>2
  <2>6. ASSUME NEW g \in Fds, file[g] \in Conns
        PROVE  Line(sent[file[g]], taken[file[g]], replies'[file[g]], users'[g].m_read_buf)
    <3>1. CASE g = f
      BY <2>2, <2>3, <3>1 DEF c
    <3>2. CASE g # f
      BY <1>2, <2>2, <2>3, <2>6, <3>2
    <3> QED
      BY <3>1, <3>2
  <2> QED
    BY <1>3, <2>1, <2>2, <2>4, <2>5, <2>6
<1>12. ASSUME NEW f \in Fds, Handling(f), Closing(f) PROVE LineInv'
  <2> DEFINE c == file[f]
  <2>1. /\ UNCHANGED taken
        /\ UNCHANGED replies \/ (Replied(f) /\ Pending(f, "out"))
        /\ file' = [file EXCEPT ![f] = Free]
        /\ cstate' = [d \in Conns |-> IF c = d THEN "closed" ELSE cstate[d]]
        /\ \/ users' = [users EXCEPT ![f].m_sockfd = -1]
           \/ users' = [unmap(users, f) EXCEPT ![f].m_sockfd = -1]
    BY <1>12 DEF Closing
  <2>2. /\ c \in Conns /\ UNCHANGED sent
        /\ \A g \in Fds : file[g] = c => g = f
        /\ \A d \in Conns \ {c} : replies'[d] = replies[d]
        /\ Accounted(sent[c], taken[c], replies'[c])
    BY <1>2, <1>10, <1>12, <2>1
  <2>3. /\ file'[f] \notin Conns
        /\ \A g \in Fds \ {f} : file'[g] = file[g] /\ users'[g] = users[g]
    BY <1>0, <2>1, ProactorAssumption DEF TypeOK, unmap
  <2> HIDE DEF c
  <2>4. \A d \in Conns : Accounted(sent[d], taken[d], replies'[d])
    BY <1>2, <2>2
  <2>5. \A d \in Conns : cstate'[d] \in {"new", "backlog"} => taken[d] = 0 /\ replies'[d] = << >>
    BY <1>2, <2>1, <2>2
  <2>6. ASSUME NEW g \in Fds, file'[g] \in Conns
        PROVE  Line(sent[file'[g]], taken[file'[g]], replies'[file'[g]], users'[g].m_read_buf)
    BY <1>2, <2>2, <2>3, <2>6
  <2> QED
    BY <1>3, <2>1, <2>2, <2>4, <2>5, <2>6
<1>13. ASSUME NEW f \in Fds, Handling(f), Waiting(f) PROVE LineInv'
  BY <1>5, <1>13 DEF Handling, Waiting, clientVars
<1>14. ASSUME NEW w \in Workers, Process(w) PROVE LineInv'
  <2>1. UNCHANGED <<sent, taken, replies, file, cstate>>
    BY <1>14 DEF Process, kernelVars, clientVars
  <2>2. ASSUME NEW f \in Fds, Answering(w, f)
        PROVE  \A g \in Fds : users'[g].m_read_buf = users[g].m_read_buf
    <3>1. \E r, a : users' = respond(users, f, r, a)
      BY <2>2 DEF Answering
    <3> QED
      BY <1>0, <3>1 DEF respond, UserType
  <2> QED
    BY <1>0, <1>5, <1>14, <2>1, <2>2, ProcessEffect
<1>15. ASSUME NEW w \in Workers, Take(w) \/ \E f \in Fds : Rearming(w, f) PROVE LineInv'
  BY <1>5, <1>15 DEF Take, Rearming, kernelVars, clientVars
<1>16. ASSUME NEW c \in Conns, HangUp(c) PROVE LineInv'
  BY <1>5, <1>16 DEF HangUp, kernelVars
<1>17. CASE UNCHANGED vars \/ AcceptFails \/ EpollWait
  BY <1>5, <1>17 DEF vars, AcceptFails, EpollWait, kernelVars, clientVars
<1> QED
  BY <1>6, <1>7, <1>8, <1>9, <1>11, <1>12, <1>13, <1>14, <1>15, <1>16, <1>17 DEF Effect

-----------------------------------------------------------------------------
(* The theorems                                                            *)

LEMMA ProactorInit == Init => ProactorInv
<1> SUFFICES ASSUME Init PROVE ProactorInv
  OBVIOUS
<1>1. Flags
  BY Zenon DEF Init, Flags
<1>2. users \in [Fds -> UserType]
  <2>1. Fresh \in UserType
    BY ProactorAssumption DEF Fresh, UserType
  <2> QED
    BY <2>1 DEF Init
<1>3. Rest
  BY DEF Init, Rest, Pool!TQInit
<1>4. OpenFds = {}
  BY ProactorAssumption DEF Init, OpenFds
<1>5. TypeOK /\ UserCountExact
  BY <1>1, <1>2, <1>3, <1>4, FS_EmptySet DEF TypeOK, UserType, Rest, Flags, UserCountExact, Init
<1>6. ConnInv
  BY ProactorAssumption DEF Init, ConnInv
<1>7. OwnerInv /\ WorkInv /\ EventsFresh
  BY ProactorAssumption
  DEF Init, Pool!TQInit, OwnerInv, WorkInv, EventsFresh, Armed, InBatch, InQueue, AtWork
<1>8. ReplyInv
  BY DEF Init, ReplyInv, WillWrite, Pending
<1>9. LineInv
  <2>1. /\ \A c \in Conns : sent[c] = << >> /\ taken[c] = 0 /\ replies[c] = << >>
        /\ \A f \in Fds : file[f] \notin Conns
    BY ProactorAssumption DEF Init
  <2>2. Line(<< >>, 0, << >>, << >>)
    <3>1. << >> \in Seq(Chunks)
      OBVIOUS
    <3> QED
      BY <3>1, LineBegins
  <2>3. Len(<< >>) = 0 /\ Matched(<< >>, << >>, 0)
    BY <2>2 DEF Line
  <2> QED
    BY <2>1, <2>3 DEF LineInv
<1> QED
  BY <1>5, <1>6, <1>7, <1>8, <1>9 DEF ProactorInv

\* A step from and to states in which m_sockfd is right keeps the whole invariant.
LEMMA ProactorStep ==
  ASSUME ProactorInv, SockfdMatches, SockfdMatches', [Next]_vars
  PROVE  ProactorInv'
<1>1. Effect
  BY StepEffects
<1>2. OwnerInv'
  BY <1>1, OwnerStep DEF Passed
<1> QED
  BY <1>1, <1>2, TypeStep, ConnStep, WorkStep, CountStep, EventsStep, ReplyStep, LineStep
  DEF ProactorInv

\* The inductive invariant of the Proactor server: it can only be broken by the
\* overrun of the private init() that takes m_sockfd from an open connection.
THEOREM ProactorInvariant == Spec /\ []SockfdMatches => []ProactorInv
<1>1. ProactorInv /\ SockfdMatches /\ SockfdMatches' /\ [Next]_vars => ProactorInv'
  BY ProactorStep
<1> QED
  BY <1>1, ProactorInit, PTL DEF Spec

\* Types, and with them m_user_count >= 0: closeconn() gives back no connection
\* twice.
THEOREM ProactorTypes == Spec /\ []SockfdMatches => []TypeOK
<1>1. ProactorInv => TypeOK
  BY DEF ProactorInv
<1> QED
  BY <1>1, ProactorInvariant, PTL

\* A set of which all elements are alike is empty or a singleton.
LEMMA AtMostOne ==
  ASSUME NEW S, \A x, y \in S : x = y
  PROVE  /\ Cardinality(S) \in {0, 1}
         /\ S = {} => Cardinality(S) = 0
         /\ S # {} => Cardinality(S) = 1
<1>1. CASE S = {}
  BY <1>1, FS_EmptySet
<1>2. CASE S # {}
  <2>1. PICK x : S = {x}
    BY <1>2
  <2> QED
    BY <2>1, FS_Singleton
<1> QED
  BY <1>1, <1>2

\* Owners(f) counts at most one holder of each kind.
LEMMA OwnersCount ==
  ASSUME ProactorInv, NEW f \in Fds
  PROVE  Owners(f) = (IF Armed(f) THEN 1 ELSE 0) + (IF InBatch(f) THEN 1 ELSE 0)
                      + (IF InQueue(f) THEN 1 ELSE 0) + (IF AtWork(f) THEN 1 ELSE 0)
<1> DEFINE E == {e \in events : e.fd = f}
           Q == {i \in DOMAIN queue : queue[i] = f}
           W == {w \in Workers : running[w] = f}
<1>1. DOMAIN queue = 1..Len(queue)
  <2>1. queue \in Seq(Fds)
    BY DEF ProactorInv, TypeOK
  <2> QED
    BY <2>1, LenProperties
<1>2. Cardinality(E) = IF InBatch(f) THEN 1 ELSE 0
  <2>1. (\A x, y \in E : x = y) /\ (E # {} <=> InBatch(f))
    BY DEF ProactorInv, OwnerInv, InBatch
  <2> QED
    BY <2>1, AtMostOne
<1>3. Cardinality(Q) = IF InQueue(f) THEN 1 ELSE 0
  <2>1. (\A x, y \in Q : x = y) /\ (Q # {} <=> InQueue(f))
    BY <1>1 DEF ProactorInv, OwnerInv, InQueue
  <2> QED
    BY <2>1, AtMostOne
<1>4. Cardinality(W) = IF AtWork(f) THEN 1 ELSE 0
  <2>1. (\A x, y \in W : x = y) /\ (W # {} <=> AtWork(f))
    BY ProactorAssumption DEF ProactorInv, OwnerInv, AtWork
  <2> QED
    BY <2>1, AtMostOne
<1>5. (IF epoll[f] \in {"in", "out"} THEN 1 ELSE 0) = IF Armed(f) THEN 1 ELSE 0
  BY DEF Armed
<1> QED
  BY <1>2, <1>3, <1>4, <1>5 DEF Owners

\* EPOLLONESHOT and the final modifyfd() of process() keep every http_conn in
\* one pair of hands, whatever the number of workers and connections.
THEOREM ProactorOneOwner == Spec /\ []SockfdMatches => []ExclusiveOwner
<1>1. ProactorInv => ExclusiveOwner
  <2> SUFFICES ASSUME ProactorInv, NEW f \in Fds
               PROVE  Owners(f) =< IF f \in OpenFds THEN 1 ELSE 0
    BY DEF ExclusiveOwner
  <2>1. /\ Armed(f) \/ InBatch(f) \/ InQueue(f) \/ AtWork(f) => f \in OpenFds
        /\ Armed(f) => ~InBatch(f) /\ ~InQueue(f) /\ ~AtWork(f)
        /\ InBatch(f) => ~InQueue(f) /\ ~AtWork(f)
        /\ InQueue(f) => ~AtWork(f)
    BY DEF ProactorInv, OwnerInv, OpenFds
  <2> QED
    BY <2>1, OwnersCount
<1> QED
  BY <1>1, ProactorInvariant, PTL

\* main() handles an event for the connection it was reported for.
THEOREM ProactorEventsFresh == Spec /\ []SockfdMatches => []EventsFresh
<1>1. ProactorInv => EventsFresh
  BY DEF ProactorInv
<1> QED
  BY <1>1, ProactorInvariant, PTL

\* m_user_count is the number of connections the server holds open.
THEOREM ProactorUserCount == Spec /\ []SockfdMatches => []UserCountExact
<1>1. ProactorInv => UserCountExact
  BY DEF ProactorInv
<1> QED
  BY <1>1, ProactorInvariant, PTL

\* write() always finds a response, with its file still mapped.
THEOREM ProactorResponseReady == Spec /\ []SockfdMatches => []ResponseReady
<1>1. ProactorInv => ResponseReady
  BY ProactorAssumption DEF ProactorInv, ReplyInv, WillWrite, HoldsReply, ResponseReady
<1> QED
  BY <1>1, ProactorInvariant, PTL

\* A client receives answers to its own requests only, in their order, whatever
\* its descriptor and its http_conn served before.
THEOREM ProactorRepliesMatch == Spec /\ []SockfdMatches => []RepliesMatchRequests
<1>1. ProactorInv => RepliesMatchRequests
  <2> SUFFICES ASSUME ProactorInv, NEW c \in Conns
               PROVE  \E at \in [DOMAIN replies[c] -> DOMAIN sent[c]] :
                        /\ \A i, j \in DOMAIN at : i < j => at[i] < at[j]
                        /\ \A i \in DOMAIN at : sent[c][at[i]] = replies[c][i] /\ replies[c][i].end
    BY DEF RepliesMatchRequests
  <2>1. Matched(sent[c], replies[c], Len(sent[c]))
    BY DEF ProactorInv, LineInv
  <2>2. DOMAIN replies[c] = 1..Len(replies[c]) /\ DOMAIN sent[c] = 1..Len(sent[c])
    <3>1. replies[c] \in Seq(Chunks) /\ sent[c] \in Seq(Chunks)
      BY DEF ProactorInv, TypeOK
    <3> QED
      BY <3>1, LenProperties
  <2>3. PICK at \in [1..Len(replies[c]) -> 1..Len(sent[c])] :
          /\ \A i, j \in 1..Len(replies[c]) : i < j => at[i] < at[j]
          /\ \A i \in 1..Len(replies[c]) : sent[c][at[i]] = replies[c][i] /\ replies[c][i].end
    BY <2>1 DEF Matched
  <2> QED
    BY <2>2, <2>3
<1> QED
  BY <1>1, ProactorInvariant, PTL

\* With one place for every connection in the queue append() never refuses: the
\* queue holds no descriptor twice, nor standard input, nor the one at hand.
LEMMA QueueHasRoom ==
  ASSUME ProactorInv, Roomy, NEW f \in Fds, Handling(f)
  PROVE  Pool!HasRoom
<1> DEFINE T == (Fds \ {0}) \ {f}
<1>1. /\ queue \in Seq(Fds) /\ Len(queue) \in Nat /\ f # 0 /\ 0 \in Fds /\ ~InQueue(f) /\ ~InQueue(0)
  BY LenProperties, ProactorAssumption DEF ProactorInv, TypeOK, ConnInv, OwnerInv, Handling
<1>2. queue \in [1..Len(queue) -> T]
  BY <1>1 DEF InQueue
<1>3. IsFiniteSet(T) /\ Cardinality(T) = Cardinality(Fds) - 2
  <2>1. /\ IsFiniteSet(Fds \ {0}) /\ Cardinality(Fds \ {0}) = Cardinality(Fds) - 1
        /\ Cardinality(Fds) \in Nat
    BY <1>1, ProactorAssumption, FS_RemoveElement, FS_CardinalityType
  <2>2. /\ IsFiniteSet(T) /\ Cardinality(T) = Cardinality(Fds \ {0}) - 1
    BY <1>1, <2>1, FS_RemoveElement
  <2> QED
    BY <2>1, <2>2
<1> HIDE DEF T
<1>4. IsFiniteSet(1..Len(queue)) /\ Cardinality(1..Len(queue)) = Len(queue)
  <2>1. /\ IsFiniteSet(1..Len(queue))
        /\ Cardinality(1..Len(queue)) = IF 1 > Len(queue) THEN 0 ELSE Len(queue) - 1 + 1
    BY <1>1, FS_Interval
  <2> QED
    BY <1>1, <2>1
<1>5. \A i, j \in 1..Len(queue) : queue[i] = queue[j] => i = j
  BY DEF ProactorInv, OwnerInv
<1>6. ~(Cardinality(T) < Cardinality(1..Len(queue)))
  BY <1>2, <1>3, <1>4, <1>5, FS_PigeonHole
<1>7. Cardinality(Fds) \in Nat
  BY ProactorAssumption, FS_CardinalityType
<1> QED
  BY <1>1, <1>3, <1>4, <1>6, <1>7, ProactorAssumption DEF Roomy, Pool!HasRoom

\* No connection is forgotten while the queue has room for all of them: somebody
\* is going to look at each one.
THEOREM ProactorNoOrphan ==
  ASSUME Roomy
  PROVE  Spec /\ []SockfdMatches => []NoOrphan
<1>1. Init => OwnedInv
  BY ProactorAssumption DEF Init, OwnedInv
<1>2. ProactorInv /\ SockfdMatches /\ OwnedInv /\ [Next]_vars => OwnedInv'
  BY StepEffects, OwnerStep, QueueHasRoom DEF Passed
<1>3. ProactorInv /\ OwnedInv => NoOrphan
  <2> SUFFICES ASSUME ProactorInv, OwnedInv, NEW f \in OpenFds PROVE Owners(f) >= 1
    BY DEF NoOrphan
  <2>1. f \in Fds /\ (Armed(f) \/ InBatch(f) \/ InQueue(f) \/ AtWork(f))
    BY DEF OwnedInv, OpenFds
  <2> QED
    BY <2>1, OwnersCount
<1> QED
  BY <1>1, <1>2, <1>3, ProactorInvariant, PTL DEF Spec

-----------------------------------------------------------------------------
(* How an open connection loses its m_sockfd                               *)

\* The private init() runs on the object below that of an open connection.
Overruns ==
  \E f \in Fds :
    /\ f + 1 \in OpenFds
    /\ users' = initConn(users, f) \/ users' = initAll(unmap(users, f), f)

\* The private init() leaves every m_sockfd alone unless the next object is that
\* of an open connection, and sets that one to 0.
LEMMA InitHitsNext ==
  ASSUME NEW us \in [Fds -> UserType], NEW f \in Fds
  PROVE  /\ initAll(us, f)[f].m_sockfd = us[f].m_sockfd
         /\ \A g \in Fds \ {f} : f + 1 # g => initAll(us, f)[g] = us[g]
         /\ f + 1 \in Fds => initAll(us, f)[f + 1].m_sockfd = 0
BY InitAllTypes

\* Every step other than such an init() leaves each open connection its own
\* m_sockfd.
LEMMA SockfdStep ==
  ASSUME ProactorInv, SockfdMatches, Effect, ~Overruns
  PROVE  SockfdMatches'
<1>0. /\ users \in [Fds -> UserType] /\ file \in [Fds -> Conns \cup {Free, Other}]
      /\ \A f \in Fds : file[f] \in Conns => users[f].m_sockfd = f
  BY DEF ProactorInv, TypeOK, UserType, SockfdMatches, OpenFds
<1>1. ASSUME \A f \in Fds : file'[f] \in Conns => users'[f].m_sockfd = f
      PROVE  SockfdMatches'
  BY <1>1 DEF SockfdMatches, OpenFds
<1>2. CASE UNCHANGED file /\ \A f \in Fds : users'[f].m_sockfd = users[f].m_sockfd
  BY <1>0, <1>1, <1>2
<1>3. ASSUME NEW f \in Fds, NEW us \in [Fds -> UserType],
             users' = initConn(users, f) \/ users' = initAll(unmap(users, f), f)
      PROVE  \A g \in Fds \ {f} : file[g] \in Conns => initAll(us, f)[g] = us[g]
  BY <1>3, InitHitsNext DEF Overruns, OpenFds
<1>4. ASSUME NEW f \in Fds, Accept(f) PROVE SockfdMatches'
  <2>1. \/ UNCHANGED <<file, users>>
        \/ (\E c : file' = [file EXCEPT ![f] = c]) /\ users' = initConn(users, f)
    BY <1>4, Zenon DEF Accept
  <2> DEFINE us == [users EXCEPT ![f].m_sockfd = f]
  <2>2. /\ us \in [Fds -> UserType] /\ us[f].m_sockfd = f
        /\ \A g \in Fds \ {f} : us[g] = users[g]
    BY <1>0 DEF UserType
  <2>3. initConn(users, f) = initAll(us, f)
    BY DEF initConn
  <2> HIDE DEF us
  <2>4. CASE UNCHANGED <<file, users>>
    BY <1>2, <2>4
  <2>5. CASE (\E c : file' = [file EXCEPT ![f] = c]) /\ users' = initConn(users, f)
    BY <1>0, <1>1, <1>3, <2>2, <2>3, <2>5, InitHitsNext
  <2> QED
    BY <2>1, <2>4, <2>5
<1>5. ASSUME NEW f \in Fds, Closing(f) PROVE SockfdMatches'
  <2>1. /\ file' = [file EXCEPT ![f] = Free]
        /\ \/ users' = [users EXCEPT ![f].m_sockfd = -1]
           \/ users' = [unmap(users, f) EXCEPT ![f].m_sockfd = -1]
    BY <1>5 DEF Closing
  <2>2. file'[f] \notin Conns /\ \A g \in Fds \ {f} : file'[g] = file[g] /\ users'[g] = users[g]
    BY <1>0, <2>1, ProactorAssumption DEF unmap
  <2> QED
    BY <1>0, <1>1, <2>2
<1>6. ASSUME NEW f \in Fds, Reading(f) PROVE SockfdMatches'
  <2>1. UNCHANGED file /\ \E b : users' = [users EXCEPT ![f].m_read_buf = b]
    BY <1>6 DEF Reading
  <2> QED
    BY <1>0, <1>2, <2>1 DEF UserType
<1>7. ASSUME NEW f \in Fds, Keeping(f) PROVE SockfdMatches'
  <2>1. UNCHANGED file /\ users' = initAll(unmap(users, f), f)
    BY <1>7 DEF Keeping
  <2>2. /\ unmap(users, f) \in [Fds -> UserType]
        /\ \A g \in Fds : unmap(users, f)[g].m_sockfd = users[g].m_sockfd
    BY <1>0 DEF unmap, UserType
  <2>3. \A g \in Fds : file[g] \in Conns => users'[g].m_sockfd = users[g].m_sockfd
    BY <1>3, <2>1, <2>2, InitHitsNext
  <2> QED
    BY <1>0, <1>1, <2>1, <2>3
<1>8. ASSUME NEW f \in Fds, Waiting(f) PROVE SockfdMatches'
  BY <1>2, <1>8 DEF Waiting
<1>9. ASSUME NEW w \in Workers, Process(w) PROVE SockfdMatches'
  <2>1. UNCHANGED file
    BY <1>9 DEF Process, kernelVars
  <2>2. ASSUME NEW f \in Fds, Answering(w, f)
        PROVE  \A g \in Fds : users'[g].m_sockfd = users[g].m_sockfd
    <3>1. \E r, a : users' = respond(users, f, r, a)
      BY <2>2 DEF Answering
    <3> QED
      BY <1>0, <3>1 DEF respond, UserType
  <2> QED
    BY <1>2, <1>9, <2>1, <2>2, ProcessEffect DEF ProactorInv
<1>10. ASSUME NEW w \in Workers, Take(w) \/ \E f \in Fds : Rearming(w, f) PROVE SockfdMatches'
  BY <1>2, <1>10 DEF Take, Rearming, kernelVars
<1>11. ASSUME NEW c \in Conns, Connect(c) \/ HangUp(c) \/ \E chunk \in Chunks : Send(c, chunk)
       PROVE  SockfdMatches'
  BY <1>2, <1>11 DEF Connect, HangUp, Send, kernelVars
<1>12. CASE UNCHANGED vars \/ AcceptFails \/ EpollWait
  BY <1>2, <1>12 DEF vars, AcceptFails, EpollWait, kernelVars
<1> QED
  BY <1>4, <1>5, <1>6, <1>7, <1>8, <1>9, <1>10, <1>11, <1>12 DEF Effect

\* Such an init() takes the m_sockfd of a connection that stays open.
LEMMA OverrunHits ==
  ASSUME ProactorInv, SockfdMatches, Effect, SockfdMatches'
  PROVE  ~Overruns
<1> SUFFICES ASSUME NEW f \in Fds, f + 1 \in OpenFds,
                    users' = initConn(users, f) \/ users' = initAll(unmap(users, f), f)
             PROVE  FALSE
  BY DEF Overruns
<1> DEFINE g == f + 1
<1>0. /\ users \in [Fds -> UserType] /\ file \in [Fds -> Conns \cup {Free, Other}]
      /\ g \in Fds /\ file[g] \in Conns /\ g # 0
  BY ProactorAssumption DEF ProactorInv, TypeOK, UserType, OpenFds
<1>1. users'[g].m_sockfd = 0
  <2>1. [users EXCEPT ![f].m_sockfd = f] \in [Fds -> UserType] /\ unmap(users, f) \in [Fds -> UserType]
    BY <1>0 DEF unmap, UserType
  <2>2. \A us \in [Fds -> UserType] : initAll(us, f)[g].m_sockfd = 0
    BY <1>0, InitHitsNext
  <2>3. users' = initAll([users EXCEPT ![f].m_sockfd = f], f) \/ users' = initAll(unmap(users, f), f)
    BY DEF initConn
  <2> HIDE DEF g
  <2> QED
    BY <2>1, <2>2, <2>3
<1> HIDE DEF g
<1>2. file'[g] \notin Conns
  BY <1>0, <1>1 DEF SockfdMatches, OpenFds
<1>3. ASSUME NEW h \in Fds, Closing(h) PROVE FALSE
  <2>1. h = g
    BY <1>0, <1>2, <1>3 DEF Closing
  <2>2. unmap(users, h) \in [Fds -> UserType]
    BY <1>0 DEF unmap, UserType
  <2>3. \/ users' = [users EXCEPT ![h].m_sockfd = -1]
        \/ users' = [unmap(users, h) EXCEPT ![h].m_sockfd = -1]
    BY <1>3 DEF Closing
  <2>4. \A us \in [Fds -> UserType] : [us EXCEPT ![h].m_sockfd = -1][h].m_sockfd = -1
    BY DEF UserType
  <2>5. users'[h].m_sockfd = -1
    BY <1>0, <2>2, <2>3, <2>4
  <2> QED
    BY <1>1, <2>1, <2>5
<1>4. ASSUME NEW h \in Fds, Accept(h) PROVE FALSE
  <2>1. UNCHANGED file \/ file' = [file EXCEPT ![h] = Head(backlog)]
    BY <1>4, Zenon DEF Accept
  <2>2. file[h] = Free /\ Free \notin Conns
    BY <1>4, ProactorAssumption DEF Accept, Acceptable, FreeFds
  <2> QED
    BY <1>0, <1>2, <2>1, <2>2
<1>5. CASE UNCHANGED file
  BY <1>0, <1>2, <1>5
<1> QED
  BY <1>3, <1>4, <1>5
  DEF Effect, Reading, Keeping, Waiting, Process, Take, Rearming, Connect, HangUp, Send, vars,
      AcceptFails, EpollWait, kernelVars

\* Open connections keep their m_sockfd exactly as long as the private init()
\* never runs on the object below one of them, be it for a new connection or for
\* the next request of a kept one.  Nothing else main() and the workers do can
\* take it, for any set of descriptors.
THEOREM SockfdLostByOverrun == Spec => ([]SockfdMatches <=> [][~Overruns]_vars)
<1>1. Init => SockfdMatches
  BY ProactorAssumption DEF Init, SockfdMatches, OpenFds
<1>2. ProactorInv /\ SockfdMatches /\ [Next]_vars /\ [~Overruns]_vars
        => (ProactorInv /\ SockfdMatches)'
  <2> SUFFICES ASSUME ProactorInv, SockfdMatches, [Next]_vars, [~Overruns]_vars
               PROVE  SockfdMatches'
    BY ProactorStep
  <2>1. CASE ~Overruns
    BY <2>1, StepEffects, SockfdStep
  <2>2. CASE UNCHANGED vars
    BY <2>2 DEF SockfdMatches, OpenFds, vars
  <2> QED
    BY <2>1, <2>2
<1>3. ProactorInv /\ SockfdMatches /\ SockfdMatches' /\ [Next]_vars => [~Overruns]_vars
  BY StepEffects, OverrunHits
<1> QED
  BY <1>1, <1>2, <1>3, ProactorInit, ProactorInvariant, PTL DEF Spec
=============================================================================
