------------------------------ MODULE Proactor ------------------------------
(***************************************************************************)
(* The Proactor web server (1. Proactor): the event loop of main.cpp, the  *)
(* life of the http_conn objects of users[] and the workers that process   *)
(* them.  Workers and main thread share users[], the epoll instance and    *)
(* the request queue; nothing but EPOLLONESHOT keeps two threads off one   *)
(* object.  The pool is the abstract TaskQueue that ThreadPool implements. *)
(*                                                                         *)
(* A connection sends chunks; a chunk either completes a request or does   *)
(* not.  What process_read() makes of bytes is HttpParser's matter, how    *)
(* many bytes each writev() takes is left out: write() ends, must wait, or *)
(* fails.                                                                  *)
(***************************************************************************)
EXTENDS Integers, Sequences, FiniteSets

CONSTANTS
  Workers,     \* threads of the pool
  Conns,       \* TCP connections, each one made at most once
  Fds,         \* standard input and the descriptors accept() may return; all
               \* others are in use for good: lfd, epollfd, inherited ones
  Chunks,      \* what a client sends: [end, file, keep: BOOLEAN]
  Part,        \* the chunk that completes nothing
  MaxSend,     \* bound: how many chunks each connection sends
  MaxRequest,  \* m_maxrequestnum
  MAX_FD,      \* size of users[]
  BufSize,     \* READ_BUFFER_SIZE, in chunks
  NoTask, NoReply, Free, Other

ASSUME ProactorAssumption ==
  /\ Fds \subseteq Nat /\ IsFiniteSet(Fds) /\ 0 \in Fds
  /\ \A f \in Fds : f < MAX_FD     \* the default limit is 1024 descriptors
  /\ Chunks \subseteq [end : BOOLEAN, file : BOOLEAN, keep : BOOLEAN]
  /\ Part = [end |-> FALSE, file |-> FALSE, keep |-> FALSE]
  /\ MaxRequest \in Nat \ {0} /\ MaxSend \in [Conns -> Nat]
  /\ MAX_FD \in Nat /\ BufSize \in Nat
  /\ NoTask \notin Fds /\ NoReply \notin Chunks
  /\ Free # Other /\ {Free, Other} \cap Conns = {}

VARIABLES
  (* the kernel *)
  file,          \* descriptor table: a connection, Free, or Other
  backlog,       \* connections completed and not accepted
  lready,        \* lfd has an edge that epoll_wait() has not reported
  epoll,         \* per descriptor: "none", "off" (ONESHOT fired), "in", "out"
  (* the clients *)
  sent,          \* chunks each connection has sent
  taken,         \* how many of them recv() has returned
  hup,           \* the client has closed its end
  replies,       \* responses each client has received
  cstate,        \* "new", "backlog", "open", "closed"
  (* the server *)
  users,         \* the http_conn objects
  m_user_count,
  accepting,     \* the listener's event of the current batch is unhandled
  events,        \* the other unhandled events of the batch
  queue,         \* the thread pool's queue of http_conn pointers
  running,       \* the object each worker has taken
  rearm,         \* what process() will pass to modifyfd(): "none" before
  alive          \* FALSE once users[-1] has been written

clientVars == <<sent, hup>>
kernelVars == <<file, backlog, lready, cstate>>
poolVars == <<queue, running, rearm>>
vars == <<file, backlog, lready, epoll, sent, taken, hup, replies, cstate, users,
          m_user_count, accepting, events, queue, running, rearm, alive>>

Pool == INSTANCE TaskQueue WITH Tasks <- Fds

\* The memory new http_conn[MAX_FD] returns is fresh and therefore zero.
Fresh == [m_sockfd |-> 0, m_read_buf |-> << >>, m_linger |-> FALSE,
          m_write_buf |-> NoReply, m_file_address |-> "null"]

Init ==
  /\ file = [f \in Fds |-> IF f = 0 THEN Other ELSE Free]
  /\ backlog = << >> /\ lready = FALSE
  /\ epoll = [f \in Fds |-> "none"]
  /\ sent = [c \in Conns |-> << >>] /\ taken = [c \in Conns |-> 0]
  /\ hup = [c \in Conns |-> FALSE] /\ replies = [c \in Conns |-> << >>]
  /\ cstate = [c \in Conns |-> "new"]
  /\ users = [f \in Fds |-> Fresh]
  /\ m_user_count = 0
  /\ accepting = FALSE /\ events = {}
  /\ Pool!TQInit /\ rearm = [w \in Workers |-> "none"]
  /\ alive = TRUE

-----------------------------------------------------------------------------
(* Clients, as long as there is a server                                   *)

\* The handshake completes; the edge-triggered listener becomes ready.
Connect(c) ==
  /\ alive /\ cstate[c] = "new"
  /\ cstate' = [cstate EXCEPT ![c] = "backlog"]
  /\ backlog' = Append(backlog, c)
  /\ lready' = TRUE
  /\ UNCHANGED <<file, epoll, clientVars, taken, replies, users, m_user_count,
                 accepting, events, poolVars, alive>>

Send(c, chunk) ==
  /\ alive /\ cstate[c] \in {"backlog", "open"} /\ ~hup[c] /\ Len(sent[c]) < MaxSend[c]
  /\ sent' = [sent EXCEPT ![c] = Append(@, chunk)]
  /\ UNCHANGED <<kernelVars, epoll, taken, hup, replies, users, m_user_count,
                 accepting, events, poolVars, alive>>

HangUp(c) ==
  /\ alive /\ cstate[c] \in {"backlog", "open"} /\ ~hup[c]
  /\ hup' = [hup EXCEPT ![c] = TRUE]
  /\ UNCHANGED <<kernelVars, epoll, sent, taken, replies, users, m_user_count,
                 accepting, events, poolVars, alive>>

-----------------------------------------------------------------------------
(* http_conn and the epoll helpers                                         *)

Unread(c) == SubSeq(sent[c], taken[c] + 1, Len(sent[c]))

\* Mutant: no re-arming for input.
modifyfd_OnlyOut(s, ev) ==
  IF s \in Fds /\ epoll[s] # "none" /\ ev = "out" THEN [epoll EXCEPT ![s] = ev] ELSE epoll

\* modifyfd(): fails without notice on a descriptor that is not registered.
modifyfd(s, ev) ==
  IF s \in Fds /\ epoll[s] # "none" THEN [epoll EXCEPT ![s] = ev] ELSE epoll

\* The private init().  bzero(m_write_buf, READ_BUFFER_SIZE) clears 1024 bytes
\* too many: the rest of this object, m_file_address included, and the head
\* of the next one, that is its m_sockfd and the start of its m_read_buf.
initAll(us, f) ==
  [g \in Fds |->
    CASE g = f ->
           [us[f] EXCEPT !.m_read_buf = << >>, !.m_linger = FALSE,
                         !.m_write_buf = NoReply, !.m_file_address = "null"]
      [] g = f + 1 ->
           [us[g] EXCEPT !.m_sockfd = 0,
                         !.m_read_buf = [i \in DOMAIN us[g].m_read_buf |-> Part]]
      [] OTHER -> us[g]]

unmap(us, f) == [us EXCEPT ![f].m_file_address = "null"]

\* Mutant: the parsing state of the last connection is left in place.
initConn_NoReset(us, f) == [us EXCEPT ![f].m_sockfd = f]

\* The public init(sockfd, addr).
initConn(us, f) == initAll([us EXCEPT ![f].m_sockfd = f], f)

\* Mutant: the user is not counted.
userAdded_Not == m_user_count

\* m_user_count++ of init() and m_user_count-- of closeconn().
userAdded == m_user_count + 1

\* Mutant: the user is not given back.
userRemoved_Not == m_user_count

userRemoved == m_user_count - 1

\* closeconn() and removefd().
closeconn(us, f) ==
  LET s == us[f].m_sockfd IN
  IF s = -1
  THEN users' = us /\ UNCHANGED <<epoll, file, cstate, m_user_count>>
  ELSE /\ epoll' = [epoll EXCEPT ![s] = "none"]
       /\ file' = [file EXCEPT ![s] = Free]
       /\ cstate' = [c \in Conns |-> IF file[s] = c THEN "closed" ELSE cstate[c]]
       /\ users' = [us EXCEPT ![f].m_sockfd = -1]
       /\ m_user_count' = userRemoved

\* read() drains the socket.  It fails on a full buffer, and a buffer filled
\* to the last byte makes the next recv() ask for nothing and return 0; it
\* fails on end of file and on a descriptor that is no connection.
readFails(f) ==
  LET c == file[users[f].m_sockfd] IN
  \/ c \notin Conns
  \/ hup[c]
  \/ Len(users[f].m_read_buf) + Len(Unread(c)) >= BufSize

-----------------------------------------------------------------------------
(* The main thread                                                         *)

Ready(f) ==
  /\ file[f] \in Conns
  /\ epoll[f] \in {"in", "out"}
  /\ \/ hup[file[f]]
     \/ epoll[f] = "in" /\ Unread(file[f]) # << >>
     \/ epoll[f] = "out"

\* The branches of main(): EPOLLRDHUP, EPOLLHUP and EPOLLERR come first.
EventOf(f) == [fd |-> f, conn |-> file[f],
               what |-> IF hup[file[f]] THEN "hup" ELSE epoll[f]]

\* Mutant: a registration without EPOLLONESHOT stays armed.
disarmed_NoOneshot == epoll

disarmed == [f \in Fds |-> IF Ready(f) THEN "off" ELSE epoll[f]]

\* epoll_wait() reports everything that is ready; EPOLLONESHOT disarms it.
EpollWait ==
  /\ alive /\ events = {} /\ ~accepting
  /\ lready \/ \E f \in Fds : Ready(f)
  /\ accepting' = lready /\ lready' = FALSE
  /\ events' = {EventOf(f) : f \in {g \in Fds : Ready(g)}}
  /\ epoll' = disarmed
  /\ UNCHANGED <<file, backlog, clientVars, taken, replies, cstate, users,
                 m_user_count, poolVars, alive>>

FreeFds == {f \in Fds : file[f] = Free}

\* Workers that may hold one more descriptor, between open() and close() of
\* do_request().
Opening == {w \in Workers : running[w] # NoTask /\ rearm[w] = "none"}

\* accept() returns the lowest descriptor that is free and not held by a worker.
Acceptable(f) ==
  /\ f \in FreeFds
  /\ Cardinality({g \in FreeFds : g < f}) =< Cardinality(Opening)

\* One accept() per event of the listener, then users[connfd].init().
Accept(f) ==
  /\ alive /\ accepting /\ backlog # << >>
  /\ Acceptable(f)
  /\ accepting' = FALSE
  /\ backlog' = Tail(backlog)
  /\ LET c == Head(backlog) IN
     IF m_user_count >= MAX_FD
     THEN /\ cstate' = [cstate EXCEPT ![c] = "closed"]
          /\ UNCHANGED <<file, epoll, users, m_user_count>>
     ELSE /\ cstate' = [cstate EXCEPT ![c] = "open"]
          /\ file' = [file EXCEPT ![f] = c]
          /\ epoll' = [epoll EXCEPT ![f] = "in"]
          /\ m_user_count' = userAdded
          /\ users' = initConn(users, f)
  /\ UNCHANGED <<lready, clientVars, taken, replies, events, poolVars, alive>>

\* With no descriptor left, workers' open() included, accept() returns -1,
\* which nobody checks: users[-1].init() writes in front of the array and the
\* process dies.
AcceptFails ==
  /\ alive /\ accepting /\ backlog # << >>
  /\ Cardinality(FreeFds) =< Cardinality(Opening)
  /\ accepting' = FALSE
  /\ alive' = FALSE
  /\ UNCHANGED <<kernelVars, epoll, clientVars, taken, replies, users, m_user_count,
                 events, poolVars>>

Pending(f, what) == \E e \in events : e.fd = f /\ e.what = what

\* Mutant: the loop over the batch does not move on.
Others_All(f) == events

Others(f) == {e \in events : e.fd # f}

HandleHup(f) ==
  /\ alive /\ Pending(f, "hup")
  /\ events' = Others(f)
  /\ closeconn(users, f)
  /\ UNCHANGED <<backlog, lready, clientVars, taken, replies, accepting, poolVars, alive>>

\* EPOLLIN: read() and, if that went well, append(), whose result nobody
\* looks at.
HandleIn(f) ==
  LET c == file[users[f].m_sockfd] IN
  /\ alive /\ Pending(f, "in")
  /\ events' = Others(f)
  /\ IF readFails(f)
     THEN /\ closeconn(users, f)
          /\ UNCHANGED <<taken, queue, running>>
     ELSE /\ users' = [users EXCEPT ![f].m_read_buf = @ \o Unread(c)]
          /\ taken' = [taken EXCEPT ![c] = Len(sent[c])]
          /\ IF Pool!HasRoom THEN Pool!Accept(f) ELSE UNCHANGED <<queue, running>>
          /\ UNCHANGED <<epoll, file, cstate, m_user_count>>
  /\ UNCHANGED <<backlog, lready, clientVars, replies, accepting, rearm, alive>>

\* Linux rejects a writev() that has MAP_FAILED in m_iv with EFAULT.
BadAddress(f) == users[f].m_file_address = "failed"

\* EPOLLOUT, write(): the response, if there is one, has gone out.  A kept
\* connection starts again with an empty buffer, the other one is closed.
HandleOutDone(f) ==
  LET s == users[f].m_sockfd
      c == file[s]
      empty == users[f].m_write_buf = NoReply
  IN
  /\ alive /\ Pending(f, "out")
  /\ empty \/ ~BadAddress(f)
  /\ events' = Others(f)
  /\ replies' = IF c \in Conns /\ ~empty
                THEN [replies EXCEPT ![c] = Append(@, users[f].m_write_buf)]
                ELSE replies
  /\ IF empty \/ users[f].m_linger
     THEN /\ users' = initAll(unmap(users, f), f)
          /\ epoll' = modifyfd(s, "in")
          /\ UNCHANGED <<file, cstate, m_user_count>>
     ELSE closeconn(unmap(users, f), f)
  /\ UNCHANGED <<backlog, lready, clientVars, taken, accepting, poolVars, alive>>

\* writev() found no room in the socket buffer.
HandleOutAgain(f) ==
  /\ alive /\ Pending(f, "out")
  /\ users[f].m_write_buf # NoReply /\ ~BadAddress(f)
  /\ events' = Others(f)
  /\ epoll' = modifyfd(users[f].m_sockfd, "out")
  /\ UNCHANGED <<kernelVars, clientVars, taken, replies, users, m_user_count,
                 accepting, poolVars, alive>>

\* writev() failed: the peer is gone, or mmap() had failed.
HandleOutFails(f) ==
  LET c == file[users[f].m_sockfd] IN
  /\ alive /\ Pending(f, "out")
  /\ users[f].m_write_buf # NoReply
  /\ c \in Conns => hup[c] \/ BadAddress(f)
  /\ events' = Others(f)
  /\ closeconn(unmap(users, f), f)
  /\ UNCHANGED <<backlog, lready, clientVars, taken, replies, accepting, poolVars, alive>>

-----------------------------------------------------------------------------
(* The workers                                                             *)

Take(w) ==
  /\ alive
  /\ Pool!Take(w)
  /\ UNCHANGED <<kernelVars, epoll, clientVars, taken, replies, users, m_user_count,
                 accepting, events, rearm, alive>>

Completing(buf) == {i \in DOMAIN buf : buf[i].end}

\* Mutant: the address mmap() returns is not kept.
respond_NoMap(us, f, r, address) ==
  [us EXCEPT ![f].m_write_buf = r, ![f].m_linger = r.keep]

\* do_request() and process_write(); the address is what mmap() returned.
respond(us, f, r, address) ==
  [us EXCEPT ![f].m_write_buf = r, ![f].m_linger = r.keep,
             ![f].m_file_address = IF r.file THEN address ELSE @]

\* process() up to its last modifyfd(): the first complete request of the
\* buffer gets its response; a file is mapped.
Process(w) ==
  LET f == running[w]
      buf == users[f].m_read_buf
  IN
  /\ alive /\ f # NoTask /\ rearm[w] = "none"
  /\ IF Completing(buf) = {}
     THEN /\ rearm' = [rearm EXCEPT ![w] = "in"]
          /\ UNCHANGED users
     ELSE LET r == buf[CHOOSE i \in Completing(buf) : \A j \in Completing(buf) : i =< j] IN
          /\ rearm' = [rearm EXCEPT ![w] = "out"]
          /\ \E address \in {"file", "failed"} : users' = respond(users, f, r, address)
  /\ UNCHANGED <<kernelVars, epoll, clientVars, taken, replies, m_user_count,
                 accepting, events, queue, running, alive>>

\* The modifyfd() with which process() ends: from here on the main thread may
\* work on the object again.
Rearm(w) ==
  /\ alive /\ rearm[w] # "none"
  /\ epoll' = modifyfd(users[running[w]].m_sockfd, rearm[w])
  /\ rearm' = [rearm EXCEPT ![w] = "none"]
  /\ Pool!Finish(w)
  /\ UNCHANGED <<kernelVars, clientVars, taken, replies, users, m_user_count,
                 accepting, events, alive>>

-----------------------------------------------------------------------------
ClientStep ==
  \E c \in Conns : Connect(c) \/ HangUp(c) \/ \E chunk \in Chunks : Send(c, chunk)

Handle(f) ==
  HandleHup(f) \/ HandleIn(f) \/ HandleOutDone(f) \/ HandleOutAgain(f) \/ HandleOutFails(f)

MainStep ==
  \/ EpollWait
  \/ AcceptFails
  \/ \E f \in Fds : Accept(f) \/ Handle(f)

WorkerStep(w) == Take(w) \/ Process(w) \/ Rearm(w)

Next == ClientStep \/ MainStep \/ \E w \in Workers : WorkerStep(w)

Spec == Init /\ [][Next]_vars

\* The threads of the server keep running.  Clients do what they like, except
\* that a client that waits for a response keeps its receive window moving,
\* so that writev() does not end with EAGAIN for ever.
Fairness ==
  /\ WF_vars(MainStep)
  /\ \A f \in Fds : SF_vars(HandleOutDone(f))
  /\ \A w \in Workers : WF_vars(WorkerStep(w))

FairSpec == Spec /\ Fairness

-----------------------------------------------------------------------------
(* Properties                                                              *)

OpenFds == {f \in Fds : file[f] \in Conns}

TypeOK ==
  /\ file \in [Fds -> Conns \cup {Free, Other}]
  /\ backlog \in Seq(Conns) /\ lready \in BOOLEAN
  /\ epoll \in [Fds -> {"none", "off", "in", "out"}]
  /\ sent \in [Conns -> Seq(Chunks)] /\ taken \in [Conns -> Nat]
  /\ hup \in [Conns -> BOOLEAN] /\ replies \in [Conns -> Seq(Chunks)]
  /\ cstate \in [Conns -> {"new", "backlog", "open", "closed"}]
  /\ users \in [Fds -> [m_sockfd : Fds \cup {-1}, m_read_buf : Seq(Chunks \cup {Part}),
                        m_linger : BOOLEAN, m_write_buf : Chunks \cup {NoReply},
                        m_file_address : {"null", "file", "failed"}]]
  /\ m_user_count \in Nat
  /\ accepting \in BOOLEAN /\ alive \in BOOLEAN
  /\ events \subseteq [fd : Fds, conn : Conns, what : {"hup", "in", "out"}]
  /\ queue \in Seq(Fds) /\ running \in [Workers -> Fds \cup {NoTask}]
  /\ rearm \in [Workers -> {"none", "in", "out"}]

\* Who may touch users[f] next: epoll (the main thread, once it fires), the
\* batch main() is working through, the queue, or a worker.
Owners(f) ==
  (IF epoll[f] \in {"in", "out"} THEN 1 ELSE 0)
  + Cardinality({e \in events : e.fd = f})
  + Cardinality({i \in DOMAIN queue : queue[i] = f})
  + Cardinality({w \in Workers : running[w] = f})

\* EPOLLONESHOT and the final modifyfd() of process() keep every http_conn in
\* one pair of hands (main.cpp:23): never two owners, and none at all for a
\* descriptor that is not an open connection, so that no worker is ever left
\* with a connection that main() has closed or accepted anew.
ExclusiveOwner ==
  \A f \in Fds : Owners(f) =< IF f \in OpenFds THEN 1 ELSE 0

\* An event is handled for the connection it was reported for, although
\* handlers of the same batch close descriptors and accept() reuses them.
EventsFresh == \A e \in events : file[e.fd] = e.conn

\* While the queue has room for every open connection no connection is ever
\* forgotten: somebody is going to look at each of them (http_conn.cpp:8).
NoOrphan == alive => \A f \in OpenFds : Owners(f) >= 1

\* m_user_count, on which main() decides whether to accept, is the number of
\* connections the server holds open.
UserCountExact == m_user_count = Cardinality(OpenFds)

\* http_conn.h:94: m_sockfd is the socket of this connection.
SockfdMatches == \A f \in OpenFds : users[f].m_sockfd = f

\* Whenever write() is going to run there is a response in m_write_buf, and
\* what mmap() returned for the file it refers to has not been given back.
ResponseReady ==
  \A f \in Fds :
    (epoll[f] = "out" \/ Pending(f, "out"))
      => /\ users[f].m_write_buf # NoReply
         /\ users[f].m_write_buf.file => users[f].m_file_address # "null"

\* A client receives answers only to requests of its own and in their order,
\* also when its descriptor and its http_conn served another client before.
RepliesMatchRequests ==
  \A c \in Conns :
    \E at \in [DOMAIN replies[c] -> DOMAIN sent[c]] :
      /\ \A i, j \in DOMAIN at : i < j => at[i] < at[j]
      /\ \A i \in DOMAIN at : sent[c][at[i]] = replies[c][i] /\ replies[c][i].end

\* An accepted connection whose complete request waits in the socket gets one
\* more response, unless it is closed or the server has died.
RequestAnswered ==
  \A c \in Conns : \A n \in 0..(MaxSend[c] - 1) :
    (/\ cstate[c] = "open" /\ Len(replies[c]) = n
     /\ \E i \in DOMAIN Unread(c) : Unread(c)[i].end)
      ~> (Len(replies[c]) > n \/ cstate[c] = "closed" \/ ~alive)
=============================================================================
