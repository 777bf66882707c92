----------------------------- MODULE HttpWrite -----------------------------
(***************************************************************************)
(* How 1. Proactor sends a response: the bytes that Proactor leaves out.   *)
(* A worker has filled m_write_buf, mapped the file and set m_iv, and has  *)
(* asked for EPOLLOUT; the main thread calls write(), whose writev() takes *)
(* as much as the socket's send buffer holds.  The model follows the       *)
(* http_conn of one descriptor through several connections.  That worker   *)
(* and main thread take turns on it is ExclusiveOwner of Proactor.         *)
(***************************************************************************)
EXTENDS Integers, Sequences

CONSTANTS
  Heads,         \* values of m_write_idx: bytes of head, or of a whole error page
  Files,         \* sizes of files, 0 included
  Room,          \* size of the socket's send buffer
  MaxResponses,  \* bound: responses in the life of the object
  MaxCalls       \* bound: calls of write() for one response

ASSUME HttpWriteAssumption ==
  /\ Heads \subseteq Nat \ {0} /\ Files \subseteq Nat
  /\ Room \in Nat \ {0} /\ MaxResponses \in Nat /\ MaxCalls \in Nat

VARIABLES
  conn,             \* "open" or "closed"
  armed,            \* what epoll waits for: "in", "out", "none" (ONESHOT fired)
  m_write_idx,
  m_iv,             \* iov_len of the m_iv_count parts
  m_linger,
  m_file_address,   \* "null", "file" or "failed" (MAP_FAILED)
  maps,             \* mappings the process holds
  pc,               \* main thread: "idle", or "loop" in write()
  bytes_to_send, bytes_have_send,
  buffered,         \* bytes in the send buffer
  hup,              \* the client has gone
  (* history *)
  pieces,           \* what each writev() of the response took, from its start
  calls,            \* calls of write() for the response
  responses,        \* responses made so far
  finished,         \* "no", or how write() ended the last response: "whole" or "cut"
  leaks             \* connections that a hang-up closed with a file mapped

connVars == <<conn, hup, leaks>>
respVars == <<m_write_idx, m_iv, m_linger, responses>>
loopVars == <<pc, bytes_to_send, bytes_have_send>>
vars == <<connVars, armed, respVars, m_file_address, maps, loopVars, buffered, pieces,
          calls, finished>>

Total(iv) == IF Len(iv) = 2 THEN iv[1] + iv[2] ELSE iv[1]

Init ==
  /\ conn = "open" /\ armed = "in" /\ hup = FALSE
  /\ m_write_idx = 0 /\ m_iv = <<0>> /\ m_linger = FALSE
  /\ m_file_address = "null" /\ maps = 0
  /\ pc = "idle" /\ bytes_to_send = 0 /\ bytes_have_send = 0 /\ buffered = 0
  /\ pieces = << >> /\ calls = 0 /\ responses = 0 /\ finished = "no" /\ leaks = 0

-----------------------------------------------------------------------------
(* The worker: do_request(), process_write() and the last modifyfd()       *)

\* process_write() without a file, for the error pages.
ErrorPage(h) ==
  /\ m_iv' = <<h>>
  /\ UNCHANGED <<m_file_address, maps>>

\* do_request() of a file: mmap() fails on an empty file and when open() has
\* failed, and nobody looks at its result.
FilePage(h, n, opened) ==
  LET mapped == opened /\ n > 0 IN
  /\ m_iv' = <<h, n>>
  /\ m_file_address' = IF mapped THEN "file" ELSE "failed"
  /\ maps' = IF mapped THEN maps + 1 ELSE maps

Process ==
  /\ conn = "open" /\ armed = "in" /\ ~hup /\ responses < MaxResponses
  /\ \E h \in Heads, keep \in BOOLEAN :
       /\ ErrorPage(h) \/ \E n \in Files, opened \in BOOLEAN : FilePage(h, n, opened)
       /\ m_write_idx' = h /\ m_linger' = keep
  /\ armed' = "out"
  /\ responses' = responses + 1 /\ pieces' = << >> /\ calls' = 0 /\ finished' = "no"
  /\ UNCHANGED <<connVars, loopVars, buffered>>

-----------------------------------------------------------------------------
(* The main thread: write() and closeconn()                                *)

\* EPOLLOUT: write() sets up its counters, which count the head only.
WriteBegin ==
  /\ conn = "open" /\ armed = "out" /\ pc = "idle" /\ calls < MaxCalls /\ ~hup
  /\ armed' = "none" /\ pc' = "loop" /\ calls' = calls + 1
  /\ bytes_to_send' = m_write_idx /\ bytes_have_send' = 0
  /\ UNCHANGED <<connVars, respVars, m_file_address, maps, buffered, pieces, finished>>

\* Mutant: write() forgets to unmap.
unmap_Not == UNCHANGED <<m_file_address, maps>>

unmap ==
  /\ m_file_address' = "null"
  /\ maps' = IF m_file_address = "file" THEN maps - 1 ELSE maps

\* closeconn() does not touch the response.
closeconn == conn' = "closed" /\ armed' = "none"

\* The private init(), for the next request of a kept connection.
initResponse == m_write_idx' = 0 /\ m_linger' = FALSE

\* The test of write() for the end of the response.
sentAll(left, have) == left =< have

\* Every writev() starts at the first byte, so only one that takes everything
\* sends the response once and completely.
HowSent(ps) == IF ps = <<Total(m_iv)>> THEN "whole" ELSE "cut"

\* write() has sent what it takes for everything.
WriteEnds(ps) ==
  /\ pc' = "idle"
  /\ finished' = HowSent(ps)
  /\ unmap
  /\ IF m_linger THEN initResponse /\ armed' = "in" /\ UNCHANGED conn
                 ELSE closeconn /\ UNCHANGED <<m_write_idx, m_linger>>

\* How many bytes writev() can take.
Takes ==
  LET free == Room - buffered
  IN  1..(IF Total(m_iv) < free THEN Total(m_iv) ELSE free)

\* Linux looks at all of m_iv before it sends anything: with MAP_FAILED in it
\* writev() fails with EFAULT, for an empty file too.
BadAddress == m_file_address = "failed"

\* writev() always offers the response from its first byte.
Writev(k) ==
  /\ pc = "loop" /\ ~BadAddress /\ k \in Takes
  /\ buffered' = buffered + k
  /\ pieces' = Append(pieces, k)
  /\ bytes_to_send' = bytes_to_send - k
  /\ bytes_have_send' = bytes_have_send + k
  /\ IF sentAll(bytes_to_send', bytes_have_send')
     THEN WriteEnds(pieces')
     ELSE UNCHANGED <<pc, finished, m_file_address, maps, m_write_idx, m_linger, armed, conn>>
  /\ UNCHANGED <<hup, leaks, m_iv, responses, calls>>

\* Mutant: write() tries again at once.
waitForRoom_Spin == UNCHANGED <<pc, armed>>

\* modifyfd(EPOLLOUT) and return; the counters are locals and are forgotten.
waitForRoom == pc' = "idle" /\ armed' = "out"

\* Mutant: the file is given back before write() waits.
WritevAgain_Unmaps ==
  /\ pc = "loop" /\ ~BadAddress /\ buffered = Room
  /\ waitForRoom /\ unmap
  /\ UNCHANGED <<connVars, respVars, bytes_to_send, bytes_have_send, buffered, pieces,
                 calls, finished>>

\* EAGAIN.
WritevAgain ==
  /\ pc = "loop" /\ ~BadAddress /\ buffered = Room
  /\ waitForRoom
  /\ UNCHANGED <<connVars, respVars, m_file_address, maps, bytes_to_send, bytes_have_send,
                 buffered, pieces, calls, finished>>

\* writev() fails otherwise: the peer has reset the connection, or there is no
\* file at the address that mmap() returned.
WritevFails ==
  /\ pc = "loop" /\ (hup \/ BadAddress)
  /\ pc' = "idle"
  /\ unmap
  /\ closeconn
  /\ UNCHANGED <<hup, leaks, respVars, bytes_to_send, bytes_have_send, buffered, pieces,
                 calls, finished>>

\* main() sees EPOLLRDHUP, EPOLLHUP or EPOLLERR before anything else.
HandleHup ==
  /\ conn = "open" /\ pc = "idle" /\ hup
  /\ closeconn
  /\ leaks' = IF m_file_address = "file" THEN leaks + 1 ELSE leaks
  /\ UNCHANGED <<hup, respVars, m_file_address, maps, loopVars, buffered, pieces, calls,
                 finished>>

\* The next connection on this descriptor: init(sockfd, addr), which clears
\* m_file_address together with the rest of the object.
AcceptNext ==
  /\ conn = "closed" /\ responses < MaxResponses
  /\ conn' = "open" /\ armed' = "in" /\ hup' = FALSE /\ buffered' = 0
  /\ initResponse
  /\ m_file_address' = "null"
  /\ UNCHANGED <<leaks, m_iv, responses, maps, loopVars, pieces, calls, finished>>

-----------------------------------------------------------------------------
(* The client                                                              *)

ClientReads(r) ==
  /\ r \in 1..buffered
  /\ buffered' = buffered - r
  /\ UNCHANGED <<connVars, armed, respVars, m_file_address, maps, loopVars, pieces, calls,
                 finished>>

ClientLeaves ==
  /\ conn = "open" /\ ~hup
  /\ hup' = TRUE
  /\ UNCHANGED <<conn, leaks, armed, respVars, m_file_address, maps, loopVars, buffered,
                 pieces, calls, finished>>

-----------------------------------------------------------------------------
WriteStep == (\E k \in 1..Room : Writev(k)) \/ WritevAgain \/ WritevFails

Next ==
  \/ Process \/ WriteBegin \/ WriteStep \/ HandleHup \/ AcceptNext
  \/ (\E r \in 1..Room : ClientReads(r)) \/ ClientLeaves

Spec == Init /\ [][Next]_vars

\* The main thread keeps running.
FairSpec == Spec /\ WF_vars(WriteStep)

-----------------------------------------------------------------------------
(* Properties                                                              *)

\* http_conn.cpp:175 takes the response for successfully sent, and :164
\* promises integrity when the socket has no room for all of it: a response
\* that write() ends as sent has gone out completely and once.
SentInFull == finished # "cut"

\* As long as write() has a response to send, the file that m_iv[1] points to
\* is mapped, also when writev() found no room and the client, a hang-up or
\* another response of the same object came in between.
SentWhileMapped ==
  conn = "open" /\ (pc = "loop" \/ armed = "out") /\ Len(m_iv) = 2
    => m_file_address # "null"

\* Each file is unmapped exactly once: the mappings of the process are that of
\* the response being sent and those of connections which a hang-up closed
\* between process() and the end of write().
MappingsAccounted ==
  maps = leaks + (IF conn = "open" /\ m_file_address = "file" THEN 1 ELSE 0)

\* The loop of write() ends in every call, however little each writev() takes
\* and whatever the client does, and gives the main thread back to the others.
WriteReturns == pc = "loop" ~> pc = "idle"
=============================================================================
