-------------------------- MODULE HttpWriteProofs --------------------------
(***************************************************************************)
(* Proofs about http_conn::write(), for responses of any size, any send    *)
(* buffer and any pattern of partial writes.                               *)
(***************************************************************************)
EXTENDS HttpWrite, SequenceTheorems, TLAPS

\* The types of what the arguments below use.
WriteTypes ==
  /\ conn \in {"open", "closed"} /\ armed \in {"in", "out", "none"}
  /\ pc \in {"idle", "loop"} /\ m_file_address \in {"null", "file", "failed"}
  /\ m_write_idx \in Nat
  /\ maps \in Nat /\ leaks \in Nat /\ buffered \in 0..Room
  /\ bytes_to_send \in Int /\ bytes_have_send \in Nat
  /\ m_iv \in Seq(Nat) /\ Len(m_iv) \in 1..2
  /\ pieces \in Seq(Nat)

\* Worker and main thread take turns: write() runs on an open connection that
\* waits for no event, and a file is mapped only for a response under way.
TurnInv ==
  /\ pc = "loop" => conn = "open" /\ armed = "none"
  /\ conn = "open" /\ pc = "idle" => armed # "none"
  /\ conn = "open" /\ armed = "in" => m_file_address # "file"
  /\ conn = "closed" => armed = "none"

\* The response under way is what process_write() set up.
Sending == conn = "open" /\ armed # "in"

\* The counters of write() start from the head alone, and count together.
CountInv ==
  /\ Sending => m_write_idx > 0 /\ m_iv[1] = m_write_idx
  /\ pc = "loop" => bytes_to_send + bytes_have_send = m_write_idx

WriteInv == WriteTypes /\ TurnInv /\ CountInv /\ SentWhileMapped /\ MappingsAccounted

-----------------------------------------------------------------------------
\* The first buffer of m_iv is no longer than all of them.
LEMMA TotalOfParts ==
  ASSUME NEW iv \in Seq(Nat), Len(iv) \in 1..2
  PROVE  iv[1] \in Nat /\ Total(iv) \in Nat /\ iv[1] =< Total(iv)
BY DEF Total

\* writev() takes at least one byte and no more than the response or the room.
LEMMA TakesBounded ==
  ASSUME WriteTypes, NEW k \in Takes
  PROVE  k \in Nat \ {0} /\ k =< Total(m_iv) /\ buffered + k \in 0..Room
<1>1. m_iv[1] \in Nat /\ Total(m_iv) \in Nat /\ m_iv[1] =< Total(m_iv)
  BY TotalOfParts DEF WriteTypes
<1>2. Room - buffered \in Nat /\ buffered \in Nat /\ Room \in Nat
  BY HttpWriteAssumption DEF WriteTypes
<1>3. k \in 1..(IF Total(m_iv) < Room - buffered THEN Total(m_iv) ELSE Room - buffered)
  BY DEF Takes
<1> QED
  BY <1>1, <1>2, <1>3

\* unmap() gives back the one mapping of the response.
LEMMA UnmapAccounted ==
  ASSUME WriteInv, unmap, conn = "open", UNCHANGED leaks
  PROVE  maps' = leaks' /\ maps' \in Nat /\ m_file_address' = "null"
<1>1. maps = leaks + (IF m_file_address = "file" THEN 1 ELSE 0) /\ leaks \in Nat
  BY DEF WriteInv, MappingsAccounted, WriteTypes
<1> QED
  BY <1>1 DEF unmap, WriteInv, WriteTypes

\* process() leaves a whole response and maps at most one file.
LEMMA ProcessStep ==
  ASSUME WriteInv, Process
  PROVE  WriteInv'
<1>1. PICK h \in Heads, keep \in BOOLEAN :
        /\ ErrorPage(h) \/ \E n \in Files, opened \in BOOLEAN : FilePage(h, n, opened)
        /\ m_write_idx' = h /\ m_linger' = keep
  BY DEF Process
<1>2. h \in Nat \ {0} /\ \A n \in Files : n \in Nat
  BY HttpWriteAssumption
<1>3. /\ conn = "open" /\ armed = "in" /\ armed' = "out" /\ pieces' = << >> /\ finished' = "no"
      /\ UNCHANGED <<conn, leaks, pc, bytes_to_send, bytes_have_send, buffered>>
  BY DEF Process, connVars, loopVars
<1>4. pc = "idle" /\ m_file_address # "file" /\ maps = leaks /\ leaks \in Nat
  BY <1>3 DEF WriteInv, WriteTypes, TurnInv, MappingsAccounted
<1>5. /\ m_iv' \in Seq(Nat) /\ Len(m_iv') \in 1..2 /\ m_iv'[1] = h
      /\ m_file_address' \in {"null", "file", "failed"}
      /\ Len(m_iv') = 2 => m_file_address' # "null"
      /\ maps' = leaks + (IF m_file_address' = "file" THEN 1 ELSE 0)
  <2>1. CASE ErrorPage(h)
    BY <1>2, <1>4, <2>1 DEF ErrorPage, WriteInv, WriteTypes
  <2>2. ASSUME NEW n \in Files, NEW opened \in BOOLEAN, FilePage(h, n, opened)
        PROVE  /\ m_iv' \in Seq(Nat) /\ Len(m_iv') \in 1..2 /\ m_iv'[1] = h
               /\ m_file_address' \in {"null", "file", "failed"}
               /\ Len(m_iv') = 2 => m_file_address' # "null"
               /\ maps' = leaks + (IF m_file_address' = "file" THEN 1 ELSE 0)
    <3>1. m_iv' = <<h, n>>
      BY <2>2 DEF FilePage
    <3>2. m_iv' \in Seq(Nat) /\ Len(m_iv') \in 1..2 /\ m_iv'[1] = h
      BY <1>2, <3>1
    <3>3. \/ m_file_address' = "file" /\ maps' = maps + 1
          \/ m_file_address' = "failed" /\ maps' = maps
      BY <2>2 DEF FilePage
    <3> QED
      BY <1>4, <3>2, <3>3
  <2> QED
    BY <1>1, <2>1, <2>2
<1>6. maps' \in Nat
  BY <1>4, <1>5
<1>7. WriteTypes'
  BY <1>1, <1>2, <1>3, <1>5, <1>6 DEF WriteInv, WriteTypes
<1>8. TurnInv' /\ CountInv' /\ SentWhileMapped'
  BY <1>1, <1>2, <1>3, <1>4, <1>5 DEF TurnInv, CountInv, SentWhileMapped
<1> QED
  BY <1>3, <1>5, <1>7, <1>8 DEF WriteInv, MappingsAccounted

\* write() is entered: its two counters start afresh with every call.
LEMMA WriteBeginStep ==
  ASSUME WriteInv, WriteBegin
  PROVE  WriteInv'
<1> USE DEF WriteBegin, connVars, respVars
<1>1. WriteTypes'
  BY DEF WriteInv, WriteTypes
<1>2. TurnInv'
  BY DEF WriteInv, TurnInv
<1>3. CountInv'
  BY DEF WriteInv, WriteTypes, CountInv, Sending
<1>4. SentWhileMapped'
  BY DEF WriteInv, SentWhileMapped
<1> QED
  BY <1>1, <1>2, <1>3, <1>4 DEF WriteInv, MappingsAccounted

\* One writev(): the counters and m_iv move by the bytes it took.
LEMMA WritevStep ==
  ASSUME WriteInv, NEW k, Writev(k)
  PROVE  WriteInv'
<1>1. /\ pc = "loop" /\ k \in Takes /\ buffered' = buffered + k /\ pieces' = Append(pieces, k)
      /\ bytes_to_send' = bytes_to_send - k /\ bytes_have_send' = bytes_have_send + k
      /\ UNCHANGED <<hup, leaks, m_iv, responses, calls>>
  BY DEF Writev
<1>2. k \in Nat \ {0} /\ buffered' \in 0..Room
  BY <1>1, TakesBounded DEF WriteInv
<1>3. Sending /\ conn = "open" /\ Total(m_iv) \in Nat /\ pieces \in Seq(Nat)
  BY <1>1, TotalOfParts DEF WriteInv, WriteTypes, TurnInv, Sending
<1>4. bytes_to_send' \in Int /\ bytes_have_send' \in Nat /\ pieces' \in Seq(Nat)
      /\ bytes_to_send' + bytes_have_send' = m_write_idx
  BY <1>1, <1>2 DEF WriteInv, WriteTypes, CountInv
<1>7. CASE sentAll(bytes_to_send', bytes_have_send')
  <2>1. /\ pc' = "idle" /\ finished' = HowSent(pieces') /\ unmap
        /\ IF m_linger THEN initResponse /\ armed' = "in" /\ UNCHANGED conn
                       ELSE closeconn /\ UNCHANGED <<m_write_idx, m_linger>>
    BY <1>7 DEF Writev, WriteEnds
  <2>2. maps' = leaks' /\ maps' \in Nat /\ m_file_address' = "null"
    BY <1>1, <1>3, <2>1, UnmapAccounted
  <2>3. /\ \/ conn' = "open" /\ armed' = "in"
           \/ conn' = "closed" /\ armed' = "none"
        /\ m_write_idx' \in Nat
    BY <1>3, <2>1 DEF initResponse, closeconn, WriteInv, WriteTypes
  <2>5. WriteTypes'
    BY <1>1, <1>2, <1>4, <2>1, <2>2, <2>3 DEF WriteInv, WriteTypes
  <2>6. TurnInv' /\ CountInv' /\ SentWhileMapped' /\ MappingsAccounted'
    <3>1. leaks' \in Nat
      BY <2>5 DEF WriteTypes
    <3>2. pc' = "idle" /\ ~Sending'
      BY <2>1, <2>3 DEF Sending
    <3>3. TurnInv'
      BY <2>2, <2>3, <3>2 DEF TurnInv
    <3>4. CountInv' /\ SentWhileMapped'
      BY <2>3, <3>2 DEF CountInv, SentWhileMapped
    <3>5. MappingsAccounted'
      <4>1. ~(conn' = "open" /\ m_file_address' = "file")
        BY <2>2
      <4>2. maps' = leaks' + 0
        <5>1. \A m, l \in Nat : m = l => m = l + 0
          OBVIOUS
        <5>2. maps' = leaks' /\ maps' \in Nat
          BY <2>2
        <5> QED
          BY <3>1, <5>1, <5>2, Zenon
      <4> QED
        BY <4>1, <4>2, Zenon DEF MappingsAccounted
    <3> QED
      BY <3>3, <3>4, <3>5
  <2> QED
    BY <2>5, <2>6 DEF WriteInv
<1>8. CASE ~sentAll(bytes_to_send', bytes_have_send')
  <2>1. UNCHANGED <<pc, finished, m_file_address, maps, m_write_idx, m_linger, armed, conn>>
    BY <1>8 DEF Writev
  <2>2. WriteTypes'
    BY <1>1, <1>2, <1>4, <2>1 DEF WriteInv, WriteTypes
  <2>3. TurnInv' /\ CountInv' /\ SentWhileMapped'
    BY <1>1, <1>4, <2>1 DEF WriteInv, TurnInv, CountInv, SentWhileMapped, Sending
  <2> QED
    BY <1>1, <2>1, <2>2, <2>3 DEF WriteInv, MappingsAccounted
<1> QED
  BY <1>7, <1>8

\* EAGAIN: write() returns and goes on with the same response later.
LEMMA WritevAgainStep ==
  ASSUME WriteInv, WritevAgain
  PROVE  WriteInv'
<1> USE DEF WritevAgain, waitForRoom, connVars, respVars
<1>1. WriteTypes'
  BY DEF WriteInv, WriteTypes
<1>2. TurnInv'
  BY DEF WriteInv, TurnInv
<1>3. CountInv' /\ SentWhileMapped'
  BY DEF WriteInv, TurnInv, CountInv, SentWhileMapped, Sending
<1> QED
  BY <1>1, <1>2, <1>3 DEF WriteInv, MappingsAccounted

\* Any other error unmaps the file; the connection is closed.
LEMMA WritevFailsStep ==
  ASSUME WriteInv, WritevFails
  PROVE  WriteInv'
<1> USE DEF WritevFails, closeconn, respVars
<1>1. maps' = leaks' /\ maps' \in Nat /\ m_file_address' = "null"
  BY UnmapAccounted DEF WriteInv, TurnInv
<1>2. WriteTypes'
  BY <1>1 DEF WriteInv, WriteTypes
<1>3. TurnInv' /\ CountInv' /\ SentWhileMapped'
  BY DEF TurnInv, CountInv, SentWhileMapped, Sending
<1>4. leaks' \in Nat
  BY <1>2 DEF WriteTypes
<1> QED
  BY <1>1, <1>2, <1>3, <1>4 DEF WriteInv, MappingsAccounted

\* A hang-up closes the connection without unmap(): the mapping is counted as leaked.
LEMMA HandleHupStep ==
  ASSUME WriteInv, HandleHup
  PROVE  WriteInv'
<1> USE DEF HandleHup, closeconn, respVars, loopVars
<1>1. WriteTypes'
  BY DEF WriteInv, WriteTypes
<1>2. TurnInv' /\ CountInv' /\ SentWhileMapped'
  BY DEF TurnInv, CountInv, SentWhileMapped, Sending
<1>3. MappingsAccounted'
  BY DEF WriteInv, WriteTypes, MappingsAccounted
<1> QED
  BY <1>1, <1>2, <1>3 DEF WriteInv

\* The next connection on the descriptor starts with the fields init() resets.
LEMMA AcceptNextStep ==
  ASSUME WriteInv, AcceptNext
  PROVE  WriteInv'
<1> USE DEF AcceptNext, initResponse, loopVars
<1>1. WriteTypes'
  BY HttpWriteAssumption DEF WriteInv, WriteTypes
<1>2. TurnInv' /\ CountInv' /\ SentWhileMapped'
  BY DEF WriteInv, WriteTypes, TurnInv, CountInv, SentWhileMapped, Sending
<1>3. MappingsAccounted'
  BY DEF WriteInv, WriteTypes, MappingsAccounted
<1> QED
  BY <1>1, <1>2, <1>3 DEF WriteInv

\* The client only changes what is buffered, and leaves.
LEMMA ClientStep ==
  ASSUME WriteInv, ClientLeaves \/ (\E r \in 1..Room : ClientReads(r)) \/ UNCHANGED vars
  PROVE  WriteInv'
<1> USE DEF vars, connVars, respVars, loopVars
<1>1. /\ UNCHANGED <<conn, leaks, armed, respVars, m_file_address, maps, loopVars, pieces,
                     finished>>
      /\ buffered' \in 0..Room
  <2>1. ASSUME NEW r \in 1..Room, ClientReads(r) PROVE buffered' \in 0..Room
    BY <2>1, HttpWriteAssumption DEF ClientReads, WriteInv, WriteTypes
  <2> QED
    BY <2>1 DEF ClientLeaves, ClientReads, WriteInv, WriteTypes
<1>2. WriteTypes'
  BY <1>1 DEF WriteInv, WriteTypes
<1> QED
  BY <1>1, <1>2 DEF WriteInv, TurnInv, CountInv, SentWhileMapped, Sending,
                    MappingsAccounted

\* The inductive invariant of write(): who may touch the response, what the
\* counters count, and which file is mapped.
THEOREM WriteInvariant == Spec => []WriteInv
<1>1. Init => WriteInv
  <2> SUFFICES ASSUME Init PROVE WriteInv
    OBVIOUS
  <2> USE DEF Init
  <2>1. WriteTypes
    BY HttpWriteAssumption DEF WriteTypes
  <2> QED
    BY <2>1 DEF WriteInv, TurnInv, CountInv, SentWhileMapped, Sending,
                MappingsAccounted
<1>2. WriteInv /\ [Next]_vars => WriteInv'
  BY ProcessStep, WriteBeginStep, WritevStep, WritevAgainStep, WritevFailsStep, HandleHupStep,
     AcceptNextStep, ClientStep DEF Next, WriteStep
<1> QED
  BY <1>1, <1>2, PTL DEF Spec

\* However writev() cuts a response and however often write() must wait for
\* room, it never reads a file that has been unmapped.
THEOREM FileStaysMapped == Spec => []SentWhileMapped
<1>1. WriteInv => SentWhileMapped
  BY DEF WriteInv
<1> QED
  BY <1>1, WriteInvariant, PTL

\* unmap() is called exactly once for every file that was mapped, but for the
\* connections that closeconn() ends after a hang-up.
THEOREM MappingsKept == Spec => []MappingsAccounted
<1>1. WriteInv => MappingsAccounted
  BY DEF WriteInv
<1> QED
  BY <1>1, WriteInvariant, PTL
=============================================================================
