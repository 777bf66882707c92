-------------------------- MODULE HttpParserProofs --------------------------
(***************************************************************************)
(* Proofs about HttpParser for every set of streams, every Content-Length  *)
(* (negative, repeated and too large ones included) and every buffer size. *)
(***************************************************************************)
EXTENDS HttpParser, SequenceTheorems, TLAPS

\* Room for one more character is kept: read() gives up when the buffer is full.
ParserInv == TypeOK /\ IndexOrder /\ m_read_idx < READ_BUFFER_SIZE

\* What a client sends is a sequence of symbols.
LEMMA StreamTyped ==
  ASSUME NEW s \in Streams
  PROVE  s \in Seq(Symbols)
BY ParserAssumption

\* What an int can hold.
LEMMA IntRange ==
  ASSUME NEW n \in Int
  PROVE  toInt(n) \in (-INT_MAX - 1)..INT_MAX
<1> DEFINE w == 2 * (INT_MAX + 1)
           m == n + INT_MAX + 1
<1>1. m \in Int /\ w \in Nat \ {0} /\ INT_MAX \in Nat
  BY ParserAssumption
<1> HIDE DEF m
<1>2. m % w \in 0..(w - 1)
  <2> HIDE DEF w
  <2> QED
    BY <1>1
<1> QED
  BY <1>1, <1>2 DEF toInt, m

\* A line that gives a length gives an int.
LEMMA LengthTyped ==
  ASSUME NEW line, Head(line) \in DOMAIN Lengths
  PROVE  /\ LengthOf(line) \in (-INT_MAX - 1)..INT_MAX
         /\ LengthOf(line) \in BodyLengths
<1>1. Lengths[Head(line)] \in Int
  BY ParserAssumption
<1> QED
  BY <1>1, IntRange DEF LengthOf, BodyLengths

\* The initial states satisfy the invariant.
LEMMA ParserInvInit == Init => ParserInv
<1> SUFFICES ASSUME Init PROVE ParserInv
  OBVIOUS
<1>1. m_linger \in BOOLEAN /\ bodyCut \in BOOLEAN
  BY Zenon DEF Init
<1>2. TypeOK
  BY <1>1, ParserAssumption DEF Init, TypeOK
<1>3. Len(m_read_buf) = 0 /\ m_start_line = 0 /\ m_checked_index = 0
  BY DEF Init
<1> QED
  BY <1>2, <1>3, ParserAssumption DEF ParserInv, IndexOrder, m_read_idx

\* parse_line() finds its line end inside what was received.
LEMMA LineEndInside ==
  ASSUME ParserInv, NEW i \in 0..m_read_idx, LineOk(i)
  PROVE  /\ CrAt(i) \in Nat
         /\ m_checked_index =< CrAt(i) + 2 /\ CrAt(i) + 2 =< m_read_idx
  BY DEF ParserInv, TypeOK, IndexOrder, m_read_idx, LineOk, ScanStops, CrAt, CR, LF

\* Writing '\0' over a line end keeps the buffer's length.
LEMMA CutKeepsLength ==
  ASSUME ParserInv, NEW a \in Nat, a + 2 =< m_read_idx
  PROVE  Cut(a) \in Seq(Symbols) /\ Len(Cut(a)) = m_read_idx
  BY DEF ParserInv, TypeOK, m_read_idx, Cut, Symbols, Words, NUL

\* One turn of the loop moves both positions to k, inside the buffer.
LEMMA TakeLineStep ==
  ASSUME ParserInv, pc = "loop",
         NEW b \in Seq(Symbols), Len(b) = m_read_idx,
         NEW k \in Nat, k =< m_read_idx, TakeLine(b, k)
  PROVE  ParserInv'
<1> USE DEF ParserInv
<1>1. stream' = stream /\ base' = base /\ bodyCut' = bodyCut
  BY DEF TakeLine
<1>2. m_read_buf' = b /\ m_checked_index' = k /\ m_start_line' = k
  BY DEF TakeLine
<1>3. IndexOrder' /\ (m_read_idx < READ_BUFFER_SIZE)'
  BY <1>2, ParserAssumption DEF IndexOrder, m_read_idx, TypeOK
<1>4. m_linger' \in BOOLEAN
  BY Zenon DEF TakeLine, parse_request_line, parse_headers, TypeOK
<1>5. m_content_length' \in (-INT_MAX - 1)..INT_MAX
  BY LengthTyped DEF TypeOK, TakeLine, parse_request_line, parse_headers
<1>6. TypeOK'
  BY <1>1, <1>2, <1>4, <1>5, ParserAssumption
  DEF TypeOK, TakeLine, parse_request_line, parse_headers, Return, Continue, statusAfterBody
<1> QED
  BY <1>3, <1>6

\* read() keeps the last place of the buffer free.
LEMMA ReceiveStep == ParserInv /\ Receive => ParserInv'
<1> SUFFICES ASSUME ParserInv, Receive PROVE ParserInv'
  OBVIOUS
<1> USE DEF ParserInv, TypeOK, m_read_idx
<1>1. PICK n \in 1..(Len(stream) - base - m_read_idx) :
        /\ m_read_idx + n < READ_BUFFER_SIZE
        /\ m_read_buf' = m_read_buf \o SubSeq(stream, base + m_read_idx + 1, base + m_read_idx + n)
  BY DEF Receive
<1> DEFINE piece == SubSeq(stream, base + m_read_idx + 1, base + m_read_idx + n)
<1>2. stream \in Seq(Symbols) /\ base + m_read_idx + n =< Len(stream)
  BY <1>1, StreamTyped
<1>3. piece \in Seq(Symbols) /\ Len(piece) = n
  BY <1>1, <1>2, SubSeqProperties
<1>4. m_read_buf' \in Seq(Symbols) /\ Len(m_read_buf') = m_read_idx + n
  BY <1>1, <1>3, ConcatProperties
<1>5. bodyCut' \in BOOLEAN
  BY Zenon DEF Receive
<1>6. UNCHANGED <<stream, base, ret, parseVars>> /\ pc' = "loop" /\ line_status' = "LINE_OK"
  BY DEF Receive
<1>7. (m_read_idx =< READ_BUFFER_SIZE /\ m_read_idx < READ_BUFFER_SIZE)'
  <2>1. READ_BUFFER_SIZE \in Nat
    BY ParserAssumption, Zenon
  <2>2. m_read_idx \in Nat /\ n \in Int
    BY <1>1, <1>2
  <2> QED
    BY <1>1, <1>4, <2>1, <2>2
<1>8. IndexOrder'
  BY <1>1, <1>4, <1>6, <1>7 DEF IndexOrder, parseVars
<1>9. TypeOK'
  BY <1>4, <1>5, <1>6 DEF parseVars
<1> QED
  BY <1>7, <1>8, <1>9

\* Every step keeps the positions in order.
LEMMA ParserInvStep == ParserInv /\ [Next]_vars => ParserInv'
<1> SUFFICES ASSUME ParserInv, [Next]_vars PROVE ParserInv'
  OBVIOUS
<1>1. CASE Receive
  BY <1>1, ReceiveStep
<1>2. CASE ReceiveFull
  BY <1>2 DEF ReceiveFull, parseVars, ParserInv, TypeOK, IndexOrder, m_read_idx
<1>3. CASE TurnBody
  <2>1. m_read_buf \in Seq(Symbols) /\ Len(m_read_buf) = m_read_idx
        /\ m_checked_index \in Nat /\ m_checked_index =< m_read_idx
    BY DEF ParserInv, TypeOK, IndexOrder, m_read_idx
  <2>2. pc = "loop" /\ TakeLine(m_read_buf, m_checked_index)
    BY <1>3 DEF TurnBody
  <2> QED
    BY <2>1, <2>2, TakeLineStep
<1>4. CASE TurnLine
  <2>1. PICK i \in 0..m_read_idx : LineOk(i) /\ TakeLine(Cut(CrAt(i)), CrAt(i) + 2)
    BY <1>4 DEF TurnLine
  <2>2. CrAt(i) \in Nat /\ CrAt(i) + 2 =< m_read_idx
    BY <2>1, LineEndInside
  <2>3. Cut(CrAt(i)) \in Seq(Symbols) /\ Len(Cut(CrAt(i))) = m_read_idx
    BY <2>2, CutKeepsLength
  <2>4. CrAt(i) + 2 \in Nat
    BY <2>2
  <2>5. pc = "loop"
    BY <1>4 DEF TurnLine
  <2> QED
    BY <2>1, <2>2, <2>3, <2>4, <2>5, TakeLineStep
<1>5. CASE TurnEnds
  <2>1. m_checked_index' \in m_checked_index..m_read_idx
        /\ line_status' \in {"LINE_OPEN", "LINE_BAD"}
    BY <1>5 DEF TurnEnds, LineOpen, LineBad, ScanStops
  <2> QED
    BY <1>5, <2>1 DEF TurnEnds, Return, ParserInv, TypeOK, IndexOrder, m_read_idx
<1>6. CASE Answer
  <2>1. CASE m_linger
    <3>1. m_linger' \in BOOLEAN /\ bodyCut' \in BOOLEAN
      BY <1>6, <2>1, Zenon DEF Answer
    <3>2. Len(m_read_buf') = 0 /\ base' \in Nat
      BY <1>6, <2>1 DEF Answer, ParserInv, TypeOK, m_read_idx
    <3> QED
      BY <1>6, <2>1, <3>1, <3>2, ParserAssumption DEF Answer, ParserInv, TypeOK, IndexOrder, m_read_idx
  <2>2. CASE ~m_linger
    BY <1>6, <2>2 DEF Answer, parseVars, ParserInv, TypeOK, IndexOrder, m_read_idx
  <2> QED
    BY <2>1, <2>2
<1>7. CASE UNCHANGED vars
  BY <1>7 DEF vars, parseVars, ParserInv, TypeOK, IndexOrder, m_read_idx
<1> QED
  BY <1>1, <1>2, <1>3, <1>4, <1>5, <1>6, <1>7 DEF Next

\* The invariant on the positions holds throughout.
LEMMA ParserInvAlways == Spec => []ParserInv
  BY ParserInvInit, ParserInvStep, PTL DEF Spec

\* The members of http_conn that parsing uses keep their types.
THEOREM ParserTypeCorrect == Spec => []TypeOK
<1>1. ParserInv => TypeOK
  BY DEF ParserInv
<1> QED
  BY <1>1, ParserInvAlways, PTL

\* Whatever a client sends and however TCP cuts it, start of line, scan
\* position and end of data stay in order and inside m_read_buf.
THEOREM IndicesInOrder == Spec => []IndexOrder
<1>1. ParserInv => IndexOrder
  BY DEF ParserInv
<1> QED
  BY <1>1, ParserInvAlways, PTL

\* What process_read() does with a body.
LEMMA Outcomes ==
  ASSUME NEW b, NEW k, TakeLine(b, k), m_check_state = "CHECK_STATE_CONTENT"
  PROVE  /\ m_checked_index' = k /\ UNCHANGED <<m_check_state, m_content_length, m_linger>>
         /\ \/ (BodyComplete(k) \/ Overflows(k)) /\ Return("GET_REQUEST")
            \/ ~BodyComplete(k) /\ Continue /\ line_status' = "LINE_OPEN"
BY DEF TakeLine, statusAfterBody

\* The '\0' parse_content() stores lies outside m_read_buf exactly when the
\* Content-Length points in front of it or the int sum overflowed; otherwise it
\* lies inside what was received, or right behind it.
THEOREM TerminatorStaysInside == Spec => TerminatorInBounds
<1> DEFINE A == (m_check_state = "CHECK_STATE_CONTENT" /\ pc = "loop" /\ pc' = "done")
                   => /\ terminator \in 0..(READ_BUFFER_SIZE - 1)
                           <=> terminator >= 0 /\ ~Overflows(m_checked_index')
                      /\ terminator =< m_read_idx \/ Overflows(m_checked_index')
<1>1. ParserInv /\ [Next]_vars => [A]_vars
  <2> SUFFICES ASSUME ParserInv, Next, m_check_state = "CHECK_STATE_CONTENT",
                      pc = "loop", pc' = "done"
               PROVE  A
    OBVIOUS
  <2>1. PICK k \in Nat : /\ (BodyComplete(k) \/ Overflows(k)) /\ m_checked_index' = k
                         /\ m_checked_index =< k /\ k =< m_read_idx
    <3>1. CASE TurnBody
      <4>1. /\ TakeLine(m_read_buf, m_checked_index) /\ m_checked_index \in Nat
            /\ m_checked_index =< m_read_idx
        BY <3>1 DEF TurnBody, ParserInv, TypeOK, IndexOrder
      <4>2. (BodyComplete(m_checked_index) \/ Overflows(m_checked_index)) /\ m_checked_index' = m_checked_index
        BY <4>1, Outcomes DEF Continue
      <4> QED
        BY <4>1, <4>2
    <3>2. CASE TurnLine
      <4>1. PICK i \in 0..m_read_idx : LineOk(i) /\ TakeLine(Cut(CrAt(i)), CrAt(i) + 2)
        BY <3>2 DEF TurnLine
      <4>2. (BodyComplete(CrAt(i) + 2) \/ Overflows(CrAt(i) + 2)) /\ m_checked_index' = CrAt(i) + 2
        BY <4>1, Outcomes DEF Continue
      <4>3. /\ CrAt(i) + 2 \in Nat /\ m_checked_index =< CrAt(i) + 2
            /\ CrAt(i) + 2 =< m_read_idx
        BY <4>1, LineEndInside
      <4> QED
        BY <4>2, <4>3
    <3> QED
      BY <3>1, <3>2 DEF Next, Receive, ReceiveFull, TurnEnds, Return, Answer
  <2>2. /\ m_start_line \in Nat /\ m_content_length \in Int /\ m_read_idx \in Nat
        /\ m_start_line =< k /\ m_read_idx < READ_BUFFER_SIZE
        /\ READ_BUFFER_SIZE \in Nat /\ INT_MAX \in Nat /\ INT_MAX >= 2 * READ_BUFFER_SIZE
    BY <2>1, ParserAssumption DEF ParserInv, TypeOK, IndexOrder, m_read_idx
  <2>3. CASE Overflows(k)
    <3>1. terminator >= READ_BUFFER_SIZE
      BY <2>1, <2>2, <2>3 DEF Overflows, terminator
    <3> QED
      BY <2>1, <2>2, <2>3, <3>1 DEF terminator
  <2>4. CASE ~Overflows(k)
    <3>1. m_read_idx >= m_content_length + k
      BY <2>1, <2>4 DEF BodyComplete
    <3>2. terminator \in Int /\ terminator =< m_read_idx
      BY <2>1, <2>2, <3>1 DEF terminator
    <3> QED
      BY <2>1, <2>2, <2>4, <3>2
  <2> QED
    BY <2>3, <2>4
<1> QED
  BY <1>1, ParserInvAlways, PTL DEF Spec, TerminatorInBounds

-----------------------------------------------------------------------------
(* CutIndependent and LingerAsAsked: what the parser has learnt about the   *)
(* received part of the stream.  The reference definitions are sets of      *)
(* positions, so the steps of the parser are all the induction there is.    *)

\* What is left of the buffer is what was received, and what was scanned holds
\* no line end.  (Line ends in front of m_start_line have been overwritten.)
BufferInv ==
  /\ base + m_read_idx =< Len(stream)
  /\ \A j \in (m_start_line + 1)..m_read_idx : m_read_buf[j] = stream[base + j]
  /\ \A j \in m_start_line..m_checked_index : j > 0 => m_read_buf[j] \notin {CR, LF}

\* The first line is well formed.
Started(d) ==
  \E e \in LineEnds(d) : IsFirst(e, LineEnds(d)) /\ SubSeq(d, 1, e - 1) = <<"GET">>

\* The header lines in front of s have been read, none of them empty, and say
\* that the body has n characters and whether to keep the connection.
HeadersRead(d, s, n, keep) ==
  /\ s - 1 \in LineEnds(d) /\ Started(d)
  /\ \A b \in BlankEnds(d) : b > s
  /\ IsLength(d, s - 1, n)
  /\ keep <=> HasLine(d, s - 1, Keeps)

\* The same up to the empty line, behind which the body starts at s.
BodyAt(d, s, n, keep) ==
  /\ IsFirst(s - 1, BlankEnds(d)) /\ Started(d)
  /\ IsLength(d, s - 1, n)
  /\ keep <=> HasLine(d, s - 1, Keeps)

\* The first empty line is there, and the lines in front of it say whether to
\* keep the connection.
Asks(d, keep) ==
  \E b \in BlankEnds(d) : IsFirst(b, BlankEnds(d)) /\ (keep <=> HasLine(d, b, Keeps))

\* The body has not arrived in full.
BodyMissing(d, s, n, keep) ==
  Asks(d, keep) /\ Verdict(d) = "NO_REQUEST" /\ Len(d) < n + s

\* No line ends behind s.
NoLineFrom(d, s) == \A e \in LineEnds(d) : e =< s

\* process_read() has not decided yet.
Undecided(d) ==
  \/ /\ m_check_state = "CHECK_STATE_REQUESTLINE" /\ m_start_line = 0
     /\ m_content_length = 0 /\ m_linger = FALSE
     /\ pc = "recv" => NoLineFrom(d, m_start_line)
  \/ /\ m_check_state = "CHECK_STATE_HEADER"
     /\ HeadersRead(d, m_start_line, m_content_length, m_linger)
     /\ pc = "recv" => NoLineFrom(d, m_start_line)
  \/ /\ m_check_state = "CHECK_STATE_CONTENT" /\ pc = "loop" /\ line_status = "LINE_OK"
     /\ m_checked_index = m_start_line
     /\ BodyAt(d, m_start_line, m_content_length, m_linger)
  \/ /\ m_check_state = "CHECK_STATE_CONTENT" /\ line_status # "LINE_OK"
     /\ BodyMissing(d, m_start_line, m_content_length, m_linger)

\* It has, and rightly unless the sum of parse_content() overflowed.
Decided(d) ==
  /\ ret = Verdict(d) \/ Overflows(m_checked_index)
  /\ ret = "GET_REQUEST" => Asks(d, m_linger)

ReadInv ==
  /\ pc = "recv" => ret = "NO_REQUEST"
  /\ pc \in {"recv", "loop"} /\ ~Malformed(Received) /\ ~bodyCut => Undecided(Received)
  /\ pc = "done" /\ ~Malformed(Received) /\ ~bodyCut => Decided(Received)

\* Received is the part of the stream that the buffer was filled with.
LEMMA ReceivedElements ==
  ASSUME ParserInv, BufferInv
  PROVE  /\ Received \in Seq(Symbols) /\ Len(Received) = m_read_idx
         /\ \A j \in 1..m_read_idx : Received[j] = stream[base + j]
         /\ \A j \in (m_start_line + 1)..m_read_idx : m_read_buf[j] = Received[j]
<1>1. /\ stream \in Seq(Symbols) /\ base \in Nat /\ m_read_idx \in Nat /\ m_start_line \in Nat
      /\ base + m_read_idx =< Len(stream)
  BY StreamTyped DEF ParserInv, TypeOK, BufferInv, m_read_idx
<1>2. /\ Received \in Seq(Symbols) /\ Len(Received) = m_read_idx
      /\ \A j \in 1..m_read_idx : Received[j] = stream[base + j]
  BY <1>1, SubSeqProperties DEF Received
<1>3. \A j \in (m_start_line + 1)..m_read_idx :
        j \in 1..m_read_idx /\ m_read_buf[j] = stream[base + j]
  BY <1>1 DEF BufferInv
<1> QED
  BY <1>2, <1>3

\* A line end is not overlapped by another.
LEMMA LineEndsApart ==
  ASSUME NEW d \in Seq(Symbols), NEW e \in LineEnds(d)
  PROVE  /\ e \in Nat \ {0} /\ e + 1 =< Len(d) /\ d[e] = CR /\ d[e + 1] = LF
         /\ e + 1 \notin LineEnds(d) /\ e - 1 \notin LineEnds(d)
BY DEF LineEnds, CR, LF

\* e is the first line end behind s, where the previous one, if any, stops.
NextLine(d, s, e) ==
  /\ s \in Nat /\ (s = 0 \/ s - 1 \in LineEnds(d))
  /\ e \in LineEnds(d) /\ e > s
  /\ \A k \in LineEnds(d) : k > s => k >= e

\* The lines up to the next line end are the earlier ones and the next line.
LEMMA OneMoreLine ==
  ASSUME NEW d \in Seq(Symbols), NEW s, NEW e, NextLine(d, s, e), NEW a, NEW f
  PROVE  IsLine(d, a, f) /\ f =< e
           <=> \/ IsLine(d, a, f) /\ f =< s - 1
               \/ a = s + 1 /\ f = e
<1> USE DEF NextLine
<1>1. /\ s \in Nat /\ e \in Nat /\ \A k \in LineEnds(d) : k \in Nat \ {0}
      /\ \A k \in LineEnds(d) : k + 1 \notin LineEnds(d)
  BY LineEndsApart
<1>2. ASSUME IsLine(d, a, f), f =< e, ~(f =< s - 1) PROVE a = s + 1 /\ f = e
  <2>1. f \in LineEnds(d) /\ f \in Nat
    BY <1>1, <1>2 DEF IsLine
  <2>2. f # s
    BY <1>1, <2>1
  <2>3. f = e
    BY <1>1, <1>2, <2>1, <2>2
  <2>4. a \in LineStarts(d) /\ a =< e /\ \A k \in LineEnds(d) : ~(a =< k /\ k < e)
    BY <1>2, <2>3 DEF IsLine
  <2>5. CASE a = 1
    <3>1. s # 0 => s - 1 \in LineEnds(d) /\ 1 =< s - 1 /\ s - 1 < e
      BY <1>1
    <3>2. \A k \in LineEnds(d) : ~(1 =< k /\ k < e)
      BY <2>4, <2>5
    <3>3. s = 0
      BY <3>1, <3>2
    <3> QED
      BY <2>3, <2>5, <3>3
  <2>6. ASSUME NEW i \in LineEnds(d), a = i + 2 PROVE a = s + 1
    BY <1>1, <2>4, <2>6
  <2> QED
    BY <2>3, <2>4, <2>5, <2>6 DEF LineStarts
<1>3. IsLine(d, s + 1, e)
  <2>1. s + 1 \in LineStarts(d)
    <3>1. CASE s = 0
      BY <3>1 DEF LineStarts
    <3>2. CASE s - 1 \in LineEnds(d)
      BY <1>1, <3>2 DEF LineStarts
    <3> QED
      BY <3>1, <3>2
  <2> QED
    BY <1>1, <2>1 DEF IsLine
<1>4. ASSUME IsLine(d, a, f), f =< s - 1 PROVE f =< e
  <2>1. f \in Nat
    BY <1>1, <1>4 DEF IsLine
  <2> QED
    BY <1>1, <1>4, <2>1
<1>5. e =< e
  BY <1>1
<1> QED
  BY <1>2, <1>3, <1>4, <1>5

\* The lines that set m_linger and m_content_length, one line further on.
LEMMA OneMoreHeader ==
  ASSUME NEW d \in Seq(Symbols), NEW s, NEW e, NextLine(d, s, e)
  PROVE  /\ HasLine(d, e, Keeps) <=> HasLine(d, s - 1, Keeps) \/ Keeps(SubSeq(d, s + 1, e - 1))
         /\ HasLine(d, e, Declares)
              <=> HasLine(d, s - 1, Declares) \/ Declares(SubSeq(d, s + 1, e - 1))
<1> DEFINE L(a, f) == IsLine(d, a, f)
<1>1. \A n : HasLine(d, n, Keeps) <=> \E a, f : L(a, f) /\ f =< n /\ Keeps(SubSeq(d, a, f - 1))
  BY DEF HasLine, IsLine
<1>2. \A n : HasLine(d, n, Declares)
               <=> \E a, f : L(a, f) /\ f =< n /\ Declares(SubSeq(d, a, f - 1))
  BY DEF HasLine, IsLine
<1>3. \A a, f : L(a, f) /\ f =< e <=> (L(a, f) /\ f =< s - 1) \/ (a = s + 1 /\ f = e)
  BY OneMoreLine
<1> HIDE DEF L
<1> QED
  BY <1>1, <1>2, <1>3, Zenon

\* A line that gives a length overrides the earlier ones; another changes nothing.
LEMMA OneMoreLength ==
  ASSUME NEW d \in Seq(Symbols), NEW s, NEW e, NextLine(d, s, e),
         NEW line, line = SubSeq(d, s + 1, e - 1), NEW n, IsLength(d, s - 1, n)
  PROVE  /\ Declares(line) => IsLength(d, e, LengthOf(line))
         /\ ~Declares(line) => IsLength(d, e, n)
<1>1. \A a, f : IsLine(d, a, f) /\ f =< e <=> (IsLine(d, a, f) /\ f =< s - 1) \/ (a = s + 1 /\ f = e)
  BY OneMoreLine
<1>2. \A a, f : IsLine(d, a, f) => a \in LineStarts(d) /\ f \in LineEnds(d)
  BY DEF IsLine
<1>3. \A a, f : Declaring(d, e, a, f)
               <=> Declaring(d, s - 1, a, f) \/ (a = s + 1 /\ f = e /\ Declares(line))
  <2> HIDE DEF IsLine
  <2> QED
    BY <1>1 DEF Declaring
<1>4. ASSUME Declares(line) PROVE IsLength(d, e, LengthOf(line))
  <2>1. Declaring(d, e, s + 1, e)
    BY <1>3, <1>4
  <2>2. \A b, f : Declaring(d, e, b, f) => f =< e
    BY DEF Declaring
  <2>3. LastDeclared(d, e, s + 1, e)
    BY <2>1, <2>2 DEF LastDeclared
  <2>4. s + 1 \in LineStarts(d) /\ e \in LineEnds(d)
    BY <1>2, <2>1 DEF Declaring
  <2> QED
    BY <2>3, <2>4 DEF IsLength
<1>5. ASSUME ~Declares(line) PROVE IsLength(d, e, n)
  <2>1. \A a, f : Declaring(d, e, a, f) <=> Declaring(d, s - 1, a, f)
    BY <1>3, <1>5
  <2>2. HasLine(d, e, Declares) <=> HasLine(d, s - 1, Declares)
    BY <1>5, OneMoreHeader
  <2>3. \A a, f : LastDeclared(d, e, a, f) <=> LastDeclared(d, s - 1, a, f)
    BY <2>1, Zenon DEF LastDeclared
  <2> QED
    BY <2>2, <2>3, Zenon DEF IsLength
<1> QED
  BY <1>4, <1>5

\* A request has one length.
LEMMA LengthIs ==
  ASSUME NEW d \in Seq(Symbols), NEW n, NEW len, IsLength(d, n, len)
  PROVE  BodyLength(d, n) = len
<1>1. \A k \in LineEnds(d) : k \in Nat \ {0} /\ k - 1 \notin LineEnds(d)
  BY LineEndsApart
<1>2. ASSUME NEW a, NEW b, NEW e, IsLine(d, a, e), IsLine(d, b, e) PROVE a = b
  <2>1. /\ \A k \in LineEnds(d) : ~(a =< k /\ k < e) /\ ~(b =< k /\ k < e)
        /\ e \in LineEnds(d) /\ e \in Nat /\ a =< e /\ b =< e
        /\ a = 1 \/ (a - 2 \in LineEnds(d) /\ a \in Nat)
        /\ b = 1 \/ (b - 2 \in LineEnds(d) /\ b \in Nat)
    <3>1. \A k \in LineEnds(d) : (k + 2) - 2 = k /\ k + 2 \in Nat
      BY <1>1
    <3> QED
      BY <1>1, <1>2, <3>1 DEF IsLine, LineStarts
  <2>2. ASSUME a < b PROVE FALSE
    <3>1. b - 2 \in LineEnds(d) /\ b - 2 < e /\ b - 2 \in Nat \ {0} /\ b \in Nat
      BY <1>1, <2>1, <2>2
    <3>2. a = b - 1
      BY <2>1, <2>2, <3>1
    <3>3. a - 2 = (b - 2) - 1 /\ a # 1
      BY <3>1, <3>2
    <3> QED
      BY <1>1, <2>1, <3>1, <3>3
  <2>3. ASSUME b < a PROVE FALSE
    <3>1. a - 2 \in LineEnds(d) /\ a - 2 < e /\ a - 2 \in Nat \ {0} /\ a \in Nat
      BY <1>1, <2>1, <2>3
    <3>2. b = a - 1
      BY <2>1, <2>3, <3>1
    <3>3. b - 2 = (a - 2) - 1 /\ b # 1
      BY <3>1, <3>2
    <3> QED
      BY <1>1, <2>1, <3>1, <3>3
  <2> QED
    BY <2>1, <2>2, <2>3
<1>3. ASSUME NEW a, NEW b, NEW e, NEW f, LastDeclared(d, n, a, e), LastDeclared(d, n, b, f)
      PROVE  a = b /\ e = f
  <2>1. IsLine(d, a, e) /\ IsLine(d, b, f)
    BY <1>3 DEF LastDeclared, Declaring
  <2>2. a \in LineStarts(d) /\ b \in LineStarts(d) /\ e \in LineEnds(d) /\ f \in LineEnds(d)
    BY <2>1 DEF IsLine
  <2>3. e =< f /\ f =< e
    BY <1>3, <2>2 DEF LastDeclared
  <2>4. e = f
    BY <1>1, <2>2, <2>3
  <2> QED
    BY <1>2, <2>1, <2>4
<1>4. ASSUME NEW a \in LineStarts(d), NEW e \in LineEnds(d), LastDeclared(d, n, a, e)
      PROVE  HasLine(d, n, Declares)
  BY <1>4 DEF LastDeclared, Declaring, HasLine
<1>5. ASSUME NEW l, IsLength(d, n, l) PROVE l = len
  <2>1. CASE HasLine(d, n, Declares)
    <3>1. PICK a \in LineStarts(d), e \in LineEnds(d) :
            LastDeclared(d, n, a, e) /\ len = LengthOf(SubSeq(d, a, e - 1))
      BY <2>1, Zenon DEF IsLength
    <3>2. PICK b \in LineStarts(d), f \in LineEnds(d) :
            LastDeclared(d, n, b, f) /\ l = LengthOf(SubSeq(d, b, f - 1))
      BY <1>5, <2>1, Zenon DEF IsLength
    <3>3. a = b /\ e = f
      BY <1>3, <3>1, <3>2
    <3> QED
      BY <3>1, <3>2, <3>3
  <2>2. CASE ~HasLine(d, n, Declares)
    BY <1>4, <1>5, <2>2, Zenon DEF IsLength
  <2> QED
    BY <2>1, <2>2
<1>6. len \in BodyLengths
  <2>1. CASE len = 0
    BY <2>1 DEF BodyLengths
  <2>2. ASSUME NEW a, NEW e, LastDeclared(d, n, a, e), len = LengthOf(SubSeq(d, a, e - 1))
        PROVE  len \in BodyLengths
    <3>1. Head(SubSeq(d, a, e - 1)) \in DOMAIN Lengths
      BY <2>2, Zenon DEF LastDeclared, Declaring, Declares
    <3> QED
      BY <2>2, <3>1, LengthTyped
  <2> QED
    BY <2>1, <2>2, Zenon DEF IsLength
<1> QED
  BY <1>5, <1>6, Zenon DEF BodyLength

\* d2 is d and what arrived after it.
Extends(d, d2) ==
  /\ d \in Seq(Symbols) /\ d2 \in Seq(Symbols) /\ Len(d) =< Len(d2)
  /\ \A j \in 1..Len(d) : d2[j] = d[j]

\* What arrives later moves no line end.
LEMMA ExtendLineEnds ==
  ASSUME NEW d, NEW d2, Extends(d, d2)
  PROVE  /\ \A i : i \in LineEnds(d) <=> i \in LineEnds(d2) /\ i + 1 =< Len(d)
         /\ \A i : i \in BlankEnds(d) <=> i \in BlankEnds(d2) /\ i + 1 =< Len(d)
<1>1. ASSUME NEW i PROVE i \in LineEnds(d) <=> i \in LineEnds(d2) /\ i + 1 =< Len(d)
  BY DEF LineEnds, Extends
<1>2. \A i \in LineEnds(d2) : i \in Nat
  BY DEF LineEnds, Extends
<1>3. Len(d) \in Nat
  BY DEF Extends
<1> QED
  BY <1>1, <1>2, <1>3 DEF BlankEnds

\* What is malformed stays so.
LEMMA ExtendMalformed ==
  ASSUME NEW d, NEW d2, Extends(d, d2), Malformed(d)
  PROVE  Malformed(d2)
<1>1. PICK i \in DOMAIN d :
        /\ \A b \in BlankEnds(d) : i =< b + 1
        /\ \/ d[i] = CR /\ i < Len(d) /\ d[i + 1] # LF
           \/ d[i] = LF /\ (i = 1 \/ d[i - 1] # CR)
  BY DEF Malformed
<1>2. /\ i \in 1..Len(d) /\ i \in DOMAIN d2 /\ Len(d) \in Nat /\ Len(d2) \in Nat
      /\ d2[i] = d[i] /\ (i < Len(d) => d2[i + 1] = d[i + 1] /\ i < Len(d2))
      /\ (i # 1 => d2[i - 1] = d[i - 1])
  BY DEF Extends
<1>3. ASSUME NEW b \in BlankEnds(d2) PROVE i =< b + 1
  <2>1. b \in Nat
    BY DEF BlankEnds, LineEnds, Extends
  <2>2. CASE b + 1 =< Len(d)
    BY <1>1, <2>2, ExtendLineEnds
  <2> QED
    BY <1>2, <2>1, <2>2
<1> QED
  BY <1>1, <1>2, <1>3 DEF Malformed

\* A line of d is the same line of d2.
LEMMA SameLine ==
  ASSUME NEW d, NEW d2, Extends(d, d2), NEW a \in Nat \ {0}, NEW n \in Int, n =< Len(d)
  PROVE  SubSeq(d2, a, n) = SubSeq(d, a, n)
BY SMTT(30) DEF Extends

\* The header lines read so far stay what they are when more arrives.
LEMMA ExtendHeaders ==
  ASSUME NEW d, NEW d2, Extends(d, d2), NEW s \in Nat, NEW n, NEW keep,
         HeadersRead(d, s, n, keep), NoLineFrom(d, s)
  PROVE  HeadersRead(d2, s, n, keep)
<1> USE DEF HeadersRead
<1>1. /\ \A i : i \in LineEnds(d) <=> i \in LineEnds(d2) /\ i + 1 =< Len(d)
      /\ \A i : i \in BlankEnds(d) <=> i \in BlankEnds(d2) /\ i + 1 =< Len(d)
      /\ \A i \in LineEnds(d2) : i \in Nat \ {0} /\ i + 1 \notin LineEnds(d2)
      /\ Len(d) \in Nat /\ s =< Len(d) /\ s - 1 \in LineEnds(d)
  BY ExtendLineEnds, LineEndsApart DEF Extends
<1>2. \A b \in BlankEnds(d2) : b \in LineEnds(d2)
  BY DEF BlankEnds
<1>3. \A b \in BlankEnds(d2) : b > s
  BY <1>1, <1>2
<1>4. Started(d2)
  <2>1. PICK e \in LineEnds(d) : IsFirst(e, LineEnds(d)) /\ SubSeq(d, 1, e - 1) = <<"GET">>
    BY DEF Started
  <2>2. e \in LineEnds(d2) /\ IsFirst(e, LineEnds(d2))
    BY <1>1, <2>1, SMTT(30) DEF IsFirst
  <2>3. SubSeq(d2, 1, e - 1) = SubSeq(d, 1, e - 1)
    <3>1. e - 1 \in Int /\ e - 1 =< Len(d) /\ 1 \in Nat \ {0}
      BY <1>1, <2>1
    <3> QED
      BY <3>1, SameLine, ZenonT(40)
  <2> QED
    BY <2>1, <2>2, <2>3 DEF Started
<1>5. ASSUME NEW a, NEW f, f =< s - 1
      PROVE  /\ IsLine(d2, a, f) <=> IsLine(d, a, f)
             /\ IsLine(d, a, f) => SubSeq(d2, a, f - 1) = SubSeq(d, a, f - 1)
  <2>1. f \in LineEnds(d2) <=> f \in LineEnds(d)
    BY <1>1, <1>5
  <2>2. ASSUME f \in LineEnds(d), a =< f PROVE a \in LineStarts(d2) <=> a \in LineStarts(d)
    BY <1>1, <1>5, <2>2 DEF LineStarts
  <2>3. ASSUME f \in LineEnds(d)
        PROVE  (\A k \in LineEnds(d) : ~(a =< k /\ k < f))
                 <=> (\A k \in LineEnds(d2) : ~(a =< k /\ k < f))
    BY <1>1, <1>5, <2>3
  <2>4. IsLine(d2, a, f) <=> IsLine(d, a, f)
    BY <2>1, <2>2, <2>3 DEF IsLine
  <2>5. ASSUME IsLine(d, a, f) PROVE SubSeq(d2, a, f - 1) = SubSeq(d, a, f - 1)
    <3>1. f \in LineEnds(d) /\ a \in Nat \ {0}
      BY <1>1, <2>5 DEF IsLine, LineStarts
    <3>2. f - 1 \in Int /\ f - 1 =< Len(d)
      BY <1>1, <3>1
    <3> QED
      BY <3>1, <3>2, SameLine, ZenonT(40)
  <2> QED
    BY <2>4, <2>5
<1>6. /\ HasLine(d2, s - 1, Keeps) <=> HasLine(d, s - 1, Keeps)
      /\ HasLine(d2, s - 1, Declares) <=> HasLine(d, s - 1, Declares)
  <2> DEFINE L(a, f) == IsLine(d, a, f) /\ f =< s - 1
             L2(a, f) == IsLine(d2, a, f) /\ f =< s - 1
  <2>1. /\ HasLine(d, s - 1, Keeps) <=> \E a, f : L(a, f) /\ Keeps(SubSeq(d, a, f - 1))
        /\ HasLine(d2, s - 1, Keeps) <=> \E a, f : L2(a, f) /\ Keeps(SubSeq(d2, a, f - 1))
        /\ HasLine(d, s - 1, Declares) <=> \E a, f : L(a, f) /\ Declares(SubSeq(d, a, f - 1))
        /\ HasLine(d2, s - 1, Declares) <=> \E a, f : L2(a, f) /\ Declares(SubSeq(d2, a, f - 1))
    BY DEF HasLine, IsLine
  <2>2. \A a, f : /\ L2(a, f) <=> L(a, f)
                  /\ L(a, f) => SubSeq(d2, a, f - 1) = SubSeq(d, a, f - 1)
    BY <1>5
  <2> HIDE DEF L, L2
  <2> QED
    BY <2>1, <2>2, Zenon
<1>7. s - 1 \in LineEnds(d2)
  BY <1>1
<1>8. IsLength(d2, s - 1, n)
  <2>1. \A a, f : Declaring(d2, s - 1, a, f) <=> Declaring(d, s - 1, a, f)
    BY <1>5, Zenon DEF Declaring
  <2>2. \A a, f : IsLine(d, a, f) => a \in LineStarts(d) /\ f \in LineEnds(d)
    BY Zenon DEF IsLine
  <2>3. \A a, f : IsLine(d2, a, f) => a \in LineStarts(d2) /\ f \in LineEnds(d2)
    BY Zenon DEF IsLine
  <2>4. CASE ~HasLine(d, s - 1, Declares) /\ n = 0
    BY <1>6, <2>4 DEF IsLength
  <2>5. ASSUME NEW a, NEW f, LastDeclared(d, s - 1, a, f), n = LengthOf(SubSeq(d, a, f - 1))
        PROVE  IsLength(d2, s - 1, n)
    <3>1. Declaring(d, s - 1, a, f) /\ IsLine(d, a, f) /\ f =< s - 1
      BY <2>5, Zenon DEF LastDeclared, Declaring
    <3>2. ASSUME NEW b, NEW g, Declaring(d2, s - 1, b, g) PROVE g =< f
      <4>1. Declaring(d, s - 1, b, g)
        BY <2>1, <3>2
      <4>2. b \in LineStarts(d) /\ g \in LineEnds(d)
        BY <2>2, <4>1, Zenon DEF Declaring
      <4> QED
        BY <2>5, <4>1, <4>2, Zenon DEF LastDeclared
    <3>3. LastDeclared(d2, s - 1, a, f)
      BY <2>1, <3>1, <3>2, Zenon DEF LastDeclared
    <3>4. a \in LineStarts(d2) /\ f \in LineEnds(d2) /\ n = LengthOf(SubSeq(d2, a, f - 1))
      BY <1>5, <2>3, <2>5, <3>1, Zenon
    <3> QED
      BY <3>3, <3>4, Zenon DEF IsLength
  <2>6. IsLength(d, s - 1, n)
    OBVIOUS
  <2> QED
    BY <2>4, <2>5, <2>6, Zenon DEF IsLength
<1> QED
  BY <1>3, <1>4, <1>6, <1>7, <1>8

\* What the reference says once the first line, or the empty line, is known.
LEMMA VerdictCases ==
  ASSUME NEW d \in Seq(Symbols)
  PROVE  /\ NoLineFrom(d, 0) => Verdict(d) = "NO_REQUEST"
         /\ Started(d) /\ BlankEnds(d) = {} => Verdict(d) = "NO_REQUEST"
         /\ \A b : Started(d) /\ IsFirst(b, BlankEnds(d)) =>
              Verdict(d) = IF Len(d) >= b + 1 + BodyLength(d, b)
                           THEN "GET_REQUEST" ELSE "NO_REQUEST"
         /\ \A e : IsFirst(e, LineEnds(d)) /\ SubSeq(d, 1, e - 1) # <<"GET">>
              => Verdict(d) = "BAD_REQUEST"
<1>1. \A e \in LineEnds(d) : e \in Nat \ {0}
  BY LineEndsApart
<1>2. \A b \in BlankEnds(d) : b \in LineEnds(d)
  BY DEF BlankEnds
<1>3. \A e, f : IsFirst(e, LineEnds(d)) /\ IsFirst(f, LineEnds(d)) => e = f
  BY <1>1 DEF IsFirst
<1>4. \A e, f : IsFirst(e, BlankEnds(d)) /\ IsFirst(f, BlankEnds(d)) => e = f
  BY <1>1, <1>2 DEF IsFirst
<1>5. NoLineFrom(d, 0) => LineEnds(d) = {} /\ BlankEnds(d) = {}
  BY <1>1, <1>2 DEF NoLineFrom
<1>6. Started(d) => ~\E e \in LineEnds(d) : IsFirst(e, LineEnds(d)) /\ SubSeq(d, 1, e - 1) # <<"GET">>
  BY <1>3 DEF Started
<1>7. NoLineFrom(d, 0) => Verdict(d) = "NO_REQUEST"
  BY <1>5 DEF Verdict
<1>8. Started(d) /\ BlankEnds(d) = {} => Verdict(d) = "NO_REQUEST"
  BY <1>6 DEF Verdict
<1>9. ASSUME NEW b, Started(d), IsFirst(b, BlankEnds(d))
      PROVE  Verdict(d) = IF Len(d) >= b + 1 + BodyLength(d, b)
                          THEN "GET_REQUEST" ELSE "NO_REQUEST"
  <2>1. b \in BlankEnds(d)
    BY <1>9 DEF IsFirst
  <2> QED
    BY <1>4, <1>6, <1>9, <2>1 DEF Verdict
<1>10. ASSUME NEW e, IsFirst(e, LineEnds(d)), SubSeq(d, 1, e - 1) # <<"GET">>
       PROVE  Verdict(d) = "BAD_REQUEST"
  <2>1. e \in LineEnds(d)
    BY <1>10 DEF IsFirst
  <2> QED
    BY <1>10, <2>1 DEF Verdict
<1> QED
  BY <1>7, <1>8, <1>9, <1>10

\* Behind the line that ends at e no earlier blank line is left, unless it is
\* blank itself.
LEMMA BlankIsNext ==
  ASSUME NEW d \in Seq(Symbols), NEW s, NEW e, NextLine(d, s, e),
         \A b \in BlankEnds(d) : b > s
  PROVE  /\ e = s + 1 => IsFirst(e, BlankEnds(d))
         /\ e # s + 1 => \A b \in BlankEnds(d) : b > e + 1
<1> USE DEF NextLine
<1>1. /\ s \in Nat /\ e \in Nat /\ \A k \in LineEnds(d) : k \in Nat \ {0}
      /\ \A k \in LineEnds(d) : k + 1 \notin LineEnds(d)
  BY LineEndsApart
<1>2. \A b : b \in BlankEnds(d) <=> b \in LineEnds(d) /\ (b = 1 \/ b - 2 \in LineEnds(d))
  BY DEF BlankEnds
<1>3. ASSUME e = s + 1 PROVE IsFirst(e, BlankEnds(d))
  <2>1. e \in BlankEnds(d)
    BY <1>1, <1>2, <1>3
  <2> QED
    BY <1>1, <1>2, <1>3, <2>1 DEF IsFirst
<1>4. ASSUME e # s + 1, NEW b \in BlankEnds(d) PROVE b > e + 1
  <2>1. b \in LineEnds(d) /\ b \in Nat /\ b >= e /\ b # e + 1
    BY <1>1, <1>2
  <2>2. b # e
    BY <1>1, <1>2, <1>4
  <2> QED
    BY <1>1, <2>1, <2>2
<1> QED
  BY <1>3, <1>4

\* The first line was read: the request line.
LEMMA FirstLineRead ==
  ASSUME NEW d \in Seq(Symbols), NEW e, NextLine(d, 0, e), SubSeq(d, 1, e - 1) = <<"GET">>
  PROVE  HeadersRead(d, e + 1, 0, FALSE)
<1>1. e \in Nat \ {0} /\ e \in LineEnds(d) /\ \A k \in LineEnds(d) : k \in Nat \ {0}
  BY LineEndsApart DEF NextLine
<1>2. IsFirst(e, LineEnds(d)) /\ Started(d)
  BY <1>1 DEF NextLine, IsFirst, Started
<1>3. e # 1
  <2> SUFFICES ASSUME e = 1 PROVE FALSE
    OBVIOUS
  <2>1. SubSeq(d, 1, 0) = << >>
    OBVIOUS
  <2> QED
    BY <2>1
<1>4. \A b \in BlankEnds(d) : b > e + 1
  <2>1. \A b \in BlankEnds(d) : b > 0
    BY <1>1 DEF BlankEnds
  <2> QED
    BY <1>3, <2>1, BlankIsNext
<1>5. ~HasLine(d, 0 - 1, Keeps) /\ ~HasLine(d, 0 - 1, Declares)
  BY <1>1 DEF HasLine
<1>6. ~Keeps(SubSeq(d, 0 + 1, e - 1)) /\ ~Declares(SubSeq(d, 0 + 1, e - 1))
  <2>1. 0 + 1 = 1 /\ Head(<<"GET">>) = "GET" /\ <<"GET">>[1] # <<"KEEP">>[1]
    OBVIOUS
  <2>2. "GET" \notin DOMAIN Lengths
    BY ParserAssumption DEF Words
  <2> QED
    BY <2>1, <2>2, Zenon DEF Keeps, Declares
<1>7. ~HasLine(d, e, Keeps) /\ ~HasLine(d, e, Declares)
  BY <1>5, <1>6, OneMoreHeader
<1>8. (e + 1) - 1 = e
  BY <1>1
<1> QED
  BY <1>1, <1>2, <1>4, <1>7, <1>8 DEF HeadersRead, IsLength

\* A line is empty when its end follows the previous one at once.
LEMMA EmptyLine ==
  ASSUME NEW d \in Seq(Symbols), NEW s \in Nat, NEW e, NextLine(d, s, e)
  PROVE  SubSeq(d, s + 1, e - 1) = << >> <=> e = s + 1
<1> DEFINE line == SubSeq(d, s + 1, e - 1)
<1>1. e \in Nat \ {0} /\ e > s /\ e + 1 =< Len(d)
  BY LineEndsApart DEF NextLine
<1>2. /\ s + 1 \in 1..(Len(d) + 1) /\ e - 1 \in s..Len(d) /\ Len(d) \in Nat
  BY <1>1
<1>3. line \in Seq(Symbols) /\ Len(line) = e - 1 - s
  BY <1>2
<1> QED
  BY <1>1, <1>3

\* A header line was read.
LEMMA HeaderLineRead ==
  ASSUME NEW d \in Seq(Symbols), NEW s \in Nat, NEW e, NextLine(d, s, e), NEW n, NEW keep,
         HeadersRead(d, s, n, keep), NEW line, line = SubSeq(d, s + 1, e - 1), line # << >>,
         NEW n2, n2 = (IF Head(line) \in DOMAIN Lengths THEN LengthOf(line) ELSE n),
         NEW keep2, keep2 <=> keep \/ isKeepAlive(line)
  PROVE  HeadersRead(d, e + 1, n2, keep2)
<1>1. e \in Nat \ {0} /\ e \in LineEnds(d) /\ (e + 1) - 1 = e
  BY LineEndsApart DEF NextLine
<1>2. /\ HasLine(d, e, Keeps) <=> HasLine(d, s - 1, Keeps) \/ Keeps(line)
      /\ HasLine(d, e, Declares) <=> HasLine(d, s - 1, Declares) \/ Declares(line)
  BY OneMoreHeader
<1>3. \A b \in BlankEnds(d) : b > e + 1
  BY EmptyLine, BlankIsNext DEF HeadersRead
<1>4. IsLength(d, e, n2)
  <2>1. IsLength(d, s - 1, n)
    BY DEF HeadersRead
  <2> QED
    BY <2>1, OneMoreLength DEF Declares
<1>5. keep2 <=> HasLine(d, e, Keeps)
  BY <1>2, Zenon DEF HeadersRead, isKeepAlive, Keeps
<1> QED
  BY <1>1, <1>3, <1>4, <1>5 DEF HeadersRead

\* The empty line was read.
LEMMA EmptyLineRead ==
  ASSUME NEW d \in Seq(Symbols), NEW s \in Nat, NEW e, NextLine(d, s, e), NEW n, NEW keep,
         HeadersRead(d, s, n, keep), NEW line, line = SubSeq(d, s + 1, e - 1), line = << >>
  PROVE  BodyAt(d, e + 1, n, keep)
<1>1. e \in Nat \ {0} /\ (e + 1) - 1 = e
  BY LineEndsApart DEF NextLine
<1>2. /\ HasLine(d, e, Keeps) <=> HasLine(d, s - 1, Keeps) \/ Keeps(line)
      /\ HasLine(d, e, Declares) <=> HasLine(d, s - 1, Declares) \/ Declares(line)
  BY OneMoreHeader
<1>3. IsFirst(e, BlankEnds(d))
  BY EmptyLine, BlankIsNext DEF HeadersRead
<1>4. IsLength(d, e, n)
  <2>1. IsLength(d, s - 1, n) /\ ~Declares(line)
    BY DEF HeadersRead, Declares
  <2> QED
    BY <2>1, OneMoreLength
<1>5. keep <=> HasLine(d, e, Keeps)
  <2>1. << >> # <<"KEEP">>
    OBVIOUS
  <2> QED
    BY <1>2, <2>1, Zenon DEF HeadersRead, Keeps
<1> QED
  BY <1>1, <1>3, <1>4, <1>5 DEF HeadersRead, BodyAt

-----------------------------------------------------------------------------
(* The steps of the parser.                                                 *)

\* What parse_line() has passed since m_start_line holds no line end.
LEMMA ScannedClean ==
  ASSUME ParserInv, BufferInv, NEW i \in 0..m_read_idx, ScanStops(i)
  PROVE  /\ i \in Nat /\ m_start_line =< i
         /\ \A j \in m_start_line..i : j > 0 => m_read_buf[j] \notin {CR, LF}
         /\ \A j \in (m_start_line + 1)..i : Received[j] \notin {CR, LF}
<1>1. /\ m_start_line \in Nat /\ m_checked_index \in Nat /\ m_read_idx \in Nat /\ i \in Nat
      /\ m_start_line =< m_checked_index /\ m_checked_index =< i /\ i =< m_read_idx
  BY DEF ParserInv, TypeOK, IndexOrder, ScanStops, m_read_idx
<1>2. ASSUME NEW j \in m_start_line..i, j > 0 PROVE m_read_buf[j] \notin {CR, LF}
  <2>1. CASE j =< m_checked_index
    BY <1>1, <1>2, <2>1 DEF BufferInv
  <2>2. CASE j > m_checked_index
    <3>1. j - 1 \in m_checked_index..(i - 1) /\ (j - 1) + 1 = j
      BY <1>1, <2>2
    <3> QED
      BY <3>1 DEF ScanStops, At
  <2> QED
    BY <1>1, <2>1, <2>2
<1>3. ASSUME NEW j \in (m_start_line + 1)..i PROVE Received[j] \notin {CR, LF}
  <2>1. j \in m_start_line..i /\ j > 0 /\ j \in (m_start_line + 1)..m_read_idx
    BY <1>1
  <2> QED
    BY <1>2, <2>1, ReceivedElements
<1> QED
  BY <1>1, <1>2, <1>3

\* parse_line() finds the next line, and get_line() is that line.
LEMMA LineFound ==
  ASSUME ParserInv, BufferInv, NEW i \in 0..m_read_idx, LineOk(i)
  PROVE  /\ CrAt(i) = i /\ i \in Nat /\ m_start_line =< i /\ i + 2 =< m_read_idx
         /\ i + 1 \in LineEnds(Received)
         /\ \A k \in LineEnds(Received) : k > m_start_line => k >= i + 1
         /\ Line(i + 2) = SubSeq(Received, m_start_line + 1, i)
<1>1. /\ i \in Nat /\ m_start_line =< i /\ m_start_line \in Nat /\ m_read_idx \in Nat
      /\ \A j \in m_start_line..i : j > 0 => m_read_buf[j] \notin {CR, LF}
      /\ \A j \in (m_start_line + 1)..i : Received[j] \notin {CR, LF}
  BY ScannedClean DEF LineOk, ParserInv, TypeOK, m_read_idx
<1>2. At(i) = CR
  <2>1. i > 1 => At(i - 1) # CR
    BY <1>1 DEF At
  <2> QED
    BY <2>1 DEF LineOk
<1>3. i + 1 < m_read_idx /\ At(i + 1) = LF
  BY <1>2 DEF LineOk
<1>4. /\ Received \in Seq(Symbols) /\ Len(Received) = m_read_idx
      /\ \A j \in (m_start_line + 1)..m_read_idx : m_read_buf[j] = Received[j]
  BY ReceivedElements
<1>5. Received[i + 1] = CR /\ Received[i + 2] = LF
  <2>1. m_read_buf[i + 1] = CR /\ m_read_buf[i + 2] = LF
    BY <1>1, <1>2, <1>3 DEF At
  <2>2. /\ i + 1 \in (m_start_line + 1)..m_read_idx /\ i + 2 \in (m_start_line + 1)..m_read_idx
    BY <1>1, <1>3
  <2> QED
    BY <1>4, <2>1, <2>2
<1>6. i + 1 \in LineEnds(Received)
  BY <1>1, <1>3, <1>4, <1>5 DEF LineEnds
<1>7. ASSUME NEW k \in LineEnds(Received), k > m_start_line PROVE k >= i + 1
  <2>1. k \in Nat /\ Received[k] = CR
    BY <1>4, LineEndsApart
  <2> QED
    BY <1>1, <1>7, <2>1
<1>8. Line(i + 2) = SubSeq(Received, m_start_line + 1, i)
  <2>1. m_read_buf \in Seq(Symbols) /\ Len(m_read_buf) = m_read_idx
    BY DEF ParserInv, TypeOK, m_read_idx
  <2>2. (i + 2) - 2 = i
    BY <1>1
  <2> QED
    BY <1>1, <1>3, <1>4, <2>1, <2>2 DEF Line
<1> QED
  BY <1>1, <1>2, <1>3, <1>6, <1>7, <1>8 DEF CrAt

\* A position of the header section where a line ends in the wrong way.
LEMMA MalformedAt ==
  ASSUME NEW d \in Seq(Symbols), NEW p \in 1..Len(d), \A b \in BlankEnds(d) : p =< b + 1,
         \/ d[p] = CR /\ p < Len(d) /\ d[p + 1] # LF
         \/ d[p] = LF /\ (p = 1 \/ d[p - 1] # CR)
  PROVE  Malformed(d)
<1>1. p \in DOMAIN d
  OBVIOUS
<1> QED
  BY <1>1, Zenon DEF Malformed

\* When parse_line() finds none in a well-formed header section, there is none.
LEMMA NoneFound ==
  ASSUME ParserInv, BufferInv, ~Malformed(Received),
         m_start_line = 0 \/ m_start_line - 1 \in LineEnds(Received),
         \A b \in BlankEnds(Received) : b > m_start_line,
         NEW i \in 0..m_read_idx, LineOpen(i) \/ LineBad(i)
  PROVE  NoLineFrom(Received, m_start_line)
<1> DEFINE d == Received
<1>1. /\ i \in Nat /\ m_start_line =< i /\ m_start_line \in Nat /\ m_read_idx \in Nat
      /\ \A j \in m_start_line..i : j > 0 => m_read_buf[j] \notin {CR, LF}
      /\ \A j \in (m_start_line + 1)..i : d[j] \notin {CR, LF}
      /\ i =< m_read_idx
  BY ScannedClean DEF LineOpen, LineBad, ParserInv, TypeOK, m_read_idx
<1>2. /\ d \in Seq(Symbols) /\ Len(d) = m_read_idx
      /\ \A j \in (m_start_line + 1)..m_read_idx : m_read_buf[j] = d[j]
  BY ReceivedElements
<1> HIDE DEF d
<1>3. ASSUME NEW k \in LineEnds(d), k > m_start_line
      PROVE  k \in Nat /\ k >= i + 1 /\ k + 1 =< m_read_idx /\ d[k] = CR
  <2>1. k \in Nat /\ d[k] = CR /\ k + 1 =< m_read_idx
    BY <1>2, LineEndsApart
  <2> QED
    BY <1>1, <1>3, <2>1
<1>4. CASE LineOpen(i)
  <2>1. i = m_read_idx \/ i + 1 = m_read_idx
    BY <1>1, <1>4 DEF LineOpen
  <2>2. \A k \in LineEnds(d) : ~(k > m_start_line)
    BY <1>1, <1>3, <2>1
  <2>3. \A k \in LineEnds(d) : k \in Nat
    BY <1>2, LineEndsApart
  <2> QED
    BY <1>1, <2>2, <2>3 DEF NoLineFrom, d
<1>5. CASE LineBad(i)
  <2>1. i < m_read_idx /\ At(i) \in {CR, LF} /\ At(i) = d[i + 1] /\ i + 1 \in 1..Len(d)
    <3>1. i < m_read_idx
      BY <1>1, <1>5 DEF LineBad, LineOpen
    <3>2. i + 1 \in (m_start_line + 1)..m_read_idx
      BY <1>1, <3>1
    <3> QED
      BY <1>1, <1>2, <1>5, <3>1, <3>2 DEF LineBad, ScanStops, At
  <2>2. \A b \in BlankEnds(d) : i + 1 =< b + 1
    <3>1. \A b \in BlankEnds(d) : b \in LineEnds(d) /\ b > m_start_line
      BY DEF BlankEnds, d
    <3> QED
      BY <1>1, <1>3, <3>1
  <2>3. CASE At(i) = CR
    <3>1. i + 1 < m_read_idx /\ At(i + 1) # LF
      BY <1>1, <1>5, <2>1, <2>3 DEF LineBad, LineOpen, LineOk
    <3>2. i + 2 \in (m_start_line + 1)..m_read_idx /\ (i + 1) + 1 = i + 2
      BY <1>1, <3>1
    <3>3. d[(i + 1) + 1] # LF /\ i + 1 < Len(d)
      BY <1>2, <3>1, <3>2 DEF At
    <3>4. Malformed(d)
      BY <1>2, <2>1, <2>2, <2>3, <3>3, MalformedAt
    <3> QED
      BY <3>4 DEF d
  <2>4. CASE At(i) = LF
    <3>1. i + 1 = 1 \/ d[(i + 1) - 1] # CR
      <4>1. CASE i > m_start_line
        BY <1>1, <4>1
      <4>2. CASE i = m_start_line /\ i # 0
        <5>1. i - 1 \in LineEnds(d)
          BY <4>2 DEF d
        <5>2. d[(i - 1) + 1] = LF
          BY <1>2, <5>1, LineEndsApart
        <5>3. (i - 1) + 1 = (i + 1) - 1
          BY <1>1
        <5> QED
          BY <5>2, <5>3 DEF CR, LF
      <4> QED
        BY <1>1, <4>1, <4>2
    <3>2. Malformed(d)
      BY <1>2, <2>1, <2>2, <2>4, <3>1, MalformedAt
    <3> QED
      BY <3>2 DEF d
  <2> QED
    BY <2>1, <2>3, <2>4
<1> QED
  BY <1>4, <1>5

\* One turn of the loop leaves the rest of the buffer alone.
LEMMA BufferTake ==
  ASSUME ParserInv, BufferInv, NEW b \in Seq(Symbols), Len(b) = m_read_idx,
         NEW k \in Nat, m_start_line =< k, k > 0 => b[k] \notin {CR, LF},
         \A j \in (k + 1)..m_read_idx : b[j] = m_read_buf[j], TakeLine(b, k)
  PROVE  BufferInv' /\ Received' = Received
<1>1. /\ m_read_buf' = b /\ m_checked_index' = k /\ m_start_line' = k
      /\ UNCHANGED <<stream, base>> /\ m_read_idx' = m_read_idx
  BY DEF TakeLine, m_read_idx
<1>2. m_start_line \in Nat /\ m_read_idx \in Nat
  BY DEF ParserInv, TypeOK, m_read_idx
<1>3. \A j \in (k + 1)..m_read_idx : b[j] = stream[base + j]
  BY <1>2 DEF BufferInv
<1>4. \A j \in k..k : j > 0 => b[j] \notin {CR, LF}
  OBVIOUS
<1> QED
  BY <1>1, <1>3, <1>4 DEF BufferInv, Received

\* TurnLine overwrites the line end it found, and nothing behind it.
LEMMA CutBuffer ==
  ASSUME ParserInv, NEW i \in Nat, i + 2 =< m_read_idx
  PROVE  /\ Cut(i) \in Seq(Symbols) /\ Len(Cut(i)) = m_read_idx
         /\ Cut(i)[i + 2] \notin {CR, LF}
         /\ \A j \in (i + 3)..m_read_idx : Cut(i)[j] = m_read_buf[j]
<1>1. m_read_buf \in Seq(Symbols) /\ Len(m_read_buf) = m_read_idx /\ m_read_idx \in Nat
  BY DEF ParserInv, TypeOK, m_read_idx
<1> QED
  BY <1>1, CutKeepsLength DEF Cut, NUL, CR, LF

\* TurnBody and TurnLine, seen from the buffer.
LEMMA BufferTurns ==
  ASSUME ParserInv, BufferInv, TurnBody \/ TurnLine
  PROVE  BufferInv' /\ Received' = Received
<1>1. /\ m_read_buf \in Seq(Symbols) /\ Len(m_read_buf) = m_read_idx
      /\ m_start_line \in Nat /\ m_checked_index \in Nat /\ m_start_line =< m_checked_index
  BY DEF ParserInv, TypeOK, IndexOrder, m_read_idx
<1>2. CASE TurnBody
  <2>1. TakeLine(m_read_buf, m_checked_index)
    BY <1>2 DEF TurnBody
  <2>2. m_checked_index > 0 => m_read_buf[m_checked_index] \notin {CR, LF}
    BY <1>1 DEF BufferInv
  <2>3. \A j \in (m_checked_index + 1)..m_read_idx : m_read_buf[j] = m_read_buf[j]
    OBVIOUS
  <2> QED
    BY <1>1, <2>1, <2>2, <2>3, BufferTake
<1>3. CASE TurnLine
  <2>1. PICK i \in 0..m_read_idx : LineOk(i) /\ TakeLine(Cut(CrAt(i)), CrAt(i) + 2)
    BY <1>3 DEF TurnLine
  <2>2. CrAt(i) = i /\ i \in Nat /\ m_start_line =< i /\ i + 2 =< m_read_idx
    BY <2>1, LineFound
  <2>3. TakeLine(Cut(i), i + 2) /\ i + 2 \in Nat /\ m_start_line =< i + 2 /\ (i + 2) + 1 = i + 3
    BY <1>1, <2>1, <2>2
  <2> QED
    BY <2>2, <2>3, BufferTake, CutBuffer
<1> QED
  BY <1>2, <1>3

\* Any part of a sequence of symbols.
LEMMA PieceElements ==
  ASSUME NEW t \in Seq(Symbols), NEW b \in Nat, NEW n \in Nat, b + n =< Len(t)
  PROVE  /\ SubSeq(t, b + 1, b + n) \in Seq(Symbols) /\ Len(SubSeq(t, b + 1, b + n)) = n
         /\ \A j \in 1..n : SubSeq(t, b + 1, b + n)[j] = t[b + j]
BY SubSeqProperties

\* read() appends what follows in the stream.
LEMMA BufferReceive ==
  ASSUME ParserInv, BufferInv, Receive
  PROVE  BufferInv' /\ Extends(Received, Received')
<1>1. PICK n \in 1..(Len(stream) - base - m_read_idx) :
        m_read_buf' = m_read_buf \o SubSeq(stream, base + m_read_idx + 1, base + m_read_idx + n)
  BY DEF Receive
<1> DEFINE piece == SubSeq(stream, base + m_read_idx + 1, base + m_read_idx + n)
<1>2. /\ stream \in Seq(Symbols) /\ base \in Nat /\ m_read_idx \in Nat /\ n \in Nat
      /\ base + m_read_idx \in Nat /\ base + m_read_idx + n =< Len(stream)
      /\ m_read_buf \in Seq(Symbols) /\ Len(m_read_buf) = m_read_idx
      /\ m_start_line \in Nat /\ m_checked_index \in Nat /\ m_checked_index =< m_read_idx
  BY <1>1, StreamTyped DEF ParserInv, TypeOK, IndexOrder, m_read_idx
<1>3. /\ piece \in Seq(Symbols) /\ Len(piece) = n
      /\ \A j \in 1..n : piece[j] = stream[base + m_read_idx + j]
  BY <1>2, PieceElements
<1>4. m_read_buf' = m_read_buf \o piece
  BY <1>1
<1> HIDE DEF piece
<1>5. /\ m_read_idx' = m_read_idx + n
      /\ \A j \in 1..m_read_idx : m_read_buf'[j] = m_read_buf[j]
      /\ \A j \in (m_read_idx + 1)..(m_read_idx + n) : m_read_buf'[j] = piece[j - m_read_idx]
  <2>1. /\ Len(m_read_buf \o piece) = Len(m_read_buf) + Len(piece)
        /\ \A j \in 1..(Len(m_read_buf) + Len(piece)) :
             (m_read_buf \o piece)[j] = IF j =< Len(m_read_buf) THEN m_read_buf[j]
                                       ELSE piece[j - Len(m_read_buf)]
    BY <1>2, <1>3, ConcatProperties
  <2>2. m_read_idx' = m_read_idx + n
    BY <1>2, <1>3, <1>4, <2>1 DEF m_read_idx
  <2>3. \A j \in 1..(m_read_idx + n) :
          m_read_buf'[j] = IF j =< m_read_idx THEN m_read_buf[j] ELSE piece[j - m_read_idx]
    BY <1>2, <1>3, <1>4, <2>1
  <2> QED
    BY <1>2, <2>2, <2>3
<1>6. UNCHANGED <<stream, base, m_start_line, m_checked_index>>
  BY DEF Receive, parseVars
<1>7. ASSUME NEW j \in (m_start_line + 1)..(m_read_idx + n)
      PROVE  m_read_buf'[j] = stream[base + j]
  <2>1. CASE j =< m_read_idx
    BY <1>2, <1>5, <2>1 DEF BufferInv
  <2>2. CASE j > m_read_idx
    <3>1. /\ j - m_read_idx \in 1..n /\ base + m_read_idx + (j - m_read_idx) = base + j
          /\ j \in (m_read_idx + 1)..(m_read_idx + n)
      BY <1>2, <2>2
    <3> QED
      BY <1>3, <1>5, <3>1
  <2> QED
    BY <1>2, <2>1, <2>2
<1>8. ASSUME NEW j \in m_start_line..m_checked_index, j > 0
      PROVE  m_read_buf'[j] \notin {CR, LF}
  <2>1. j \in 1..m_read_idx
    BY <1>2, <1>8
  <2> QED
    BY <1>5, <1>8, <2>1 DEF BufferInv
<1>9. BufferInv'
  <2>1. base + (m_read_idx + n) =< Len(stream)
    BY <1>2
  <2> QED
    BY <1>5, <1>6, <1>7, <1>8, <2>1 DEF BufferInv
<1>10. Extends(Received, Received')
  <2>1. Received' = SubSeq(stream, base + 1, base + (m_read_idx + n))
    BY <1>5, <1>6 DEF Received
  <2>2. m_read_idx + n \in Nat /\ base + (m_read_idx + n) =< Len(stream)
    BY <1>2
  <2>3. /\ Received' \in Seq(Symbols) /\ Len(Received') = m_read_idx + n
        /\ \A j \in 1..(m_read_idx + n) : Received'[j] = stream[base + j]
    <3> DEFINE r == m_read_idx + n
    <3>1. r \in Nat /\ base + r =< Len(stream) /\ Received' = SubSeq(stream, base + 1, base + r)
      BY <2>1, <2>2
    <3> HIDE DEF r
    <3>2. /\ Received' \in Seq(Symbols) /\ Len(Received') = r
          /\ \A j \in 1..r : Received'[j] = stream[base + j]
      BY <1>2, <3>1, PieceElements
    <3> QED
      BY <3>2 DEF r
  <2>4. /\ Received \in Seq(Symbols) /\ Len(Received) = m_read_idx
        /\ \A j \in 1..m_read_idx : Received[j] = stream[base + j]
    BY ReceivedElements
  <2>5. \A j \in 1..m_read_idx : j \in 1..(m_read_idx + n)
    BY <1>2
  <2>6. m_read_idx =< m_read_idx + n
    BY <1>2
  <2> QED
    BY <2>3, <2>4, <2>5, <2>6 DEF Extends
<1> QED
  BY <1>9, <1>10

\* The request so far is well formed and its body was not cut.
Clean == ~Malformed(Received) /\ ~bodyCut

\* read(): what was learnt about a shorter request holds of the longer one.
LEMMA ReceiveReads ==
  ASSUME ParserInv, BufferInv, ReadInv, Receive
  PROVE  ReadInv'
<1>1. Extends(Received, Received')
  BY BufferReceive
<1>2. /\ pc = "recv" /\ pc' = "loop" /\ UNCHANGED parseVars
      /\ ~bodyCut' => ~bodyCut /\ ~BodyOpen(Received)
  BY Zenon DEF Receive
<1>3. ASSUME ~Malformed(Received'), ~bodyCut' PROVE Undecided(Received)'
  <2>1. Undecided(Received)
    BY <1>1, <1>2, <1>3, ExtendMalformed DEF ReadInv
  <2>2. m_start_line \in Nat
    BY DEF ParserInv, TypeOK
  <2>3. CASE m_check_state = "CHECK_STATE_REQUESTLINE"
    BY <1>2, <2>1, <2>3 DEF Undecided, parseVars
  <2>4. CASE m_check_state = "CHECK_STATE_HEADER"
    <3>1. HeadersRead(Received, m_start_line, m_content_length, m_linger)
          /\ NoLineFrom(Received, m_start_line)
      BY <1>2, <2>1, <2>4 DEF Undecided
    <3>2. HeadersRead(Received', m_start_line, m_content_length, m_linger)
      BY <1>1, <2>2, <3>1, ExtendHeaders
    <3> QED
      BY <1>2, <2>4, <3>2 DEF Undecided, parseVars
  <2>5. m_check_state # "CHECK_STATE_CONTENT"
    BY <1>2, <1>3, <2>1 DEF Undecided, BodyMissing, Asks, BodyOpen
  <2> QED
    BY <2>1, <2>3, <2>4, <2>5 DEF Undecided
<1> QED
  BY <1>2, <1>3 DEF ReadInv

\* parse_content() on a body that was not cut decides as the reference does.
LEMMA BodyReads ==
  ASSUME ParserInv, BufferInv, ReadInv, TurnBody
  PROVE  ReadInv'
<1>1. /\ pc = "loop" /\ m_check_state = "CHECK_STATE_CONTENT" /\ line_status = "LINE_OK"
      /\ TakeLine(m_read_buf, m_checked_index)
  BY DEF TurnBody, InBody
<1>2. /\ UNCHANGED <<bodyCut, m_check_state, m_content_length, m_linger>>
      /\ Received' = Received /\ m_start_line' = m_checked_index
      /\ m_checked_index' = m_checked_index
      /\ \/ (BodyComplete(m_checked_index) \/ Overflows(m_checked_index)) /\ Return("GET_REQUEST")
         \/ ~BodyComplete(m_checked_index) /\ Continue /\ line_status' = "LINE_OPEN"
  BY <1>1, BufferTurns, Outcomes DEF TakeLine
<1>3. ASSUME Clean
      PROVE  /\ pc' # "recv" /\ (pc' = "loop" => Undecided(Received)')
             /\ (pc' = "done" => Decided(Received)')
  <2> DEFINE d == Received
             b == m_start_line - 1
  <2>1. m_checked_index = m_start_line /\ BodyAt(d, m_start_line, m_content_length, m_linger)
    BY <1>1, <1>3 DEF ReadInv, Undecided, Clean
  <2>2. d \in Seq(Symbols) /\ Len(d) = m_read_idx /\ m_start_line \in Nat /\ m_content_length \in Int
        /\ m_read_idx \in Nat /\ m_read_idx < INT_MAX /\ INT_MAX \in Nat
    BY ReceivedElements, ParserAssumption DEF ParserInv, TypeOK, m_read_idx
  <2>3. /\ IsFirst(b, BlankEnds(d)) /\ Started(d) /\ m_content_length = BodyLength(d, b)
        /\ m_linger <=> HasLine(d, b, Keeps)
    BY <2>1, <2>2, LengthIs DEF BodyAt
  <2>4. Verdict(d) = IF Len(d) >= b + 1 + BodyLength(d, b) THEN "GET_REQUEST" ELSE "NO_REQUEST"
    BY <2>2, <2>3, VerdictCases
  <2>5. b \in BlankEnds(d)
    BY <2>3 DEF IsFirst
  <2>6. CASE (BodyComplete(m_checked_index) \/ Overflows(m_checked_index)) /\ Return("GET_REQUEST")
    <3>1. Verdict(d) = "GET_REQUEST" \/ Overflows(m_checked_index)
      <4>1. ~Overflows(m_checked_index) => m_read_idx >= m_content_length + m_checked_index
        BY <2>6 DEF BodyComplete
      <4> QED
        BY <2>1, <2>2, <2>3, <2>4, <4>1
    <3>2. pc' = "done" /\ ret' = "GET_REQUEST"
      BY <2>6 DEF Return
    <3>3. Asks(d, m_linger)
      BY <2>3, <2>5 DEF Asks
    <3>4. Decided(d)'
      BY <1>2, <3>1, <3>2, <3>3 DEF Decided, Overflows
    <3> QED
      BY <3>2, <3>4
  <2>7. CASE ~BodyComplete(m_checked_index) /\ Continue /\ line_status' = "LINE_OPEN"
    <3>0. ~(m_read_idx >= m_content_length + m_checked_index)
      BY <2>7 DEF BodyComplete
    <3>1. Verdict(d) = "NO_REQUEST" /\ Len(d) < m_content_length + m_start_line
      BY <2>1, <2>2, <2>3, <2>4, <3>0
    <3>2. BodyMissing(d, m_start_line, m_content_length, m_linger)
      BY <2>3, <2>5, <3>1 DEF BodyMissing, Asks
    <3>3. pc' = "loop"
      BY <1>1, <2>7 DEF Continue
    <3>4. Undecided(d)'
      BY <1>1, <1>2, <2>1, <2>7, <3>2, <3>3 DEF Undecided
    <3> QED
      BY <3>3, <3>4
  <2> QED
    BY <1>2, <2>6, <2>7
<1>4. pc' # "recv"
  BY <1>1, <1>2 DEF Return, Continue
<1> QED
  BY <1>2, <1>3, <1>4 DEF ReadInv, Clean

\* A complete line: the parser learns what the line says.
LEMMA LineReads ==
  ASSUME ParserInv, BufferInv, ReadInv, TurnLine
  PROVE  ReadInv'
<1>1. PICK i \in 0..m_read_idx : LineOk(i) /\ TakeLine(Cut(CrAt(i)), CrAt(i) + 2)
  BY DEF TurnLine
<1> DEFINE d == Received
           s == m_start_line
           e == i + 1
           line == Line(i + 2)
<1>2. /\ pc = "loop" /\ ~InBody
  BY DEF TurnLine
<1>3. /\ CrAt(i) = i /\ i \in Nat /\ s =< i /\ i + 2 =< m_read_idx
      /\ e \in LineEnds(d) /\ \A k \in LineEnds(d) : k > s => k >= e
      /\ line = SubSeq(d, s + 1, i)
  BY <1>1, LineFound
<1>4. /\ d \in Seq(Symbols) /\ Len(d) = m_read_idx /\ s \in Nat /\ m_read_idx \in Nat
      /\ m_content_length \in Int /\ m_linger \in BOOLEAN
      /\ m_read_idx < INT_MAX /\ INT_MAX \in Nat
  BY ReceivedElements, ParserAssumption DEF ParserInv, TypeOK, m_read_idx
<1>5. Received' = d /\ bodyCut' = bodyCut /\ m_start_line' = e + 1
  <2>1. CrAt(i) + 2 = e + 1
    BY <1>3
  <2> QED
    BY <1>1, <2>1, BufferTurns DEF TakeLine
<1>6. TakeLine(Cut(i), i + 2)
  BY <1>1, <1>3
<1>7. e - 1 = i /\ e > s /\ e \in Nat
  BY <1>3, <1>4
<1> HIDE DEF d, e, line
<1>8. ASSUME Clean
      PROVE  /\ pc' # "recv" /\ (pc' = "loop" => Undecided(Received)')
             /\ (pc' = "done" => Decided(Received)')
  <2>0. Undecided(d)
    BY <1>2, <1>8 DEF ReadInv, Clean, d
  <2>1. CASE m_check_state = "CHECK_STATE_REQUESTLINE"
    <3>1. s = 0 /\ m_content_length = 0 /\ m_linger = FALSE
      BY <2>0, <2>1 DEF Undecided
    <3>2. parse_request_line(line)
      BY <1>6, <2>1 DEF TakeLine, line
    <3>3. NextLine(d, 0, e)
      BY <1>3, <1>7, <3>1 DEF NextLine
    <3>4. line = SubSeq(d, 1, e - 1)
      BY <1>3, <1>7, <3>1
    <3>5. CASE line = <<"GET">>
      <4>1. HeadersRead(d, e + 1, 0, FALSE)
        BY <1>4, <3>3, <3>4, <3>5, FirstLineRead
      <4>2. /\ m_check_state' = "CHECK_STATE_HEADER" /\ pc' = "loop"
            /\ m_content_length' = 0 /\ m_linger' = FALSE
        BY <1>2, <3>1, <3>2, <3>5 DEF parse_request_line, Continue
      <4> QED
        BY <1>5, <4>1, <4>2 DEF Undecided
    <3>6. CASE line # <<"GET">>
      <4>1. IsFirst(e, LineEnds(d))
        <5>0. \A k \in LineEnds(d) : k \in Nat \ {0}
          BY <1>4, LineEndsApart
        <5>1. \A k \in LineEnds(d) : k > 0
          BY <5>0
        <5> QED
          BY <1>3, <3>1, <5>1 DEF IsFirst
      <4>2. Verdict(d) = "BAD_REQUEST"
        BY <1>4, <3>4, <3>6, <4>1, VerdictCases
      <4>3. ret' = "BAD_REQUEST" /\ pc' = "done"
        BY <3>2, <3>6 DEF parse_request_line, Return
      <4> QED
        BY <1>5, <4>2, <4>3 DEF Decided
    <3> QED
      BY <3>5, <3>6
  <2>2. CASE m_check_state = "CHECK_STATE_HEADER"
    <3>1. HeadersRead(d, s, m_content_length, m_linger)
      BY <2>0, <2>2 DEF Undecided
    <3>2. parse_headers(line) /\ line_status' = "LINE_OK" /\ m_checked_index' = m_start_line'
      BY <1>6, <2>2 DEF TakeLine, line
    <3>3. NextLine(d, s, e) /\ line = SubSeq(d, s + 1, e - 1)
      BY <1>3, <1>4, <1>7, <3>1 DEF NextLine, HeadersRead
    <3>4. CASE line # << >>
      <4>1. /\ m_linger' = (m_linger \/ isKeepAlive(line)) /\ UNCHANGED m_check_state
            /\ m_content_length' = IF Head(line) \in DOMAIN Lengths THEN LengthOf(line)
                                    ELSE m_content_length
            /\ pc' = "loop"
        BY <1>2, <3>2, <3>4 DEF parse_headers, Continue
      <4>2. HeadersRead(d, e + 1, m_content_length', m_linger')
        BY <1>4, <3>1, <3>3, <3>4, <4>1, HeaderLineRead
      <4> QED
        BY <1>5, <2>2, <4>1, <4>2 DEF Undecided
    <3>5. CASE line = << >>
      <4>1. /\ UNCHANGED <<m_content_length, m_linger>>
            /\ \/ /\ m_content_length # 0 /\ m_check_state' = "CHECK_STATE_CONTENT" /\ pc' = "loop"
               \/ /\ m_content_length = 0 /\ pc' = "done" /\ ret' = "GET_REQUEST"
        BY <1>2, <3>2, <3>5 DEF parse_headers, Continue, Return
      <4>2. BodyAt(d, e + 1, m_content_length, m_linger)
        BY <1>4, <3>1, <3>3, <3>5, EmptyLineRead
      <4>3. CASE m_content_length # 0
        BY <1>5, <3>2, <4>1, <4>2, <4>3 DEF Undecided
      <4>4. CASE m_content_length = 0
        <5>1. /\ IsFirst(e, BlankEnds(d)) /\ Started(d) /\ BodyLength(d, e) = 0
              /\ m_linger <=> HasLine(d, e, Keeps)
          <6>1. (e + 1) - 1 = e
            BY <1>7
          <6> QED
            BY <1>4, <4>2, <4>4, <6>1, LengthIs DEF BodyAt
        <5>2. e + 1 =< Len(d)
          BY <1>3, <1>4, LineEndsApart
        <5>3. Verdict(d) = "GET_REQUEST"
          BY <1>4, <1>7, <5>1, <5>2, VerdictCases
        <5>4. e \in BlankEnds(d)
          BY <5>1 DEF IsFirst
        <5> QED
          BY <1>5, <4>1, <4>4, <5>1, <5>3, <5>4 DEF Decided, Asks
      <4> QED
        BY <4>3, <4>4
    <3> QED
      BY <3>4, <3>5
  <2>3. CASE m_check_state = "CHECK_STATE_CONTENT"
    <3>1. line_status # "LINE_OK" /\ BodyMissing(d, s, m_content_length, m_linger)
      BY <1>2, <2>0, <2>3 DEF Undecided, InBody
    <3>2. Len(d) < m_content_length + (e + 1)
      BY <1>4, <1>7, <3>1 DEF BodyMissing
    <3>3. /\ UNCHANGED <<m_check_state, m_content_length, m_linger>>
          /\ m_checked_index' = i + 2
          /\ \/ (BodyComplete(i + 2) \/ Overflows(i + 2)) /\ Return("GET_REQUEST")
             \/ ~BodyComplete(i + 2) /\ Continue /\ line_status' = "LINE_OPEN"
      BY <1>6, <2>3, Outcomes DEF TakeLine
    <3>4. CASE (BodyComplete(i + 2) \/ Overflows(i + 2)) /\ Return("GET_REQUEST")
      <4>1. Overflows(i + 2)
        BY <1>3, <1>4, <3>2, <3>4 DEF BodyComplete, e
      <4>2. pc' = "done" /\ ret' = "GET_REQUEST"
        BY <3>4 DEF Return
      <4> QED
        BY <1>5, <3>1, <3>3, <4>1, <4>2 DEF Decided, BodyMissing, Overflows
    <3>5. CASE Continue /\ line_status' = "LINE_OPEN"
      <4>1. BodyMissing(d, e + 1, m_content_length, m_linger)
        BY <3>1, <3>2 DEF BodyMissing
      <4> QED
        BY <1>2, <1>5, <2>3, <3>3, <3>5, <4>1 DEF Undecided, Continue
    <3> QED
      BY <3>3, <3>4, <3>5
  <2> QED
    BY <2>0, <2>1, <2>2, <2>3 DEF Undecided
<1>9. pc' # "recv"
  <2>1. m_check_state \in {"CHECK_STATE_REQUESTLINE", "CHECK_STATE_HEADER", "CHECK_STATE_CONTENT"}
    BY DEF ParserInv, TypeOK
  <2>2. m_check_state = "CHECK_STATE_REQUESTLINE" => parse_request_line(line)
    BY <1>6 DEF TakeLine, line
  <2>3. m_check_state = "CHECK_STATE_HEADER" => parse_headers(line)
    BY <1>6 DEF TakeLine, line
  <2>4. m_check_state = "CHECK_STATE_CONTENT" => Return("GET_REQUEST") \/ Continue
    BY <1>6, Outcomes
  <2> QED
    BY <1>2, <2>1, <2>2, <2>3, <2>4 DEF parse_request_line, parse_headers, Return, Continue
<1> QED
  BY <1>5, <1>8, <1>9 DEF ReadInv, Clean, d

\* No complete line: process_read() returns NO_REQUEST.
LEMMA EndReads ==
  ASSUME ParserInv, BufferInv, ReadInv, TurnEnds
  PROVE  ReadInv'
<1>1. /\ pc = "loop" /\ ~InBody /\ pc' = "recv" /\ ret' = "NO_REQUEST"
      /\ UNCHANGED <<stream, base, m_read_buf, m_start_line, m_check_state, m_content_length,
                     m_linger, bodyCut>>
      /\ line_status' \in {"LINE_OPEN", "LINE_BAD"}
  BY DEF TurnEnds, Return
<1>2. PICK i \in 0..m_read_idx : LineOpen(i) \/ LineBad(i)
  BY DEF TurnEnds
<1>3. Received' = Received
  BY <1>1 DEF Received, m_read_idx
<1>4. ASSUME Clean PROVE Undecided(Received)'
  <2>0. Undecided(Received)
    BY <1>1, <1>4 DEF ReadInv, Clean
  <2>1. \A b \in BlankEnds(Received) : b > 0
    BY ReceivedElements, LineEndsApart DEF BlankEnds
  <2>2. CASE m_check_state = "CHECK_STATE_REQUESTLINE"
    <3>1. NoLineFrom(Received, m_start_line)
      BY <1>2, <1>4, <2>0, <2>1, <2>2, NoneFound DEF Undecided, Clean
    <3> QED
      BY <1>1, <1>3, <2>0, <2>2, <3>1 DEF Undecided
  <2>3. CASE m_check_state = "CHECK_STATE_HEADER"
    <3>1. NoLineFrom(Received, m_start_line)
      BY <1>2, <1>4, <2>0, <2>3, NoneFound DEF Undecided, HeadersRead, Clean
    <3> QED
      BY <1>1, <1>3, <2>0, <2>3, <3>1 DEF Undecided
  <2>4. CASE m_check_state = "CHECK_STATE_CONTENT"
    BY <1>1, <1>3, <2>0, <2>4 DEF Undecided, InBody
  <2> QED
    BY <2>0, <2>2, <2>3, <2>4 DEF Undecided
<1> QED
  BY <1>1, <1>3, <1>4 DEF ReadInv, Clean

\* An empty piece of the stream has no line.
LEMMA EmptyPiece ==
  ASSUME NEW t \in Seq(Symbols), NEW b \in Nat
  PROVE  NoLineFrom(SubSeq(t, b + 1, b + 0), 0)
<1>1. SubSeq(t, b + 1, b + 0) = << >>
  OBVIOUS
<1>2. LineEnds(<< >>) = {}
  BY DEF LineEnds
<1> QED
  BY <1>1, <1>2 DEF NoLineFrom

\* The next request on a kept connection starts with nothing read.
LEMMA AnswerReads ==
  ASSUME ParserInv, BufferInv, ReadInv, Answer
  PROVE  BufferInv' /\ ReadInv'
<1>1. CASE m_linger
  <2>1. /\ base' = base + m_read_idx /\ pc' = "recv" /\ ret' = "NO_REQUEST"
        /\ m_read_buf' = << >> /\ m_checked_index' = 0 /\ m_start_line' = 0
        /\ m_check_state' = "CHECK_STATE_REQUESTLINE" /\ m_content_length' = 0
        /\ m_linger' = FALSE /\ stream' = stream
    BY <1>1 DEF Answer
  <2>2. /\ m_read_idx' = 0 /\ base \in Nat /\ m_read_idx \in Nat /\ base' \in Nat
        /\ stream \in Seq(Symbols) /\ base + m_read_idx =< Len(stream)
    BY <2>1, StreamTyped DEF ParserInv, TypeOK, BufferInv, m_read_idx
  <2>3. BufferInv'
    BY <2>1, <2>2 DEF BufferInv
  <2>4. NoLineFrom(Received', 0)
    BY <2>1, <2>2, EmptyPiece DEF Received
  <2>5. Undecided(Received)'
    BY <2>1, <2>4, Zenon DEF Undecided
  <2> QED
    BY <2>1, <2>3, <2>5 DEF ReadInv
<1>2. CASE ~m_linger
  BY <1>2 DEF Answer, parseVars, BufferInv, ReadInv, m_read_idx
<1> QED
  BY <1>1, <1>2

\* A connection starts with nothing read.
LEMMA ReadInvInit == Init => BufferInv /\ ReadInv
<1> SUFFICES ASSUME Init PROVE BufferInv /\ ReadInv
  OBVIOUS
<1>1. /\ base = 0 /\ pc = "recv" /\ ret = "NO_REQUEST" /\ m_read_buf = << >>
      /\ m_checked_index = 0 /\ m_start_line = 0
      /\ m_check_state = "CHECK_STATE_REQUESTLINE" /\ m_content_length = 0 /\ m_linger = FALSE
      /\ stream \in Seq(Symbols)
  BY StreamTyped DEF Init
<1>2. m_read_idx = 0 /\ base \in Nat
  BY <1>1 DEF m_read_idx
<1>3. BufferInv
  BY <1>1, <1>2 DEF BufferInv
<1>4. NoLineFrom(Received, 0)
  BY <1>1, <1>2, EmptyPiece DEF Received
<1>5. Undecided(Received)
  BY <1>1, <1>4, Zenon DEF Undecided
<1> QED
  BY <1>1, <1>3, <1>5 DEF ReadInv

\* Every step keeps what the parser knows true.
LEMMA ReadInvStep ==
  ParserInv /\ BufferInv /\ ReadInv /\ [Next]_vars => (BufferInv /\ ReadInv)'
<1> SUFFICES ASSUME ParserInv, BufferInv, ReadInv, [Next]_vars PROVE BufferInv' /\ ReadInv'
  OBVIOUS
<1>1. CASE Receive
  BY <1>1, BufferReceive, ReceiveReads
<1>2. CASE ReceiveFull
  BY <1>2 DEF ReceiveFull, parseVars, BufferInv, ReadInv, m_read_idx
<1>3. CASE TurnBody
  BY <1>3, BufferTurns, BodyReads
<1>4. CASE TurnLine
  BY <1>4, BufferTurns, LineReads
<1>5. CASE TurnEnds
  <2>1. PICK i \in 0..m_read_idx : ScanStops(i) /\ m_checked_index' = i
    BY <1>5 DEF TurnEnds, LineOpen, LineBad
  <2>2. \A j \in m_start_line..i : j > 0 => m_read_buf[j] \notin {CR, LF}
    BY <2>1, ScannedClean
  <2>3. BufferInv'
    BY <1>5, <2>1, <2>2 DEF TurnEnds, BufferInv, m_read_idx
  <2> QED
    BY <1>5, <2>3, EndReads
<1>6. CASE Answer
  BY <1>6, AnswerReads
<1>7. CASE UNCHANGED vars
  BY <1>7 DEF vars, parseVars, BufferInv, ReadInv, Undecided, Decided, Received, Overflows,
     m_read_idx
<1> QED
  BY <1>1, <1>2, <1>3, <1>4, <1>5, <1>6, <1>7 DEF Next

\* What process_read() has learnt of a request, however it was cut into pieces
\* and whatever the connection served before.
THEOREM ParserKnows == Spec => [](BufferInv /\ ReadInv)
BY ReadInvInit, ReadInvStep, ParserInvAlways, PTL DEF Spec

\* process_read() returns for every stream and every way TCP may cut it what
\* the reference says about the characters received, unless the request is
\* malformed or the cut is inside the body.
THEOREM CutsDoNotMatter == Spec => []CutIndependent
<1>1. ParserInv /\ BufferInv /\ ReadInv => CutIndependent
  <2> SUFFICES ASSUME ParserInv, BufferInv, ReadInv, Clean, pc \in {"done", "recv"}
               PROVE  ret = Verdict(Received) \/ (pc = "done" /\ Overflows(m_checked_index))
    BY DEF CutIndependent, Clean
  <2>1. CASE pc = "done"
    BY <2>1 DEF ReadInv, Decided, Clean
  <2>2. CASE pc = "recv"
    <3>1. ret = "NO_REQUEST" /\ Undecided(Received)
      BY <2>2 DEF ReadInv, Clean
    <3>2. Received \in Seq(Symbols) /\ m_start_line \in Nat
      BY ReceivedElements DEF ParserInv, TypeOK
    <3>3. CASE m_check_state = "CHECK_STATE_REQUESTLINE"
      <4>1. NoLineFrom(Received, 0)
        BY <2>2, <3>1, <3>3 DEF Undecided
      <4> QED
        BY <3>1, <3>2, <4>1, VerdictCases
    <3>4. CASE m_check_state = "CHECK_STATE_HEADER"
      <4>1. /\ Started(Received) /\ NoLineFrom(Received, m_start_line)
            /\ \A b \in BlankEnds(Received) : b > m_start_line
        BY <2>2, <3>1, <3>4 DEF Undecided, HeadersRead
      <4>2. \A b \in BlankEnds(Received) : b \in LineEnds(Received) /\ b \in Nat
        BY <3>2, LineEndsApart DEF BlankEnds
      <4>3. BlankEnds(Received) = {}
        BY <3>2, <4>1, <4>2 DEF NoLineFrom
      <4> QED
        BY <3>1, <3>2, <4>1, <4>3, VerdictCases
    <3>5. CASE m_check_state = "CHECK_STATE_CONTENT"
      BY <2>2, <3>1, <3>5 DEF Undecided, BodyMissing
    <3> QED
      BY <3>1, <3>3, <3>4, <3>5 DEF Undecided
  <2> QED
    BY <2>1, <2>2
<1> QED
  BY <1>1, ParserInvAlways, ParserKnows, PTL

\* m_linger says at the end of a request what the request's own headers ask,
\* also when the connection has served other requests before.
THEOREM LingerFromOwnHeaders == Spec => []LingerAsAsked
<1>1. ReadInv => LingerAsAsked
  BY DEF ReadInv, Decided, Asks, LingerAsAsked
<1> QED
  BY <1>1, ParserKnows, PTL

=============================================================================
