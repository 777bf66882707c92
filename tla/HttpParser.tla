----------------------------- MODULE HttpParser -----------------------------
(***************************************************************************)
(* The request parser of http_conn.cpp (process_read and the functions it  *)
(* calls) on one connection, fed by read() with whatever pieces TCP        *)
(* delivers.  One step is one turn of the while loop of process_read().    *)
(*                                                                         *)
(* A symbol stands for one character: CR, LF, NUL, or the text of a line   *)
(* that the parser tells apart.  "GET" is a well-formed request line,      *)
(* "KEEP" the header Connection: keep-alive, a member of DOMAIN Lengths a  *)
(* Content-Length header, and "x" is other text.  Positions count from 0   *)
(* as in the code.                                                         *)
(***************************************************************************)
EXTENDS Integers, Sequences

CONSTANTS
  Streams,           \* what the client may send in all, sequences of symbols
  Lengths,           \* what atol() makes of each Content-Length header
  READ_BUFFER_SIZE,
  INT_MAX

CR == "CR"
LF == "LF"
NUL == "NUL"
Words == {"GET", "KEEP", "x", CR, LF, NUL}
Symbols == Words \cup DOMAIN Lengths

ASSUME ParserAssumption ==
  /\ Streams \subseteq Seq(Symbols \ {NUL})   \* the parser reads C strings
  /\ Lengths \in [DOMAIN Lengths -> Int] /\ DOMAIN Lengths \cap Words = {}
  /\ READ_BUFFER_SIZE \in Nat \ {0}
  /\ INT_MAX \in Nat /\ INT_MAX >= 2 * READ_BUFFER_SIZE

VARIABLES
  stream,            \* what the client sends
  base,              \* how much of it earlier requests have used up
  pc,                \* "recv", "loop" (inside process_read), "done", "closed"
  ret,               \* what process_read() returned last
  m_read_buf,        \* the characters received, 0 .. m_read_idx - 1
  m_checked_index, m_start_line,
  m_check_state, m_content_length, m_linger,
  line_status,
  bodyCut            \* history: process_read() has met an incomplete body

parseVars == <<m_checked_index, m_start_line, m_check_state, m_content_length, m_linger>>
vars == <<stream, base, pc, ret, m_read_buf, parseVars, line_status, bodyCut>>

m_read_idx == Len(m_read_buf)
At(i) == m_read_buf[i + 1]

\* init(): the parsing state of a new connection.
Init ==
  /\ stream \in Streams /\ base = 0
  /\ m_read_buf = << >>
  /\ m_checked_index = 0 /\ m_start_line = 0
  /\ m_check_state = "CHECK_STATE_REQUESTLINE"
  /\ m_content_length = 0 /\ m_linger = FALSE
  /\ pc = "recv" /\ ret = "NO_REQUEST"
  /\ line_status = "LINE_OK" /\ bodyCut = FALSE

-----------------------------------------------------------------------------
(* The reference: what a piece of a stream means, wherever TCP cut it.     *)

LineEnds(d) == {i \in 1..(Len(d) - 1) : d[i] = CR /\ d[i + 1] = LF}

\* Ends of empty lines: the header section stops at the first one.
BlankEnds(d) == {i \in LineEnds(d) : i = 1 \/ i - 2 \in LineEnds(d)}

IsFirst(i, S) == i \in S /\ \A j \in S : i =< j

\* The lines of d, each from a to its CR at e.
LineStarts(d) == {1} \cup {i + 2 : i \in LineEnds(d)}
IsLine(d, a, e) ==
  /\ a \in LineStarts(d) /\ e \in LineEnds(d) /\ a =< e
  /\ \A k \in LineEnds(d) : ~(a =< k /\ k < e)

\* One of the lines up to position n is such a line.
HasLine(d, n, P(_)) ==
  \E a \in LineStarts(d), e \in LineEnds(d) :
    IsLine(d, a, e) /\ e =< n /\ P(SubSeq(d, a, e - 1))

Declares(line) == line # << >> /\ Head(line) \in DOMAIN Lengths
Keeps(line) == line = <<"KEEP">>

\* A long stored in an int keeps its low bits.
toInt(n) == ((n + INT_MAX + 1) % (2 * (INT_MAX + 1))) - (INT_MAX + 1)

LengthOf(line) == toInt(Lengths[Head(line)])
BodyLengths == {0} \cup {toInt(Lengths[h]) : h \in DOMAIN Lengths}

\* The lines up to n that give a length, and the last of them.
Declaring(d, n, a, e) == IsLine(d, a, e) /\ e =< n /\ Declares(SubSeq(d, a, e - 1))
LastDeclared(d, n, a, e) ==
  /\ Declaring(d, n, a, e)
  /\ \A b \in LineStarts(d), f \in LineEnds(d) : Declaring(d, n, b, f) => f =< e

IsLength(d, n, len) ==
  \/ ~HasLine(d, n, Declares) /\ len = 0
  \/ \E a \in LineStarts(d), e \in LineEnds(d) :
       LastDeclared(d, n, a, e) /\ len = LengthOf(SubSeq(d, a, e - 1))

BodyLength(d, n) == CHOOSE len \in BodyLengths : IsLength(d, n, len)

\* A CR without LF or a LF without CR somewhere in the header section.
Malformed(d) ==
  LET Inside(i) == \A b \in BlankEnds(d) : i =< b + 1 IN
  \E i \in DOMAIN d :
    /\ Inside(i)
    /\ \/ d[i] = CR /\ i < Len(d) /\ d[i + 1] # LF
       \/ d[i] = LF /\ (i = 1 \/ d[i - 1] # CR)

\* The request line must be well formed, an empty line ends the headers, and
\* the declared body must be there in full.
Verdict(d) ==
  IF \E e \in LineEnds(d) : IsFirst(e, LineEnds(d)) /\ SubSeq(d, 1, e - 1) # <<"GET">>
  THEN "BAD_REQUEST"
  ELSE IF \E b \in BlankEnds(d) : IsFirst(b, BlankEnds(d)) /\ Len(d) >= b + 1 + BodyLength(d, b)
  THEN "GET_REQUEST"
  ELSE "NO_REQUEST"

\* The headers are complete and the body is not.
BodyOpen(d) == BlankEnds(d) # {} /\ Verdict(d) = "NO_REQUEST"

\* What this request has received so far.
Received == SubSeq(stream, base + 1, base + m_read_idx)

-----------------------------------------------------------------------------
(* read(), called by the main thread, then process() by a worker           *)

\* A piece of the stream arrives and leaves room in the buffer.
Receive ==
  /\ pc = "recv"
  /\ \E n \in 1..(Len(stream) - base - m_read_idx) :
       /\ m_read_idx + n < READ_BUFFER_SIZE
       /\ m_read_buf' = m_read_buf \o SubSeq(stream, base + m_read_idx + 1, base + m_read_idx + n)
  /\ bodyCut' = (bodyCut \/ BodyOpen(Received))
  /\ pc' = "loop" /\ line_status' = "LINE_OK"
  /\ UNCHANGED <<stream, base, ret, parseVars>>

\* The piece fills the buffer: recv() is then asked for nothing, returns 0,
\* read() reports failure and main() closes the connection.
ReceiveFull ==
  /\ pc = "recv"
  /\ Len(stream) - base >= READ_BUFFER_SIZE
  /\ pc' = "closed"
  /\ UNCHANGED <<stream, base, ret, m_read_buf, parseVars, line_status, bodyCut>>

-----------------------------------------------------------------------------
(* parse_line(): i is the first position from m_checked_index on that      *)
(* holds CR or LF, or m_read_idx if none does.                             *)

ScanStops(i) ==
  /\ i \in m_checked_index..m_read_idx
  /\ \A j \in m_checked_index..(i - 1) : At(j) \notin {CR, LF}
  /\ i < m_read_idx => At(i) \in {CR, LF}

\* LINE_OPEN: no line end yet, or a CR whose successor has not arrived.
LineOpen(i) ==
  /\ ScanStops(i)
  /\ i < m_read_idx => (At(i) = CR /\ i + 1 = m_read_idx)

\* LINE_OK: CR LF, or an LF whose CR was passed before (which cannot happen:
\* the scan never moves past a CR).
LineOk(i) ==
  /\ ScanStops(i) /\ i < m_read_idx
  /\ IF At(i) = CR
     THEN i + 1 < m_read_idx /\ At(i + 1) = LF
     ELSE i > 1 /\ At(i - 1) = CR

LineBad(i) == ScanStops(i) /\ ~LineOpen(i) /\ ~LineOk(i)

\* Mutant: the position of the LF taken for that of the CR.
CrAt_Lf(i) == i + 1

\* Where the CR of the line end at i is.
CrAt(i) == IF At(i) = CR THEN i ELSE i - 1

\* The buffer with positions a and a + 1 set to '\0'.
Cut(a) == [m_read_buf EXCEPT ![a + 1] = NUL, ![a + 2] = NUL]

-----------------------------------------------------------------------------
(* process_read()                                                          *)

\* Mutant: the status of the last line is returned for the code.
Return_Status(r) == ret' = line_status /\ pc' = IF r = "NO_REQUEST" THEN "recv" ELSE "done"

Return(r) == ret' = r /\ pc' = IF r = "NO_REQUEST" THEN "recv" ELSE "done"
Continue == UNCHANGED <<ret, pc>>

parse_request_line(line) ==
  /\ IF line = <<"GET">>
     THEN m_check_state' = "CHECK_STATE_HEADER" /\ Continue
     ELSE UNCHANGED m_check_state /\ Return("BAD_REQUEST")
  /\ UNCHANGED <<m_content_length, m_linger>>

\* Mutant: only the start of the header's value is compared.
isKeepAlive_Prefix(line) == Head(line) = "KEEP"

isKeepAlive(line) == line = <<"KEEP">>

\* An empty line ends the headers; a message body may have to follow.
parse_headers(line) ==
  \/ /\ line = << >>
     /\ IF m_content_length # 0
        THEN m_check_state' = "CHECK_STATE_CONTENT" /\ Continue
        ELSE UNCHANGED m_check_state /\ Return("GET_REQUEST")
     /\ UNCHANGED <<m_content_length, m_linger>>
  \/ /\ line # << >>
     /\ m_linger' = (m_linger \/ isKeepAlive(line))
     /\ m_content_length' = IF Head(line) \in DOMAIN Lengths THEN LengthOf(line) ELSE m_content_length
     /\ UNCHANGED m_check_state /\ Continue

\* The int sum m_content_length + m_checked_index of parse_content().
Overflows(k) == m_content_length + k > INT_MAX

\* Mutant: the end of the body compared with >.
BodyComplete_Strict(k) == m_read_idx > m_content_length + k

\* Mutant: a body is taken to be complete at once.
BodyComplete_Always(k) == TRUE

\* The test of parse_content(), the sum taken exactly.
BodyComplete(k) == m_read_idx >= m_content_length + k

\* Mutant: the loop goes on with the incomplete body.
statusAfterBody_Ok == "LINE_OK"

statusAfterBody == "LINE_OPEN"

\* get_line(), for a line whose end parse_line() has just moved to k.
Line(k) == SubSeq(m_read_buf, m_start_line + 1, k - 2)

\* The switch for a line of which parse_line() left buffer b and position k.
\* When the sum of parse_content() overflows the outcome is undefined: it wraps
\* to a negative number and the test holds, or is compared as if it did not.
\* (Where parse_content() writes '\0' is the subject of TerminatorInBounds.
\* What the write destroys is left out: the parser reads nothing of it again
\* before init(); a negative length may spoil the file name do_request() uses.)
TakeLine(b, k) ==
  /\ m_read_buf' = b
  /\ m_checked_index' = k /\ m_start_line' = k
  /\ CASE m_check_state = "CHECK_STATE_REQUESTLINE" ->
            parse_request_line(Line(k)) /\ line_status' = "LINE_OK"
       [] m_check_state = "CHECK_STATE_HEADER" ->
            parse_headers(Line(k)) /\ line_status' = "LINE_OK"
       [] m_check_state = "CHECK_STATE_CONTENT" ->
            /\ \/ /\ BodyComplete(k) \/ Overflows(k)
                  /\ Return("GET_REQUEST") /\ UNCHANGED line_status
               \/ /\ ~BodyComplete(k)
                  /\ Continue /\ line_status' = statusAfterBody
            /\ UNCHANGED <<m_check_state, m_content_length, m_linger>>
  /\ UNCHANGED <<stream, base, bodyCut>>

\* The first operand of the loop condition: a body is not cut into lines.
InBody == m_check_state = "CHECK_STATE_CONTENT" /\ line_status = "LINE_OK"

TurnBody == pc = "loop" /\ InBody /\ TakeLine(m_read_buf, m_checked_index)

TurnLine ==
  /\ pc = "loop" /\ ~InBody
  /\ \E i \in 0..m_read_idx : LineOk(i) /\ TakeLine(Cut(CrAt(i)), CrAt(i) + 2)

\* The loop ends: no complete line.  LINE_BAD is treated like LINE_OPEN.
TurnEnds ==
  /\ pc = "loop" /\ ~InBody
  /\ \E i \in 0..m_read_idx :
       \/ LineOpen(i) /\ line_status' = "LINE_OPEN" /\ m_checked_index' = i
       \/ LineBad(i) /\ line_status' = "LINE_BAD" /\ m_checked_index' = i
  /\ Return("NO_REQUEST")
  /\ UNCHANGED <<stream, base, m_read_buf, m_start_line, m_check_state, m_content_length,
                 m_linger, bodyCut>>

\* The response has been written: write() calls init() on a kept connection,
\* which forgets what was received beyond the request, or closes it.
Answer ==
  /\ pc = "done"
  /\ IF m_linger
     THEN /\ base' = base + m_read_idx
          /\ pc' = "recv" /\ bodyCut' = FALSE
          /\ ret' = "NO_REQUEST"
          /\ m_read_buf' = << >>
          /\ m_checked_index' = 0 /\ m_start_line' = 0
          /\ m_check_state' = "CHECK_STATE_REQUESTLINE"
          /\ m_content_length' = 0 /\ m_linger' = FALSE
     ELSE /\ pc' = "closed"
          /\ UNCHANGED <<base, ret, m_read_buf, parseVars, bodyCut>>
  /\ UNCHANGED <<stream, line_status>>

Next ==
  \/ Receive \/ ReceiveFull
  \/ TurnBody \/ TurnLine \/ TurnEnds
  \/ Answer

Spec == Init /\ [][Next]_vars

\* A worker that runs process_read() keeps running.
FairSpec == Spec /\ WF_vars(TurnBody \/ TurnLine \/ TurnEnds)

-----------------------------------------------------------------------------
TypeOK ==
  /\ stream \in Streams /\ base \in Nat
  /\ pc \in {"recv", "loop", "done", "closed"}
  /\ ret \in {"NO_REQUEST", "GET_REQUEST", "BAD_REQUEST"}
  /\ m_read_buf \in Seq(Symbols)
  /\ m_checked_index \in Nat /\ m_start_line \in Nat
  /\ m_content_length \in (-INT_MAX - 1)..INT_MAX
  /\ m_check_state \in {"CHECK_STATE_REQUESTLINE", "CHECK_STATE_HEADER", "CHECK_STATE_CONTENT"}
  /\ m_linger \in BOOLEAN /\ bodyCut \in BOOLEAN
  /\ line_status \in {"LINE_OK", "LINE_OPEN", "LINE_BAD"}

\* The positions of the parser never overtake one another nor leave the
\* buffer, whatever the client sends and however TCP cuts it.
IndexOrder ==
  /\ m_start_line =< m_checked_index
  /\ m_checked_index =< m_read_idx
  /\ m_read_idx =< READ_BUFFER_SIZE

\* Where parse_content() writes '\0': text[m_content_length].
terminator == m_start_line + m_content_length

\* The '\0' that parse_content() writes goes outside m_read_buf exactly for two
\* kinds of Content-Length, which nothing rejects: one so negative that it
\* points in front of the buffer, and one so large that the sum overflowed.
\* Every other body ends inside what was received.
TerminatorInBounds ==
  [][(m_check_state = "CHECK_STATE_CONTENT" /\ pc = "loop" /\ pc' = "done")
       => /\ terminator \in 0..(READ_BUFFER_SIZE - 1)
               <=> terminator >= 0 /\ ~Overflows(m_checked_index')
          /\ terminator =< m_read_idx \/ Overflows(m_checked_index')]_vars

\* process_read() says about a well-formed request what it would say had the
\* request come in one piece, wherever TCP cut it, unless the cut is inside
\* the body; an overflowed sum may end a body that has not come.
CutIndependent ==
  (pc = "done" \/ (pc = "recv" /\ m_read_buf # << >>))
    => \/ Malformed(Received) \/ bodyCut
       \/ pc = "done" /\ Overflows(m_checked_index)
       \/ ret = Verdict(Received)

\* Whether the connection stays open is what the request's own headers say.
LingerAsAsked ==
  (pc = "done" /\ ret = "GET_REQUEST" /\ ~Malformed(Received) /\ ~bodyCut) =>
    \E b \in BlankEnds(Received) :
      IsFirst(b, BlankEnds(Received)) /\ (m_linger <=> HasLine(Received, b, Keeps))

\* Every process_read() ends.
ProcessReadEnds == (pc = "loop") ~> (pc # "loop")

\* http_conn.cpp:355: parse_content() decides whether the body has been read
\* in full; NO_REQUEST (http_conn.h:39) means that the request is incomplete.
BodyRecognised ==
  (pc = "recv" /\ m_read_buf # << >> /\ ~Malformed(Received))
    => Verdict(Received) = "NO_REQUEST"
=============================================================================
