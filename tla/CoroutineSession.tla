-------------------------- MODULE CoroutineSession --------------------------
(***************************************************************************)
(* Sessions of 3. AsyncServerIOservicepool and of 4. CoroutineAsyncServer. *)
(* The server of 4 is that of 3 but for the reading side: one coroutine    *)
(* per session in place of two handlers.  It asks _b_close before it reads *)
(* the next head, and leaves a head out of range without closing the       *)
(* socket.  Everything else, Send() and HandleWrite() included, is the     *)
(* same code and is taken from Session.                                    *)
(***************************************************************************)
EXTENDS Session

VARIABLE coroutine   \* the server is that of 4

coVars == <<vars, coroutine>>

-----------------------------------------------------------------------------
(* The coroutine of Session::Start(), on the thread of its io_context      *)

\* co_await of the head, and the checks of id and length.
CoReadHead(s) == HandleReadHead(s)

\* An id or a length that is too large: ClearSession() only.  The socket stays
\* open for what is still to be written.
CoHeadTooLarge(s) ==
  /\ HeadArrives(s) /\ Head(inbox[s]).kind = "badHead"
  /\ read' = [read EXCEPT ![s] = "none"]
  /\ _sessions' = _sessions \ {s} /\ late' = late \ {s}
  /\ UNCHANGED <<acceptVars, open, _recv_msg_node, _send_que, writing, doomed, _msg_que,
                 clientVars, sent>>

\* A length of 0 passes and co_await returns 0 for the body; one below -1 throws
\* in MsgNode().  Both close the session.  (The length -1 is left out: MsgNode()
\* then writes in front of an array of no characters and the body is read into
\* that array, and what follows is undefined.)
CoHeadNoLength(s) == HandleReadBadHead(s)

\* The exception of a co_await that fails.
CoReadError(s) == HandleReadError(s)

\* The condition of the loop: Close() sets _b_close.
goesOn(s) == s \in open

\* The body: posted to the logic thread.  Then the next round, or the end of a
\* coroutine whose session HandleWrite() has closed meanwhile.
CoReadBody(s) ==
  /\ read[s] = "body" /\ <<s, "read">> \notin doomed
  /\ _msg_que' = Append(_msg_que, [session |-> s, frame |-> _recv_msg_node[s]])
  /\ inbox' = [inbox EXCEPT ![s] = Tail(@)]
  /\ read' = [read EXCEPT ![s] = IF goesOn(s) THEN "head" ELSE "none"]
  /\ doomed' = IF goesOn(s) THEN doom(s, "read") ELSE doomed
  /\ UNCHANGED <<acceptVars, _sessions, late, open, _recv_msg_node, _send_que, writing, frames,
                 gone, sent>>

\* HandleWrite(), as in 3.
CoHandleWrite(s) == HandleWrite(s) \/ HandleWriteError(s)

CoHandler(s) ==
  \/ CoReadHead(s) \/ CoHeadTooLarge(s) \/ CoHeadNoLength(s) \/ CoReadError(s)
  \/ CoReadBody(s) \/ CoHandleWrite(s)

-----------------------------------------------------------------------------
CoInit == Init /\ coroutine \in BOOLEAN

AnyHandler(s) == (~coroutine /\ Handler(s)) \/ (coroutine /\ CoHandler(s))

CoNext ==
  /\ \/ HandleAcceptStart \/ HandleAcceptInsert \/ HandleAcceptError
     \/ \E s \in Sessions : Client(s) \/ AnyHandler(s)
     \/ DealMsg
  /\ UNCHANGED coroutine

CoSpec == CoInit /\ [][CoNext]_coVars

\* As in Session: the threads run, and operations end whose peer has left or
\* whose socket is closed.
CoFairSpec ==
  /\ CoSpec
  /\ WF_coVars(HandleAcceptInsert /\ UNCHANGED coroutine)
  /\ WF_coVars(DealMsg /\ UNCHANGED coroutine)
  /\ \A s \in Sessions :
       WF_coVars((s \in gone \/ s \notin open) /\ AnyHandler(s) /\ UNCHANGED coroutine)

-----------------------------------------------------------------------------
(* Properties, besides those of Session                                    *)

\* Between Send() on the logic thread and HandleWrite() on the pool thread no
\* reply is overtaken, written twice or forgotten: one write at a time, from a
\* buffer that lives, and one as long as replies wait, of which there are
\* never more than Send() lets in.
SendChain == OneWriteAtATime /\ NoStall /\ SendQueBound
=============================================================================
