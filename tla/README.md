# Verification of the Backend-lab servers

TLA+ models of the servers of this repository, checked with TLC on small
instances and, where it pays, proved with TLAPS for all instances.
`PROJECT.json` holds the list of components, runs, mutants, hazards and
theorems, and for every definition the source lines it models.

## 1. The system

The repository is a series of independent servers. Third-party code (Boost,
jsoncpp, webbench) is not modelled.

| Component | State | Operations | Interaction |
|---|---|---|---|
| `1. Proactor/threadpool.h`, `locker.h` | request list, mutex, semaphore, stop flag | `append`, `run`, destructor | main thread appends, detached workers run |
| `1. Proactor/main.cpp`, `http_conn` life cycle | `users[]`, epoll registrations, descriptor table, `m_user_count` | accept, hang-up, read, write, `process`, `closeconn` | main thread and workers share `users[]`; only EPOLLONESHOT keeps them apart |
| `1. Proactor` request parser | read buffer, three indices, two state machines | `read`, `process_read`, `parse_*` | called by a worker once per batch of bytes |
| `1. Proactor` response writer | write buffer, `m_iv`, mapped file | `process_write`, `write` | filled by a worker, sent by the main thread |
| `2. AsyncServer` | session map, send queue | read/write handlers | one thread |
| `3. AsyncServerIOservicepool` `LogicSystem` | message queue, mutex, condition, stop flag | `PostMsgToQue`, `DealMsg`, destructor | pool threads post, one worker deals |
| `3. …` `Session`, `Server` | send queue, outstanding read and write, map of sessions | accept, read head, read body, `Send`, `HandleWrite`, `Close`, `ClearSession` | io thread, logic thread and main thread |
| `3. …` `AsioIOServicePool` | contexts, work guards, threads, round-robin index | `GetIOService`, `Stop` | main thread |
| `4. CoroutineAsyncServer` | as 3, the reads in a coroutine | coroutine `Start`, `Send`, `Stop` | as 3 |
| `main()` of 3 and 4 | signal set, pool, server | start, signal, `Stop`, return, `~LogicSystem` | main thread against pool and logic threads |
| `5. HTTPserver` | one request, deadline timer | read, respond, deadline | one thread, three handlers per connection |
| `6. WebSocketServer` | connection map, send queue | accept, upgrade, read, `AsyncSend`, `SendCallBack` | one thread |

What is hard in this code: a request list with two synchronisation objects; a
connection object that two threads use one after the other with no lock at all;
descriptors that are closed and reused while a batch of events refers to them;
a parser that is resumed wherever TCP cut the request; a condition variable
notified only on the change from 0 to 1; a stop flag set without the mutex; a
write chain that two threads drive; sessions that end while they are being
registered; a response sent in pieces by a loop that does not advance its
buffers; a deadline that expires while another handler is queued; connections
that only the `shared_ptr`s of their handlers keep alive; a shutdown that joins
threads inside a signal handler. The `hazards` of `PROJECT.json` list each of these at its line.

## 2. Modules

* `TaskQueue` — what the pool promises: a bounded FIFO, each request to one worker.
* `ThreadPool` — the pool itself, one action per statement another thread can see
  (`AppendLock`, `AppendPush`, …, `RunWait`, `RunPop`, …). `sem_wait` may be
  interrupted (`RunInterrupted`), and `run` ignores that. Refines `TaskQueue`.
* `Proactor` — the web server on top of `TaskQueue` (`INSTANCE`): clients, the
  kernel's descriptor table, backlog and epoll state, `users[]`, the batch of
  events the loop works through, and workers. `process()` is two actions: the
  work, and the final `modifyfd()`, after which the main thread may touch the
  object again. A client's bytes are chunks that complete a request or do not.
  `initAll` contains the `bzero` that runs over the end of the object.
  `AcceptFails` is `users[-1]`; a worker inside `do_request()` holds a descriptor
  too (`Opening`), so it can come before all connections are taken.
* `HttpParser` — `process_read()` on one connection, fed with arbitrary pieces.
  A symbol is CR, LF, or the text of a line the parser tells apart; one step is
  one turn of the loop. `Lengths` gives the number `atol()` makes of each
  Content-Length header, any long; `toInt` is its store into an `int`, and the sum
  of `parse_content()`, when it overflows, has both outcomes. `Verdict` and
  `Malformed` are the reference: what a request means without any cut.
* `LogicSystem` — `PostMsgToQue`, `DealMsg` with the mutex, the condition
  variable (spurious wakeups included) and the destructor, which runs after the
  posting threads have ended (`main` joins the pool first).
* `Session` — server, sessions and logic thread of project 3. One action is one
  handler; handlers of one session run on one thread, and `_send_lock` makes
  `Send` and the body of `HandleWrite` exclusive. `HandleAccept` is two actions,
  because `Start()` lets the io thread run before `insert()`. An operation that
  was started on a closed socket can only fail (`doomed`); one that was started
  before the close may still succeed. The logic thread is the FIFO that
  `LogicSystem` shows it to be.
* `CoroutineSession` — extends `Session` with the reading coroutine of project 4;
  the variable `coroutine` says which of the two servers runs. The coroutine
  differs from the handlers in three ways: it tests `_b_close` before the next
  head, it leaves an id or length that is too large with `ClearSession()` but
  without `Close()`, and its errors are exceptions. `Send()`, `HandleWrite()`,
  the server and the logic thread are the same code.
* `Shutdown` — `LogicSystem` composed with the I/O service pool and `main()`.
  `LogicSystem` assumes that nobody posts any more when its destructor runs; here
  the posting threads are those of the pool, a session keeps `run()` from
  returning, a signal runs `Stop()`, and `~LogicSystem()` runs when `main()` has
  returned (`ExitSets`). `stops` distinguishes the `Stop()` of project 4, which
  also stops the contexts. That `Shutdown` implements `LogicSystem`'s
  specification is a property, so the assumption and the proofs carry over.
* `HttpWrite` — what `Proactor` leaves out of `write()`: the lengths in `m_iv`,
  the two counters, the room in the socket, `EAGAIN`, and the mapped file with its
  failures: an empty file is mapped to `MAP_FAILED` (`BadAddress`), and every
  `writev()` on it fails with `EFAULT`. `process()` is one action here; the main thread's loop is one action
  per `writev()`. The branch for `m_write_idx == 0` cannot be reached:
  `process_write()` always leaves a head.
* `BeastHttp` — project 5. An operation completes in one step and its handler
  runs in a later one, so that a deadline can fall in between and `cancel()` come
  too late. A connection lives as long as an operation or the timer is
  outstanding (`Alive`).
* `EchoServers` — projects 2 and 6, which have the same shape (`server` says
  which one runs): a queue whose front is written, a map, and handlers that hold
  `shared_ptr`s. `SendCallBack()` passes a buffer of its own argument, so a write
  may send `Garbage`. A failed read also fails a WebSocket stream (`failed`), as
  Beast does, and its writes are aborted.
* `MCProactor`, `MCHttpParser` — constants for TLC. The other modules have
  constants that a cfg can give directly.
* `ThreadPoolProofs`, `HttpParserProofs`, `LogicSystemProofs` (with `Shutdown`),
  `SessionProofs` (both servers), `HttpWriteProofs`, `BeastHttpProofs`,
  `EchoServersProofs`, `ProactorProofs` — proofs.

Operators named `X_Something` directly before `X`, marked *Mutant*, are
plausible mistakes; each property is known to fail when its mutant replaces `X`.

## 3. Runs that pass

| Run | Instance | Shows |
|---|---|---|
| `pool` | 2 workers, 2 tasks, limit 1, 2 interrupts | mutual exclusion on the list, no lost wakeup, refinement of `TaskQueue`, accepted requests are served |
| `proactor` | 2 workers, 2 clients, 2 descriptors, limit 1 | one owner per connection, events are for the connection they were reported for, no connection is forgotten, exact user count, a response is ready and mapped when `write()` runs, replies only to one's own requests, a complete request is answered or its connection closed |
| `parser` | 195 streams, all cuts, a buffer some streams overflow, lengths that are negative, repeated, truncated or overflow | order of the indices, verdict independent of cuts, `keep-alive` as asked, which lengths put the terminator outside the buffer, `process_read()` ends |
| `shutdown` | 2 pool threads, 3 messages, both `Stop()`s | worker never asleep with work, each message once and in order, exit only when drained, posted messages are handled, `Shutdown` implements `LogicSystem`, a signal ends the process |
| `session` | 2 sessions, 2 contexts, MAX_SENDQUE 1, 3 frames, projects 3 and 4 | one chain of writes: one at a time, on a live buffer, never stalled, never more than `Send()` lets in; order of replies, exact map of sessions, departed peers are released |
| `echo` | 1 connection, 5 messages, MAX_SENDQUEUE_SIZE 1, projects 2 and 6 | echoes in order, none twice, none lost when the session leaves the map, ended connections are destroyed |
| `beast` | 2 connections, 5 kinds of request | a request stays unanswered only when its client left or its deadline passed; every connection is released |
| `httpwrite` | heads of 2 and 5 bytes, files of 0 and 3, 7 bytes of room, 2 responses | a file is mapped as long as it is being sent, each file is unmapped once except after a hang-up, `write()` always returns |

Bounds. Two workers and two tasks give every interleaving of a pop with a push
and of two pops; limit 1 makes the queue reach its limit and overflow it. Two
clients make a descriptor be closed and reused inside one batch of events (what
three or more do is covered by the proofs only), and one client may send
two requests on a kept connection or one in two pieces. In `proactor` the queue
has room for every open connection and no two connections have neighbouring
descriptors (descriptor 6 is taken by an inherited file): the two cases left out
are the full queue of section 4 and the run `sockfd_overrun`, and everything else
the run shows holds only outside of them. `MAX_FD` is larger than every descriptor, as in the program
(65535 against a default limit of 1024), so the refusal at `MAX_FD` users is not
reached. In `session` three frames fill a queue of limit 1 and overflow it; session objects
are handed out in a fixed order, since they are all alike. `echo` has one
connection: handlers of different connections share one thread and a map keyed
by uuid, and nothing else; five messages overflow the queue. In `httpwrite` the
larger head does not fit together with the file, the smaller one does, a second
`write()` follows an `EAGAIN`, and a second response follows on the same
connection or on the next one with this descriptor. In `beast` two connections
share the counter of `/count`.
In `parser` an `int` holds -64 to 63 and the buffer 16 characters, so that
lengths behind the buffer, in front of it, and at the overflow all occur.

Fairness. A thread that can take a step takes it (WF per statement, or per
thread); taking a mutex is SF, since a waiter that finds it free again and again
gets it. In `proactor`, `write()` succeeds if it is tried again and again
(SF): a client that waits for its reply keeps reading. In `session` only the
handlers of a connection whose peer left or whose socket is closed are fair, because asio then completes
its operations; a write to a peer that stays and does not read may wait for
ever. In `shutdown` the main thread, the pool threads and the logic thread run;
no client has to leave and no signal has to come. In `beast` queued handlers run
and 60 seconds pass; clients do nothing unless they like. In `echo` handlers run
and a client that has not reset the connection goes on reading, otherwise TCP
lets the server wait for ever. In `httpwrite` only the thread inside `write()` is
fair. Clients, interrupts, spurious wakeups and shutdown are never forced.

Deadlock is checked in `pool`. In the other runs the clients stop after their
last message, and the servers then rightly wait.

## 4. Runs that show a disagreement

| Run | What happens |
|---|---|
| `sockfd_overrun` | `init()` clears 2048 bytes of a 1024-byte buffer: the connection on the next descriptor loses its `m_sockfd` |
| `body_split` | a body in two pieces is never recognised: `parse_line()` has moved `m_checked_index` into it |
| `response_cut` | after a `writev()` that took less than it was offered, the response is sent again from its first byte, or ends early and counts as sent |
| `stop_hangs` | `_b_stop` is set between the worker's test and its `wait()`: the only notification is missed and `join()` waits for ever |

Weaknesses that the properties of the passing runs name as their exceptions, or
that the bounds avoid:

* `append()` tests `size() > m_maxrequestnum` before the push: the queue holds one
  request more than the comments at `threadpool.h:22`, `:48` and `:93` say.
  `QueueBounded` proves that `m_maxrequestnum + 1` is never exceeded; `pool` fills
  the queue to that point.
* `Session::Send()` tests the same way: `SendChain` bounds `_send_que` by
  `MAX_SENDQUE + 1`, although the log at `Session.cpp:39` names `MAX_SENDQUE` as
  the size.
* Content-Length is `atol()` stored in an `int` and never checked
  (`http_conn.cpp:342`). A negative one ends the request at once, and the `'\0'` of
  `parse_content()` then falls on the header text, file name included, or in front
  of the buffer; one so large that the sum at `:357` overflows may end it
  behind the buffer. `TerminatorInBounds` says that these are the only ways out.
* When `append()` refuses a request, `main()` ignores it; nobody re-arms or closes
  the disarmed descriptor. `NoOrphan` holds in `proactor` because the queue has
  room for every open connection.
* The listener is edge-triggered and `accept()` is called once per event: the
  second of two simultaneous connections waits for a third.
* `late` in `RegistryMatches`: sessions cleared before `HandleAccept()` inserted
  them stay in `_sessions` for ever.
* An empty file cannot be mapped, `m_iv` then holds `MAP_FAILED`, `writev()` fails
  with `EFAULT` and the client is disconnected without an answer.
* `leaks` in `MappingsAccounted`: a hang-up between `process()` and the end of
  `write()` leaves the file mapped.
* `Garbage` in `EchoesInOrder`: `SendCallBack()` of project 6 sends from memory
  that may have been freed; and a failed read there gives up the queue.
* `ShutdownEnds` needs `served = {}` in project 3: while a client stays connected
  `join()` does not return, and a second signal finds no handler.
* `ListenFails`: a taken port ends projects 3 and 4 in `std::terminate()`, since
  the pool's threads are still joinable.

## 5. Proofs

All theorems hold for every value of the constants that satisfies the named
`ASSUME`s, and have no unproved leaf.

* `ThreadPoolProofs`: `PoolInv` (types; the mutex is held exactly by the thread
  between `lock` and `unlock`; a local pointer is set exactly while it is used)
  is inductive. From it `TypeCorrect`, `MutexCorrect`, `QueueBounded`;
  `PoolImplementsTaskQueue` by step simulation (push = `Accept`, pop = `Take`,
  end of `process` = `Finish`, everything else stutters); `WakeupNeverLost` by an
  accounting of semaphore units against the cardinality of the workers let through.
* `HttpParserProofs`: an inductive invariant on the three indices gives
  `ParserTypeCorrect`, `IndicesInOrder` and, as an action property,
  `TerminatorStaysInside`, for every stream and buffer size and every length a
  client may send: the terminator leaves the buffer exactly for a length that
  points in front of it and for a sum that overflows, and otherwise stays inside
  what was received.
  `CutsDoNotMatter` and `LingerFromOwnHeaders` compare with the reference, whose
  definitions are sets of positions: the parser's own steps are all the induction
  needed. `BufferInv` ties the buffer behind `m_start_line` to the stream (line ends
  before it have been overwritten) and says that nothing scanned is a line end;
  `ReadInv` says what each `m_check_state` has learnt: after the request line, that
  `m_content_length` and `m_linger` are those of the lines in front of
  `m_start_line` and no empty line is among them; in the body, where it starts.
  When more arrives, line ends stay where they are and a malformed request stays
  malformed (`ExtendLineEnds`, `ExtendMalformed`, `ExtendHeaders`); a line that is
  taken adds one line to the reference's (`OneMoreLine`, `OneMoreLength`: the last
  length wins). A sum that overflows may end a body that has not come;
  `CutIndependent` exempts that one case. Before it was proved,
  `ReadInv` was checked by TLC over all streams of three to five symbols out of GET, x,
  CR and LF, all of a request line and four or five arbitrary symbols, and all of a
  request with a body of up to four. `ParserAssumption` excludes NUL from the streams: `get_line()`
  is a C string, and what follows a NUL inside a line is outside of the model.
* `LogicSystemProofs`: `LogicInv` adds to the types who holds the mutex
  (`Discipline`) and what the worker has learnt about the queue under it
  (`QueueKnown`: empty at `block`, not empty at `take`, empty or notified when
  asleep). `NeverAsleepWithWork` and `FrontDefined` are not inductive without
  these. `OrderKept` uses two lemmas on sequences (append as concatenation, head
  and tail); `ExitsDrained` follows from it.

* `LogicSystemProofs`, second part: `ShutdownImplements` shows by step simulation
  that the whole process makes only steps of `LogicSystem`. `LogicSystem` assumes
  that nobody posts once its destructor runs; here that follows from `ExitInv`
  (`main()` is past the joins only when no pool thread is left, and the destructor
  runs only then). `ProcessOrderKept` and `ProcessExitsDrained` carry the theorems
  of `LogicSystem` over to the process.
* `SessionProofs` is about `CoSpec`, so about the handlers and the coroutine alike.
  `SessionInv` has, beside the types and the property `RegistryMatches` itself:
  what the acceptor holds (`AcceptInv`), that nothing has happened to a session
  before `Start()` (`FreshInv`), that a body belongs to the first unread frame
  (`ReadInv`), that the outstanding write is that of the front of `_send_que` and
  is missing only with an empty queue or a closed socket (`ChainInv`), and that
  replies sent, replies queued, messages with the logic thread and frames still to
  be read form one increasing line (`OrderInv`). `RepliesInOrder` speaks of the
  first two parts of that line only and is not inductive without the others:
  `DealMsg` moves a number from the third part to the second.
* `HttpWriteProofs`: `WriteInv` says who may act and when a file may be mapped
  (`TurnInv`), and what the counters add up to (`CountInv`; they start from the head
  alone, so they do not measure what is left of the response). `FileStaysMapped`:
  however often `EAGAIN` sends the main thread back to `epoll_wait()`, the file of a
  response under way is still mapped when `writev()` reads it. `MappingsKept` is the balance of
  `mmap` and `munmap` over all paths.
* `BeastHttpProofs`: `UnansweredOnlyLate` needs to know where an unanswered request
  is (`AnswerInv`), and that only a deadline closes a socket under an operation
  (`DeadlineInv`). `CountExact` has no run of its own: `count` is the cardinality
  of the connections whose `/count` has been routed.
* `EchoServersProofs`: `EchoLine` relates, for one connection, the queue, all that
  was ever queued, what was echoed and the outstanding write. Handlers are reduced
  to five effects on such a line; each effect keeps it.
* `ProactorProofs`: `ProactorInv` is the types; that `file` and the clients'
  states agree (`ConnInv`); that the four places where a connection can be —
  armed, in the batch, in the request list, at a worker — exclude each other, hold
  it once and hold only open connections (`OwnerInv`); `WorkInv`; `UserCountExact`;
  `EventsFresh`; that whoever is going to write has a response (`ReplyInv`); and
  that the read buffer is the end of what was taken from the client while the
  replies answer requests before it (`LineInv`). The actions are first reduced to
  their effects (`StepEffects`), then each conjunct has one lemma.
  The theorems suppose `[]SockfdMatches`. This cannot be dropped: the `bzero` of the
  private `init()` overruns the object, and run `sockfd_overrun` shows that an
  open connection's `m_sockfd` is lost when the connection below it in `users[]` is
  initialised. `SockfdLostByOverrun` says exactly what the hypothesis costs, for
  all descriptors, neighbours included: `SockfdMatches` holds throughout a
  behaviour if and only if no step initialises a connection while the next
  descriptor belongs to an open one (`Overruns`).
  `ProactorNoOrphan` has the hypothesis `Roomy`: the request list can hold every
  connection (`QueueHasRoom`, by the pigeonhole theorem). With the
  defaults, 10000 requests and 1024 descriptors, it holds; where the limit on
  descriptors is raised, a connection whose `append` is refused is never armed
  again, so the assumption is needed.

`FrontIsDefined` (`front()` on a non-empty queue only) and `CountExact` are proved
and have no run of their own.

Only model-checked: the liveness properties. Fairness is beyond the prover.

## 6. Not modelled

The text of requests and responses and of JSON messages, files and permissions
(`do_request` either finds a file or does not), logging, what the
misplaced terminator of a bad Content-Length destroys, a frame of length -1 in project 4 (its
`MsgNode` writes in front of an empty array), the data race on `Server::_sessions` itself (insert and
erase are taken as atomic), the unlocked use of `_socket` by `Close()` against
`Send()`, the process exit after `~threadpool()`, the order of static destructors
in projects 3 and 4 beyond `~LogicSystem()`, and the message buffers (`MsgNode`),
whose lengths appear as kinds of frames.

Code that is never called: `create_post_response()` of project 5,
`Session::Close()` of project 2, `HandleReadHead()` and `HandleReadBody()` of
project 4, class `cond` of `locker.h`, `2. AsyncServer/src/Session.cpp`.

The example programs, the console clients and webbench are sequential programs
or third-party code; Boost and jsoncpp appear by what the servers rely on.

## 7. Plan

Every part of the servers that has state is modelled, and every safety property
of the passing runs is proved. What is left:

1. `Proactor`: the safety half of `RequestAnswered`, that a request which was read
   is never dropped between the main thread and a worker, as an action property.
2. `ThreadPool` and `Proactor` together: `Proactor` uses `TaskQueue`, which the pool
   implements; a theorem that states both at once.
3. `ProactorProofs`: fewer and shorter steps in `LineStep` and `OwnerStep`.
