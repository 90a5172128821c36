# A TLA+ model of HS-FinancialServices

HS-FinancialServices is a TCP banking service on Boost.Asio (`server/`), a load
generator for it (`load_generator/`) and a Windows dialog client
(`ui_client/`). This directory holds TLA+ modules of its core, configurations
that check them with TLC, and theorems about them checked with TLAPS. Paths and
line numbers below are those of the repository's sources.

    tlc -config MCServer_sessions.cfg MCServer.tla     # one run
    tlapm ServerProofs.tla                             # the proofs of one module

## 1. Inventory of the system

| component | source | state | operations |
|---|---|---|---|
| Server | `server.hpp`, `server.cpp`, `server/src/main.cpp` | acceptor, `ioc_`, threads, `active_connections_`, `total_connections_`, `total_requests_`, `next_session_id_` | `run`, `do_accept` and its handler, `stop`, destruction |
| Session | `session.hpp`, `session.cpp` | socket, `header_buf_`, `current_header_`, `body_buf_`, `write_buf_`, `closed_` | `start`, `do_read_header`, `do_read_body`, `do_write` and their handlers, `close`, `stop` (never called) |
| Router | `service_router.hpp`, `main.cpp:25-46` | table of handlers, constant after start-up | `register_handler`, `dispatch` |
| Services | `server/src/services/*.cpp` | `g_order_counter` (one for all sessions), constant tables | one handler per request type |
| Header codec | `protocol.hpp:88-118`; `MainDlg.cpp:44-70` | none | encode and decode the 8-byte header |
| UI client | `MainDlg.h`, `MainDlg.cpp`, `HSClientApp.cpp` | buttons, `m_socket`, `m_connected`, a worker thread | Connect, Disconnect, Run, Cancel, `WM_WORKER_DONE`, 16 commands |
| Load generator | `client_session.*`, `load_generator/src/main.cpp` | per client: socket, buffers, random state; shared: stop flag, `in_flight` | connect, request loop, `finish`, timer |
| Metrics | `metrics_collector.*` | two counters, samples under a mutex | `record_success`, `record_error`, `compute` |

How they interact. The acceptor makes a `Session` per admitted connection and
hands it a callback that takes one from `active_connections_` when the session
closes. All handlers, of all sessions and of the acceptor, run on a pool of
threads that execute one `io_context`; there is no strand and hardly a lock. A
session calls the router synchronously from its read handlers, the router calls
a service, and the services share nothing but the order counter. Clients talk to
the server only through TCP. The dialog and its worker thread share two plain
members, and posted messages.

What is hard here, and therefore what the properties are about:

* handlers of different sessions and the accept handler interleave on shared
  counters, with a check and an increment that are two steps (`server.cpp:85,88`);
* a session is serialised only by having one operation outstanding, and reuses
  its buffers for every request;
* `close()` may be reached twice for one session, and its callback must not be; it
  closes the socket, for the peer to see, before it gives the place back
  (`session.cpp:134,135`);
* peers pipeline, stop in the middle of a message, reset, do not read;
* the process stops with handlers pending and sessions alive only through them;
* two header codecs, and byte order on two kinds of host;
* two threads of the UI client use one socket, with receive timeouts that leave
  the connection in use.

Correctness, per component. *Server*: the counter is the number of sessions
that are open or not yet through `close()`; never more than `max_connections`; no
connection turned away while there is room; every connection is accepted or turned away; a stopped server
exits. *Session*: one outstanding operation while open and none after; it stays
in step with the stream; the n-th answer answers the n-th request; a complete
request is answered; buffers are stable while in use. *Services*: order numbers
are unique. *Codec*: what an end decodes is what the other meant; a length over
the limit is refused. *UI client*: buttons tell the truth; no socket is lost or
closed twice; an answer is shown for its own request; a command ends. *Load
generator*: every request is counted once as a success or an error, and the test
ends. *Metrics*: a percentile is a percentile, to within one sample.

## 2. Modules

| module | models | status |
|---|---|---|
| `MessageTypes` | the type codes, `type \| 0x8000`, the registered types | done |
| `Service` | what the server promises its clients, without threads, buffers or bytes | done |
| `Server` | acceptor, sessions, router, order counter, shutdown, peers; refines `Service` | done |
| `ServerProofs` | theorems about the places and sessions of `Server` | done |
| `AnswerProofs` | theorems about the requests and answers of `Server` | done |
| `ServiceProofs` | `Server` implements `Service` | done |
| `Wire` | the two codecs in an exchange between a client and the server | done |
| `WireProofs` | theorems about `Wire` | done |
| `UiClient` | dialog thread, worker thread, socket | done |
| `UiClientProofs` | theorems about `UiClient` | done |
| `Scenario` | choice of the next request: weights and random generator | done |
| `Metrics` | the statistics of a test | done |
| `NumberLemmas` | facts about the natural numbers for the proofs | done |
| `MetricsProofs` | lemmas about sizes and the statistics of `Metrics` | done |
| `LoadGen` | clients, timer and report of the load generator, composed with `Service` | done |
| `LoadGenProofs` | theorems about `LoadGen` and `Scenario` | done |
| `MCServer`, `MCWire`, `MCUiClient`, `MCLoadGen` | constants and symmetry for TLC | done |
| `MCScenario` | one client's requests for ever, without bounds | done |

How the modules fit. `Server` shows that the handlers, threads and shutdown of
the server implement `Service`; `LoadGen` runs the load generator's clients
against `Service` alone. What `LoadGen` shows therefore holds against the server,
and against any other that keeps the promise. `LoadGen` extends `Scenario` and
`Metrics`, which are pure.

Every invariant and every action property that a passing run checks, and the
refinement, is also a theorem; only the liveness properties are not. What is left of
the plan: shorter proofs where one argument is made twice (framing in
`AnswerProofs`, the moves of clients in `LoadGenProofs`).

### Server

Grain: a completion handler of a `Session` works on the session's own members, on
its socket, which the peer observes, and on at most one counter that other handlers
use. A handler that does not close takes an order number at most, and is one action.
One that closes is two: `CloseSession` sets `closed_` and
closes the socket, `CloseReturns` is the `fetch_sub` of `on_close_`. Between
them `ops` holds `"close"` and the session is in `Closing`; a peer that saw its
connection closed may connect again and be turned away although no session is open,
and `stop()` may find the thread there. The accept handler reads the counter and adds
to it later and is three actions.

| code | model |
|---|---|
| accept handler, `server.cpp:79-111` | `AcceptAdmit` (check of the limit), `AcceptCount` (`fetch_add`), `AcceptStart` (`make_shared<Session>`, `start`, `do_accept`); `AcceptReject`, `AcceptError`; `AcceptThrow`: `set_option` throws and ends the process |
| handler of `async_read` of a header, `session.cpp:49-70` | `HeaderMalformed`, `HeaderWithoutBody`, `HeaderWithBody`, `ReadFails` |
| handler of `async_read` of a body, `session.cpp:94-101` | `BodyRead`, `ReadFails` |
| handler of `async_write`, `session.cpp:118-125` | `WriteDone`, `WriteFails` |
| `dispatch`, `service_router.hpp:41-57` | `Dispatch`: 404, the handler's answer, or 500 |
| `close` called by a handler, then `~Session` as it loses the last `shared_ptr` | `CloseSession` (`session.cpp:129-134`), `CloseReturns` (135, and the second `close()`, which finds `closed_`) |
| signal, `run`, `~Server` | `Signal`, `Join`, `DestroySession`, `Exit` |
| `active_connections_`, `total_connections_`, `total_requests_`, `g_order_counter` | `active`, `total`, `totalRequests`, `orderCounter` |
| `closed_`, `current_header_`, `write_buf_` | `closed`, `header`, `writeBuf` |
| the outstanding operation of a session, or its handler inside `close()` | `ops` |
| bytes on the way to the server | `stream`: whole headers and bodies, in order |

Peers are modelled by what the server can observe: they connect, send headers
and bodies (pipelining, or stopping between the two), read answers or not, close
or reset. `Window` is the number of answers the kernels hold for a peer that
reads none. Payload lengths are the classes `zero`, `some` and `over` (more than
`kMaxPayloadSize`). A request carries its number (`tag`), which the code does
not have, so that an answer can be traced to its request. A 500 needs a handler
that throws; the present services throw only when memory runs out, and the model
allows it at any time.

### Service, and how Server refines it

`Service` has one connection state per client (`new`, `open`, `closed`), the
sequence of requests sent completely and the sequence of answers. `Open`, `Ask`,
`Reply`, `Hangup` and `Shutdown` are its actions; `Reply` answers the first request
not yet answered, with its response type or an error, and gives an order a number
nobody else was given. It promises no answer. The refinement mapping, at the end
of `Server`, is:

| `Service` | `Server` |
|---|---|
| `asked[c]` | the types of `sent[c]`, without a last header whose body is still to come |
| `answers[c]` | `out[c]` without the tags |
| `link[c]` | `new` while `conn[c]` is; `open` in the backlog, while accepted and in a session that is not closed; otherwise, or when the process is gone, `closed` |
| `up` | the process has neither exited nor crashed |

A request over the limit counts as asked and is never answered. Accepting,
reading, dispatching, the end of a `close()` and joining threads are stuttering steps;
`WriteDone` is `Reply`; the close of a session, a rejection and an aborted accept are `Hangup`;
`Exit` and `AcceptThrow` are `Shutdown`.

### Wire

A value is the sequence of its bytes, so that `htonl` is a reversal on a
little-endian host and `(x >> 24) & 0xFF` is the first byte. `encode_header` and
`decode_header` are the shared codec, `EncodeHeader` and `DecodeHeader` that of
the UI client. A client (either codec, either host; the UI client only on
little-endian Windows) sends one request to a server (shared codec, either host)
and gets one answer.

### UiClient

The dialog's thread handles one message at a time: `OnBnClickedConnect`,
`OnBnClickedDisconnect`, `OnBnClickedRun`, `OnCancel`, `OnWorkerDone`. A worker
thread checks `m_connected`, sends (`SendRequest`, `SendFails`), receives
(`RecvAnswer`, `RecvFails`), runs the batch (`left`), or logs out. `DoDisconnect`
is used by both threads without a lock and is split into `TestSocket`,
`CloseSocket`, `ClearSocket` for each of them. A receive that times out leaves
the socket in use; the ghost variable `health` remembers what that did to the
connection (`late`: an answer may still come; `garbled`: a part of a message was
consumed or sent, and anything may be read afterwards). The server is external:
it answers in order, late or never, or closes. It is assumed to be of the same
wire order as the client (see finding 4).

### LoadGen, Scenario, Metrics

| code | model |
|---|---|
| `do_connect` and its two handlers, `client_session.cpp:43-60` | `Resolved`, `ResolveOrConnectFails`, `Connect` (the kernel), `Connected` (the handler), `ConnectedThrow`: `set_option` throws and ends the process |
| `do_send_request`, `112-133` | `SendRequest`, part of the handlers that call it; `Written`, `SocketFails` |
| `do_read_response_header`, `136-160` | `HeaderRead`, `AnswerRead` (no payload), `HeaderMalformed`, `SocketFails` |
| `do_read_response_body`, `163-175` | `AnswerRead`, then `Recorded`; `SocketFails` |
| `record_success`, `metrics_collector.cpp:13-18` | its `fetch_add` in `AnswerRead`, its `push_back` in `Recorded` |
| `record_error`, `finish` | `Fail`, `Finish` |
| timer, join, report, `main.cpp:90-109` | `TimerFires`, `NoWorkLeft`, `Report` |
| `next_request`, `next_rand` | `NextRequest`, `NextRand`, `Picks` |
| `compute`, `metrics_collector.cpp:34-66` | `Compute` |

The place of a client in its loop is `at`; the code has it in the handler that is
pending. `requested` and `got` are histories. A request written to a socket the
server has closed is lost. The two counters of `Fail` change in one step: nothing
reads them before the threads are joined.

The random generator has 64 bits of state. Its low k bits form a generator of their
own, and fix the remainder of a draw by any power of two up to 2^k, so `Scenario`
keeps the state modulo `RandSize`, a power of two. With a total weight that is a power of two the pick
is exact; otherwise `Picks` allows all picks with the right remainder.

Samples are sorted and summed, so `Metrics` keeps how often each latency occurs.
`Each` is the set of the single samples; the number of samples, the number up to a
latency, and their sum (each sample taken as that many units) are cardinalities,
about which more can be proved than about a fold over the samples.
The index of a percentile is `(p * (n - 1)) / 100` cut to an integer. For few samples
that is too low: P90 of two samples is the smaller one, although
`ARCHITECTURE.md:390` reads it as "90% of requests under this". `PercentilesReached`
says how much is lost at most: of all samples but one, the part is reached.

## 3. Runs

| run | checks | result |
|---|---|---|
| `sessions` | `OneOperation`, `FramingInSync`, `ResponsesInOrder`, `RequestsAccounted`, `OrderIdsUnique`, `BuffersStable`, `DeadPeerDrains`, `ShutdownDrains`, `Implements` | hold |
| `liveness` | `TypeOK`, `CountExact`, `LimitRespected`, `NoSpuriousRejection`, `RequestAnswered`, `BacklogResolved`, `DeadPeerReleased`, `ShutdownCompletes` | hold |
| `wire_agree` | `CodecsAgree` | hold |
| `ui_client` | `TypeOK`, `ButtonsTellTruth`, `SocketsAccounted`, `AnswersMatch`, `CommandDrains`, `CommandEnds` | hold |
| `loadgen` | `TypeOK`, `EveryRequestCounted`, `OwnAnswer`, `ReportComplete`, `LatenciesOrdered`, `PercentilesReached`, `MeanWithin`, `WeightsRespected`, `TimerDrains`, `TestEnds` | hold |
| `requests_counted` | `RequestsCounted` | violated, finding 1 |
| `answer_types` | `AnswerTypesDeclared` | violated, finding 2 |
| `wire_order` | `NetworkByteOrder` | violated, finding 3 |
| `wire_ui` | `UiFramingUnderstood` | violated, finding 4 |
| `ui_closed_once` | `ClosedOnce` | violated, finding 5 |
| `loadgen_duration` | `TimerEndsTest` | violated, finding 6 |
| `loadgen_mix` | `EveryTypeChosen` | violated, finding 7 |

Bounds, and why they are enough to see the interesting cases:

* `sessions`: two connections, both admitted, two order requests each, with and
  without payload. Two sessions are the fewest that race for order numbers; two
  requests are the fewest that reuse the buffers and can be answered in the wrong
  order; a window of one makes a writer wait for its peer. About 3.1 million
  states, a little over two minutes. `Implements` is a safety property, so symmetry of
  the connections is sound here.
* `liveness`: two connections for one place, so that the second is turned away or
  takes the place of the first when that closes while the accept handler is
  between check and increment, or is turned away while the first is inside its
  `close()`; two requests each, of every class of length, of an
  unregistered type (what is asked does not matter here: the order counter never
  blocks). About 596 000 states, without symmetry, three minutes. The
  invariants of this run are theorems, so that larger instances of them need no
  run.
* `wire_agree`: bytes are digits 0, 1, 2 in place of 0 .. 255. The codecs move
  bytes and compare them with the limit, whose digits are 0 and 1; a third digit
  tells "equal" from "over" in each place. The eight lengths are zero, short
  ones, a palindrome, the limit, the next one, and lengths that change sides when
  reversed. The theorems hold for any base, in particular 256.
* `ui_client`: two sockets (a second connection after a Disconnect or Logout),
  three requests, a batch of two in place of twelve: a batch request that fails
  and one after it.
* `loadgen`: two clients, the fewest whose counters and samples interleave; two
  latencies; two answers per connection before the timer fires and as many as
  clients ask for afterwards, so up to three requests of a client and up to six
  samples, enough for P50, P90 and P99 to differ in index. The bound stops the
  server, never a client. The weights 0, 0, 1, 6, 1 have zeros in front and an
  order among the requests; their total is a power of two. About 379 000 states.
* `loadgen_duration`: one client; the counterexample needs one request and no
  answer, so the bound plays no part. `loadgen_mix` has no bound but the 8 bits
  of the generator, whose orbit the counterexample closes; `PicksAlwaysAlike` (section
  6) proves the cause for all weights of this kind.

Deadlock is checked in the runs of `Server`, `UiClient` and `LoadGen`, where the
ends of the processes are the stuttering steps `Gone` and `Closed`; a session that waits for
a silent peer is no deadlock since the peer can always close. An exchange of
`Wire` ends, so its runs do not check deadlock.

## 4. Fairness

`Server`: weak fairness of each session's handlers, of the end of a `close()` that a
thread has begun (it blocks nowhere, and a thread finishes its handler even after
`stop()`), of each step of the accept
handler, and of the shutdown steps. The pool's threads sit in `ioc_.run()`
(`server.cpp:59-62`), which runs every completed handler; no handler blocks on a
lock or on a peer. Peers and signals owe nothing: `RequestAnswered` therefore
excepts a peer that stops reading for good, and a peer that stays silent keeps
its place for ever (there is no idle timeout in the code, see the hazards).

`UiClient`: weak fairness of the worker and of the dialog's message loop. A
blocking `send` or `recv` of the worker returns after at most 10 s
(`MainDlg.cpp:417-426`), so a waiting worker always has a step: an answer or a
failure. The user and the server owe nothing.

`LoadGen`: `FairSpec` has weak fairness of each client's handlers (resolving and
connecting end by themselves, with a result or an error of the kernel), of the timer
and of the report; the server owes nothing, and so `TimerEndsTest` fails.
`AnsweredSpec` adds that a server answers a request or hangs up. This is what
`RequestAnswered` and `DeadPeerReleased` say of the server of this repository for a
peer that reads its answers, as these clients do.

`MCScenario` has weak fairness of its one action: the client goes on.

`Wire` states only safety.

## 5. Findings

1. `requests_counted`: nothing calls `on_request()`, so the server reports zero
   requests; `server.hpp:60` says sessions call it.
2. `answer_types`: a sell order is answered with type 0x8003, which the protocol
   does not define; `trade_service.hpp:8` says both orders get `kOrderAck`
   (0x8002). `ARCHITECTURE.md:74` states the rule the code follows
   (`type | 0x8000`), against its own table of types (78-91).
3. `wire_order`: `encode_header` converts twice, so that on a little-endian host
   headers travel in host order; `protocol.hpp:7-8,87` says network byte order.
   Server and load generator agree with each other on hosts of the same kind, so
   a test of the two on one machine cannot notice.
4. `wire_ui`: the UI client really sends network byte order, and a server on a
   little-endian host does not understand it; `MainDlg.cpp:11-12` says the framing
   is the same.
5. `ui_closed_once`: closing the dialog during a Logout closes the socket twice;
   `MainDlg.cpp:591` calls closing it from the worker safe, and
   `ARCHITECTURE.md:309-311` says that `m_socket` is only modified from the UI
   thread while no worker is running and `m_connected` only read by the worker,
   which a Logout and Cancel do not keep to.
6. `loadgen_duration`: a client that waits for an answer has no timeout and does not
   look at the stop flag, so a silent server keeps the test from ending;
   `main.cpp:90` says the timer stops it.
7. `loadgen_mix`: the low bit of the generator alternates, a query takes two draws
   and an order four, so with equal weights for queries and buy orders client 0
   sends queries only and client 1 buy orders only; `client_session.hpp:7` says the
   type is random, from the configured mix.

## 6. Proofs

Assumed are only the named assumptions on the constants, which TLC evaluates in
every run: `ServerAssumption` and `NoMessageAssumption` (the empty `write_buf_` is
no message), `WireAssumption`, `UiAssumption`, `ScenarioAssumption` (five integer
weights, a power of two) and `LoadGenAssumption` (a number of clients, a finite set
of latencies, a number of answers).

### Server: places and sessions

`ServerProofs` proves for any finite set of connections, any limit, any types
and lengths and any bounds:

| theorem | property |
|---|---|
| `Invariance` | the inductive invariant below |
| `TypeCorrect` | `TypeOK`; in particular the counter never goes below zero |
| `CountIsExact` | `CountExact` |
| `LimitIsRespected` | `LimitRespected` |
| `OneOperationOutstanding` | `OneOperation` |
| `RejectsOnlyWhenFull` | `NoSpuriousRejection` |
| `BuffersAreStable` | `BuffersStable` |
| `ShutdownAlwaysDrains` | `ShutdownDrains` |
| `ExitLeavesNobody` | when the process exits no session is open and the counter is zero |

The inductive invariant `IndInv` is `TypeOK`, `CountExact` and `LimitRespected`
with three strengthenings. `CountExact` counts the open sessions, those inside `close()`
and the one being admitted. `AcceptOwns`: between its check and the start of the
session the accept handler owns a connection that is not yet a session, and only
sessions are ever closed. This is what makes a close by another thread remove a
counted connection and never the one being admitted, and it is why check-then-add
is safe: there is one accept handler, and the others only subtract.
`OperationOf`: an open session has exactly one operation outstanding and its
buffer is filled; any other connection has none, or is a closed session whose handler
is inside `close()` and nothing else. So whoever closes a session is
the last to touch it, `CloseReturns` comes once, and a second callback cannot come. `ItemsSent`: an item in a
stream belongs to a request that was sent, which types the header a session
reads. `BodyAnnounced`, proved beside it, types the item of a body. The step
lemmas (`DispatchInv` to `OtherPeerInv`) treat one action or group each; `CloseInv` keeps the count, as a
session moves from the open to the closing ones, `ReturnInv` takes it down by one
(`CountDrop`), and `AcceptCountInv` up.

`ShutdownDrains` bounds the way to the exit by `StepsToExit`: the accept handler may
have three steps left, of which one makes a session that must be destroyed in turn;
each handler inside `close()` has one; then the join, each session, the exit.
`AcceptIsNearer`, `ReturnIsNearer` and `ExitIsNearer` treat them; no other action is enabled any more. `AcceptOwns` is needed again: the handler
can crash the process only before the threads are joined.

### Server: requests and answers

`AnswerProofs` and `ServiceProofs` add, for any number of connections and requests:

| theorem | property |
|---|---|
| `TalkInvariance` | the inductive invariant `TalkInv` below |
| `FramingAlwaysInSync` | `FramingInSync` |
| `ResponsesAlwaysInOrder` | `ResponsesInOrder` |
| `RequestsAlwaysAccounted` | `RequestsAccounted` |
| `OrderIdsAlwaysUnique` | `OrderIdsUnique` |
| `DeadPeerAlwaysDrains` | `DeadPeerDrains` |
| `ServerImplementsService` | `Implements`, that is `Spec => Promised!Spec` |

`TalkInv` has three parts. `Framed`, of each connection: from the item its session
expects to the item its peer sends next the stream has no gap (`Unbroken`); a peer
that is gone may have lost its last items, but none before one that is still there.
The header a session holds is that of the request whose body it reads. `Answered`:
what was written, and what is being written, answers the request with its number
and was made by `dispatch`; `write_buf_` of an idle session is the last answer.
`NumbersTaken`: the order counter is at most one more than the number of requests
that were dispatched. This bound is what makes the numbers of `Server` fit into the
numbers `Service` has to give, and it needs the argument that one dispatch takes one
number (`OthersTakeNone`). Uniqueness is inductive only with `Answered`, which puts
every number that was given below the counter.

`RequestsAccounted` needs no further invariant: it follows from `Unbroken`.
`HeadersOfRun` is the fact about sequences behind it. Along a stream without a gap the
number of the request stays or grows by one, and it grows exactly at a header; the
first item below the range, and the first at or above a number of it, lead to the two
inclusions (`LeastNumber` in place of an induction). For `DeadPeerDrains` every
handler of a session takes an item off the stream or completes a write
(`SessionIsNearer`), and nobody but the peer adds one. That the session is never stuck
before it closes, with an item of the wrong kind next, is `FramingInSync`.

The refinement is proved action by action. `ClosingHangsUp` and
`TurningAwayHangsUp` map a close, a rejection and an aborted accept to `Hangup`,
`ConnectOpens` a connect to `Open`, `EndShutsDown` the two ends of the process to
`Shutdown`; `SendingAsks` and `BodyAsks` map the item that completes a request to
`Ask`; `WritingReplies` maps `WriteDone` to `Reply`, with `OrderIsFresh` for the
order number, which a peer was never told before; every other step leaves the mapped
variables alone (`OthersStutter`).

### Wire

`WireProofs` proves `CodecsAlwaysAgree` (`CodecsAgree`) for every number of byte
values and every set of lengths. `RoundTrip` is the lemma about the codecs alone: decoding
at one end what an end of the same wire order encoded gives the header back, and
accepts it exactly if its length is within the limit. The invariant adds what the
bytes on the wire are at each step. `OtherOrderReverses` is the counterpart for ends of
different wire order, the general form of findings 3 and 4: each reads the bytes of
the other's length and type in reverse (`CrossOver`). `OtherOrderServesNothing` draws
the conclusion for the types of the protocol: none of the requests of such a client
reaches a handler.

### UiClient

`UiClientProofs` proves, for any set of handles, any size of the batch and any
number of requests:

| theorem | property |
|---|---|
| `ButtonsAlwaysTrue` | `ButtonsTellTruth` |
| `SocketsAlwaysAccounted` | `SocketsAccounted` |
| `AnswersAlwaysMatch` | `AnswersMatch` |
| `TypeAlwaysCorrect` | `TypeOK` |
| `CommandAlwaysDrains` | `CommandDrains` |

Neither of the first two properties is inductive: that a socket is closed once depends on
which thread is where in `DoDisconnect`. `Windows` adds this. `Owners`:
`m_connected` says whether there is a socket, the worker is in `DoDisconnect`
only to log out, and the dialog's thread only without a worker as long as the
dialog is open. `Closers`: a thread about to close finds the socket open, a thread
about to clear it has closed it, and nobody else has. Both parts fail once the
dialog is cancelled, which is the finding of `ui_closed_once`. On top of
`Windows`, `Traffic` proves the pairing. `Paired`: on an open connection without a
fault the request a worker waits for is the only one that is pending or answered,
and between commands there is none. `Fresh`: a handle not yet returned has no
traffic. `Mailboxes` types the queues. One lemma treats each action or group.

`TypeOK` follows from these types, from `Controls`, those of the
buttons, the command and its batch, and from `Numbered`: whatever is on its way or was
shown belongs to a request that was sent.

`CommandDrains` counts the steps a command has left (`WorkerSteps`): two for each
request of the batch, four to log out, one for the dialog to notice. `EndIsNearer`,
`ExchangeIsNearer` and `LogoutIsNearer` treat the worker's steps; `OthersWait` says that
nobody else sets the worker back, for which the buttons must be disabled while it runs.

### LoadGen, Scenario, Metrics

`LoadGenProofs` proves, for any number of clients, any requests and failures, any
latencies and any integer weights, against every server within `Service`:

| theorem | property |
|---|---|
| `TestInvariance` | the inductive invariant `TestInv` below |
| `TypeAlwaysCorrect` | `TypeOK`; in particular `in_flight` never wraps |
| `EveryRequestAlwaysCounted` | `EveryRequestCounted` |
| `AnswerAlwaysOwn` | `OwnAnswer` |
| `ReportAlwaysComplete` | `ReportComplete` |
| `LatenciesAlwaysOrdered` | `LatenciesOrdered` |
| `PercentilesAlwaysReached` | `PercentilesReached` |
| `MeanAlwaysWithin` | `MeanWithin` |
| `WeightsAlwaysRespected` | `WeightsRespected` |
| `PicksAlwaysAlike` | the cause of finding 7: without price histories and with an even total, all picks of a client have one parity |
| `TimerAlwaysDrains` | `TimerDrains` |

`TestInv` is: types; `InTurn`, that a client took one answer off its stream per
request before it makes the next; `Served`, that an open connection has all its
requests at the server and that each answer is of its request's type or an error;
`Weighted`, that every request was chosen from the table; `Books`, the balance of
`EveryRequestCounted` together with the finiteness of what it counts; `Reported`, that
nothing changed since the report. `Books` needs `InTurn`: a client that fails while
connecting must have no request to lose, one that fails later must have one.
`AtMoves` and `LostMoves` say what one client's move does to each count; there is one
lemma per kind of step (`MoveBooks`, `FailBooks`, `SendBooks`, `ReadBooks`,
`RecordedBooks`).

`TimerDrains` gives every place of a client the steps it has left (`StepsLeft`);
`StepIsNearer` is the lemma, and the guard of `SendRequest` on the stop flag is what it
rests on.

`MetricsProofs` has the lemmas about the statistics, for any samples. `LeastNumber`, of
`NumberLemmas`, takes the least member of a set of numbers from the well-foundedness of `Nat`, which
stands in for the inductions the provers cannot do; `GreatestOf` is the member with the
fewest above it. `SortedOrdered` says that the sorted vector grows with its index and
stays between the extremes, with more than i samples at most its i-th, `IndexCut` what
cutting an index costs, `SumBetween` compares the units of the samples with two
products. For `PicksAlwaysAlike`, `LowBitAlternates` is the fact about the generator,
`RequestParity` adds up the draws of a request, and `EvenModulus` and `OddDivisor` carry
the parity over to the pick. TLC finds `TestInv` and `TalkInv` invariant on instances
like those of section 3.

### Only model-checked

The liveness properties `RequestAnswered`, `BacklogResolved`, `DeadPeerReleased`,
`ShutdownCompletes`, `CommandEnds` and `TestEnds`: liveness under fairness, and that an
action is enabled, are out of reach of the provers used here. For four of them the part
that is safety is proved: the measure that each step decreases and no step increases.

| liveness property | proved |
|---|---|
| `DeadPeerReleased` | `DeadPeerDrains`; `FramingInSync` for the session not to be stuck |
| `ShutdownCompletes` | `ShutdownDrains`; `ExitLeavesNobody` for the state it ends in |
| `CommandEnds` | `CommandDrains`; `ButtonsTellTruth` for the buttons at its end |
| `TestEnds` | `TimerDrains`; `ReportComplete` for the report |

What TLC adds is that a next step is there and that fairness takes it. Of
`RequestAnswered` the theorems say that no request is lost on the way
(`RequestsAccounted`) and that its answer is the right one (`ResponsesInOrder`). The
seven findings are counterexamples of TLC.

## 7. Not modelled, and why

* The JSON text of requests and answers, and what services make of it: stubs,
  without effect on control.
* Exhaustion of memory (`body_buf_.resize` outside the `try`) and of file
  descriptors (the accept loop then spins); `next_session_id_`, which nothing
  reads; command-line parsing and endpoint set-up.
* `Session::stop()`: nothing calls it, so no execution of the program reaches it.
* In the load generator: command-line parsing, the text of requests, throughput and
  the layout of the report, overflow of the sum of weights, `successes()` and
  `errors()`, which nothing calls.
* In the UI client: log lines, the parsing of answers for display, `Clear`; and a
  worker that outlives the dialog until the process has ended.
* Relaxed atomics are modelled as atomic steps: each counter is used alone, and
  only the final report reads more than one.
