------------------------------- MODULE Server -------------------------------
(***************************************************************************)
(* The banking server: one io_context run by a pool of threads, an         *)
(* acceptor, and one Session per admitted TCP connection with its          *)
(* asynchronous loop  read header -> read body -> dispatch -> write.       *)
(*                                                                         *)
(* Grain.  A completion handler of a Session that goes on is one action:   *)
(* it works on the Session's own members, performs at most one access to   *)
(* state that other handlers use (the fetch_add on the order counter), and *)
(* shows its peer nothing before it returns.  A handler that closes the    *)
(* Session is two: close() shuts the socket, which the peer can see, and   *)
(* only then takes the Session from the connection counter.  The accept    *)
(* handler reads that counter and adds to it later, so it is split at      *)
(* those accesses too, and the other threads run in between.               *)
(***************************************************************************)
EXTENDS Integers, Sequences, FiniteSets, MessageTypes

CONSTANTS
  Conns,           (* the TCP connections peers may open                    *)
  MaxConnections,  (* ServerConfig::max_connections                         *)
  Types,           (* the message types peers put in their headers          *)
  Lengths,         (* the classes of payload_length peers put there         *)
  MaxRequests,     (* bound: requests a peer sends on one connection        *)
  Window,          (* answers the kernels buffer for a peer that reads none *)
  NoConn,          (* not a connection: the accept handler holds none       *)
  NoMessage        (* a header or write buffer not yet used                 *)

ASSUME ServerAssumption ==
  /\ IsFiniteSet(Conns)
  /\ MaxConnections \in Nat
  /\ Types \subseteq UInt16
  /\ Lengths \subseteq {"zero", "some", "over"}
  /\ MaxRequests \in Nat
  /\ Window \in Nat \ {0}
  /\ NoConn \notin Conns

NoOrder == 0

VARIABLES
  phase,          (* of the process: io_context running ... destroyed       *)
  acceptStep,     (* where the single accept handler stands                 *)
  acceptee,       (* the connection whose socket that handler holds         *)
  conn,           (* what became of each connection on the server's side    *)
  peerOpen,       (* the peer has not closed or reset its end               *)
  sent,           (* history: the headers the peer sent, in order           *)
  partial,        (* the body announced by the last header is still to come *)
  stream,         (* bytes in flight to the server: whole headers, bodies   *)
  unread,         (* answers written that the peer has not read             *)
  ops,            (* what a Session has under way: asynchronous operations, *)
                  (* or the rest of a close()                               *)
  closed,         (* Session::closed_                                       *)
  header,         (* Session::current_header_                               *)
  writeBuf,       (* Session::write_buf_                                    *)
  out,            (* history: the responses written to the socket, in order *)
  active,         (* Server::active_connections_                            *)
  total,          (* Server::total_connections_                             *)
  totalRequests,  (* Server::total_requests_                                *)
  orderCounter    (* g_order_counter of trade_service.cpp                   *)

peerVars    == <<peerOpen, sent, partial>>
wire        == <<stream, unread>>
sessionVars == <<ops, closed, header, writeBuf, out>>
vars == <<phase, acceptStep, acceptee, conn, peerVars, wire, sessionVars,
          active, total, totalRequests, orderCounter>>

-----------------------------------------------------------------------------

(* A header as a peer sends it; tag numbers the peer's requests, so that an *)
(* answer can be traced to its request.  The code has no such field.        *)
Announce == [type : Types, length : Lengths]
Header   == [type : Types, length : Lengths, tag : 1 .. MaxRequests]
Item     == [kind : {"header", "body"}, tag : 1 .. MaxRequests]
Response == [type : UInt16, tag : 1 .. MaxRequests, order : Nat]

(* NoMessage is not a message. *)
ASSUME NoMessageAssumption == NoMessage \notin Response

OpKinds == {"readHeader", "readBody", "write"}

Sessions == {c \in Conns : conn[c] = "session"}
Live     == {c \in Sessions : ~closed[c]}

(* Sessions whose socket is closed and whose on_close_ is still to come. *)
Closing == {c \in Conns : "close" \in ops[c]}

-----------------------------------------------------------------------------
(* ServiceRouter::dispatch.                                                *)

(* fetch_add returns the value the counter had. *)
TakenOrder == orderCounter

(* Seeded fault: the counter is read and not advanced. *)
OrderReadOnly == orderCounter
OrderAdvanced == orderCounter + 1

Reply(h, type, order) == [type |-> type, tag |-> h.tag, order |-> order]

(* What dispatch may return for a request, with the value it leaves in the *)
(* order counter: a 404 for a type without handler, the handler's answer,  *)
(* or a 500 when the handler throws, before or after it took an order      *)
(* number.                                                                 *)
Dispatch(h) ==
  LET isOrder == h.type \in OrderTypes
      next    == IF isOrder THEN OrderAdvanced ELSE orderCounter
  IN IF h.type \notin Registered
     THEN {[reply |-> Reply(h, kError, NoOrder), counter |-> orderCounter]}
     ELSE {[reply   |-> Reply(h, ResponseType(h.type),
                              IF isOrder THEN TakenOrder ELSE NoOrder),
            counter |-> next]}
          \cup {[reply |-> Reply(h, kError, NoOrder), counter |-> n] :
                  n \in {orderCounter, next}}

-----------------------------------------------------------------------------
(* Pieces of a Session's handlers.                                         *)

(* A handler runs when its operation completes and a thread runs the       *)
(* io_context; seeded fault: the threads run on after stop().              *)
CompletesStill(c, op) == op \in ops[c]
Completes(c, op) == phase = "running" /\ op \in ops[c]

(* Seeded fault: a handler leaves a read of its own outstanding. *)
ContinueReading(c, op, started) == ops' = [ops EXCEPT ![c] = @ \cup started]

(* Seeded fault: the loop ends after the first answer. *)
ContinueOnce(c, op, started) ==
  ops' = [ops EXCEPT ![c] = IF op = "write" THEN {} ELSE started]

(* The handler of op returns, having started the operations in started. *)
Continue(c, op, started) ==
  ops' = [ops EXCEPT ![c] = (@ \ {op}) \cup started]

(* Seeded faults: close() without its test of closed_, close() without its *)
(* callback.                                                               *)
CallbackEachTime(isClosed) == 1
CallbackNever(isClosed)    == 0

(* close() returns at once on a session already closed; otherwise it calls *)
(* on_close_, which takes one from active_connections_.                    *)
CloseCallbacks(isClosed) == IF isClosed THEN 0 ELSE 1

(* A handler calls close() and will start no new operation: closed_ is     *)
(* set, the socket shut and closed, and the kernel drops what it had       *)
(* buffered for it.  The callback is still to come.                        *)
CloseSession(c, op) ==
  /\ Continue(c, op, IF closed[c] THEN {} ELSE {"close"})
  /\ closed' = [closed EXCEPT ![c] = TRUE]
  /\ stream' = [stream EXCEPT ![c] = <<>>]
  /\ UNCHANGED <<unread, writeBuf, out, active, orderCounter>>

(* do_write fills write_buf_ anew; seeded fault: an earlier answer stays. *)
RefillOnce(buf, reply) == IF buf = NoMessage THEN reply ELSE buf
Refill(buf, reply)     == reply

(* dispatch_and_write followed by do_write: the answer goes to write_buf_  *)
(* and an async_write of it starts.                                        *)
DispatchAndWrite(c, op, h) ==
  \E d \in Dispatch(h) :
    /\ writeBuf' = [writeBuf EXCEPT ![c] = Refill(@, d.reply)]
    /\ orderCounter' = d.counter
    /\ Continue(c, op, {"write"})
    /\ UNCHANGED <<unread, closed, active, out>>

NextItem(c, kind) == stream[c] # <<>> /\ Head(stream[c]).kind = kind

(* Seeded fault: what else has arrived is read with the item and dropped. *)
ConsumeAll(c) == stream' = [stream EXCEPT ![c] = <<>>]
Consume(c)    == stream' = [stream EXCEPT ![c] = Tail(@)]

ArrivedHeader(c) ==
  LET n == Head(stream[c]).tag
  IN [type |-> sent[c][n].type, length |-> sent[c][n].length, tag |-> n]

(* What a session's handler never touches. *)
HandlerFrame ==
  UNCHANGED <<phase, acceptStep, acceptee, conn, peerVars, total,
              totalRequests>>

-----------------------------------------------------------------------------
(* The Session's completion handlers.                                      *)

(* decode_header throws: payload_length exceeds kMaxPayloadSize. *)
HeaderMalformed(c) ==
  /\ Completes(c, "readHeader") /\ NextItem(c, "header")
  /\ ArrivedHeader(c).length = "over"
  /\ CloseSession(c, "readHeader")
  /\ UNCHANGED header
  /\ HandlerFrame

(* Seeded fault: a request is dispatched without waiting for its payload. *)
NeverAwaits(h)   == FALSE
AwaitsPayload(h) == h.length = "some"

(* A header without payload is dispatched at once. *)
HeaderWithoutBody(c) ==
  /\ Completes(c, "readHeader") /\ NextItem(c, "header")
  /\ ArrivedHeader(c).length # "over"
  /\ ~AwaitsPayload(ArrivedHeader(c))
  /\ header' = [header EXCEPT ![c] = ArrivedHeader(c)]
  /\ Consume(c)
  /\ DispatchAndWrite(c, "readHeader", ArrivedHeader(c))
  /\ HandlerFrame

HeaderWithBody(c) ==
  /\ Completes(c, "readHeader") /\ NextItem(c, "header")
  /\ AwaitsPayload(ArrivedHeader(c))
  /\ header' = [header EXCEPT ![c] = ArrivedHeader(c)]
  /\ Consume(c)
  /\ Continue(c, "readHeader", {"readBody"})
  /\ UNCHANGED <<unread, closed, writeBuf, out, active, orderCounter>>
  /\ HandlerFrame

BodyRead(c) ==
  /\ Completes(c, "readBody") /\ NextItem(c, "body")
  /\ Consume(c)
  /\ DispatchAndWrite(c, "readBody", header[c])
  /\ UNCHANGED header
  /\ HandlerFrame

(* Seeded fault: a body that cannot be read is skipped. *)
ReadFailsSkipsBody(c) ==
  /\ Completes(c, "readBody") /\ stream[c] = <<>> /\ ~peerOpen[c]
  /\ Continue(c, "readBody", {"readHeader"})
  /\ UNCHANGED <<stream, unread, closed, header, writeBuf, out, active,
                 orderCounter>>
  /\ HandlerFrame

(* The stream ends (EOF or reset) before the header or body is complete. *)
ReadFails(c) ==
  /\ \E op \in {"readHeader", "readBody"} :
       /\ Completes(c, op)
       /\ stream[c] = <<>> /\ ~peerOpen[c]
       /\ CloseSession(c, op)
  /\ UNCHANGED header
  /\ HandlerFrame

(* The response is with the kernel, which had room for it: loop back for   *)
(* the next request.                                                       *)
WriteDone(c) ==
  /\ Completes(c, "write") /\ unread[c] < Window
  /\ out' = [out EXCEPT ![c] = Append(@, writeBuf[c])]
  /\ unread' = [unread EXCEPT ![c] = @ + 1]
  /\ Continue(c, "write", {"readHeader"})
  /\ UNCHANGED <<closed, header, writeBuf, stream, active, orderCounter>>
  /\ HandlerFrame

WriteFails(c) ==
  /\ Completes(c, "write") /\ ~peerOpen[c]
  /\ CloseSession(c, "write")
  /\ UNCHANGED header
  /\ HandlerFrame

(* The rest of that handler: close() calls on_close_ and returns, and so   *)
(* does the handler, which held the last shared_ptr: ~Session calls        *)
(* close() again.  stop() does not interrupt a handler that runs.          *)
CloseReturns(c) ==
  /\ phase \in {"running", "stopped"} /\ "close" \in ops[c]
  /\ Continue(c, "close", {})
  /\ active' = active - CloseCallbacks(FALSE) - CloseCallbacks(TRUE)
  /\ UNCHANGED <<wire, closed, header, writeBuf, out, orderCounter>>
  /\ HandlerFrame

SessionStep(c) ==
  \/ HeaderMalformed(c)
  \/ HeaderWithoutBody(c)
  \/ HeaderWithBody(c)
  \/ BodyRead(c)
  \/ ReadFails(c)
  \/ WriteDone(c)
  \/ WriteFails(c)

-----------------------------------------------------------------------------
(* Server::do_accept.  The acceptor is closed only by ~Server, after the   *)
(* threads are gone, so the handler never finds it closed.                 *)

AcceptFrame ==
  UNCHANGED <<phase, peerVars, unread, header, writeBuf, out, totalRequests,
              orderCounter>>

(* do_accept() runs again; seeded fault: the handler returns without it. *)
AcceptNoMore == acceptStep' = "idle"
AcceptAgain  == acceptStep' = "armed"

(* Seeded fault: one connection too many. *)
AtOrBelowLimit == active <= MaxConnections

(* The load of active_connections_ and its comparison with the limit. *)
BelowLimit == active < MaxConnections

AcceptAdmit(c) ==
  /\ phase = "running" /\ acceptStep = "armed" /\ conn[c] = "backlog"
  /\ BelowLimit
  /\ acceptStep' = "admitted"
  /\ acceptee' = c
  /\ conn' = [conn EXCEPT ![c] = "accepting"]
  /\ UNCHANGED <<stream, ops, closed, active, total>>
  /\ AcceptFrame

(* At the limit the socket is closed and do_accept runs again. *)
AcceptReject(c) ==
  /\ phase = "running" /\ acceptStep = "armed" /\ conn[c] = "backlog"
  /\ ~BelowLimit
  /\ conn' = [conn EXCEPT ![c] = "rejected"]
  /\ stream' = [stream EXCEPT ![c] = <<>>]
  /\ AcceptAgain
  /\ UNCHANGED <<acceptee, ops, closed, active, total>>
  /\ AcceptFrame

(* async_accept completes with an error that consumed the connection       *)
(* (ECONNABORTED); do_accept runs again.                                   *)
AcceptError(c) ==
  /\ phase = "running" /\ acceptStep = "armed" /\ conn[c] = "backlog"
  /\ conn' = [conn EXCEPT ![c] = "aborted"]
  /\ stream' = [stream EXCEPT ![c] = <<>>]
  /\ AcceptAgain
  /\ UNCHANGED <<acceptee, ops, closed, active, total>>
  /\ AcceptFrame

(* The two fetch_adds; nothing reads total_connections_ before shutdown. *)
AcceptCount ==
  /\ acceptStep = "admitted"
  /\ acceptStep' = "counted"
  /\ total' = total + 1
  /\ active' = active + 1
  /\ UNCHANGED <<acceptee, conn, stream, ops, closed>>
  /\ AcceptFrame

(* set_option(no_delay) succeeds, the Session is made and started, and     *)
(* do_accept runs again.                                                   *)
AcceptStart ==
  /\ phase # "crashed" /\ acceptStep = "counted"
  /\ AcceptAgain
  /\ acceptee' = NoConn
  /\ conn' = [conn EXCEPT ![acceptee] = "session"]
  /\ ops' = [ops EXCEPT ![acceptee] = {"readHeader"}]
  /\ UNCHANGED <<stream, closed, active, total>>
  /\ AcceptFrame

(* set_option(no_delay) throws, as it may on a connection its peer already *)
(* closed.  No handler catches it: it leaves ioc_.run() and ends the       *)
(* process, by std::terminate or through the catch in main.                *)
AcceptThrow ==
  /\ phase # "crashed" /\ acceptStep = "counted" /\ ~peerOpen[acceptee]
  /\ phase' = "crashed"
  /\ UNCHANGED <<acceptStep, acceptee, conn, peerVars, wire, sessionVars,
                 active, total, totalRequests, orderCounter>>

Accept == \E c \in Conns : AcceptAdmit(c) \/ AcceptReject(c) \/ AcceptError(c)

-----------------------------------------------------------------------------
(* Shutdown.                                                               *)

ShutdownFrame ==
  UNCHANGED <<acceptStep, acceptee, conn, peerVars, unread, header, writeBuf, out,
              total, totalRequests, orderCounter>>

(* SIGINT or SIGTERM: Server::stop() stops the io_context. *)
Signal ==
  /\ phase = "running"
  /\ phase' = "stopped"
  /\ UNCHANGED <<stream, ops, closed, active>>
  /\ ShutdownFrame

(* Every thread returns from ioc_.run() once the handler it runs is done;  *)
(* Server::run() joins them and returns to main.                           *)
Join ==
  /\ phase = "stopped" /\ acceptStep = "armed" /\ Closing = {}
  /\ phase' = "joined"
  /\ UNCHANGED <<stream, ops, closed, active>>
  /\ ShutdownFrame

(* ~Server destroys ioc_, and with it the handlers still pending.  The     *)
(* handlers of a session hold its last shared_ptrs: ~Session closes it.    *)
DestroySession(c) ==
  /\ phase = "joined" /\ ops[c] # {}
  /\ ops' = [ops EXCEPT ![c] = {}]
  /\ closed' = [closed EXCEPT ![c] = TRUE]
  /\ active' = active - CloseCallbacks(closed[c])
  /\ stream' = [stream EXCEPT ![c] = <<>>]
  /\ UNCHANGED phase
  /\ ShutdownFrame

Exit ==
  /\ phase = "joined" /\ \A c \in Conns : ops[c] = {}
  /\ phase' = "exited"
  /\ UNCHANGED <<stream, ops, closed, active>>
  /\ ShutdownFrame

Shutdown == Join \/ Exit \/ \E c \in Conns : DestroySession(c)

(* The process is gone. *)
Gone == phase \in {"exited", "crashed"} /\ UNCHANGED vars

-----------------------------------------------------------------------------
(* The peers, from outside the server.                                     *)

PeerFrame ==
  UNCHANGED <<phase, acceptStep, acceptee, sessionVars, active, total,
              totalRequests, orderCounter>>

Connect(c) ==
  /\ phase = "running" /\ conn[c] = "new"
  /\ conn' = [conn EXCEPT ![c] = "backlog"]
  /\ UNCHANGED <<peerVars, wire>>
  /\ PeerFrame

(* The peer may send as soon as the kernel completed the handshake, and    *)
(* may send further requests before it read the answers to the first.      *)
(* What it sends to a closed socket or a stopped server is never read.     *)
CanSend(c) ==
  /\ phase = "running" /\ peerOpen[c]
  /\ conn[c] \in {"backlog", "accepting", "session"} /\ ~closed[c]

SendHeader(c, t, l) ==
  /\ CanSend(c) /\ ~partial[c] /\ Len(sent[c]) < MaxRequests
  /\ sent' = [sent EXCEPT ![c] = Append(@, [type |-> t, length |-> l])]
  /\ partial' = [partial EXCEPT ![c] = (l = "some")]
  /\ stream' = [stream EXCEPT ![c] =
                  Append(@, [kind |-> "header", tag |-> Len(sent[c]) + 1])]
  /\ UNCHANGED <<conn, peerOpen, unread>>
  /\ PeerFrame

SendBody(c) ==
  /\ CanSend(c) /\ partial[c]
  /\ partial' = [partial EXCEPT ![c] = FALSE]
  /\ stream' = [stream EXCEPT ![c] =
                  Append(@, [kind |-> "body", tag |-> Len(sent[c])])]
  /\ UNCHANGED <<conn, peerOpen, sent, unread>>
  /\ PeerFrame

(* The peer closes its end (what it sent still arrives) or resets it (what *)
(* the server has not read is lost), possibly between a header and its     *)
(* body.                                                                   *)
PeerClose(c) ==
  /\ phase = "running" /\ peerOpen[c]
  /\ conn[c] \in {"backlog", "accepting", "session"}
  /\ peerOpen' = [peerOpen EXCEPT ![c] = FALSE]
  /\ stream' \in {stream, [stream EXCEPT ![c] = <<>>]}
  /\ UNCHANGED <<conn, sent, partial, unread>>
  /\ PeerFrame

ReadAnswer(c) ==
  /\ phase = "running" /\ peerOpen[c] /\ unread[c] > 0
  /\ unread' = [unread EXCEPT ![c] = @ - 1]
  /\ UNCHANGED <<conn, peerVars, stream>>
  /\ PeerFrame

Peer(c) ==
  \/ Connect(c)
  \/ \E t \in Types, l \in Lengths : SendHeader(c, t, l)
  \/ SendBody(c)
  \/ ReadAnswer(c)
  \/ PeerClose(c)

-----------------------------------------------------------------------------

Init ==
  /\ phase = "running"
  /\ acceptStep = "armed"
  /\ acceptee = NoConn
  /\ conn = [c \in Conns |-> "new"]
  /\ peerOpen = [c \in Conns |-> TRUE]
  /\ sent = [c \in Conns |-> <<>>]
  /\ partial = [c \in Conns |-> FALSE]
  /\ stream = [c \in Conns |-> <<>>]
  /\ unread = [c \in Conns |-> 0]
  /\ ops = [c \in Conns |-> {}]
  /\ closed = [c \in Conns |-> FALSE]
  /\ header = [c \in Conns |-> NoMessage]
  /\ writeBuf = [c \in Conns |-> NoMessage]
  /\ out = [c \in Conns |-> <<>>]
  /\ active = 0
  /\ total = 0
  /\ totalRequests = 0
  /\ orderCounter = 1

Next ==
  \/ \E c \in Conns : SessionStep(c)
  \/ \E c \in Conns : CloseReturns(c)
  \/ Accept
  \/ AcceptCount
  \/ AcceptStart
  \/ AcceptThrow
  \/ Signal
  \/ Shutdown
  \/ \E c \in Conns : Peer(c)
  \/ Gone

Spec == Init /\ [][Next]_vars

(* The pool's threads run every completed handler of a running io_context, *)
(* and a handler they began to its end; the main thread carries the        *)
(* shutdown through.  Peers and signals owe nothing.                       *)
Fairness ==
  /\ \A c \in Conns : WF_vars(SessionStep(c)) /\ WF_vars(CloseReturns(c))
  /\ WF_vars(Accept)
  /\ WF_vars(AcceptCount)
  /\ WF_vars(AcceptStart \/ AcceptThrow)
  /\ WF_vars(Shutdown)

FairSpec == Spec /\ Fairness

-----------------------------------------------------------------------------
(* Safety.                                                                 *)

(* Every variable stays in its type. *)
TypeOK ==
  /\ phase \in {"running", "stopped", "joined", "exited", "crashed"}
  /\ acceptStep \in {"armed", "admitted", "counted"}
  /\ acceptee \in Conns \cup {NoConn}
  /\ conn \in [Conns -> {"new", "backlog", "accepting", "session",
                         "rejected", "aborted"}]
  /\ peerOpen \in [Conns -> BOOLEAN]
  /\ sent \in [Conns -> Seq(Announce)]
  /\ partial \in [Conns -> BOOLEAN]
  /\ stream \in [Conns -> Seq(Item)]
  /\ unread \in [Conns -> 0 .. Window]
  /\ ops \in [Conns -> SUBSET (OpKinds \cup {"close"})]
  /\ closed \in [Conns -> BOOLEAN]
  /\ header \in [Conns -> Header \cup {NoMessage}]
  /\ writeBuf \in [Conns -> Response \cup {NoMessage}]
  /\ out \in [Conns -> Seq(Response)]
  /\ active \in Nat
  /\ total \in Nat
  /\ totalRequests \in Nat
  /\ orderCounter \in Nat \ {0}

(* active_connections_ (server.cpp:88,98) is at every moment the number of *)
(* sessions that are open, plus those whose close() has not reached        *)
(* on_close_ yet, plus the one the accept handler has counted and not yet  *)
(* made: no close is counted twice or forgotten, whichever of close() and  *)
(* ~Session comes first, whatever thread runs it, and through shutdown.    *)
Admitting == IF acceptStep = "counted" THEN {acceptee} ELSE {}

Counted    == Live \cup Closing \cup Admitting
CountExact == active = Cardinality(Counted)

(* The check of the limit and the increment are two steps (server.cpp:85,  *)
(* 88) with other threads' closes between them: still no more than         *)
(* max_connections are ever admitted.                                      *)
LimitRespected ==
  /\ active <= MaxConnections
  /\ acceptStep = "admitted" => active < MaxConnections

(* A session is kept alive, and serialised, by its one outstanding         *)
(* operation: an open session has exactly one and is in no close(), a      *)
(* closed one has none (server.hpp:9-12, session.hpp:9-11).                *)
OneOperation ==
  \A c \in Conns : IF c \in Live THEN Cardinality(ops[c]) = 1 /\ c \notin Closing
                               ELSE ops[c] \subseteq {"close"}

(* Whatever mixture of requests a peer pipelines, a session that waits for *)
(* a header finds a header next in the stream, and one that waits for a    *)
(* body finds the body of the header it holds (session.cpp:44-102).        *)
FramingInSync ==
  \A c \in Live :
    stream[c] # <<>> =>
      /\ "readHeader" \in ops[c] => Head(stream[c]).kind = "header"
      /\ "readBody" \in ops[c] =>
           Head(stream[c]) = [kind |-> "body", tag |-> header[c].tag]

(* The n-th answer on a connection is the answer to the n-th request of    *)
(* that connection: of its response type, or an error; and none is for a   *)
(* request whose body was never sent.                                      *)
ResponsesInOrder ==
  \A c \in Conns : \A n \in 1 .. Len(out[c]) :
    /\ out[c][n].tag = n
    /\ n <= Len(sent[c])
    /\ out[c][n].type \in {ResponseType(sent[c][n].type), kError}
    /\ n = Len(sent[c]) => ~partial[c]

(* No request is lost or taken twice, however a peer pipelines: on an open *)
(* session the headers still in the stream are those of the requests after *)
(* the last one begun, up to the last one sent (session.cpp:44-126).       *)
HeadersIn(c) ==
  {stream[c][i].tag : i \in {j \in 1 .. Len(stream[c]) :
                               stream[c][j].kind = "header"}}

Begun(c) == Len(out[c]) + Cardinality(ops[c] \cap {"readBody", "write"})

RequestsAccounted ==
  \A c \in Live : peerOpen[c] => HeadersIn(c) = Begun(c) + 1 .. Len(sent[c])

(* Order numbers (trade_service.cpp:49) that clients were told, or are     *)
(* about to be told, by whatever session and thread, are all different.    *)
Answers ==
  {a \in Conns \X (1 .. MaxRequests) :
     a[2] <= Len(out[a[1]]) + Cardinality(ops[a[1]] \cap {"write"})}

OrderOf(a) == IF a[2] <= Len(out[a[1]]) THEN out[a[1]][a[2]].order
                                        ELSE writeBuf[a[1]].order

OrderIdsUnique ==
  \A a, b \in Answers :
    /\ OrderOf(a) < orderCounter
    /\ a # b /\ OrderOf(a) = OrderOf(b) => OrderOf(a) = NoOrder

(* write_buf_ is not touched while the kernel sends from it, nor           *)
(* current_header_ while its body is read: the handlers reuse both for     *)
(* every request (session.hpp:62-73).                                      *)
BuffersStable ==
  [][\A c \in Conns :
       /\ "write" \in ops[c] \cap ops'[c] => writeBuf'[c] = writeBuf[c]
       /\ "readBody" \in ops[c] \cap ops'[c] => header'[c] = header[c]]_vars

(* A connection is turned away (server.cpp:102-106) only while             *)
(* max_connections places are taken: by sessions that are open, or by      *)
(* closed ones whose handler is still between session.cpp:131 and 135.     *)
(* A session whose close() has returned never uses up the limit, through   *)
(* any number of connections that came and went.                           *)
NoSpuriousRejection ==
  [][\A c \in Conns : conn[c] # "rejected" /\ conn'[c] = "rejected" =>
       Cardinality(Live \cup Closing) >= MaxConnections]_vars

(* The handlers a session still runs at most once its peer has gone: one   *)
(* per item in the stream, a write per request among them, and the last,   *)
(* which closes.                                                           *)
HandlersLeft(c) ==
  IF c \in Live
  THEN 1 + 2 * Len(stream[c]) + Cardinality(ops[c] \cap {"write"}) ELSE 0

(* A dead peer never gives its session more to do, and each handler of the *)
(* session brings its close nearer (session.cpp:50-53, 94-101, 118-125):   *)
(* no handler starts over, whatever was pipelined before the peer went.    *)
DeadPeerDrains ==
  [][\A c \in Live : ~peerOpen[c] =>
       /\ HandlersLeft(c)' <= HandlersLeft(c)
       /\ ops'[c] # ops[c] => HandlersLeft(c)' < HandlersLeft(c)]_vars

(* The steps from a signal to the end of the process at most: the rest of  *)
(* the accept handler, which may still make a session, the handlers that   *)
(* are inside close(), the join, the sessions to destroy, the exit.        *)
StepsToExit ==
  LET accepting == [armed |-> 0, counted |-> 2, admitted |-> 3]
      stopping  == [exited |-> 0, crashed |-> 0, joined |-> 1, stopped |-> 2]
  IN accepting[acceptStep] + stopping[phase]
     + Cardinality({c \in Conns : ops[c] # {}})

(* A stopped server only winds down: no handler of a session begins,       *)
(* nothing is accepted, and whatever step it makes is one of those         *)
(* (server.cpp:42-76).                                                     *)
ShutdownDrains == [][phase # "running" => StepsToExit' < StepsToExit]_vars

-----------------------------------------------------------------------------
(* What the clients of the server may rely on.  A request counts as asked  *)
(* once it was sent completely; a connection is open to its peer until the *)
(* server closes the socket or the process ends.                           *)

Asked(c) ==
  [n \in 1 .. Len(sent[c]) - (IF partial[c] THEN 1 ELSE 0) |-> sent[c][n].type]

Told(c) ==
  [n \in DOMAIN out[c] |-> [type |-> out[c][n].type, order |-> out[c][n].order]]

Up == phase \notin {"exited", "crashed"}

Link(c) ==
  IF conn[c] = "new" THEN "new"
  ELSE IF Up /\ conn[c] \in {"backlog", "accepting", "session"} /\ ~closed[c]
  THEN "open" ELSE "closed"

Promised == INSTANCE Service WITH
  OrderIds <- 1 .. Cardinality(Conns) * MaxRequests,
  up       <- Up,
  link     <- [c \in Conns |-> Link(c)],
  asked    <- [c \in Conns |-> Asked(c)],
  answers  <- [c \in Conns |-> Told(c)]

(* The server's handlers, threads and shutdown keep the promise of         *)
(* Service: nothing is answered before it was asked completely, out of     *)
(* turn, on a connection already closed or after the process ended, and no *)
(* two orders are given the same number.                                   *)
Implements == Promised!Spec

-----------------------------------------------------------------------------
(* Liveness, under FairSpec.                                               *)

Arrived(c, n) ==
  /\ conn[c] = "session" /\ n <= Len(sent[c])
  /\ n = Len(sent[c]) => ~partial[c]

(* A request that was sent completely is answered, unless its session      *)
(* closes, the server stops, or the peer stops reading its answers for     *)
(* good (session.cpp:44-126).                                              *)
RequestAnswered ==
  \A c \in Conns, n \in 1 .. MaxRequests :
    Arrived(c, n) ~> \/ Len(out[c]) >= n \/ closed[c] \/ phase # "running"
                    \/ [](unread[c] = Window)

(* Every connection that reaches the listening socket is made a session or *)
(* turned away: do_accept always runs again (server.cpp:109).              *)
BacklogResolved ==
  \A c \in Conns :
    conn[c] = "backlog" ~> \/ conn[c] \in {"session", "rejected", "aborted"}
                           \/ phase # "running"

(* When a peer has gone, its session closes and gives its place back, in   *)
(* whichever state of the loop it was (session.cpp:50-53,94-97,118-121,    *)
(* 129-136).                                                               *)
DeadPeerReleased ==
  \A c \in Conns :
    conn[c] = "session" /\ ~peerOpen[c]
      ~> (closed[c] /\ c \notin Closing) \/ phase # "running"

(* A stopped server exits, with every session it had destroyed and its     *)
(* count returned (server.cpp:58-66, 42-44).                               *)
ShutdownCompletes ==
  phase = "stopped" ~> phase = "crashed" \/ (phase = "exited" /\ active = 0)

-----------------------------------------------------------------------------
(* What comments and documents say and the code does not do.               *)

(* "Called by Session when it dispatches a request" (server.hpp:60), and   *)
(* printed at shutdown as the requests served (server.cpp:67-69): nothing  *)
(* calls on_request().                                                     *)
RequestsCounted == \A c \in Conns : Len(out[c]) <= totalRequests

(* A sell order is answered by kOrderAck (trade_service.hpp:8), and every  *)
(* message has a type of the protocol's table (protocol.hpp:26-38).        *)
AnswerTypesDeclared ==
  \A c \in Conns : \A n \in 1 .. Len(out[c]) :
    out[c][n].type \in ServerResponses

=============================================================================
