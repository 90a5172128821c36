---------------------------- MODULE ServerProofs ----------------------------
(***************************************************************************)
(* Theorems about the server's admission of connections, for any number of *)
(* connections, any limit, any mixture of requests.                        *)
(***************************************************************************)
EXTENDS Server, FiniteSetTheorems, TLAPS

-----------------------------------------------------------------------------
(* The inductive invariant.                                                *)

(* Every item on its way to the server belongs to a request that was sent, *)
(* and a peer sends at most MaxRequests.                                   *)
ItemsSent ==
  \A c \in Conns :
    /\ Len(sent[c]) <= MaxRequests
    /\ \A i \in 1 .. Len(stream[c]) : stream[c][i].tag <= Len(sent[c])

(* A session that is open has one operation outstanding, and the buffer of *)
(* that operation is filled; no other connection has an operation, and     *)
(* only a session whose handler still runs is in a close().                *)
OperationOf ==
  \A c \in Conns :
    /\ c \in Live => ops[c] \in {{"readHeader"}, {"readBody"}, {"write"}}
    /\ c \notin Live => ops[c] \in {{}, {"close"}}
    /\ ops[c] = {"close"} => /\ conn[c] = "session"
                             /\ phase \notin {"joined", "exited"}
    /\ ops[c] = {"readBody"} => header[c] \in Header
    /\ ops[c] = {"write"} => writeBuf[c] \in Response

(* The accept handler holds a connection of its own from its check of the  *)
(* limit to the start of the session; only sessions are ever closed.       *)
AcceptOwns ==
  /\ acceptStep # "armed" => /\ acceptee \in Conns
                             /\ conn[acceptee] = "accepting"
                             /\ phase \notin {"joined", "exited"}
  /\ \A c \in Conns : closed[c] => conn[c] = "session"

IndInv == /\ TypeOK
          /\ ItemsSent
          /\ OperationOf
          /\ AcceptOwns
          /\ CountExact
          /\ LimitRespected

-----------------------------------------------------------------------------
(* Lemmas about the counted connections.                                   *)

LEMMA CountedFinite ==
  ASSUME TypeOK
  PROVE  IsFiniteSet(Counted)
<1>1. IsFiniteSet(Live)
  <2>1. Live \in SUBSET Conns
    BY DEF Live, Sessions
  <2>2. IsFiniteSet(Conns)
    BY ServerAssumption
  <2> QED
    BY <2>1, <2>2, FS_Subset
<1>2. IsFiniteSet(Admitting)
  BY FS_EmptySet, FS_Singleton DEF Admitting
<1>3. IsFiniteSet(Closing)
  <2>1. Closing \in SUBSET Conns
    BY DEF Closing
  <2> QED
    BY <2>1, FS_Subset, ServerAssumption
<1>4. IsFiniteSet(Live \cup Closing)
  BY <1>1, <1>3, FS_Union
<1> QED
  BY <1>2, <1>4, FS_Union DEF Counted

(* A connection leaves the counted ones as the callback takes one from the *)
(* counter.                                                                *)
LEMMA CountDrop ==
  ASSUME TypeOK, CountExact, NEW c \in Counted,
         Counted' = Counted \ {c}, active' = active - 1
  PROVE  CountExact' /\ active' \in Nat /\ active' <= active
<1>1. /\ IsFiniteSet(Counted \ {c})
      /\ Cardinality(Counted \ {c}) = Cardinality(Counted) - 1
  BY CountedFinite, FS_RemoveElement
<1>2. Cardinality(Counted \ {c}) \in Nat
  BY <1>1, FS_CardinalityType
<1> QED
  BY <1>1, <1>2 DEF CountExact, TypeOK

(* What leaves the sessions, the closed and closing ones and the accept    *)
(* handler alone leaves the counted connections alone.                     *)
LEMMA CountKept ==
  ASSUME CountExact, UNCHANGED <<active, acceptStep, acceptee, closed>>,
         Sessions' = Sessions, Closing' = Closing
  PROVE  CountExact'
BY DEF CountExact, Counted, Live, Admitting

-----------------------------------------------------------------------------
LEMMA InitInv == Init => IndInv
<1> SUFFICES ASSUME Init PROVE IndInv
  OBVIOUS
<1>1. TypeOK
  BY ServerAssumption DEF Init, TypeOK, Item, OpKinds, Response
<1>2. ItemsSent /\ OperationOf /\ AcceptOwns
  BY ServerAssumption
  DEF Init, ItemsSent, OperationOf, AcceptOwns, Live, Sessions
<1>3. Counted = {}
  BY DEF Init, Counted, Live, Closing, Sessions, Admitting
<1>4. CountExact /\ LimitRespected
  BY <1>3, FS_EmptySet, ServerAssumption DEF Init, CountExact, LimitRespected
<1> QED
  BY <1>1, <1>2, <1>4 DEF IndInv

(* A session that closes stays counted until its callback. *)
LEMMA CloseInv ==
  ASSUME IndInv, NEW c \in Conns, NEW op \in ops[c] \ {"close"},
         phase = "running", CloseSession(c, op), UNCHANGED header, HandlerFrame
  PROVE  IndInv'
<1> USE DEF IndInv
<1>1. c \in Live /\ ops[c] = {op} /\ ~closed[c] /\ conn[c] = "session"
  BY DEF OperationOf, Live, Sessions
<1>2. /\ ops' = [ops EXCEPT ![c] = {"close"}]
      /\ closed' = [closed EXCEPT ![c] = TRUE]
  BY <1>1 DEF CloseSession, Continue, TypeOK
<1>3. UNCHANGED <<phase, acceptStep, acceptee, conn, peerOpen, sent, partial,
                  unread, header, writeBuf, out, active, total, totalRequests,
                  orderCounter>>
  BY DEF CloseSession, HandlerFrame, peerVars
<1>4. Counted' = Counted
  <2>1. Live' = Live \ {c}
    BY <1>2, <1>3 DEF Live, Sessions, TypeOK
  <2>2. Closing' = Closing \cup {c}
    BY <1>2 DEF Closing, TypeOK
  <2>3. Admitting' = Admitting
    BY <1>3 DEF Admitting
  <2> QED
    BY <1>1, <2>1, <2>2, <2>3 DEF Counted
<1>5. TypeOK'
  <2>1. ops' \in [Conns -> SUBSET (OpKinds \cup {"close"})]
    BY <1>2 DEF TypeOK
  <2>2. stream' \in [Conns -> Seq(Item)] /\ closed' \in [Conns -> BOOLEAN]
    BY <1>2 DEF TypeOK, CloseSession
  <2> QED
    BY <1>3, <2>1, <2>2 DEF TypeOK
<1>6. ItemsSent'
  BY DEF ItemsSent, TypeOK, CloseSession, HandlerFrame, peerVars
<1>7. OperationOf'
  BY <1>1, <1>2, <1>3 DEF OperationOf, TypeOK, Live, Sessions
<1>8. AcceptOwns' /\ LimitRespected'
  BY <1>1, <1>2, <1>3 DEF AcceptOwns, LimitRespected, TypeOK
<1>9. CountExact'
  BY <1>3, <1>4 DEF CountExact
<1> QED
  BY <1>5, <1>6, <1>7, <1>8, <1>9

(* The callback takes one from the counter, and one only. *)
LEMMA ReturnInv ==
  ASSUME IndInv, NEW c \in Conns, CloseReturns(c)
  PROVE  IndInv'
<1> USE DEF IndInv
<1>1. c \in Closing /\ c \notin Live /\ ops[c] = {"close"} /\ conn[c] = "session"
  BY DEF CloseReturns, Closing, OperationOf
<1>2. /\ ops' = [ops EXCEPT ![c] = {}]
      /\ active' = active - 1
  <2>1. ops' = [ops EXCEPT ![c] = {}]
    BY <1>1 DEF CloseReturns, Continue, TypeOK
  <2>2. active' = (active - 1) - 0 /\ active \in Nat
    BY DEF CloseReturns, CloseCallbacks, TypeOK
  <2> QED
    BY <2>1, <2>2
<1>3. UNCHANGED <<phase, acceptStep, acceptee, conn, peerOpen, sent, partial,
                  stream, unread, closed, header, writeBuf, out, total,
                  totalRequests, orderCounter>>
  BY DEF CloseReturns, HandlerFrame, peerVars, wire
<1>4. Counted' = Counted \ {c} /\ c \in Counted
  <2>1. Live' = Live /\ Admitting' = Admitting /\ c \notin Admitting
    BY <1>1, <1>3 DEF Live, Sessions, Admitting, AcceptOwns
  <2>2. Closing' = Closing \ {c}
    BY <1>2 DEF Closing, TypeOK
  <2> QED
    BY <1>1, <2>1, <2>2 DEF Counted
<1>5. CountExact' /\ active' \in Nat /\ active' <= active
  BY <1>2, <1>4, CountDrop
<1>6. TypeOK'
  <2>1. ops' \in [Conns -> SUBSET (OpKinds \cup {"close"})]
    BY <1>2 DEF TypeOK
  <2> QED
    BY <1>3, <1>5, <2>1 DEF TypeOK
<1>7. ItemsSent' /\ AcceptOwns'
  BY <1>3 DEF ItemsSent, AcceptOwns
<1>8. OperationOf'
  BY <1>1, <1>2, <1>3 DEF OperationOf, TypeOK, Live, Sessions
<1>9. LimitRespected'
  <2>1. active \in Int /\ active' \in Int /\ active' < active /\ MaxConnections \in Int
    BY <1>2, <1>5, ServerAssumption DEF TypeOK
  <2> QED
    BY <1>3, <2>1 DEF LimitRespected
<1> QED
  BY <1>5, <1>6, <1>7, <1>8, <1>9

-----------------------------------------------------------------------------
(* Steps of a session.                                                     *)

LEMMA ArrivedHeaderType ==
  ASSUME TypeOK, ItemsSent, NEW c \in Conns, stream[c] # <<>>
  PROVE  ArrivedHeader(c) \in Header
<1>1. stream[c] \in Seq(Item) /\ Head(stream[c]) \in Item
  BY DEF TypeOK
<1>2. Head(stream[c]) = stream[c][1] /\ 1 \in 1 .. Len(stream[c])
  BY <1>1
<1>3. Head(stream[c]).tag \in 1 .. Len(sent[c])
  BY <1>1, <1>2 DEF ItemsSent, Item, TypeOK
<1>4. sent[c][Head(stream[c]).tag] \in Announce
  <2>1. sent[c] \in Seq(Announce)
    BY DEF TypeOK
  <2> QED
    BY <1>3, <2>1
<1>5. Head(stream[c]).tag \in 1 .. MaxRequests
  BY <1>1 DEF Item
<1> QED
  BY <1>4, <1>5 DEF ArrivedHeader, Header, Announce

LEMMA UInt16Bounds ==
  ASSUME NEW t \in Nat
  PROVE  t \in UInt16 <=> t <= MaxUInt16
<1>1. MaxUInt16 \in Nat
  BY DEF MaxUInt16
<1> QED
  BY <1>1 DEF UInt16

(* Setting the high bit stays within 16 bits. *)
LEMMA ResponseTypeRange ==
  ASSUME NEW t \in UInt16
  PROVE  ResponseType(t) \in UInt16
<1>1. t \in Nat /\ t <= MaxUInt16
  BY UInt16Bounds DEF UInt16
<1>2. CASE t < HighBit
  <2>1. t + HighBit \in Nat /\ t + HighBit <= MaxUInt16
    BY <1>1, <1>2 DEF HighBit, MaxUInt16
  <2> QED
    BY <1>2, <2>1, UInt16Bounds DEF ResponseType
<1>3. CASE ~(t < HighBit)
  BY <1>3 DEF ResponseType
<1> QED
  BY <1>2, <1>3

LEMMA ReplyType ==
  ASSUME NEW h \in Header, NEW t \in UInt16, NEW order \in Nat
  PROVE  Reply(h, t, order) \in Response
BY DEF Reply, Header, Response

LEMMA DispatchType ==
  ASSUME TypeOK, NEW h \in Header, NEW d \in Dispatch(h)
  PROVE  d.reply \in Response /\ d.counter \in Nat \ {0}
<1>1. h.type \in UInt16
  <2>1. h.type \in Types
    BY DEF Header
  <2> QED
    BY <2>1, ServerAssumption
<1>2. ResponseType(h.type) \in UInt16 /\ kError \in UInt16
  BY <1>1, ResponseTypeRange, UInt16Bounds DEF kError, MaxUInt16
<1>3. /\ orderCounter \in Nat /\ orderCounter + 1 \in Nat \ {0}
      /\ orderCounter \in Nat \ {0} /\ NoOrder \in Nat
  BY DEF TypeOK, NoOrder
<1>4. /\ Reply(h, kError, NoOrder) \in Response
      /\ Reply(h, ResponseType(h.type), NoOrder) \in Response
      /\ Reply(h, ResponseType(h.type), TakenOrder) \in Response
  BY <1>2, <1>3, ReplyType DEF TakenOrder
<1>5. d.reply \in {Reply(h, kError, NoOrder),
                   Reply(h, ResponseType(h.type), NoOrder),
                   Reply(h, ResponseType(h.type), TakenOrder)}
  BY DEF Dispatch
<1>6. d.counter \in {orderCounter, orderCounter + 1}
  BY DEF Dispatch, OrderAdvanced
<1> QED
  BY <1>3, <1>4, <1>5, <1>6

(* Consuming an item leaves items of requests that were sent. *)
LEMMA ConsumeItems ==
  ASSUME TypeOK, ItemsSent, NEW c \in Conns, stream[c] # <<>>, Consume(c),
         sent' = sent
  PROVE  ItemsSent' /\ stream' \in [Conns -> Seq(Item)]
<1>1. stream[c] \in Seq(Item) /\ Tail(stream[c]) \in Seq(Item)
  BY DEF TypeOK
<1>2. stream' \in [Conns -> Seq(Item)]
  BY <1>1 DEF Consume, TypeOK
<1>3. \A i \in 1 .. Len(Tail(stream[c])) :
        Tail(stream[c])[i].tag <= Len(sent[c])
  <2> SUFFICES ASSUME NEW i \in 1 .. Len(Tail(stream[c]))
               PROVE  Tail(stream[c])[i].tag <= Len(sent[c])
    OBVIOUS
  <2>1. Tail(stream[c])[i] = stream[c][i + 1] /\ i + 1 \in 1 .. Len(stream[c])
    BY <1>1
  <2> QED
    BY <2>1 DEF ItemsSent
<1> QED
  BY <1>2, <1>3 DEF ItemsSent, Consume, TypeOK

LEMMA DispatchInv ==
  ASSUME IndInv, NEW c \in Conns, NEW op \in ops[c] \ {"close"},
         NEW h \in Header, stream[c] # <<>>, Consume(c),
         DispatchAndWrite(c, op, h),
         header' \in [Conns -> Header \cup {NoMessage}],
         \A d \in Conns \ {c} : header'[d] = header[d], HandlerFrame
  PROVE  IndInv'
<1> USE DEF IndInv
<1>1. c \in Live /\ ops[c] = {op}
  BY DEF OperationOf
<1>2. PICK d \in Dispatch(h) :
        /\ writeBuf' = [writeBuf EXCEPT ![c] = d.reply]
        /\ orderCounter' = d.counter
        /\ Continue(c, op, {"write"})
        /\ UNCHANGED <<unread, closed, active, out>>
  BY DEF DispatchAndWrite, Refill
<1>3. d.reply \in Response /\ d.counter \in Nat \ {0}
  BY DispatchType
<1>4. ops' = [ops EXCEPT ![c] = {"write"}]
  BY <1>1, <1>2 DEF Continue, TypeOK
<1>5. ItemsSent' /\ stream' \in [Conns -> Seq(Item)]
  BY ConsumeItems DEF HandlerFrame, peerVars
<1>6. TypeOK'
  <2>1. ops' \in [Conns -> SUBSET (OpKinds \cup {"close"})]
    BY <1>4 DEF TypeOK, OpKinds
  <2>2. /\ writeBuf' \in [Conns -> Response \cup {NoMessage}]
        /\ orderCounter' \in Nat \ {0}
    BY <1>2, <1>3 DEF TypeOK
  <2>3. UNCHANGED <<phase, acceptStep, acceptee, conn, peerOpen, sent, partial,
                    unread, closed, out, active, total, totalRequests>>
    BY <1>2 DEF HandlerFrame, peerVars
  <2> QED
    BY <1>5, <2>1, <2>2, <2>3 DEF TypeOK
<1>7. OperationOf'
  BY <1>1, <1>2, <1>3, <1>4
  DEF OperationOf, TypeOK, HandlerFrame, Live, Sessions
<1>8. AcceptOwns' /\ LimitRespected'
  BY <1>2 DEF AcceptOwns, LimitRespected, HandlerFrame
<1>9. CountExact'
  <2>1. Closing' = Closing
    BY <1>1, <1>4 DEF Closing, TypeOK
  <2> QED
    BY <1>2, <2>1, CountKept DEF HandlerFrame, Sessions
<1> QED
  BY <1>5, <1>6, <1>7, <1>8, <1>9

LEMMA HeaderWithBodyInv ==
  ASSUME IndInv, NEW c \in Conns, HeaderWithBody(c)
  PROVE  IndInv'
<1> USE DEF IndInv
<1>1. "readHeader" \in ops[c] /\ stream[c] # <<>>
  BY DEF HeaderWithBody, Completes, NextItem
<1>2. c \in Live /\ ops[c] = {"readHeader"}
  BY <1>1 DEF OperationOf
<1>3. ArrivedHeader(c) \in Header
  BY <1>1, ArrivedHeaderType
<1>4. /\ header' = [header EXCEPT ![c] = ArrivedHeader(c)]
      /\ ops' = [ops EXCEPT ![c] = {"readBody"}]
  BY <1>2 DEF HeaderWithBody, Continue, TypeOK
<1>5. /\ Consume(c)
      /\ UNCHANGED <<phase, acceptStep, acceptee, conn, peerOpen, sent, partial,
                     unread, closed, writeBuf, out, active, total,
                     totalRequests, orderCounter>>
  BY DEF HeaderWithBody, HandlerFrame, peerVars
<1>6. ItemsSent' /\ stream' \in [Conns -> Seq(Item)]
  BY <1>1, <1>5, ConsumeItems
<1>7. TypeOK'
  <2>1. /\ ops' \in [Conns -> SUBSET (OpKinds \cup {"close"})]
        /\ header' \in [Conns -> Header \cup {NoMessage}]
    BY <1>3, <1>4 DEF TypeOK, OpKinds
  <2> QED
    BY <1>5, <1>6, <2>1 DEF TypeOK
<1>8. OperationOf'
  BY <1>2, <1>3, <1>4, <1>5 DEF OperationOf, TypeOK, Live, Sessions
<1>9. Closing' = Closing
  BY <1>2, <1>4 DEF Closing, TypeOK
<1>10. AcceptOwns' /\ LimitRespected' /\ CountExact'
  BY <1>5, <1>9, CountKept DEF AcceptOwns, LimitRespected, Sessions
<1> QED
  BY <1>6, <1>7, <1>8, <1>10

LEMMA WriteDoneInv ==
  ASSUME IndInv, NEW c \in Conns, WriteDone(c)
  PROVE  IndInv'
<1> USE DEF IndInv
<1>1. c \in Live /\ ops[c] = {"write"} /\ writeBuf[c] \in Response
  BY DEF OperationOf, WriteDone, Completes
<1>2. ops' = [ops EXCEPT ![c] = {"readHeader"}]
  BY <1>1 DEF WriteDone, Continue, TypeOK
<1>3. UNCHANGED <<phase, acceptStep, acceptee, conn, peerOpen, sent, partial,
                  stream, closed, header, writeBuf, active, total,
                  totalRequests, orderCounter>>
  BY DEF WriteDone, HandlerFrame, peerVars
<1>4. TypeOK'
  <2>1. ops' \in [Conns -> SUBSET (OpKinds \cup {"close"})]
    BY <1>2 DEF TypeOK, OpKinds
  <2>2. out' \in [Conns -> Seq(Response)]
    <3>1. out[c] \in Seq(Response)
      BY DEF TypeOK
    <3>2. Append(out[c], writeBuf[c]) \in Seq(Response)
      BY <1>1, <3>1
    <3> QED
      BY <3>2 DEF WriteDone, TypeOK
  <2>3. unread' \in [Conns -> 0 .. Window]
    <3>1. unread[c] \in 0 .. Window /\ unread[c] < Window
      BY DEF WriteDone, TypeOK
    <3>2. unread[c] + 1 \in 0 .. Window
      BY <3>1, ServerAssumption
    <3> QED
      BY <3>2 DEF WriteDone, TypeOK
  <2> QED
    BY <1>3, <2>1, <2>2, <2>3 DEF TypeOK
<1>5. OperationOf'
  BY <1>1, <1>2, <1>3 DEF OperationOf, TypeOK, Live, Sessions
<1>6. Closing' = Closing
  BY <1>1, <1>2 DEF Closing, TypeOK
<1>7. AcceptOwns' /\ LimitRespected' /\ CountExact' /\ ItemsSent'
  BY <1>3, <1>6, CountKept DEF AcceptOwns, LimitRespected, Sessions, ItemsSent
<1> QED
  BY <1>4, <1>5, <1>7

LEMMA SessionStepInv ==
  ASSUME IndInv, NEW c \in Conns, SessionStep(c)
  PROVE  IndInv'
<1>1. ASSUME stream[c] # <<>> PROVE ArrivedHeader(c) \in Header
  BY <1>1, ArrivedHeaderType DEF IndInv
<1>2. CASE HeaderMalformed(c)
  BY <1>2, CloseInv DEF HeaderMalformed, Completes
<1>3. CASE HeaderWithoutBody(c)
  <2>1. /\ "readHeader" \in ops[c] /\ stream[c] # <<>> /\ Consume(c)
        /\ DispatchAndWrite(c, "readHeader", ArrivedHeader(c))
        /\ header' = [header EXCEPT ![c] = ArrivedHeader(c)] /\ HandlerFrame
    BY <1>3 DEF HeaderWithoutBody, Completes, NextItem
  <2>2. /\ header' \in [Conns -> Header \cup {NoMessage}]
        /\ \A d \in Conns \ {c} : header'[d] = header[d]
    BY <1>1, <2>1 DEF IndInv, TypeOK
  <2> QED
    BY <1>1, <2>1, <2>2, DispatchInv
<1>4. CASE HeaderWithBody(c)
  BY <1>4, HeaderWithBodyInv
<1>5. CASE BodyRead(c)
  <2>1. /\ "readBody" \in ops[c] /\ stream[c] # <<>> /\ Consume(c)
        /\ DispatchAndWrite(c, "readBody", header[c])
        /\ header' = header /\ HandlerFrame
    BY <1>5 DEF BodyRead, Completes, NextItem
  <2>2. header[c] \in Header
    BY <2>1 DEF IndInv, OperationOf
  <2>3. header' \in [Conns -> Header \cup {NoMessage}]
    BY <2>1 DEF IndInv, TypeOK
  <2> QED
    BY <2>1, <2>2, <2>3, DispatchInv
<1>6. CASE ReadFails(c)
  BY <1>6, CloseInv DEF ReadFails, Completes
<1>7. CASE WriteDone(c)
  BY <1>7, WriteDoneInv
<1>8. CASE WriteFails(c)
  BY <1>8, CloseInv DEF WriteFails, Completes
<1> QED
  BY <1>2, <1>3, <1>4, <1>5, <1>6, <1>7, <1>8 DEF SessionStep

-----------------------------------------------------------------------------
(* Steps of the accept handler.                                            *)

LEMMA AdmitInv ==
  ASSUME IndInv, NEW c \in Conns, AcceptAdmit(c)
  PROVE  IndInv'
<1> USE DEF IndInv
<1>1. /\ phase = "running" /\ acceptStep = "armed" /\ conn[c] = "backlog"
      /\ active < MaxConnections
      /\ acceptStep' = "admitted" /\ acceptee' = c
      /\ conn' = [conn EXCEPT ![c] = "accepting"]
      /\ UNCHANGED <<phase, peerOpen, sent, partial, stream, unread, ops, closed,
                     header, writeBuf, out, active, total, totalRequests,
                     orderCounter>>
  BY DEF AcceptAdmit, AcceptFrame, BelowLimit, peerVars
<1>2. TypeOK'
  BY <1>1 DEF TypeOK
<1>3. Sessions' = Sessions
  BY <1>1 DEF Sessions, TypeOK
<1>4. ItemsSent' /\ OperationOf'
  BY <1>1, <1>3 DEF ItemsSent, OperationOf, Live, Sessions
<1>5. AcceptOwns'
  BY <1>1 DEF AcceptOwns, TypeOK
<1>6. CountExact'
  BY <1>1, <1>3 DEF CountExact, Counted, Live, Closing, Admitting
<1>7. LimitRespected'
  BY <1>1 DEF LimitRespected
<1> QED
  BY <1>2, <1>4, <1>5, <1>6, <1>7

(* A connection turned away or aborted was not a session. *)
LEMMA TurnAwayInv ==
  ASSUME IndInv, NEW c \in Conns, AcceptReject(c) \/ AcceptError(c)
  PROVE  IndInv'
<1> USE DEF IndInv
<1>1. /\ acceptStep = "armed" /\ conn[c] = "backlog"
      /\ \E s \in {"rejected", "aborted"} : conn' = [conn EXCEPT ![c] = s]
      /\ stream' = [stream EXCEPT ![c] = <<>>]
      /\ UNCHANGED <<phase, acceptStep, acceptee, peerOpen, sent, partial, unread,
                     ops, closed, header, writeBuf, out, active, total,
                     totalRequests, orderCounter>>
  BY DEF AcceptReject, AcceptError, AcceptAgain, AcceptFrame, peerVars
<1>2. TypeOK'
  BY <1>1 DEF TypeOK
<1>3. Sessions' = Sessions
  BY <1>1 DEF Sessions, TypeOK
<1>4. ItemsSent'
  BY <1>1 DEF ItemsSent, TypeOK
<1>5. OperationOf'
  BY <1>1, <1>3 DEF OperationOf, Live, Sessions
<1>6. AcceptOwns'
  BY <1>1 DEF AcceptOwns, TypeOK
<1>7. CountExact' /\ LimitRespected'
  BY <1>1, <1>3, CountKept DEF LimitRespected, Closing
<1> QED
  BY <1>2, <1>4, <1>5, <1>6, <1>7

(* The acceptee joins the counted connections as the counter goes up, and  *)
(* there was room: since the check, sessions can only have closed.         *)
LEMMA AcceptCountInv ==
  ASSUME IndInv, AcceptCount
  PROVE  IndInv'
<1> USE DEF IndInv
<1>1. /\ acceptStep = "admitted" /\ acceptStep' = "counted"
      /\ total' = total + 1 /\ active' = active + 1
      /\ UNCHANGED <<phase, acceptee, conn, peerOpen, sent, partial, stream,
                     unread, ops, closed, header, writeBuf, out, totalRequests,
                     orderCounter>>
  BY DEF AcceptCount, AcceptFrame, peerVars
<1>2. active \in Nat /\ total \in Nat /\ active + 1 \in Nat /\ total + 1 \in Nat
  BY DEF TypeOK
<1>3. TypeOK'
  BY <1>1, <1>2 DEF TypeOK
<1>4. Counted' = Counted \cup {acceptee}
  BY <1>1 DEF Counted, Live, Closing, Sessions, Admitting
<1>5. acceptee \notin Counted
  BY <1>1 DEF Counted, Live, Closing, Sessions, Admitting, AcceptOwns, OperationOf
<1>6. Cardinality(Counted') = Cardinality(Counted) + 1
  BY <1>4, <1>5, CountedFinite, FS_AddElement
<1>7. CountExact'
  BY <1>1, <1>6 DEF CountExact
<1>8. LimitRespected'
  BY <1>1, <1>2, ServerAssumption DEF LimitRespected
<1>9. ItemsSent' /\ OperationOf' /\ AcceptOwns'
  BY <1>1 DEF ItemsSent, OperationOf, AcceptOwns, Live, Sessions
<1> QED
  BY <1>3, <1>7, <1>8, <1>9

LEMMA AcceptStartInv ==
  ASSUME IndInv, AcceptStart
  PROVE  IndInv'
<1> USE DEF IndInv
<1>1. /\ acceptStep = "counted" /\ acceptStep' = "armed"
      /\ acceptee' = NoConn
      /\ conn' = [conn EXCEPT ![acceptee] = "session"]
      /\ ops' = [ops EXCEPT ![acceptee] = {"readHeader"}]
      /\ UNCHANGED <<phase, peerOpen, sent, partial, stream, unread, closed,
                     header, writeBuf, out, active, total, totalRequests,
                     orderCounter>>
  BY DEF AcceptStart, AcceptAgain, AcceptFrame, peerVars
<1>2. acceptee \in Conns /\ conn[acceptee] = "accepting" /\ ~closed[acceptee]
  BY <1>1 DEF AcceptOwns, TypeOK
<1>3. TypeOK'
  BY <1>1, <1>2 DEF TypeOK, OpKinds
<1>4. Live' = Live \cup {acceptee}
  BY <1>1, <1>2 DEF Live, Sessions, TypeOK
<1>5. Counted' = Counted
  <2>1. Closing' = Closing
    BY <1>1, <1>2 DEF Closing, OperationOf, TypeOK
  <2> QED
    BY <1>1, <1>4, <2>1 DEF Counted, Admitting
<1>6. CountExact' /\ LimitRespected'
  BY <1>1, <1>5 DEF CountExact, LimitRespected
<1>7. OperationOf'
  BY <1>1, <1>2, <1>4 DEF OperationOf, TypeOK
<1>8. ItemsSent' /\ AcceptOwns'
  BY <1>1 DEF ItemsSent, AcceptOwns, TypeOK
<1> QED
  BY <1>3, <1>6, <1>7, <1>8

LEMMA AcceptThrowInv ==
  ASSUME IndInv, AcceptThrow
  PROVE  IndInv'
<1> USE DEF IndInv
<1>1. /\ acceptStep = "counted" /\ phase' = "crashed"
      /\ UNCHANGED <<acceptStep, acceptee, conn, peerOpen, sent, partial, stream,
                     unread, ops, closed, header, writeBuf, out, active, total,
                     totalRequests, orderCounter>>
  BY DEF AcceptThrow, peerVars, wire, sessionVars
<1>2. TypeOK'
  BY <1>1 DEF TypeOK
<1>3. ItemsSent' /\ OperationOf' /\ AcceptOwns' /\ LimitRespected'
  BY <1>1
  DEF ItemsSent, OperationOf, AcceptOwns, LimitRespected, Live, Sessions
<1>4. CountExact'
  BY <1>1, CountKept DEF Sessions, Closing
<1> QED
  BY <1>2, <1>3, <1>4

-----------------------------------------------------------------------------
(* Steps of the shutdown and of the peers.                                 *)

LEMMA PhaseInv ==
  ASSUME IndInv, Signal \/ Join \/ Exit
  PROVE  IndInv'
<1> USE DEF IndInv
<1>1. /\ phase' \in {"stopped", "joined", "exited"}
      /\ \/ phase' = "stopped"
         \/ acceptStep = "armed" /\ Closing = {}
         \/ phase \in {"joined", "exited"}
      /\ UNCHANGED <<acceptStep, acceptee, conn, peerOpen, sent, partial, stream,
                     unread, ops, closed, header, writeBuf, out, active, total,
                     totalRequests, orderCounter>>
  BY DEF Signal, Join, Exit, ShutdownFrame, peerVars
<1>2. TypeOK'
  BY <1>1 DEF TypeOK
<1>3. ItemsSent' /\ OperationOf' /\ AcceptOwns' /\ LimitRespected'
  BY <1>1
  DEF ItemsSent, OperationOf, AcceptOwns, LimitRespected, Live, Closing, Sessions
<1>4. CountExact'
  BY <1>1, CountKept DEF Sessions, Closing
<1> QED
  BY <1>2, <1>3, <1>4

LEMMA DestroyInv ==
  ASSUME IndInv, NEW c \in Conns, DestroySession(c)
  PROVE  IndInv'
<1> USE DEF IndInv
<1>1. /\ phase = "joined" /\ ops[c] # {} /\ ops' = [ops EXCEPT ![c] = {}]
      /\ closed' = [closed EXCEPT ![c] = TRUE]
      /\ stream' = [stream EXCEPT ![c] = <<>>]
      /\ UNCHANGED <<phase, acceptStep, acceptee, conn, peerOpen, sent, partial,
                     unread, header, writeBuf, out, total, totalRequests,
                     orderCounter>>
  BY DEF DestroySession, ShutdownFrame, peerVars
<1>2. c \in Live
  BY <1>1 DEF OperationOf
<1>3. active' = active - 1
  BY <1>2 DEF DestroySession, CloseCallbacks, Live, TypeOK
<1>4. CountExact' /\ active' \in Nat /\ active' <= active
  <2>1. Counted' = Counted \ {c} /\ c \in Counted
    <3>1. Live' = Live \ {c} /\ Admitting' = Admitting /\ c \notin Admitting
      BY <1>1, <1>2 DEF Live, Sessions, Admitting, AcceptOwns, TypeOK
    <3>2. Closing' = Closing \ {c}
      BY <1>1 DEF Closing, TypeOK
    <3> QED
      BY <1>2, <3>1, <3>2 DEF Counted
  <2> QED
    BY <1>3, <2>1, CountDrop
<1>5. TypeOK'
  BY <1>1, <1>4 DEF TypeOK
<1>6. ItemsSent'
  BY <1>1 DEF ItemsSent, TypeOK
<1>7. OperationOf'
  BY <1>1 DEF OperationOf, TypeOK, Live, Sessions
<1>8. AcceptOwns'
  BY <1>1, <1>2 DEF AcceptOwns, TypeOK, Live, Sessions
<1>9. LimitRespected'
  <2>1. active \in Int /\ active' < active /\ MaxConnections \in Int
    BY <1>3, <1>4, ServerAssumption DEF TypeOK
  <2> QED
    BY <1>1, <1>4, <2>1 DEF LimitRespected
<1> QED
  BY <1>4, <1>5, <1>6, <1>7, <1>8, <1>9

(* A step of a peer that leaves sessions, counters and handlers alone.     *)
LEMMA PeerFrameInv ==
  ASSUME IndInv, PeerFrame, TypeOK', ItemsSent',
         Sessions' = Sessions,
         \A c \in Conns : conn[c] \in {"accepting", "session"} =>
                            conn'[c] = conn[c]
  PROVE  IndInv'
<1> USE DEF IndInv
<1>1. UNCHANGED <<phase, acceptStep, acceptee, ops, closed, header, writeBuf,
                  active>>
  BY DEF PeerFrame, sessionVars
<1>2. OperationOf' /\ AcceptOwns' /\ LimitRespected'
  BY <1>1 DEF OperationOf, AcceptOwns, LimitRespected, Live
<1>3. CountExact'
  BY <1>1, CountKept DEF Closing
<1> QED
  BY <1>2, <1>3

LEMMA PeerTypes ==
  ASSUME TypeOK, PeerFrame
  PROVE  TypeOK' <=>
           /\ conn' \in [Conns -> {"new", "backlog", "accepting", "session",
                                   "rejected", "aborted"}]
           /\ peerOpen' \in [Conns -> BOOLEAN]
           /\ sent' \in [Conns -> Seq(Announce)]
           /\ partial' \in [Conns -> BOOLEAN]
           /\ stream' \in [Conns -> Seq(Item)]
           /\ unread' \in [Conns -> 0 .. Window]
BY DEF TypeOK, PeerFrame, sessionVars

(* An item that joins the stream belongs to a request that was sent. *)
LEMMA StreamAppend ==
  ASSUME TypeOK, ItemsSent, NEW c \in Conns, NEW e \in Item,
         stream' = [stream EXCEPT ![c] = Append(@, e)],
         \A d \in Conns : Len(sent'[d]) <= MaxRequests /\ Len(sent[d]) <= Len(sent'[d]),
         \A d \in Conns : Len(sent'[d]) \in Nat,
         e.tag <= Len(sent'[c])
  PROVE  ItemsSent' /\ stream' \in [Conns -> Seq(Item)]
<1>1. stream[c] \in Seq(Item) /\ Append(stream[c], e) \in Seq(Item)
  BY DEF TypeOK
<1>2. stream' \in [Conns -> Seq(Item)]
  BY <1>1 DEF TypeOK
<1>3. ASSUME NEW d \in Conns, NEW i \in 1 .. Len(stream'[d])
      PROVE  stream'[d][i].tag <= Len(sent'[d])
  <2>1. CASE d = c /\ i = Len(stream[c]) + 1
    BY <1>1, <2>1 DEF TypeOK
  <2>2. CASE ~(d = c /\ i = Len(stream[c]) + 1)
    <3>1. i \in 1 .. Len(stream[d]) /\ stream'[d][i] = stream[d][i]
      BY <1>1, <2>2 DEF TypeOK
    <3>2. stream[d][i] \in Item /\ stream[d][i].tag \in Nat
      <4>1. stream[d] \in Seq(Item)
        BY DEF TypeOK
      <4>2. stream[d][i] \in Item
        BY <3>1, <4>1
      <4> QED
        BY <4>2 DEF Item
    <3>3. stream[d][i].tag <= Len(sent[d]) /\ Len(sent[d]) \in Nat
      BY <3>1 DEF ItemsSent, TypeOK
    <3> QED
      BY <3>1, <3>2, <3>3
  <2> QED
    BY <2>1, <2>2
<1> QED
  BY <1>2, <1>3 DEF ItemsSent

LEMMA SendHeaderInv ==
  ASSUME IndInv, NEW c \in Conns, NEW t \in Types, NEW l \in Lengths,
         SendHeader(c, t, l)
  PROVE  IndInv'
<1> USE DEF IndInv
<1> DEFINE n == Len(sent[c]) + 1
           h == [type |-> t, length |-> l]
           e == [kind |-> "header", tag |-> n]
<1>1. /\ sent' = [sent EXCEPT ![c] = Append(@, h)]
      /\ partial' = [partial EXCEPT ![c] = (l = "some")]
      /\ stream' = [stream EXCEPT ![c] = Append(@, e)]
      /\ UNCHANGED <<conn, peerOpen, unread>> /\ PeerFrame
      /\ Len(sent[c]) < MaxRequests
  BY DEF SendHeader
<1>2. h \in Announce /\ sent[c] \in Seq(Announce)
  BY DEF Announce, TypeOK
<1>3. Append(sent[c], h) \in Seq(Announce) /\ Len(Append(sent[c], h)) = n
  BY <1>2
<1>4. Len(sent[c]) \in Nat /\ n \in 1 .. MaxRequests
  BY <1>1, <1>2, ServerAssumption
<1>5. e \in Item
  BY <1>4 DEF Item
<1>6. sent' \in [Conns -> Seq(Announce)] /\ sent'[c] = Append(sent[c], h)
  BY <1>1, <1>3 DEF TypeOK
<1>7. \A d \in Conns : d # c => sent'[d] = sent[d]
  BY <1>1 DEF TypeOK
<1>8. ASSUME NEW d \in Conns
      PROVE  /\ Len(sent'[d]) \in Nat /\ Len(sent'[d]) <= MaxRequests
             /\ Len(sent[d]) <= Len(sent'[d])
  <2>1. sent[d] \in Seq(Announce) /\ Len(sent[d]) \in Nat
    BY DEF TypeOK
  <2>2. CASE d = c
    BY <1>3, <1>4, <1>6, <2>2, ServerAssumption
  <2>3. CASE d # c
    BY <1>7, <2>1, <2>3 DEF ItemsSent
  <2> QED
    BY <2>2, <2>3
<1>9. ItemsSent' /\ stream' \in [Conns -> Seq(Item)]
  <2>1. e.tag <= Len(sent'[c])
    BY <1>3, <1>4, <1>6
  <2> HIDE DEF n, h, e
  <2> QED
    BY <1>1, <1>5, <1>8, <2>1, StreamAppend
<1>10. TypeOK'
  <2>1. partial' \in [Conns -> BOOLEAN]
    BY <1>1 DEF TypeOK
  <2> QED
    BY <1>1, <1>6, <1>9, <2>1, PeerTypes DEF TypeOK
<1> QED
  BY <1>1, <1>9, <1>10, PeerFrameInv DEF Sessions

LEMMA SendBodyInv ==
  ASSUME IndInv, NEW c \in Conns, SendBody(c), Len(sent[c]) >= 1
  PROVE  IndInv'
<1> USE DEF IndInv
<1> DEFINE e == [kind |-> "body", tag |-> Len(sent[c])]
<1>1. /\ partial' = [partial EXCEPT ![c] = FALSE]
      /\ stream' = [stream EXCEPT ![c] = Append(@, e)]
      /\ UNCHANGED <<conn, peerOpen, sent, unread>> /\ PeerFrame
  BY DEF SendBody
<1>2. \A d \in Conns : Len(sent[d]) \in Nat /\ Len(sent[d]) <= MaxRequests
  BY DEF ItemsSent, TypeOK
<1>3. Len(sent[c]) \in 1 .. MaxRequests
  BY <1>2, ServerAssumption
<1>4. e \in Item /\ e.tag <= Len(sent[c])
  BY <1>2, <1>3 DEF Item
<1>5. ItemsSent' /\ stream' \in [Conns -> Seq(Item)]
  <2>1. \A d \in Conns : /\ Len(sent'[d]) \in Nat
                         /\ Len(sent'[d]) <= MaxRequests
                         /\ Len(sent[d]) <= Len(sent'[d])
    BY <1>1, <1>2
  <2>2. e.tag <= Len(sent'[c])
    BY <1>1, <1>4
  <2> HIDE DEF e
  <2> QED
    BY <1>1, <1>4, <2>1, <2>2, StreamAppend
<1>6. TypeOK'
  BY <1>1, <1>5, PeerTypes DEF TypeOK
<1> QED
  BY <1>1, <1>5, <1>6, PeerFrameInv DEF Sessions

LEMMA OtherPeerInv ==
  ASSUME IndInv, NEW c \in Conns, Connect(c) \/ ReadAnswer(c) \/ PeerClose(c)
  PROVE  IndInv'
<1> USE DEF IndInv
<1>1. CASE Connect(c)
  <2>1. /\ conn[c] = "new" /\ conn' = [conn EXCEPT ![c] = "backlog"]
        /\ UNCHANGED <<peerOpen, sent, partial, stream, unread>> /\ PeerFrame
    BY <1>1 DEF Connect, peerVars, wire
  <2>2. TypeOK' /\ ItemsSent'
    BY <2>1, PeerTypes DEF TypeOK, ItemsSent
  <2>3. Sessions' = Sessions
    BY <2>1 DEF Sessions, TypeOK
  <2> QED
    BY <2>1, <2>2, <2>3, PeerFrameInv DEF TypeOK
<1>2. CASE ReadAnswer(c)
  <2>1. /\ unread' = [unread EXCEPT ![c] = @ - 1] /\ unread[c] > 0
        /\ UNCHANGED <<conn, peerOpen, sent, partial, stream>> /\ PeerFrame
    BY <1>2 DEF ReadAnswer, peerVars
  <2>2. unread[c] \in 0 .. Window /\ unread[c] - 1 \in 0 .. Window
    BY <2>1, ServerAssumption DEF TypeOK
  <2>3. unread' \in [Conns -> 0 .. Window]
    BY <2>1, <2>2 DEF TypeOK
  <2>4. TypeOK' /\ ItemsSent'
    BY <2>1, <2>3, PeerTypes DEF TypeOK, ItemsSent
  <2> QED
    BY <2>1, <2>4, PeerFrameInv DEF Sessions
<1>3. CASE PeerClose(c)
  <2>1. /\ peerOpen' = [peerOpen EXCEPT ![c] = FALSE]
        /\ stream' \in {stream, [stream EXCEPT ![c] = <<>>]}
        /\ UNCHANGED <<conn, sent, partial, unread>> /\ PeerFrame
    BY <1>3 DEF PeerClose
  <2>2. stream' \in [Conns -> Seq(Item)] /\ peerOpen' \in [Conns -> BOOLEAN]
    <3>1. stream \in [Conns -> Seq(Item)] /\ peerOpen \in [Conns -> BOOLEAN]
      BY DEF TypeOK
    <3>2. [stream EXCEPT ![c] = <<>>] \in [Conns -> Seq(Item)]
      BY <3>1
    <3> QED
      BY <2>1, <3>1, <3>2
  <2>3. TypeOK'
    BY <2>1, <2>2, PeerTypes DEF TypeOK
  <2>4. ItemsSent'
    BY <2>1 DEF ItemsSent, TypeOK
  <2> QED
    BY <2>1, <2>3, <2>4, PeerFrameInv DEF Sessions
<1> QED
  BY <1>1, <1>2, <1>3

-----------------------------------------------------------------------------
(* A body is only ever due after its header.                               *)
BodyAnnounced == \A c \in Conns : partial[c] => Len(sent[c]) >= 1

LEMMA BodyAnnouncedStep ==
  ASSUME TypeOK, BodyAnnounced, [Next]_vars
  PROVE  BodyAnnounced'
<1>1. CASE UNCHANGED <<sent, partial>>
  BY <1>1 DEF BodyAnnounced
<1>2. CASE \E c \in Conns, t \in Types, l \in Lengths : SendHeader(c, t, l)
  <2>1. PICK c \in Conns, t \in Types, l \in Lengths : SendHeader(c, t, l)
    BY <1>2
  <2> DEFINE h == [type |-> t, length |-> l]
  <2>2. h \in Announce /\ sent[c] \in Seq(Announce)
    BY DEF Announce, TypeOK
  <2>3. Len(Append(sent[c], h)) >= 1
    BY <2>2
  <2>4. /\ sent' = [sent EXCEPT ![c] = Append(@, h)]
        /\ partial' = [partial EXCEPT ![c] = (l = "some")]
    BY <2>1 DEF SendHeader
  <2> HIDE DEF h
  <2> QED
    BY <2>3, <2>4 DEF BodyAnnounced, TypeOK
<1>3. CASE \E c \in Conns : SendBody(c)
  BY <1>3 DEF SendBody, BodyAnnounced, TypeOK
<1>4. \/ UNCHANGED <<sent, partial>>
      \/ \E c \in Conns, t \in Types, l \in Lengths : SendHeader(c, t, l)
      \/ \E c \in Conns : SendBody(c)
  <2>1. ASSUME NEW c \in Conns, SessionStep(c)
        PROVE  UNCHANGED <<sent, partial>>
    BY <2>1 DEF SessionStep, HeaderMalformed, HeaderWithoutBody,
       HeaderWithBody, BodyRead, ReadFails, WriteDone, WriteFails,
       HandlerFrame, peerVars
  <2>2. ASSUME Accept \/ AcceptCount \/ AcceptStart \/ AcceptThrow
        PROVE  UNCHANGED <<sent, partial>>
    BY <2>2 DEF Accept, AcceptAdmit, AcceptReject, AcceptError, AcceptCount,
       AcceptStart, AcceptThrow, AcceptFrame, peerVars
  <2>3. ASSUME Signal \/ Shutdown
        PROVE  UNCHANGED <<sent, partial>>
    BY <2>3 DEF Signal, Shutdown, Join, Exit, DestroySession, ShutdownFrame,
       peerVars
  <2>4. ASSUME NEW c \in Conns, Connect(c) \/ ReadAnswer(c) \/ PeerClose(c)
        PROVE  UNCHANGED <<sent, partial>>
    BY <2>4 DEF Connect, ReadAnswer, PeerClose, peerVars
  <2>5. ASSUME NEW c \in Conns, CloseReturns(c)
        PROVE  UNCHANGED <<sent, partial>>
    BY <2>5 DEF CloseReturns, HandlerFrame, peerVars
  <2> QED
    BY <2>1, <2>2, <2>3, <2>4, <2>5 DEF Next, Peer, Gone, vars, peerVars
<1> QED
  BY <1>1, <1>2, <1>3, <1>4

-----------------------------------------------------------------------------
LEMMA StepInv ==
  ASSUME IndInv, BodyAnnounced, [Next]_vars
  PROVE  IndInv'
<1>1. CASE \E c \in Conns : SessionStep(c) \/ CloseReturns(c)
  BY <1>1, SessionStepInv, ReturnInv
<1>2. CASE Accept
  BY <1>2, AdmitInv, TurnAwayInv DEF Accept
<1>3. CASE AcceptCount \/ AcceptStart \/ AcceptThrow
  BY <1>3, AcceptCountInv, AcceptStartInv, AcceptThrowInv
<1>4. CASE Signal \/ Shutdown
  BY <1>4, PhaseInv, DestroyInv DEF Shutdown
<1>5. CASE \E c \in Conns : Peer(c)
  <2>1. PICK c \in Conns : Peer(c)
    BY <1>5
  <2>2. CASE \E t \in Types, l \in Lengths : SendHeader(c, t, l)
    BY <2>2, SendHeaderInv
  <2>3. CASE SendBody(c)
    BY <2>3, SendBodyInv DEF BodyAnnounced, SendBody
  <2> QED
    BY <2>1, <2>2, <2>3, OtherPeerInv DEF Peer
<1>6. CASE UNCHANGED vars
  <2>1. UNCHANGED <<phase, acceptStep, acceptee, conn, peerOpen, sent, partial,
                    stream, unread, ops, closed, header, writeBuf, out, active,
                    total, totalRequests, orderCounter>>
    BY <1>6 DEF vars, peerVars, wire, sessionVars
  <2>2. TypeOK'
    BY <2>1 DEF IndInv, TypeOK
  <2>3. ItemsSent' /\ OperationOf' /\ AcceptOwns' /\ LimitRespected'
    BY <2>1 DEF IndInv, ItemsSent, OperationOf, AcceptOwns, LimitRespected,
       Live, Sessions
  <2>4. CountExact'
    BY <2>1, CountKept DEF IndInv, Sessions, Closing
  <2> QED
    BY <2>2, <2>3, <2>4 DEF IndInv
<1> QED
  BY <1>1, <1>2, <1>3, <1>4, <1>5, <1>6 DEF Next, Gone

(* The inductive invariant holds in every reachable state. *)
THEOREM Invariance == Spec => [](IndInv /\ BodyAnnounced)
<1>1. Init => IndInv /\ BodyAnnounced
  BY InitInv DEF Init, BodyAnnounced
<1>2. IndInv /\ BodyAnnounced /\ [Next]_vars => (IndInv /\ BodyAnnounced)'
  BY StepInv, BodyAnnouncedStep DEF IndInv
<1> QED
  BY <1>1, <1>2, PTL DEF Spec

-----------------------------------------------------------------------------
(* The properties of Server.                                               *)

(* Every variable keeps its type, and no counter goes below zero. *)
THEOREM TypeCorrect == Spec => []TypeOK
BY Invariance, PTL DEF IndInv

(* active_connections_ is exact at every moment of the server's life. *)
THEOREM CountIsExact == Spec => []CountExact
BY Invariance, PTL DEF IndInv

(* No interleaving of accepts and closes exceeds max_connections. *)
THEOREM LimitIsRespected == Spec => []LimitRespected
BY Invariance, PTL DEF IndInv

(* An open session has exactly one asynchronous operation outstanding. *)
THEOREM OneOperationOutstanding == Spec => []OneOperation
<1>1. OperationOf => OneOperation
  <2> SUFFICES ASSUME OperationOf, NEW c \in Conns
               PROVE  IF c \in Live THEN Cardinality(ops[c]) = 1 /\ c \notin Closing
                                     ELSE ops[c] \subseteq {"close"}
    BY DEF OneOperation
  <2>1. CASE c \in Live
    <3>1. PICK op \in OpKinds : ops[c] = {op}
      BY <2>1 DEF OperationOf, OpKinds
    <3> QED
      BY <2>1, <3>1, FS_Singleton DEF Closing, OpKinds
  <2>2. CASE c \notin Live
    BY <2>2 DEF OperationOf
  <2> QED
    BY <2>1, <2>2
<1> QED
  BY <1>1, Invariance, PTL DEF IndInv

(* The server turns a connection away only when max_connections sessions   *)
(* are open or inside the close() of a handler that still runs.            *)
THEOREM RejectsOnlyWhenFull == Spec => NoSpuriousRejection
<1>1. ASSUME IndInv, [Next]_vars, NEW c \in Conns,
             conn[c] # "rejected", conn'[c] = "rejected"
      PROVE  Cardinality(Live \cup Closing) >= MaxConnections
  <2>1. \E d \in Conns : AcceptReject(d)
    <3>1. ASSUME NEW d \in Conns, SessionStep(d) PROVE conn' = conn
      BY <3>1 DEF SessionStep, HeaderMalformed, HeaderWithoutBody,
         HeaderWithBody, BodyRead, ReadFails, WriteDone, WriteFails,
         HandlerFrame
    <3>2. ASSUME NEW d \in Conns, AcceptAdmit(d) \/ AcceptError(d)
          PROVE  conn'[c] # "rejected"
      BY <1>1, <3>2 DEF AcceptAdmit, AcceptError, IndInv, TypeOK
    <3>3. ASSUME AcceptCount \/ AcceptStart \/ AcceptThrow
          PROVE  conn'[c] # "rejected"
      BY <1>1, <3>3 DEF AcceptCount, AcceptStart, AcceptThrow, IndInv, TypeOK
    <3>4. ASSUME Signal \/ Shutdown PROVE conn' = conn
      BY <3>4 DEF Signal, Shutdown, Join, Exit, DestroySession, ShutdownFrame
    <3>5. ASSUME NEW d \in Conns, Peer(d) PROVE conn'[c] # "rejected"
      BY <1>1, <3>5 DEF Peer, Connect, SendHeader, SendBody, ReadAnswer,
         PeerClose, IndInv, TypeOK
    <3>6. ASSUME NEW d \in Conns, CloseReturns(d) PROVE conn' = conn
      BY <3>6 DEF CloseReturns, HandlerFrame
    <3> QED
      BY <1>1, <3>1, <3>2, <3>3, <3>4, <3>5, <3>6 DEF Next, Accept, Gone, vars
  <2>2. acceptStep = "armed" /\ ~(active < MaxConnections)
    BY <2>1 DEF AcceptReject, BelowLimit
  <2>3. Counted = Live \cup Closing
    BY <2>2 DEF Counted, Admitting
  <2>4. active \in Nat /\ active = Cardinality(Live \cup Closing)
    BY <1>1, <2>3 DEF IndInv, TypeOK, CountExact
  <2> QED
    BY <2>2, <2>4, ServerAssumption
<1>2. IndInv /\ [Next]_vars =>
        [\A c \in Conns : conn[c] # "rejected" /\ conn'[c] = "rejected" =>
            Cardinality(Live \cup Closing) >= MaxConnections]_vars
  BY <1>1
<1> QED
  BY <1>2, Invariance, PTL DEF Spec, NoSpuriousRejection

(* The buffer of an operation in progress is not touched by any handler.   *)
THEOREM BuffersAreStable == Spec => BuffersStable
<1> DEFINE Stable(c) ==
      /\ "write" \in ops[c] \cap ops'[c] => writeBuf'[c] = writeBuf[c]
      /\ "readBody" \in ops[c] \cap ops'[c] => header'[c] = header[c]
<1>1. ASSUME IndInv, [Next]_vars, NEW c \in Conns
      PROVE  Stable(c)
  <2>1. ASSUME NEW d \in Conns, SessionStep(d) PROVE Stable(c)
    <3>1. \A op \in ops[d] : ops[d] = {op}
      BY <1>1 DEF IndInv, OperationOf
    <3>2. CASE \E op \in ops[d] : CloseSession(d, op) /\ UNCHANGED header
      BY <3>2 DEF CloseSession
    <3>3. CASE HeaderWithoutBody(d)
      <4>1. ops[d] = {"readHeader"}
        BY <3>1, <3>3 DEF HeaderWithoutBody, Completes
      <4> QED
        BY <1>1, <3>3, <4>1
        DEF HeaderWithoutBody, DispatchAndWrite, IndInv, TypeOK
    <3>4. CASE HeaderWithBody(d)
      <4>1. ops[d] = {"readHeader"}
        BY <3>1, <3>4 DEF HeaderWithBody, Completes
      <4> QED
        BY <1>1, <3>4, <4>1 DEF HeaderWithBody, IndInv, TypeOK
    <3>5. CASE BodyRead(d)
      <4>1. ops[d] = {"readBody"} /\ ops'[d] = {"write"}
        BY <1>1, <3>1, <3>5
        DEF BodyRead, Completes, DispatchAndWrite, Continue, IndInv, TypeOK
      <4> QED
        BY <1>1, <3>5, <4>1 DEF BodyRead, DispatchAndWrite, IndInv, TypeOK
    <3>6. CASE WriteDone(d)
      BY <3>6 DEF WriteDone
    <3> QED
      BY <2>1, <3>2, <3>3, <3>4, <3>5, <3>6
      DEF SessionStep, HeaderMalformed, ReadFails, WriteFails, Completes
  <2>2. ASSUME Accept \/ AcceptCount \/ AcceptStart \/ AcceptThrow
        PROVE  UNCHANGED <<writeBuf, header>>
    BY <2>2 DEF Accept, AcceptAdmit, AcceptReject, AcceptError, AcceptCount,
       AcceptStart, AcceptThrow, AcceptFrame, sessionVars
  <2>3. ASSUME Signal \/ Shutdown PROVE UNCHANGED <<writeBuf, header>>
    BY <2>3 DEF Signal, Shutdown, Join, Exit, DestroySession, ShutdownFrame
  <2>4. ASSUME NEW d \in Conns, Peer(d) PROVE UNCHANGED <<writeBuf, header>>
    BY <2>4 DEF Peer, Connect, SendHeader, SendBody, ReadAnswer, PeerClose,
       PeerFrame, sessionVars
  <2>5. ASSUME NEW d \in Conns, CloseReturns(d)
        PROVE  UNCHANGED <<writeBuf, header>>
    BY <2>5 DEF CloseReturns
  <2> QED
    BY <1>1, <2>1, <2>2, <2>3, <2>4, <2>5 DEF Next, Gone, vars, sessionVars
<1>2. IndInv /\ [Next]_vars => [\A c \in Conns : Stable(c)]_vars
  BY <1>1
<1> QED
  BY <1>2, Invariance, PTL DEF Spec, BuffersStable

-----------------------------------------------------------------------------
(* Progress.                                                               *)

Busy == {c \in Conns : ops[c] # {}}

LEMMA BusyFinite == IsFiniteSet(Busy) /\ Cardinality(Busy) \in Nat
<1>1. Busy \in SUBSET Conns
  BY DEF Busy
<1> QED
  BY <1>1, ServerAssumption, FS_Subset, FS_CardinalityType

LEMMA AcceptIsNearer ==
  ASSUME IndInv, phase # "running",
         AcceptCount \/ AcceptStart \/ AcceptThrow
  PROVE  StepsToExit' < StepsToExit
<1> DEFINE stopping == [exited |-> 0, crashed |-> 0, joined |-> 1, stopped |-> 2]
<1>1. /\ phase \in {"stopped", "joined", "exited", "crashed"}
      /\ TypeOK /\ AcceptOwns
  BY DEF IndInv, TypeOK
<1>2. Cardinality(Busy) \in Nat
  BY BusyFinite
<1>3. stopping[phase] \in Nat
  BY <1>1
<1>4. CASE AcceptCount
  <2>1. /\ acceptStep = "admitted" /\ acceptStep' = "counted"
        /\ phase' = phase /\ Busy' = Busy
    BY <1>4 DEF AcceptCount, AcceptFrame, Busy
  <2>2. /\ StepsToExit = 3 + stopping[phase] + Cardinality(Busy)
        /\ StepsToExit' = 2 + stopping[phase] + Cardinality(Busy)
    BY <2>1 DEF StepsToExit, Busy
  <2> QED
    BY ONLY <1>2, <1>3, <2>2
<1>5. CASE AcceptStart
  <2>1. /\ acceptStep = "counted" /\ acceptStep' = "armed" /\ phase' = phase
        /\ acceptee \in Conns /\ ops' = [ops EXCEPT ![acceptee] = {"readHeader"}]
    BY <1>1, <1>5 DEF AcceptStart, AcceptAgain, AcceptFrame, AcceptOwns
  <2>2. Busy' = Busy \cup {acceptee}
    BY <1>1, <2>1 DEF Busy, TypeOK
  <2>3. /\ Cardinality(Busy \cup {acceptee}) <= Cardinality(Busy) + 1
        /\ Cardinality(Busy \cup {acceptee}) \in Nat
    <3>1. /\ IsFiniteSet(Busy \cup {acceptee})
          /\ Cardinality(Busy \cup {acceptee}) =
               (IF acceptee \in Busy THEN Cardinality(Busy)
                                     ELSE Cardinality(Busy) + 1)
      BY BusyFinite, FS_AddElement
    <3> QED
      BY <1>2, <3>1
  <2>4. /\ StepsToExit = 2 + stopping[phase] + Cardinality(Busy)
        /\ StepsToExit' = stopping[phase] + Cardinality(Busy')
    <3>1. Cardinality(Busy') \in Nat
      BY <2>2, <2>3
    <3> QED
      BY <1>3, <2>1, <3>1 DEF StepsToExit, Busy
  <2> QED
    BY ONLY <1>2, <1>3, <2>2, <2>3, <2>4
<1>6. CASE AcceptThrow
  <2>1. /\ acceptStep' = acceptStep /\ Busy' = Busy /\ acceptStep = "counted"
        /\ phase # "crashed" /\ phase' = "crashed"
    BY <1>6 DEF AcceptThrow, Busy, sessionVars
  <2>2. phase = "stopped"
    BY <1>1, <2>1 DEF AcceptOwns
  <2>3. /\ StepsToExit = 2 + 2 + Cardinality(Busy)
        /\ StepsToExit' = 2 + 0 + Cardinality(Busy)
    BY <2>1, <2>2 DEF StepsToExit, Busy
  <2> QED
    BY ONLY <1>2, <2>3
<1> QED
  BY <1>4, <1>5, <1>6

LEMMA ExitIsNearer ==
  ASSUME IndInv, Shutdown
  PROVE  StepsToExit' < StepsToExit
<1> DEFINE accepting == [armed |-> 0, counted |-> 2, admitted |-> 3]
<1>1. Cardinality(Busy) \in Nat /\ acceptStep' = acceptStep
  BY BusyFinite
  DEF Shutdown, Join, Exit, DestroySession, ShutdownFrame
<1>2. accepting[acceptStep] \in Nat
  BY DEF IndInv, TypeOK
<1>3. CASE Join \/ Exit
  <2>1. /\ Busy' = Busy
        /\ \/ phase = "stopped" /\ phase' = "joined"
           \/ phase = "joined" /\ phase' = "exited"
    BY <1>3 DEF Join, Exit, Busy
  <2>2. \E n \in {1, 2} :
          /\ StepsToExit = accepting[acceptStep] + n + Cardinality(Busy)
          /\ StepsToExit' = accepting[acceptStep] + (n - 1) + Cardinality(Busy)
    <3>1. CASE phase = "stopped" /\ phase' = "joined"
      <4>1. /\ StepsToExit = accepting[acceptStep] + 2 + Cardinality(Busy)
            /\ StepsToExit' = accepting[acceptStep] + 1 + Cardinality(Busy)
        BY <1>1, <2>1, <3>1 DEF StepsToExit, Busy
      <4> QED
        BY ONLY <4>1
    <3>2. CASE phase = "joined" /\ phase' = "exited"
      <4>1. /\ StepsToExit = accepting[acceptStep] + 1 + Cardinality(Busy)
            /\ StepsToExit' = accepting[acceptStep] + 0 + Cardinality(Busy)
        BY <1>1, <2>1, <3>2 DEF StepsToExit, Busy
      <4> QED
        BY ONLY <4>1
    <3> QED
      BY <2>1, <3>1, <3>2
  <2> QED
    BY ONLY <1>1, <1>2, <2>2
<1>4. ASSUME NEW c \in Conns, DestroySession(c)
      PROVE  StepsToExit' < StepsToExit
  <2>1. /\ phase = "joined" /\ phase' = phase /\ c \in Busy
        /\ Busy' = Busy \ {c}
    BY <1>4 DEF DestroySession, Busy, IndInv, TypeOK
  <2>2. Cardinality(Busy \ {c}) = Cardinality(Busy) - 1
    BY <2>1, BusyFinite, FS_RemoveElement
  <2>3. /\ StepsToExit = accepting[acceptStep] + 1 + Cardinality(Busy)
        /\ StepsToExit' = accepting[acceptStep] + 1 + Cardinality(Busy')
    BY <1>1, <2>1 DEF StepsToExit, Busy
  <2> QED
    BY ONLY <1>1, <1>2, <2>1, <2>2, <2>3
<1> QED
  BY <1>3, <1>4 DEF Shutdown

LEMMA ReturnIsNearer ==
  ASSUME IndInv, phase # "running", NEW c \in Conns, CloseReturns(c)
  PROVE  StepsToExit' < StepsToExit
<1> DEFINE accepting == [armed |-> 0, counted |-> 2, admitted |-> 3]
<1>1. /\ phase = "stopped" /\ phase' = phase /\ acceptStep' = acceptStep
      /\ ops[c] = {"close"} /\ ops' = [ops EXCEPT ![c] = {}]
  BY DEF CloseReturns, HandlerFrame, Continue, IndInv, OperationOf, TypeOK
<1>2. accepting[acceptStep] \in Nat
  BY DEF IndInv, TypeOK
<1>3. c \in Busy /\ Busy' = Busy \ {c}
  BY <1>1 DEF Busy, IndInv, TypeOK
<1>4. /\ Cardinality(Busy) \in Nat
      /\ Cardinality(Busy \ {c}) = Cardinality(Busy) - 1
  BY <1>3, BusyFinite, FS_RemoveElement
<1>5. /\ StepsToExit = accepting[acceptStep] + 2 + Cardinality(Busy)
      /\ StepsToExit' = accepting[acceptStep] + 2 + Cardinality(Busy')
  BY <1>1 DEF StepsToExit, Busy
<1> QED
  BY ONLY <1>2, <1>3, <1>4, <1>5

(* Whatever a stopped server does brings the end of its process nearer     *)
(* (server.cpp:42-76).                                                     *)
THEOREM ShutdownAlwaysDrains == Spec => ShutdownDrains
<1>1. ASSUME IndInv, Next, vars' # vars, phase # "running"
      PROVE  StepsToExit' < StepsToExit
  <2>1. \A c \in Conns : ~SessionStep(c)
    BY <1>1 DEF SessionStep, HeaderMalformed, HeaderWithoutBody,
       HeaderWithBody, BodyRead, ReadFails, WriteDone, WriteFails, Completes
  <2>2. ~Accept /\ ~Signal
    BY <1>1 DEF Accept, AcceptAdmit, AcceptReject, AcceptError, Signal
  <2>3. \A c \in Conns : ~Peer(c)
    BY <1>1 DEF Peer, Connect, SendHeader, SendBody, CanSend, ReadAnswer,
       PeerClose
  <2>4. ~Gone
    BY <1>1 DEF Gone
  <2> QED
    BY <1>1, <2>1, <2>2, <2>3, <2>4, AcceptIsNearer, ExitIsNearer, ReturnIsNearer
    DEF Next
<1>2. IndInv /\ [Next]_vars =>
        [phase # "running" => StepsToExit' < StepsToExit]_vars
  BY <1>1
<1> QED
  BY <1>2, Invariance, PTL DEF Spec, ShutdownDrains

-----------------------------------------------------------------------------
(* The end of the process.                                                 *)

Idle == \A c \in Conns : ops[c] = {}

LEMMA IdleStep ==
  ASSUME IndInv, phase = "exited" => Idle, [Next]_vars, phase' = "exited"
  PROVE  Idle'
<1>1. CASE phase = "exited"
  <2>1. ops' = ops
    <3>1. \A c \in Conns : ~SessionStep(c) /\ ~Peer(c)
      BY <1>1 DEF SessionStep, HeaderMalformed, HeaderWithoutBody,
         HeaderWithBody, BodyRead, ReadFails, WriteDone, WriteFails, Completes,
         Peer, Connect, SendHeader, SendBody, CanSend, ReadAnswer, PeerClose
    <3>2. ~Accept /\ ~Signal /\ ~Shutdown
      BY <1>1 DEF Accept, AcceptAdmit, AcceptReject, AcceptError, Signal,
         Shutdown, Join, Exit, DestroySession
    <3>3. ~AcceptCount /\ ~AcceptStart /\ ~AcceptThrow
      BY <1>1 DEF AcceptCount, AcceptStart, AcceptThrow, IndInv, AcceptOwns
    <3>4. \A c \in Conns : ~CloseReturns(c)
      BY <1>1 DEF CloseReturns
    <3> QED
      BY <3>1, <3>2, <3>3, <3>4 DEF Next, Gone, vars, sessionVars
  <2> QED
    BY <1>1, <2>1 DEF Idle
<1>2. CASE phase # "exited"
  <2>1. Exit
    <3>1. ASSUME NEW c \in Conns, SessionStep(c) \/ CloseReturns(c) \/ Peer(c)
          PROVE  phase' = phase
      BY <3>1 DEF CloseReturns, SessionStep, HeaderMalformed, HeaderWithoutBody,
         HeaderWithBody, BodyRead, ReadFails, WriteDone, WriteFails,
         HandlerFrame, Peer, Connect, SendHeader, SendBody, ReadAnswer,
         PeerClose, PeerFrame
    <3>2. ASSUME Accept \/ AcceptCount \/ AcceptStart PROVE phase' = phase
      BY <3>2 DEF Accept, AcceptAdmit, AcceptReject, AcceptError, AcceptCount,
         AcceptStart, AcceptFrame
    <3>3. ASSUME AcceptThrow \/ Signal \/ Join \/ \E c \in Conns : DestroySession(c)
          PROVE  phase' # "exited"
      BY <3>3 DEF AcceptThrow, Signal, Join, DestroySession
    <3> QED
      BY <1>2, <3>1, <3>2, <3>3 DEF Next, Shutdown, Gone, vars
  <2> QED
    BY <2>1 DEF Exit, Idle
<1> QED
  BY <1>1, <1>2

(* When the server exits every session was closed and has given its place  *)
(* back, wherever the signal found it (server.cpp:42-66).                  *)
THEOREM ExitLeavesNobody == Spec => [](phase = "exited" => Live = {} /\ active = 0)
<1>1. Init => (phase = "exited" => Idle)
  BY DEF Init
<1>2. IndInv /\ (phase = "exited" => Idle) /\ [Next]_vars
        => (phase = "exited" => Idle)'
  BY IdleStep
<1>3. IndInv /\ (phase = "exited" => Idle)
        => (phase = "exited" => Live = {} /\ active = 0)
  <2> SUFFICES ASSUME IndInv, Idle, phase = "exited"
               PROVE  Live = {} /\ active = 0
    OBVIOUS
  <2>1. Live = {}
    BY DEF IndInv, OperationOf, Idle, Live, Sessions
  <2>2. Counted = {}
    BY <2>1 DEF Counted, Closing, Idle, Admitting, IndInv, AcceptOwns
  <2> QED
    BY <2>1, <2>2, FS_EmptySet DEF IndInv, CountExact
<1> QED
  BY <1>1, <1>2, <1>3, Invariance, PTL DEF Spec

=============================================================================
