---------------------------- MODULE AnswerProofs ----------------------------
(***************************************************************************)
(* Theorems about the conversation of the server with its peers: framing,  *)
(* the order and type of the answers, the order numbers, and that Server   *)
(* implements what Service promises.  For any number of connections, any   *)
(* mixture and number of requests.                                         *)
(***************************************************************************)
EXTENDS ServerProofs, NumberLemmas, SequenceTheorems

-----------------------------------------------------------------------------
(* The invariant: framing.                                                 *)

HeaderOf(n) == [kind |-> "header", tag |-> n]
BodyOf(n)   == [kind |-> "body", tag |-> n]

(* A connection whose stream is read, now or once it is accepted. *)
Serving(c) == conn[c] \in {"new", "backlog", "accepting"} \/ c \in Live

(* What the session reads next, what the peer sends next, and what comes   *)
(* after an item.                                                          *)
Expected(c) ==
  IF ops[c] = {"readBody"} THEN BodyOf(Len(out[c]) + 1)
  ELSE IF ops[c] = {"write"} THEN HeaderOf(Len(out[c]) + 2)
  ELSE HeaderOf(Len(out[c]) + 1)

NextSent(c) ==
  IF partial[c] THEN BodyOf(Len(sent[c])) ELSE HeaderOf(Len(sent[c]) + 1)

After(headers, e) ==
  IF e.kind = "header" /\ headers[e.tag].length = "some"
  THEN BodyOf(e.tag) ELSE HeaderOf(e.tag + 1)

(* From what the session expects to what the peer sends next there is no   *)
(* gap in the stream; once the peer has gone its last items may be lost,   *)
(* but not an item before one that is still there.                         *)
Unbroken(c) ==
  Serving(c) =>
    IF stream[c] = <<>> THEN peerOpen[c] => NextSent(c) = Expected(c)
    ELSE /\ stream[c][1] = Expected(c)
         /\ \A i \in 1 .. Len(stream[c]) - 1 :
              stream[c][i + 1] = After(sent[c], stream[c][i])
         /\ NextSent(c) = After(sent[c], stream[c][Len(stream[c])])

(* A body is still to come only after a header that announces it, and only *)
(* as long as it is not in the stream.                                     *)
BodyDue(c) ==
  partial[c] =>
    /\ Len(sent[c]) >= 1
    /\ sent[c][Len(sent[c])].length = "some"
    /\ \A i \in 1 .. Len(stream[c]) : stream[c][i] # BodyOf(Len(sent[c]))

(* current_header_ is that of the request whose body is read. *)
HeaderHeld(c) ==
  ops[c] = {"readBody"} =>
    LET n == Len(out[c]) + 1
    IN /\ n <= Len(sent[c])
       /\ header[c].tag = n
       /\ header[c].type = sent[c][n].type
       /\ sent[c][n].length = "some"

Framed(c) == Unbroken(c) /\ BodyDue(c) /\ HeaderHeld(c)

-----------------------------------------------------------------------------
(* The invariant: answers.                                                 *)

(* r answers request n of the connection, which was sent completely. *)
Answering(c, n, r) ==
  /\ r.tag = n
  /\ n <= Len(sent[c])
  /\ n = Len(sent[c]) => ~partial[c]
  /\ \/ r.type = kError /\ r.order = NoOrder
     \/ /\ r.type = ResponseType(sent[c][n].type)
        /\ IF sent[c][n].type \in OrderTypes
           THEN r.order \in 1 .. orderCounter - 1
           ELSE r.order = NoOrder

(* What was written, and write_buf_ in each state of the loop. *)
Answered(c) ==
  /\ \A n \in 1 .. Len(out[c]) : Answering(c, n, out[c][n])
  /\ ops[c] = {"write"} => Answering(c, Len(out[c]) + 1, writeBuf[c])
  /\ conn[c] # "session" => out[c] = <<>> /\ writeBuf[c] = NoMessage
  /\ c \in Live /\ ops[c] # {"write"} =>
       \/ out[c] = <<>> /\ writeBuf[c] = NoMessage
       \/ writeBuf[c] \in Response /\ writeBuf[c].tag = Len(out[c])

(* The requests that were dispatched; each took at most one order number.  *)
Dispatched ==
  {a \in Conns \X (1 .. MaxRequests) :
     writeBuf[a[1]] # NoMessage /\ a[2] <= writeBuf[a[1]].tag}

NumbersTaken == orderCounter <= Cardinality(Dispatched) + 1

InStep == \A c \in Conns : Framed(c) /\ Answered(c)

TalkInv == InStep /\ OrderIdsUnique /\ NumbersTaken

-----------------------------------------------------------------------------
(* Framing is kept.                                                        *)

LEMMA FramedInit ==
  ASSUME Init, NEW c \in Conns
  PROVE  Framed(c)
BY DEF Init, Framed, Unbroken, BodyDue, HeaderHeld, Serving, Expected, NextSent

(* A step that neither sends nor reads on this connection. *)
LEMMA FramedKept ==
  ASSUME NEW c \in Conns, Framed(c), Serving(c)' => Serving(c),
         UNCHANGED <<peerOpen[c], sent[c], partial[c], stream[c]>>,
         Expected(c)' = Expected(c),
         ops'[c] = {"readBody"} => UNCHANGED <<ops[c], header[c], out[c]>>
  PROVE  Framed(c)'
<1>1. NextSent(c)' = NextSent(c)
  BY DEF NextSent, HeaderOf, BodyOf
<1>3. Unbroken(c)'
  BY <1>1 DEF Framed, Unbroken
<1>4. BodyDue(c)' /\ HeaderHeld(c)'
  BY DEF Framed, BodyDue, HeaderHeld, BodyOf
<1> QED
  BY <1>3, <1>4 DEF Framed

(* A connection whose socket the server closes. *)
LEMMA FramedDropped ==
  ASSUME NEW c \in Conns, Framed(c), ~Serving(c)', stream'[c] = <<>>,
         UNCHANGED <<sent[c], partial[c]>>, ops'[c] # {"readBody"}
  PROVE  Framed(c)'
BY DEF Framed, Unbroken, BodyDue, HeaderHeld

LEMMA TailShape ==
  ASSUME NEW S, NEW s \in Seq(S), s # <<>>
  PROVE  /\ Len(s) \in Nat /\ Len(s) >= 1
         /\ Tail(s) \in Seq(S) /\ Len(Tail(s)) = Len(s) - 1
         /\ \A i \in 1 .. Len(s) - 1 : Tail(s)[i] = s[i + 1]
         /\ Tail(s) = <<>> <=> Len(s) = 1
<1>1. Len(s) \in Nat \ {0} /\ Len(s) >= 1
  BY EmptySeq
<1>2. /\ Tail(s) \in Seq(S) /\ Len(Tail(s)) = Len(s) - 1
      /\ \A i \in 1 .. Len(s) - 1 : Tail(s)[i] = s[i + 1]
  BY HeadTailProperties
<1>3. Tail(s) = <<>> <=> Len(Tail(s)) = 0
  BY <1>2, EmptySeq
<1> QED
  BY <1>1, <1>2, <1>3

(* A handler takes the next item off the stream: what it expects then is   *)
(* what comes after that item.                                             *)
LEMMA UnbrokenTail ==
  ASSUME TypeOK, NEW c \in Conns, Framed(c), Serving(c), stream[c] # <<>>,
         stream'[c] = Tail(stream[c]),
         UNCHANGED <<sent[c], partial[c], peerOpen[c]>>,
         Expected(c)' = After(sent[c], Expected(c))
  PROVE  Unbroken(c)' /\ BodyDue(c)'
<1> DEFINE s == stream[c]
<1>1. s \in Seq(Item)
  BY DEF TypeOK
<1>2. /\ Len(s) \in Nat /\ Len(s) >= 1 /\ Len(Tail(s)) = Len(s) - 1
      /\ \A i \in 1 .. Len(s) - 1 : Tail(s)[i] = s[i + 1]
      /\ Tail(s) = <<>> <=> Len(s) = 1
  BY <1>1, TailShape
<1>3. NextSent(c)' = NextSent(c)
  BY DEF NextSent, HeaderOf, BodyOf
<1>5. /\ s[1] = Expected(c)
      /\ \A i \in 1 .. Len(s) - 1 : s[i + 1] = After(sent[c], s[i])
      /\ NextSent(c) = After(sent[c], s[Len(s)])
  BY DEF Framed, Unbroken
<1>6. Unbroken(c)'
  <2>1. CASE Len(s) = 1
    <3>1. Tail(s) = <<>> /\ s[Len(s)] = s[1]
      BY <1>2, <2>1
    <3> QED
      BY <1>3, <1>5, <2>1, <3>1 DEF Unbroken
  <2>2. CASE Len(s) # 1
    <3>1. Len(s) >= 2 /\ Tail(s) # <<>>
      BY <1>2, <2>2
    <3>2. Tail(s)[1] = Expected(c)'
      BY <1>1, <1>2, <1>5, <3>1
    <3>3. \A i \in 1 .. Len(Tail(s)) - 1 : Tail(s)[i + 1] = After(sent[c], Tail(s)[i])
      <4> SUFFICES ASSUME NEW i \in 1 .. Len(s) - 2
                   PROVE  Tail(s)[i + 1] = After(sent[c], Tail(s)[i])
        BY <1>1, <1>2
      <4>1. Tail(s)[i + 1] = s[i + 2] /\ Tail(s)[i] = s[i + 1]
        BY <1>1, <1>2
      <4>2. s[(i + 1) + 1] = After(sent[c], s[i + 1]) /\ (i + 1) + 1 = i + 2
        BY <1>1, <1>5
      <4> QED
        BY <4>1, <4>2
    <3>4. Tail(s)[Len(Tail(s))] = s[Len(s)]
      BY <1>1, <1>2, <3>1
    <3> QED
      BY <1>3, <1>5, <3>1, <3>2, <3>3, <3>4 DEF Unbroken
  <2> QED
    BY <2>1, <2>2
<1>7. BodyDue(c)'
  <2>1. \A i \in 1 .. Len(Tail(s)) : \E j \in 1 .. Len(s) : Tail(s)[i] = s[j]
    <3> TAKE i \in 1 .. Len(Tail(s))
    <3>1. i + 1 \in 1 .. Len(s) /\ Tail(s)[i] = s[i + 1]
      BY <1>1, <1>2
    <3> QED
      BY <3>1
  <2> QED
    BY <2>1 DEF Framed, BodyDue, BodyOf
<1> QED
  BY <1>6, <1>7

(* The peer sends what comes next. *)
LEMMA UnbrokenAppend ==
  ASSUME TypeOK, NEW c \in Conns, Framed(c), peerOpen[c],
         Serving(c)' => Serving(c), Expected(c)' = Expected(c),
         stream'[c] = Append(stream[c], NextSent(c)), NextSent(c) \in Item,
         NextSent(c)' = After(sent'[c], NextSent(c)),
         \A i \in 1 .. Len(stream[c]) :
            After(sent'[c], stream[c][i]) = After(sent[c], stream[c][i])
  PROVE  Unbroken(c)'
<1> DEFINE s == stream[c]
           e == NextSent(c)
           t == Append(s, e)
<1>1. s \in Seq(Item) /\ Len(s) \in Nat
  BY DEF TypeOK
<1>2. /\ Len(t) = Len(s) + 1 /\ t # <<>> /\ t[Len(s) + 1] = e
      /\ \A i \in 1 .. Len(s) : t[i] = s[i]
  BY <1>1
<1>3. s = <<>> <=> Len(s) = 0
  BY <1>1, EmptySeq
<1>4. ASSUME Serving(c)
      PROVE  /\ t[1] = Expected(c)
             /\ \A i \in 1 .. Len(s) : t[i + 1] = After(sent[c], s[i])
  <2>1. CASE s = <<>>
    BY <1>2, <1>3, <1>4, <2>1 DEF Framed, Unbroken
  <2>2. CASE s # <<>>
    <3>1. /\ s[1] = Expected(c)
          /\ \A i \in 1 .. Len(s) - 1 : s[i + 1] = After(sent[c], s[i])
          /\ e = After(sent[c], s[Len(s)])
      BY <1>4, <2>2 DEF Framed, Unbroken
    <3> HIDE DEF e, t
    <3>2. t[1] = Expected(c)
      BY <1>1, <1>2, <1>3, <2>2, <3>1
    <3>3. ASSUME NEW i \in 1 .. Len(s)
          PROVE  t[i + 1] = After(sent[c], s[i])
      <4>1. CASE i = Len(s)
        BY <1>1, <1>2, <3>1, <4>1
      <4>2. CASE i # Len(s)
        <5>1. i \in 1 .. Len(s) - 1 /\ i + 1 \in 1 .. Len(s)
          BY <1>1, <4>2
        <5> QED
          BY <1>2, <3>1, <5>1
      <4> QED
        BY <4>1, <4>2
    <3> QED
      BY <3>2, <3>3
  <2> QED
    BY <2>1, <2>2
<1>5. ASSUME Serving(c)'
      PROVE  /\ t[1] = Expected(c)'
             /\ \A i \in 1 .. Len(t) - 1 : t[i + 1] = After(sent'[c], t[i])
             /\ NextSent(c)' = After(sent'[c], t[Len(t)])
  <2> HIDE DEF e, t
  <2>1. \A i \in 1 .. Len(t) - 1 : i \in 1 .. Len(s)
    BY <1>1, <1>2
  <2>2. t[Len(t)] = e /\ NextSent(c)' = After(sent'[c], e)
    BY <1>2 DEF e
  <2>3. \A i \in 1 .. Len(s) : t[i] = s[i] /\ t[i + 1] = After(sent'[c], s[i])
    BY <1>2, <1>4, <1>5
  <2> QED
    BY <1>4, <1>5, <2>1, <2>2, <2>3
<1>6. stream'[c] = t
  OBVIOUS
<1> HIDE DEF t
<1> QED
  BY <1>2, <1>5, <1>6 DEF Unbroken

LEMMA FramedSendHeader ==
  ASSUME IndInv, NEW c \in Conns, NEW k \in Types, NEW l \in Lengths,
         SendHeader(c, k, l), Framed(c)
  PROVE  Framed(c)'
<1> DEFINE n == Len(sent[c])
           h == [type |-> k, length |-> l]
<1>1. /\ sent'[c] = Append(sent[c], h) /\ partial'[c] = (l = "some")
      /\ stream'[c] = Append(stream[c], HeaderOf(n + 1))
      /\ ~partial[c] /\ peerOpen[c] /\ n < MaxRequests
      /\ UNCHANGED <<conn, ops, header, out, closed>>
  BY DEF SendHeader, CanSend, PeerFrame, sessionVars, IndInv, TypeOK, HeaderOf
<1>2. sent[c] \in Seq(Announce) /\ n \in Nat /\ stream[c] \in Seq(Item)
  BY DEF IndInv, TypeOK
<1>3. h \in Announce
  BY DEF Announce
<1>4. /\ Len(sent'[c]) = n + 1 /\ sent'[c][n + 1] = h
      /\ \A i \in 1 .. n : sent'[c][i] = sent[c][i]
  BY <1>1, <1>2, <1>3
<1>5. HeaderOf(n + 1) \in Item /\ NextSent(c) = HeaderOf(n + 1)
  BY <1>1, <1>2, ServerAssumption DEF HeaderOf, Item, NextSent
<1>6. \A i \in 1 .. Len(stream[c]) :
        stream[c][i] \in Item /\ stream[c][i].tag \in 1 .. n
  <2> TAKE i \in 1 .. Len(stream[c])
  <2>1. stream[c][i] \in Item
    BY <1>2
  <2>2. stream[c][i].tag \in Nat /\ stream[c][i].tag >= 1
    BY <2>1 DEF Item
  <2> QED
    BY <1>2, <2>1, <2>2 DEF IndInv, ItemsSent
<1>7. Serving(c)' = Serving(c) /\ Expected(c)' = Expected(c)
  BY <1>1 DEF Serving, Live, Sessions, Expected, HeaderOf, BodyOf
<1>8. NextSent(c)' = After(sent'[c], HeaderOf(n + 1))
  <2>1. sent'[c][n + 1].length = l
    BY <1>4
  <2> QED
    BY <1>1, <1>2, <1>4, <2>1 DEF NextSent, After, HeaderOf, BodyOf
<1>9. Unbroken(c)'
  <2>1. \A i \in 1 .. Len(stream[c]) :
          After(sent'[c], stream[c][i]) = After(sent[c], stream[c][i])
    BY <1>4, <1>6 DEF After, HeaderOf, BodyOf
  <2> QED
    BY <1>1, <1>5, <1>7, <1>8, <2>1, UnbrokenAppend DEF IndInv
<1>10. BodyDue(c)'
  <2>1. sent'[c][n + 1].length = l /\ n + 1 >= 1
    BY <1>2, <1>4
  <2>2. partial'[c] => l = "some"
    BY <1>1
  <2>3. Len(sent'[c]) = n + 1
    BY <1>4
  <2> SUFFICES ASSUME l = "some", NEW i \in 1 .. Len(stream'[c])
               PROVE  stream'[c][i] # BodyOf(n + 1)
    BY <2>1, <2>2, <2>3 DEF BodyDue
  <2>4. CASE i \in 1 .. Len(stream[c])
    <3>1. stream'[c][i].tag \in 1 .. n
      BY <1>1, <1>2, <1>5, <1>6, <2>4
    <3> QED
      BY <1>2, <3>1 DEF BodyOf
  <2>5. CASE i \notin 1 .. Len(stream[c])
    <3>1. stream'[c][i] = HeaderOf(n + 1)
      BY <1>1, <1>2, <1>5, <2>5
    <3> QED
      BY <3>1 DEF BodyOf, HeaderOf
  <2> QED
    BY <2>4, <2>5
<1>11. HeaderHeld(c)'
  <2>1. Len(out[c]) \in Nat
    BY DEF IndInv, TypeOK
  <2> QED
    BY <1>1, <1>2, <1>4, <2>1 DEF Framed, HeaderHeld
<1> QED
  BY <1>9, <1>10, <1>11 DEF Framed

LEMMA FramedSendBody ==
  ASSUME IndInv, NEW c \in Conns, SendBody(c), Framed(c)
  PROVE  Framed(c)'
<1> DEFINE n == Len(sent[c])
<1>1. /\ partial[c] /\ ~partial'[c] /\ peerOpen[c]
      /\ stream'[c] = Append(stream[c], BodyOf(n))
      /\ UNCHANGED <<sent, conn, ops, header, out, closed>>
  BY DEF SendBody, CanSend, PeerFrame, sessionVars, IndInv, TypeOK, BodyOf
<1>2. n \in Nat /\ n >= 1 /\ n <= MaxRequests
  BY <1>1 DEF IndInv, TypeOK, ItemsSent, Framed, BodyDue
<1>3. BodyOf(n) \in Item /\ NextSent(c) = BodyOf(n)
  BY <1>1, <1>2, ServerAssumption DEF BodyOf, Item, NextSent
<1>4. Serving(c)' = Serving(c) /\ Expected(c)' = Expected(c)
  BY <1>1 DEF Serving, Live, Sessions, Expected, HeaderOf, BodyOf
<1>5. NextSent(c)' = After(sent'[c], BodyOf(n))
  BY <1>1, <1>2 DEF NextSent, After, HeaderOf, BodyOf
<1>6. Unbroken(c)'
  BY <1>1, <1>3, <1>4, <1>5, UnbrokenAppend DEF IndInv
<1>7. BodyDue(c)' /\ HeaderHeld(c)'
  BY <1>1 DEF Framed, BodyDue, HeaderHeld
<1> QED
  BY <1>6, <1>7 DEF Framed

LEMMA FramedPeerClose ==
  ASSUME IndInv, NEW c \in Conns, PeerClose(c), Framed(c)
  PROVE  Framed(c)'
<1>1. /\ ~peerOpen'[c] /\ stream'[c] \in {stream[c], <<>>}
      /\ UNCHANGED <<sent, partial, conn, ops, header, out, closed>>
  BY DEF PeerClose, PeerFrame, sessionVars, IndInv, TypeOK
<1>2. /\ Serving(c)' = Serving(c) /\ Expected(c)' = Expected(c)
      /\ NextSent(c)' = NextSent(c)
  BY <1>1 DEF Serving, Live, Sessions, Expected, NextSent, HeaderOf, BodyOf
<1>3. Unbroken(c)'
  BY <1>1, <1>2 DEF Framed, Unbroken
<1>4. BodyDue(c)' /\ HeaderHeld(c)'
  BY <1>1 DEF Framed, BodyDue, HeaderHeld
<1> QED
  BY <1>3, <1>4 DEF Framed

-----------------------------------------------------------------------------
(* What a session finds in its stream.                                     *)

LEMMA LiveServes ==
  ASSUME OperationOf, NEW c \in Conns, NEW op \in ops[c] \ {"close"}
  PROVE  c \in Live /\ Serving(c) /\ ops[c] = {op} /\ conn[c] = "session"
BY DEF OperationOf, Serving, Live, Sessions

(* A header found while one is awaited is that of the next request. *)
LEMMA NextHeader ==
  ASSUME IndInv, NEW c \in Conns, Framed(c), "readHeader" \in ops[c],
         NextItem(c, "header")
  PROVE  LET n == Len(out[c]) + 1
         IN /\ stream[c] # <<>> /\ Head(stream[c]) = HeaderOf(n)
            /\ stream[c][1] = HeaderOf(n)
            /\ n \in 1 .. Len(sent[c])
            /\ ArrivedHeader(c).tag = n
            /\ ArrivedHeader(c).type = sent[c][n].type
            /\ ArrivedHeader(c).length = sent[c][n].length
            /\ n = Len(sent[c]) /\ partial[c] => sent[c][n].length = "some"
<1> DEFINE n == Len(out[c]) + 1
<1>1. /\ stream[c] # <<>> /\ stream[c] \in Seq(Item)
      /\ ops[c] = {"readHeader"} /\ Serving(c)
  BY LiveServes DEF NextItem, IndInv, TypeOK
<1>2. Expected(c) = HeaderOf(n)
  BY <1>1 DEF Expected
<1>3. stream[c][1] = HeaderOf(n) /\ Head(stream[c]) = HeaderOf(n)
  BY <1>1, <1>2 DEF Framed, Unbroken
<1>4. n <= Len(sent[c])
  <2>1. 1 \in 1 .. Len(stream[c])
    BY <1>1
  <2> QED
    BY <1>3, <2>1 DEF IndInv, ItemsSent, HeaderOf
<1>5. n \in 1 .. Len(sent[c])
  <2>1. n \in Nat /\ n >= 1 /\ Len(sent[c]) \in Nat
    BY DEF IndInv, TypeOK
  <2> QED
    BY <1>4, <2>1
<1>6. HeaderOf(n).tag = n
  BY DEF HeaderOf
<1> QED
  BY <1>1, <1>3, <1>5, <1>6 DEF ArrivedHeader, Framed, BodyDue

(* An item found while a body is awaited is the body of the request whose  *)
(* header is held; and what it awaits at a header is a header.             *)
LEMMA NextBody ==
  ASSUME IndInv, NEW c \in Conns, Framed(c), "readBody" \in ops[c],
         stream[c] # <<>>
  PROVE  LET n == Len(out[c]) + 1
         IN /\ Head(stream[c]) = BodyOf(n)
            /\ header[c].tag = n
            /\ header[c].type = sent[c][n].type
            /\ n \in 1 .. Len(sent[c])
            /\ n = Len(sent[c]) => ~partial[c]
<1> DEFINE n == Len(out[c]) + 1
<1>1. /\ stream[c] \in Seq(Item) /\ ops[c] = {"readBody"} /\ Serving(c)
  BY LiveServes DEF IndInv, TypeOK
<1>2. Expected(c) = BodyOf(n)
  BY <1>1 DEF Expected
<1>3. stream[c][1] = BodyOf(n) /\ Head(stream[c]) = BodyOf(n)
  BY <1>1, <1>2 DEF Framed, Unbroken
<1>4. 1 \in 1 .. Len(stream[c])
  BY <1>1
<1>5. n \in Nat /\ n >= 1 /\ Len(sent[c]) \in Nat
  BY DEF IndInv, TypeOK
<1>6. /\ n \in 1 .. Len(sent[c]) /\ header[c].tag = n
      /\ header[c].type = sent[c][n].type
  BY <1>1, <1>5 DEF Framed, HeaderHeld
<1> QED
  BY <1>3, <1>4, <1>6 DEF Framed, BodyDue

(* Whatever a peer pipelines, a session finds a header where it reads one, *)
(* and the body of the header it holds where it reads a body.              *)
LEMMA FramedInSync ==
  ASSUME IndInv, \A c \in Conns : Framed(c)
  PROVE  FramingInSync
<1> SUFFICES ASSUME NEW c \in Live, stream[c] # <<>>
             PROVE  /\ "readHeader" \in ops[c] => Head(stream[c]).kind = "header"
                    /\ "readBody" \in ops[c] =>
                         Head(stream[c]) = [kind |-> "body", tag |-> header[c].tag]
  BY DEF FramingInSync
<1>1. c \in Conns
  BY DEF Live, Sessions
<1>2. ASSUME "readHeader" \in ops[c] PROVE Head(stream[c]).kind = "header"
  <2>1. ops[c] = {"readHeader"} /\ Serving(c)
    BY <1>1, <1>2, LiveServes DEF IndInv
  <2>2. stream[c] \in Seq(Item) /\ Head(stream[c]) = stream[c][1]
    BY <1>1 DEF IndInv, TypeOK
  <2>3. Expected(c) = HeaderOf(Len(out[c]) + 1)
    BY <2>1 DEF Expected
  <2> QED
    BY <1>1, <2>1, <2>2, <2>3 DEF Framed, Unbroken, HeaderOf
<1>3. ASSUME "readBody" \in ops[c]
      PROVE  Head(stream[c]) = [kind |-> "body", tag |-> header[c].tag]
  BY <1>1, <1>3, NextBody DEF BodyOf
<1> QED
  BY <1>2, <1>3

-----------------------------------------------------------------------------
(* A step works on one connection, or on none.                             *)

Untouched(c) ==
  UNCHANGED <<conn[c], peerOpen[c], sent[c], partial[c], stream[c], ops[c],
              closed[c], header[c], writeBuf[c], out[c]>>

LEMMA CounterGrows ==
  ASSUME TypeOK, NEW h, NEW d \in Dispatch(h)
  PROVE  /\ d.counter \in {orderCounter, orderCounter + 1}
         /\ d.counter >= orderCounter
<1>1. d.counter \in {orderCounter, orderCounter + 1}
  BY DEF Dispatch, OrderAdvanced
<1> QED
  BY <1>1 DEF TypeOK

LEMMA SessionElsewhere ==
  ASSUME IndInv, NEW c \in Conns, NEW d \in Conns, c # d, SessionStep(d)
  PROVE  Untouched(c) /\ orderCounter' >= orderCounter
<1> USE DEF IndInv, TypeOK, HandlerFrame, peerVars, Untouched
<1>1. CASE \E op : CloseSession(d, op) /\ UNCHANGED header /\ HandlerFrame
  BY <1>1 DEF CloseSession, Continue
<1>2. CASE HeaderWithoutBody(d) \/ BodyRead(d)
  <2>1. PICK op, h : DispatchAndWrite(d, op, h)
    BY <1>2 DEF HeaderWithoutBody, BodyRead
  <2>2. Consume(d) /\ HandlerFrame /\ UNCHANGED header[c]
    BY <1>2 DEF HeaderWithoutBody, BodyRead
  <2>3. PICK r \in Dispatch(h) :
          /\ writeBuf' = [writeBuf EXCEPT ![d] = r.reply]
          /\ orderCounter' = r.counter
          /\ Continue(d, op, {"write"})
          /\ UNCHANGED <<unread, closed, active, out>>
    BY <2>1 DEF DispatchAndWrite, Refill
  <2>4. orderCounter' >= orderCounter
    BY <2>3, CounterGrows
  <2> QED
    BY <2>2, <2>3, <2>4 DEF Consume, Continue
<1>3. CASE HeaderWithBody(d)
  BY <1>3 DEF HeaderWithBody, Consume, Continue
<1>4. CASE WriteDone(d)
  BY <1>4 DEF WriteDone, Continue
<1> QED
  BY <1>1, <1>2, <1>3, <1>4
  DEF SessionStep, HeaderMalformed, ReadFails, WriteFails

LEMMA ReturnElsewhere ==
  ASSUME IndInv, NEW c \in Conns, NEW d \in Conns, c # d, CloseReturns(d)
  PROVE  Untouched(c) /\ orderCounter' >= orderCounter
BY DEF IndInv, TypeOK, Untouched, CloseReturns, Continue, HandlerFrame,
   peerVars, wire

LEMMA AcceptElsewhere ==
  ASSUME IndInv, NEW c \in Conns,
         \/ \E d \in Conns \ {c} :
              AcceptAdmit(d) \/ AcceptReject(d) \/ AcceptError(d)
         \/ AcceptCount \/ AcceptThrow
         \/ AcceptStart /\ acceptee # c
  PROVE  Untouched(c) /\ orderCounter' >= orderCounter
BY DEF IndInv, TypeOK, Untouched, AcceptAdmit, AcceptReject, AcceptError,
   AcceptCount, AcceptStart, AcceptThrow, AcceptFrame, peerVars, wire,
   sessionVars

LEMMA ShutdownElsewhere ==
  ASSUME IndInv, NEW c \in Conns,
         \/ \E d \in Conns \ {c} : DestroySession(d)
         \/ Signal \/ Join \/ Exit
  PROVE  Untouched(c) /\ orderCounter' >= orderCounter
BY DEF IndInv, TypeOK, Untouched, DestroySession, Signal, Join, Exit,
   ShutdownFrame, peerVars

LEMMA PeerElsewhere ==
  ASSUME IndInv, NEW c \in Conns, NEW d \in Conns, c # d, Peer(d)
  PROVE  Untouched(c) /\ orderCounter' >= orderCounter
<1> USE DEF IndInv, TypeOK, Untouched, PeerFrame, peerVars, wire, sessionVars
<1>1. CASE Connect(d) \/ ReadAnswer(d) \/ PeerClose(d)
  BY <1>1 DEF Connect, ReadAnswer, PeerClose
<1>2. CASE SendBody(d)
  BY <1>2 DEF SendBody
<1>3. ASSUME NEW t \in Types, NEW l \in Lengths, SendHeader(d, t, l)
      PROVE  Untouched(c) /\ orderCounter' >= orderCounter
  BY <1>3 DEF SendHeader
<1> QED
  BY <1>1, <1>2, <1>3 DEF Peer

AcceptOf(c) ==
  \/ AcceptAdmit(c) \/ AcceptReject(c) \/ AcceptError(c)
  \/ AcceptStart /\ acceptee = c

LEMMA StepOf ==
  ASSUME IndInv, [Next]_vars, NEW c \in Conns
  PROVE  \/ Untouched(c) /\ orderCounter' >= orderCounter
         \/ SessionStep(c) \/ CloseReturns(c) \/ AcceptOf(c)
         \/ DestroySession(c) \/ Peer(c)
<1>1. CASE UNCHANGED vars
  <2>1. Untouched(c) /\ orderCounter' = orderCounter
    BY <1>1 DEF vars, peerVars, wire, sessionVars, Untouched
  <2> QED
    BY <2>1 DEF IndInv, TypeOK
<1>2. CASE Next /\ ~UNCHANGED vars
  BY <1>2, SessionElsewhere, ReturnElsewhere, AcceptElsewhere,
     ShutdownElsewhere, PeerElsewhere
  DEF Next, Accept, Shutdown, Gone, AcceptOf
<1> QED
  BY <1>1, <1>2

-----------------------------------------------------------------------------
(* Framing is kept by every step.                                          *)

(* A session that closes. *)
LEMMA ClosedStep ==
  ASSUME IndInv, NEW c \in Conns,
         \/ HeaderMalformed(c) \/ ReadFails(c) \/ WriteFails(c)
         \/ DestroySession(c)
  PROVE  /\ c \in Live /\ c \notin Live' /\ ~Serving(c)'
         /\ closed'[c] /\ stream'[c] = <<>> /\ ops'[c] \in {{}, {"close"}}
         /\ UNCHANGED <<phase, conn, peerOpen, sent, partial, writeBuf, out,
                        orderCounter>>
         /\ \A d \in Conns \ {c} : closed'[d] = closed[d] /\ ops'[d] = ops[d]
<1>1. CASE \E op \in ops[c] \ {"close"} : CloseSession(c, op) /\ HandlerFrame
  <2>1. PICK op \in ops[c] \ {"close"} : CloseSession(c, op) /\ HandlerFrame
    BY <1>1
  <2>2. c \in Live /\ conn[c] = "session" /\ ops[c] = {op} /\ ~closed[c]
    BY <2>1, LiveServes DEF IndInv, Live
  <2>3. ops' = [ops EXCEPT ![c] = {"close"}]
    BY <2>1, <2>2 DEF CloseSession, Continue, IndInv, TypeOK
  <2>4. /\ closed' = [closed EXCEPT ![c] = TRUE]
        /\ stream' = [stream EXCEPT ![c] = <<>>]
        /\ UNCHANGED <<phase, conn, peerOpen, sent, partial, writeBuf, out,
                       orderCounter>>
    BY <2>1 DEF CloseSession, HandlerFrame, peerVars
  <2> QED
    BY <2>2, <2>3, <2>4 DEF IndInv, TypeOK, Live, Sessions, Serving
<1>2. CASE DestroySession(c)
  <2>1. c \in Live /\ conn[c] = "session"
    BY <1>2 DEF IndInv, DestroySession, OperationOf, Live, Sessions
  <2> QED
    BY <1>2, <2>1 DEF DestroySession, ShutdownFrame, peerVars, IndInv, TypeOK,
       Live, Sessions, Serving
<1> QED
  BY <1>1, <1>2
  DEF HeaderMalformed, ReadFails, WriteFails, Completes

(* The end of a close() leaves everything but the counter alone. *)
LEMMA ReturnedStep ==
  ASSUME IndInv, NEW c \in Conns, CloseReturns(c)
  PROVE  /\ c \notin Live /\ c \notin Live' /\ ~Serving(c)'
         /\ ops[c] = {"close"} /\ ops'[c] = {}
         /\ UNCHANGED <<phase, conn, peerOpen, sent, partial, stream, closed,
                        header, writeBuf, out, orderCounter>>
         /\ \A d \in Conns \ {c} : ops'[d] = ops[d]
<1>1. c \notin Live /\ ops[c] = {"close"} /\ conn[c] = "session"
  BY DEF CloseReturns, IndInv, OperationOf
<1>2. ops' = [ops EXCEPT ![c] = {}]
  BY <1>1 DEF CloseReturns, Continue, IndInv, TypeOK
<1>3. UNCHANGED <<phase, conn, peerOpen, sent, partial, stream, closed,
                  header, writeBuf, out, orderCounter>>
  BY DEF CloseReturns, HandlerFrame, peerVars, wire
<1> QED
  BY <1>1, <1>2, <1>3 DEF Live, Sessions, Serving, IndInv, TypeOK

(* What a step that dispatches a request does to its session. *)
LEMMA DispatchedStep ==
  ASSUME IndInv, NEW c \in Conns, NEW op \in ops[c] \ {"close"}, NEW h,
         stream[c] # <<>>, Consume(c), DispatchAndWrite(c, op, h), HandlerFrame
  PROVE  /\ c \in Live /\ c \in Live' /\ Serving(c)
         /\ ops[c] = {op} /\ ops'[c] = {"write"}
         /\ stream'[c] = Tail(stream[c])
         /\ UNCHANGED <<phase, conn, peerOpen, sent, partial, closed, out>>
         /\ \E d \in Dispatch(h) :
              /\ writeBuf' = [writeBuf EXCEPT ![c] = d.reply]
              /\ orderCounter' = d.counter
         /\ \A e \in Conns \ {c} : ops'[e] = ops[e]
<1>1. PICK d \in Dispatch(h) :
        /\ writeBuf' = [writeBuf EXCEPT ![c] = d.reply]
        /\ orderCounter' = d.counter
        /\ Continue(c, op, {"write"})
        /\ UNCHANGED <<unread, closed, active, out>>
  BY DEF DispatchAndWrite, Refill
<1>2. c \in Live /\ Serving(c) /\ ops[c] = {op}
  BY LiveServes DEF IndInv
<1>3. ops' = [ops EXCEPT ![c] = {"write"}]
  BY <1>1, <1>2 DEF Continue, IndInv, TypeOK
<1>4. stream'[c] = Tail(stream[c])
  BY DEF Consume, IndInv, TypeOK
<1>5. UNCHANGED <<phase, conn, peerOpen, sent, partial, closed, out>>
  BY <1>1 DEF HandlerFrame, peerVars
<1>6. c \in Live'
  BY <1>2, <1>5 DEF Live, Sessions
<1> QED
  BY <1>1, <1>2, <1>3, <1>4, <1>5, <1>6 DEF IndInv, TypeOK

LEMMA FramedSession ==
  ASSUME IndInv, NEW c \in Conns, Framed(c), SessionStep(c)
  PROVE  Framed(c)'
<1> DEFINE n == Len(out[c]) + 1
<1>1. CASE HeaderMalformed(c) \/ ReadFails(c) \/ WriteFails(c)
  BY <1>1, ClosedStep, FramedDropped
<1>2. CASE HeaderWithoutBody(c)
  <2>1. /\ "readHeader" \in ops[c] /\ NextItem(c, "header")
        /\ ArrivedHeader(c).length # "some" /\ Consume(c)
        /\ DispatchAndWrite(c, "readHeader", ArrivedHeader(c)) /\ HandlerFrame
    BY <1>2 DEF HeaderWithoutBody, Completes, AwaitsPayload
  <2>2. stream[c] # <<>> /\ sent[c][n].length # "some"
    BY <2>1, NextHeader
  <2>3. /\ Serving(c) /\ ops[c] = {"readHeader"} /\ ops'[c] = {"write"}
        /\ stream'[c] = Tail(stream[c])
        /\ UNCHANGED <<sent, partial, peerOpen, out>>
    BY <2>1, <2>2, DispatchedStep
  <2>4. Expected(c) = HeaderOf(n) /\ Expected(c)' = HeaderOf(n + 1)
    <3>1. Len(out[c]) + 2 = n + 1
      BY DEF IndInv, TypeOK
    <3> QED
      BY <2>3, <3>1 DEF Expected
  <2>5. Expected(c)' = After(sent[c], Expected(c))
    BY <2>2, <2>4 DEF After, HeaderOf
  <2>6. HeaderHeld(c)'
    BY <2>3 DEF HeaderHeld
  <2> QED
    BY <2>2, <2>3, <2>5, <2>6, UnbrokenTail DEF Framed, IndInv
<1>3. CASE HeaderWithBody(c)
  <2>1. /\ "readHeader" \in ops[c] /\ NextItem(c, "header")
        /\ ArrivedHeader(c).length = "some" /\ Consume(c)
        /\ header'[c] = ArrivedHeader(c)
        /\ Continue(c, "readHeader", {"readBody"})
        /\ UNCHANGED <<sent, partial, peerOpen, out>>
    BY <1>3 DEF HeaderWithBody, Completes, AwaitsPayload, HandlerFrame,
       peerVars, IndInv, TypeOK
  <2>2. /\ stream[c] # <<>> /\ sent[c][n].length = "some"
        /\ n \in 1 .. Len(sent[c])
        /\ header'[c].tag = n /\ header'[c].type = sent[c][n].type
    BY <2>1, NextHeader
  <2>3. Serving(c) /\ ops[c] = {"readHeader"} /\ ops'[c] = {"readBody"}
    BY <2>1, LiveServes DEF Continue, IndInv, TypeOK
  <2>4. Expected(c) = HeaderOf(n) /\ Expected(c)' = BodyOf(n)
    BY <2>1, <2>3 DEF Expected
  <2>5. Expected(c)' = After(sent[c], Expected(c))
    BY <2>2, <2>4 DEF After, HeaderOf
  <2>6. HeaderHeld(c)'
    BY <2>1, <2>2 DEF HeaderHeld
  <2>7. stream'[c] = Tail(stream[c])
    BY <2>1 DEF Consume, IndInv, TypeOK
  <2> QED
    BY <2>1, <2>2, <2>3, <2>5, <2>6, <2>7, UnbrokenTail DEF Framed, IndInv
<1>4. CASE BodyRead(c)
  <2>1. /\ "readBody" \in ops[c] /\ stream[c] # <<>> /\ Consume(c)
        /\ DispatchAndWrite(c, "readBody", header[c]) /\ HandlerFrame
    BY <1>4 DEF BodyRead, Completes, NextItem
  <2>2. /\ Serving(c) /\ ops[c] = {"readBody"} /\ ops'[c] = {"write"}
        /\ stream'[c] = Tail(stream[c])
        /\ UNCHANGED <<sent, partial, peerOpen, out>>
    BY <2>1, DispatchedStep
  <2>3. Expected(c) = BodyOf(n) /\ Expected(c)' = HeaderOf(n + 1)
    <3>1. Len(out[c]) + 2 = n + 1
      BY DEF IndInv, TypeOK
    <3> QED
      BY <2>2, <3>1 DEF Expected
  <2>4. Expected(c)' = After(sent[c], Expected(c))
    BY <2>3 DEF After, BodyOf
  <2>5. HeaderHeld(c)'
    BY <2>2 DEF HeaderHeld
  <2> QED
    BY <2>1, <2>2, <2>4, <2>5, UnbrokenTail DEF Framed, IndInv
<1>5. CASE WriteDone(c)
  <2>1. /\ "write" \in ops[c] /\ out'[c] = Append(out[c], writeBuf[c])
        /\ Continue(c, "write", {"readHeader"})
        /\ UNCHANGED <<conn, closed, sent, partial, peerOpen, stream>>
    BY <1>5 DEF WriteDone, Completes, HandlerFrame, peerVars, IndInv, TypeOK
  <2>2. ops[c] = {"write"} /\ ops'[c] = {"readHeader"}
    BY <2>1, LiveServes DEF Continue, IndInv, TypeOK
  <2>3. Len(out'[c]) + 1 = Len(out[c]) + 2
    <3>1. out[c] \in Seq(Response) /\ writeBuf[c] \in Response
      BY <2>2 DEF IndInv, TypeOK, OperationOf
    <3> QED
      BY <2>1, <3>1
  <2>4. Expected(c)' = Expected(c)
    BY <2>2, <2>3 DEF Expected
  <2>5. Serving(c)' = Serving(c)
    BY <2>1 DEF Serving, Live, Sessions
  <2> QED
    BY <2>1, <2>2, <2>4, <2>5, FramedKept
<1> QED
  BY <1>1, <1>2, <1>3, <1>4, <1>5 DEF SessionStep

LEMMA FramedAccept ==
  ASSUME IndInv, NEW c \in Conns, Framed(c), AcceptOf(c)
  PROVE  Framed(c)'
<1>1. CASE AcceptAdmit(c)
  <2>1. /\ UNCHANGED <<peerOpen, sent, partial, stream, ops, header, out>>
        /\ Serving(c)
    BY <1>1 DEF AcceptAdmit, AcceptFrame, peerVars, Serving
  <2>2. Expected(c)' = Expected(c)
    BY <2>1 DEF Expected
  <2> QED
    BY <2>1, <2>2, FramedKept
<1>2. CASE AcceptReject(c) \/ AcceptError(c)
  <2>1. /\ conn[c] = "backlog" /\ conn'[c] \in {"rejected", "aborted"}
        /\ stream'[c] = <<>> /\ UNCHANGED <<sent, partial, ops>>
    BY <1>2 DEF AcceptReject, AcceptError, AcceptFrame, peerVars, IndInv, TypeOK
  <2>2. ops[c] = {} /\ ~Serving(c)'
    BY <2>1 DEF IndInv, OperationOf, Live, Sessions, Serving
  <2> QED
    BY <2>1, <2>2, FramedDropped
<1>3. CASE AcceptStart /\ acceptee = c
  <2>1. /\ UNCHANGED <<peerOpen, sent, partial, stream, header, out>>
        /\ conn[c] = "accepting" /\ ops'[c] = {"readHeader"}
    BY <1>3 DEF AcceptStart, AcceptFrame, peerVars, IndInv, TypeOK, AcceptOwns
  <2>2. ops[c] = {} /\ Serving(c)
    BY <2>1 DEF IndInv, OperationOf, Live, Sessions, Serving
  <2>3. Expected(c)' = Expected(c)
    BY <2>1, <2>2 DEF Expected
  <2> QED
    BY <2>1, <2>2, <2>3, FramedKept
<1> QED
  BY <1>1, <1>2, <1>3 DEF AcceptOf

LEMMA FramedPeer ==
  ASSUME IndInv, NEW c \in Conns, Framed(c), Peer(c)
  PROVE  Framed(c)'
<1>1. CASE Connect(c) \/ ReadAnswer(c)
  <2>1. /\ UNCHANGED <<peerOpen, sent, partial, stream, ops, closed, header, out>>
        /\ conn'[c] = conn[c] \/ (conn[c] = "new" /\ conn'[c] = "backlog")
    BY <1>1 DEF Connect, ReadAnswer, PeerFrame, sessionVars, peerVars, wire,
       IndInv, TypeOK
  <2>2. (Serving(c)' => Serving(c)) /\ Expected(c)' = Expected(c)
    BY <2>1 DEF Serving, Live, Sessions, Expected
  <2> QED
    BY <2>1, <2>2, FramedKept
<1> QED
  BY <1>1, FramedSendHeader, FramedSendBody, FramedPeerClose DEF Peer

LEMMA FramedStep ==
  ASSUME IndInv, [Next]_vars, NEW c \in Conns, Framed(c)
  PROVE  Framed(c)'
<1>1. CASE Untouched(c)
  <2>1. UNCHANGED <<conn[c], peerOpen[c], sent[c], partial[c], stream[c],
                    ops[c], closed[c], header[c], out[c]>>
    BY <1>1 DEF Untouched
  <2>2. Serving(c)' = Serving(c) /\ Expected(c)' = Expected(c)
    BY <2>1 DEF Serving, Live, Sessions, Expected
  <2> QED
    BY <2>1, <2>2, FramedKept
<1>2. CASE DestroySession(c)
  BY <1>2, ClosedStep, FramedDropped
<1>3. CASE CloseReturns(c)
  <2>1. /\ ~Serving(c)' /\ ops'[c] = {}
        /\ UNCHANGED <<sent, partial, stream>>
    BY <1>3, ReturnedStep
  <2> QED
    BY <2>1 DEF Framed, Unbroken, BodyDue, HeaderHeld
<1> QED
  BY <1>1, <1>2, <1>3, StepOf, FramedSession, FramedAccept, FramedPeer

-----------------------------------------------------------------------------
(* Answers are kept.                                                       *)

LEMMA NumbersBelow ==
  ASSUME NEW m \in Nat, NEW n \in Nat, n >= m
  PROVE  1 .. m - 1 \subseteq 1 .. n - 1
OBVIOUS

(* An answer stays one to its request when the peer sends more and orders  *)
(* are placed.                                                             *)
LEMMA AnsweringKept ==
  ASSUME TypeOK, NEW c \in Conns,
         orderCounter' \in Nat, orderCounter' >= orderCounter,
         \/ UNCHANGED <<sent[c], partial[c]>>
         \/ sent'[c] = sent[c] /\ ~partial'[c]
         \/ /\ Len(sent'[c]) = Len(sent[c]) + 1
            /\ \A i \in 1 .. Len(sent[c]) : sent'[c][i] = sent[c][i]
  PROVE  \A n \in Nat \ {0} : \A r : Answering(c, n, r) => Answering(c, n, r)'
<1> SUFFICES ASSUME NEW n \in Nat \ {0}, NEW r, Answering(c, n, r)
             PROVE  Answering(c, n, r)'
  OBVIOUS
<1>1. Len(sent[c]) \in Nat /\ n \in 1 .. Len(sent[c])
  BY DEF TypeOK, Answering
<1>2. /\ n <= Len(sent'[c]) /\ sent'[c][n] = sent[c][n]
      /\ n = Len(sent'[c]) => ~partial'[c]
  BY <1>1 DEF Answering
<1>3. 1 .. orderCounter - 1 \subseteq 1 .. orderCounter' - 1
  <2>1. orderCounter \in Nat
    BY DEF TypeOK
  <2> QED
    BY <2>1, NumbersBelow
<1> QED
  BY <1>2, <1>3 DEF Answering

LEMMA AnsweredKept ==
  ASSUME TypeOK, NEW c \in Conns, Answered(c),
         orderCounter' \in Nat, orderCounter' >= orderCounter,
         \/ UNCHANGED <<sent[c], partial[c]>>
         \/ sent'[c] = sent[c] /\ ~partial'[c]
         \/ /\ Len(sent'[c]) = Len(sent[c]) + 1
            /\ \A i \in 1 .. Len(sent[c]) : sent'[c][i] = sent[c][i],
         UNCHANGED <<out[c], writeBuf[c]>>,
         ops'[c] = {"write"} => ops[c] = {"write"},
         conn'[c] # "session" => conn[c] # "session",
         c \in Live' /\ ops'[c] # {"write"} =>
           \/ c \in Live /\ ops[c] # {"write"}
           \/ conn[c] # "session"
  PROVE  Answered(c)'
<1>1. \A n \in Nat \ {0} : \A r : Answering(c, n, r) => Answering(c, n, r)'
  BY AnsweringKept
<1>2. Len(out[c]) \in Nat /\ Len(out[c]) + 1 \in Nat \ {0}
  BY DEF TypeOK
<1>3. \A n \in 1 .. Len(out[c]) : n \in Nat \ {0}
  BY <1>2
<1>4. \A n \in 1 .. Len(out'[c]) : Answering(c, n, out[c][n])'
  BY <1>1, <1>3 DEF Answered
<1> QED
  BY <1>1, <1>2, <1>3 DEF Answered

(* What dispatch returns answers the request it was called for. *)
LEMMA DispatchAnswers ==
  ASSUME TypeOK, NEW c \in Conns, NEW n \in 1 .. Len(sent[c]),
         n = Len(sent[c]) => ~partial[c],
         NEW h, h.tag = n, h.type = sent[c][n].type,
         NEW d \in Dispatch(h), orderCounter' = d.counter,
         UNCHANGED <<sent[c], partial[c]>>, NEW r, r = d.reply
  PROVE  Answering(c, n, r)'
<1>1. CASE r = Reply(h, kError, NoOrder)
  BY <1>1 DEF Answering, Reply
<1>2. CASE r = Reply(h, ResponseType(h.type), NoOrder) /\ h.type \notin OrderTypes
  BY <1>2 DEF Answering, Reply
<1>3. CASE /\ r = Reply(h, ResponseType(h.type), TakenOrder)
           /\ h.type \in OrderTypes /\ d.counter = OrderAdvanced
  <2>1. orderCounter \in 1 .. orderCounter' - 1
    BY <1>3 DEF TypeOK, OrderAdvanced
  <2> QED
    BY <1>3, <2>1 DEF Answering, Reply, TakenOrder
<1> QED
  BY <1>1, <1>2, <1>3 DEF Dispatch

(* The handlers that dispatch: the next request of the session gets its    *)
(* answer, and at most one order number is taken, which is that answer's.  *)
Dispatches(c) ==
  LET n == Len(out[c]) + 1
  IN /\ c \in Live /\ c \in Live'
     /\ ops[c] # {"write"} /\ ops'[c] = {"write"}
     /\ n \in 1 .. MaxRequests
     /\ UNCHANGED <<conn, sent, partial, closed, out>>
     /\ \E r \in Response :
          /\ writeBuf' = [writeBuf EXCEPT ![c] = r]
          /\ r.tag = n
          /\ r.order \in {NoOrder, orderCounter}
          /\ Answering(c, n, r)'
     /\ orderCounter' \in {orderCounter, orderCounter + 1}
     /\ \A e \in Conns \ {c} : ops'[e] = ops[e]

LEMMA DispatchesStep ==
  ASSUME IndInv, NEW c \in Conns, Framed(c),
         HeaderWithoutBody(c) \/ BodyRead(c)
  PROVE  Dispatches(c)
<1> DEFINE n == Len(out[c]) + 1
<1>1. PICK op \in ops[c] \ {"close"}, h \in Header :
        /\ stream[c] # <<>> /\ Consume(c) /\ DispatchAndWrite(c, op, h)
        /\ HandlerFrame /\ op # "write"
        /\ h.tag = n /\ n \in 1 .. Len(sent[c]) /\ h.type = sent[c][n].type
        /\ n = Len(sent[c]) => ~partial[c]
  <2>1. CASE HeaderWithoutBody(c)
    <3>1. /\ "readHeader" \in ops[c] /\ NextItem(c, "header") /\ Consume(c)
          /\ DispatchAndWrite(c, "readHeader", ArrivedHeader(c))
          /\ HandlerFrame /\ ArrivedHeader(c).length # "some"
      BY <2>1 DEF HeaderWithoutBody, Completes, AwaitsPayload
    <3>2. stream[c] # <<>> /\ ArrivedHeader(c) \in Header
      BY <3>1, ArrivedHeaderType DEF NextItem, IndInv
    <3> QED
      BY <3>1, <3>2, NextHeader
  <2>2. CASE BodyRead(c)
    <3>1. /\ "readBody" \in ops[c] /\ stream[c] # <<>> /\ Consume(c)
          /\ DispatchAndWrite(c, "readBody", header[c]) /\ HandlerFrame
      BY <2>2 DEF BodyRead, Completes, NextItem
    <3>2. header[c] \in Header
      BY <3>1, LiveServes DEF IndInv, OperationOf
    <3> QED
      BY <3>1, <3>2, NextBody
  <2> QED
    BY <2>1, <2>2
<1>2. /\ c \in Live /\ c \in Live' /\ ops[c] = {op} /\ ops'[c] = {"write"}
      /\ UNCHANGED <<conn, sent, partial, closed, out>>
      /\ \A e \in Conns \ {c} : ops'[e] = ops[e]
  BY <1>1, DispatchedStep
<1>3. PICK d \in Dispatch(h) : /\ writeBuf' = [writeBuf EXCEPT ![c] = d.reply]
                               /\ orderCounter' = d.counter
  BY <1>1, DispatchedStep
<1>4. PICK r : r = d.reply
  OBVIOUS
<1>5. r \in Response
  BY <1>1, <1>4, DispatchType DEF IndInv
<1>6. r.tag = n /\ r.order \in {NoOrder, orderCounter}
  BY <1>1, <1>4 DEF Dispatch, Reply, TakenOrder
<1>7. Answering(c, n, r)'
  <2>1. \A k \in 1 .. Len(sent[c]) : k = n => Answering(c, k, r)'
    <3> SUFFICES ASSUME NEW k \in 1 .. Len(sent[c]), k = n
                 PROVE  Answering(c, k, r)'
      OBVIOUS
    <3> QED
      BY <1>1, <1>2, <1>3, <1>4, DispatchAnswers DEF IndInv
  <2>2. n' = n
    BY <1>2
  <2> QED
    BY <1>1, <2>1, <2>2 DEF Answering
<1>8. orderCounter' \in {orderCounter, orderCounter + 1}
  BY <1>3, CounterGrows DEF IndInv
<1>9. n \in 1 .. MaxRequests
  <2>1. Len(sent[c]) \in Nat /\ Len(sent[c]) <= MaxRequests
    BY DEF IndInv, TypeOK, ItemsSent
  <2> QED
    BY <1>1, <2>1, ServerAssumption
<1>10. ops[c] # {"write"}
  BY <1>1, <1>2
<1> QED
  BY <1>2, <1>3, <1>4, <1>5, <1>6, <1>7, <1>8, <1>9, <1>10 DEF Dispatches

(* The handler that finds its answer written. *)
Writes(c) ==
  /\ c \in Live /\ c \in Live'
  /\ ops[c] = {"write"} /\ ops'[c] = {"readHeader"}
  /\ UNCHANGED <<conn, sent, partial, closed, writeBuf, orderCounter>>
  /\ Len(out'[c]) = Len(out[c]) + 1
  /\ out'[c][Len(out[c]) + 1] = writeBuf[c]
  /\ \A n \in 1 .. Len(out[c]) : out'[c][n] = out[c][n]
  /\ \A e \in Conns \ {c} : ops'[e] = ops[e] /\ out'[e] = out[e]

LEMMA WritesStep ==
  ASSUME IndInv, NEW c \in Conns, WriteDone(c)
  PROVE  Writes(c)
<1>1. /\ "write" \in ops[c] /\ out' = [out EXCEPT ![c] = Append(@, writeBuf[c])]
      /\ Continue(c, "write", {"readHeader"})
      /\ UNCHANGED <<conn, sent, partial, closed, writeBuf, orderCounter>>
  BY DEF WriteDone, Completes, HandlerFrame, peerVars
<1>2. ops[c] = {"write"} /\ c \in Live
  BY <1>1, LiveServes DEF IndInv
<1>3. ops' = [ops EXCEPT ![c] = {"readHeader"}]
  BY <1>1, <1>2 DEF Continue, IndInv, TypeOK
<1>4. out[c] \in Seq(Response) /\ writeBuf[c] \in Response
  BY <1>2 DEF IndInv, TypeOK, OperationOf
<1>5. /\ Len(out'[c]) = Len(out[c]) + 1
      /\ out'[c][Len(out[c]) + 1] = writeBuf[c]
      /\ \A n \in 1 .. Len(out[c]) : out'[c][n] = out[c][n]
  BY <1>1, <1>4 DEF IndInv, TypeOK
<1>6. c \in Live'
  BY <1>1, <1>2 DEF Live, Sessions
<1> QED
  BY <1>1, <1>2, <1>3, <1>5, <1>6 DEF Writes, IndInv, TypeOK

LEMMA AnsweredStep ==
  ASSUME IndInv, IndInv', [Next]_vars, NEW c \in Conns, Framed(c), Answered(c)
  PROVE  Answered(c)'
<1> USE DEF IndInv
<1>0. orderCounter \in Nat /\ orderCounter' \in Nat
  BY DEF TypeOK
<1>1. CASE Untouched(c) /\ orderCounter' >= orderCounter
  BY <1>0, <1>1, AnsweredKept DEF Untouched, Live, Sessions
<1>2. CASE HeaderWithoutBody(c) \/ BodyRead(c)
  <2>1. Dispatches(c)
    BY <1>2, DispatchesStep
  <2>2. PICK r \in Response :
          writeBuf' = [writeBuf EXCEPT ![c] = r] /\ Answering(c, Len(out[c]) + 1, r)'
    BY <2>1 DEF Dispatches
  <2>3. orderCounter' >= orderCounter
    BY <1>0, <2>1 DEF Dispatches
  <2>4. UNCHANGED <<conn, sent, partial, out>>
    BY <2>1 DEF Dispatches
  <2>5. \A n \in Nat \ {0} : \A q : Answering(c, n, q) => Answering(c, n, q)'
    BY <1>0, <2>3, <2>4, AnsweringKept
  <2>6. \A n \in 1 .. Len(out[c]) : n \in Nat \ {0}
    BY DEF TypeOK
  <2>7. \A n \in 1 .. Len(out'[c]) : Answering(c, n, out[c][n])'
    BY <2>4, <2>5, <2>6 DEF Answered
  <2>8. conn'[c] = "session"
    BY <2>1, <2>4 DEF Dispatches, Live, Sessions
  <2>9. writeBuf'[c] = r
    BY <2>2 DEF TypeOK
  <2>10. Answering(c, Len(out[c]) + 1, writeBuf[c])'
    BY <2>2, <2>9 DEF Answering
  <2> QED
    BY <2>1, <2>7, <2>8, <2>10 DEF Answered, Dispatches
<1>3. CASE WriteDone(c)
  <2>1. Writes(c)
    BY <1>3, WritesStep
  <2>2. UNCHANGED <<conn, sent, partial, writeBuf, orderCounter>>
    BY <2>1 DEF Writes
  <2>3. Answering(c, Len(out[c]) + 1, writeBuf[c])
    BY <2>1 DEF Writes, Answered
  <2>4. \A n \in 1 .. Len(out[c]) : Answering(c, n, out[c][n])
    BY DEF Answered
  <2>5. Len(out[c]) \in Nat /\ Len(out'[c]) = Len(out[c]) + 1
    BY <2>1 DEF TypeOK, Writes
  <2>6. \A n \in 1 .. Len(out'[c]) : Answering(c, n, out'[c][n])
    <3> TAKE n \in 1 .. Len(out'[c])
    <3>1. CASE n \in 1 .. Len(out[c])
      BY <2>1, <2>4, <3>1 DEF Writes
    <3>2. CASE n = Len(out[c]) + 1
      BY <2>1, <2>3, <3>2 DEF Writes
    <3> QED
      BY <2>5, <3>1, <3>2
  <2>7. \A n \in 1 .. Len(out'[c]) : Answering(c, n, out[c][n])'
    BY <2>2, <2>6 DEF Answering
  <2>8. writeBuf'[c] \in Response /\ writeBuf'[c].tag = Len(out'[c])
    BY <2>1, <2>2, <2>3, <2>5 DEF OperationOf, Writes, Answering
  <2>9. conn'[c] = "session" /\ ops'[c] # {"write"}
    BY <2>1 DEF Writes, Live, Sessions
  <2> QED
    BY <2>7, <2>8, <2>9 DEF Answered
<1>4. CASE HeaderWithBody(c)
  <2>1. /\ "readHeader" \in ops[c] /\ Continue(c, "readHeader", {"readBody"})
        /\ UNCHANGED <<conn, sent, partial, out, writeBuf, orderCounter>>
    BY <1>4 DEF HeaderWithBody, Completes, HandlerFrame, peerVars
  <2>2. c \in Live /\ ops[c] = {"readHeader"}
    BY <2>1, LiveServes
  <2>3. ops'[c] = {"readBody"}
    BY <2>1, <2>2 DEF Continue, TypeOK
  <2> QED
    BY <1>0, <2>1, <2>2, <2>3, AnsweredKept
<1>5. CASE \/ HeaderMalformed(c) \/ ReadFails(c) \/ WriteFails(c)
           \/ DestroySession(c) \/ CloseReturns(c)
  <2>1. /\ ops'[c] # {"write"} /\ c \notin Live'
        /\ UNCHANGED <<conn, sent, partial, out, writeBuf, orderCounter>>
    BY <1>5, ClosedStep, ReturnedStep
  <2> QED
    BY <1>0, <2>1, AnsweredKept
<1>6. CASE AcceptOf(c)
  <2>1. UNCHANGED <<sent, partial, out, writeBuf, orderCounter>>
    BY <1>6 DEF AcceptOf, AcceptAdmit, AcceptReject, AcceptError, AcceptStart,
       AcceptFrame, peerVars
  <2>2. conn[c] # "session"
    BY <1>6 DEF AcceptOf, AcceptAdmit, AcceptReject, AcceptError, AcceptStart,
       AcceptOwns
  <2>3. ops[c] = {}
    BY <2>2 DEF OperationOf, Live, Sessions
  <2>4. ops'[c] \in {{}, {"readHeader"}}
    BY <1>6, <2>3 DEF AcceptOf, AcceptAdmit, AcceptReject, AcceptError,
       AcceptStart, TypeOK
  <2> QED
    BY <1>0, <2>1, <2>2, <2>4, AnsweredKept
<1>7. CASE Peer(c)
  <2>1. /\ UNCHANGED <<ops, closed, out, writeBuf, orderCounter>>
        /\ conn'[c] = conn[c] \/ (conn[c] # "session" /\ conn'[c] # "session")
    BY <1>7 DEF Peer, Connect, SendHeader, SendBody, ReadAnswer, PeerClose,
       PeerFrame, sessionVars, TypeOK
  <2>2. c \in Live' <=> c \in Live
    BY <2>1 DEF Live, Sessions
  <2>3. \/ UNCHANGED <<sent[c], partial[c]>>
        \/ sent'[c] = sent[c] /\ ~partial'[c]
        \/ /\ Len(sent'[c]) = Len(sent[c]) + 1
           /\ \A i \in 1 .. Len(sent[c]) : sent'[c][i] = sent[c][i]
    <3>1. CASE Connect(c) \/ ReadAnswer(c) \/ PeerClose(c) \/ SendBody(c)
      BY <3>1 DEF Connect, ReadAnswer, PeerClose, SendBody, peerVars, TypeOK
    <3>2. ASSUME NEW t \in Types, NEW l \in Lengths, SendHeader(c, t, l)
          PROVE  /\ Len(sent'[c]) = Len(sent[c]) + 1
                 /\ \A i \in 1 .. Len(sent[c]) : sent'[c][i] = sent[c][i]
      <4>1. sent'[c] = Append(sent[c], [type |-> t, length |-> l])
        BY <3>2 DEF SendHeader, TypeOK
      <4>2. sent[c] \in Seq(Announce) /\ [type |-> t, length |-> l] \in Announce
        BY DEF TypeOK, Announce
      <4> QED
        BY <4>1, <4>2
    <3> QED
      BY <1>7, <3>1, <3>2 DEF Peer
  <2> QED
    BY <1>0, <2>1, <2>2, <2>3, AnsweredKept
<1> QED
  BY <1>1, <1>2, <1>3, <1>4, <1>5, <1>6, <1>7, StepOf DEF SessionStep

-----------------------------------------------------------------------------
(* Order numbers.                                                          *)

(* Only a dispatch fills a write buffer or takes an order number. *)
LEMMA OthersTakeNone ==
  ASSUME IndInv, [Next]_vars,
         \A c \in Conns : ~(HeaderWithoutBody(c) \/ BodyRead(c))
  PROVE  UNCHANGED <<writeBuf, orderCounter>>
<1>1. ASSUME NEW c \in Conns, SessionStep(c)
      PROVE  UNCHANGED <<writeBuf, orderCounter>>
  BY <1>1 DEF SessionStep, HeaderMalformed, HeaderWithBody, ReadFails,
     WriteDone, WriteFails, CloseSession
<1>2. ASSUME Accept \/ AcceptCount \/ AcceptStart \/ AcceptThrow
      PROVE  UNCHANGED <<writeBuf, orderCounter>>
  BY <1>2 DEF Accept, AcceptAdmit, AcceptReject, AcceptError, AcceptCount,
     AcceptStart, AcceptThrow, AcceptFrame, sessionVars
<1>3. ASSUME Signal \/ Shutdown
      PROVE  UNCHANGED <<writeBuf, orderCounter>>
  BY <1>3 DEF Signal, Shutdown, Join, Exit, DestroySession, ShutdownFrame
<1>4. ASSUME NEW c \in Conns, Peer(c)
      PROVE  UNCHANGED <<writeBuf, orderCounter>>
  BY <1>4 DEF Peer, Connect, SendHeader, SendBody, ReadAnswer, PeerClose,
     PeerFrame, sessionVars
<1>5. ASSUME NEW c \in Conns, CloseReturns(c)
      PROVE  UNCHANGED <<writeBuf, orderCounter>>
  BY <1>5 DEF CloseReturns
<1> QED
  BY <1>1, <1>2, <1>3, <1>4, <1>5 DEF Next, Gone, vars, sessionVars

(* Only a dispatch starts a write, and only a completed write is an answer *)
(* the client is told.                                                     *)
LEMMA OthersWriteNone ==
  ASSUME IndInv, [Next]_vars,
         \A c \in Conns :
           ~(HeaderWithoutBody(c) \/ BodyRead(c) \/ WriteDone(c))
  PROVE  /\ out' = out
         /\ \A c \in Conns : ops'[c] = {"write"} => ops[c] = {"write"}
<1>1. ASSUME NEW e \in Conns,
             \/ HeaderMalformed(e) \/ ReadFails(e) \/ WriteFails(e)
             \/ DestroySession(e) \/ CloseReturns(e)
      PROVE  /\ out' = out /\ ops'[e] # {"write"}
             /\ \A c \in Conns \ {e} : ops'[c] = ops[c]
  BY <1>1, ClosedStep, ReturnedStep
<1>2. ASSUME NEW e \in Conns, HeaderWithBody(e)
      PROVE  /\ out' = out /\ ops'[e] # {"write"}
             /\ \A c \in Conns \ {e} : ops'[c] = ops[c]
  <2>1. /\ out' = out /\ "readHeader" \in ops[e]
        /\ Continue(e, "readHeader", {"readBody"})
    BY <1>2 DEF HeaderWithBody, Completes
  <2>2. ops[e] = {"readHeader"}
    BY <2>1, LiveServes DEF IndInv
  <2>3. ops' = [ops EXCEPT ![e] = {"readBody"}]
    BY <2>1, <2>2 DEF Continue, IndInv, TypeOK
  <2> QED
    BY <2>1, <2>3 DEF IndInv, TypeOK
<1>3. ASSUME Accept \/ AcceptCount \/ AcceptThrow
      PROVE  out' = out /\ ops' = ops
  BY <1>3 DEF Accept, AcceptAdmit, AcceptReject, AcceptError, AcceptCount,
     AcceptThrow, AcceptFrame, sessionVars
<1>4. ASSUME AcceptStart
      PROVE  /\ out' = out
             /\ \A c \in Conns : ops'[c] \in {ops[c], {"readHeader"}}
  BY <1>4 DEF AcceptStart, AcceptFrame, IndInv, TypeOK
<1>5. ASSUME Signal \/ Join \/ Exit
      PROVE  out' = out /\ ops' = ops
  BY <1>5 DEF Signal, Join, Exit, ShutdownFrame
<1>6. ASSUME NEW e \in Conns, Peer(e)
      PROVE  out' = out /\ ops' = ops
  BY <1>6 DEF Peer, Connect, SendHeader, SendBody, ReadAnswer, PeerClose,
     PeerFrame, sessionVars
<1> QED
  BY <1>1, <1>2, <1>3, <1>4, <1>5, <1>6
  DEF Next, SessionStep, Shutdown, Gone, vars, sessionVars

(* The answers a connection has, and the one in its write buffer; the      *)
(* order number of each is below the counter.                              *)
InPlace(a) ==
  \/ a[2] <= Len(out[a[1]])
  \/ a[2] = Len(out[a[1]]) + 1 /\ ops[a[1]] = {"write"}

AnswersKnown ==
  /\ Answers = {a \in Conns \X (1 .. MaxRequests) : InPlace(a)}
  /\ \A a \in Answers : OrderOf(a) \in Nat /\ OrderOf(a) < orderCounter

LEMMA PairOf ==
  ASSUME NEW a \in Conns \X (1 .. MaxRequests)
  PROVE  a[1] \in Conns /\ a[2] \in Nat \ {0} /\ a = <<a[1], a[2]>>
BY ServerAssumption

LEMMA AnswersAreKnown == IndInv /\ (\A c \in Conns : Answered(c)) => AnswersKnown
<1> SUFFICES ASSUME IndInv, \A c \in Conns : Answered(c) PROVE AnswersKnown
  OBVIOUS
<1>1. \A c \in Conns : Len(out[c]) \in Nat /\ orderCounter \in Nat \ {0}
  BY DEF IndInv, TypeOK
<1>2. ASSUME NEW c \in Conns
      PROVE  Cardinality(ops[c] \cap {"write"})
               = IF ops[c] = {"write"} THEN 1 ELSE 0
  <2>1. CASE ops[c] = {"write"}
    <3>1. ops[c] \cap {"write"} = {"write"}
      BY <2>1
    <3> QED
      BY <2>1, <3>1, FS_Singleton
  <2>2. CASE ops[c] # {"write"}
    <3>1. ops[c] \cap {"write"} = {}
      BY <2>2, LiveServes DEF IndInv
    <3> QED
      BY <2>2, <3>1, FS_EmptySet
  <2> QED
    BY <2>1, <2>2
<1>3. ASSUME NEW a \in Conns \X (1 .. MaxRequests)
      PROVE  a \in Answers <=> InPlace(a)
  <2>1. a[1] \in Conns /\ a[2] \in Nat /\ Len(out[a[1]]) \in Nat
    BY <1>1, PairOf
  <2>2. a \in Answers
          <=> a[2] <= Len(out[a[1]]) + Cardinality(ops[a[1]] \cap {"write"})
    BY DEF Answers
  <2>3. CASE ops[a[1]] = {"write"}
    <3>1. a \in Answers <=> a[2] <= Len(out[a[1]]) + 1
      BY <1>2, <2>1, <2>2, <2>3
    <3> QED
      BY <2>1, <2>3, <3>1 DEF InPlace
  <2>4. CASE ops[a[1]] # {"write"}
    <3>1. a \in Answers <=> a[2] <= Len(out[a[1]]) + 0
      BY <1>2, <2>1, <2>2, <2>4
    <3> QED
      BY <2>1, <2>4, <3>1 DEF InPlace
  <2> QED
    BY <2>3, <2>4
<1>4. Answers = {a \in Conns \X (1 .. MaxRequests) : InPlace(a)}
  BY <1>3 DEF Answers
<1>5. ASSUME NEW a \in Answers
      PROVE  OrderOf(a) \in Nat /\ OrderOf(a) < orderCounter
  <2>1. a \in Conns \X (1 .. MaxRequests) /\ InPlace(a)
    BY <1>4
  <2>2. a[1] \in Conns /\ a[2] \in Nat \ {0} /\ Len(out[a[1]]) \in Nat
    BY <1>1, <2>1, PairOf
  <2>3. CASE a[2] <= Len(out[a[1]])
    <3>1. Answering(a[1], a[2], out[a[1]][a[2]])
      BY <2>2, <2>3 DEF Answered
    <3> QED
      BY <1>1, <2>2, <2>3, <3>1 DEF Answering, OrderOf, NoOrder
  <2>4. CASE ~(a[2] <= Len(out[a[1]]))
    <3>1. Answering(a[1], a[2], writeBuf[a[1]])
      BY <2>1, <2>2, <2>4 DEF Answered, InPlace
    <3> QED
      BY <1>1, <2>2, <2>4, <3>1 DEF Answering, OrderOf, NoOrder
  <2> QED
    BY <2>3, <2>4
<1> QED
  BY <1>4, <1>5 DEF AnswersKnown

LEMMA UniqueKept ==
  ASSUME IndInv, IndInv', AnswersKnown, OrderIdsUnique,
         orderCounter' >= orderCounter,
         \A a \in Answers' : a \in Answers /\ OrderOf(a)' = OrderOf(a)
  PROVE  OrderIdsUnique'
<1>1. orderCounter \in Nat /\ orderCounter' \in Nat
  BY DEF IndInv, TypeOK
<1>2. \A a \in Answers' : OrderOf(a)' < orderCounter'
  BY <1>1 DEF AnswersKnown, IndInv, TypeOK
<1> QED
  BY <1>2 DEF OrderIdsUnique

LEMMA UniqueDispatch ==
  ASSUME IndInv, IndInv', AnswersKnown, AnswersKnown', OrderIdsUnique,
         NEW c \in Conns, Dispatches(c)
  PROVE  OrderIdsUnique'
<1>1. Len(out[c]) \in Nat
  BY DEF IndInv, TypeOK
<1>2. PICK n \in Nat : n = Len(out[c]) + 1
  BY <1>1
<1> DEFINE b == <<c, n>>
<1>3. PICK r \in Response :
        /\ writeBuf' = [writeBuf EXCEPT ![c] = r]
        /\ r.order \in {NoOrder, orderCounter}
  BY DEF Dispatches
<1>4. /\ ops[c] # {"write"} /\ ops'[c] = {"write"}
      /\ n \in 1 .. MaxRequests /\ out' = out
      /\ \A e \in Conns \ {c} : ops'[e] = ops[e]
  BY <1>2 DEF Dispatches
<1>5. /\ writeBuf'[c] = r
      /\ \A e \in Conns \ {c} : writeBuf'[e] = writeBuf[e]
  BY <1>3 DEF IndInv, TypeOK
<1>6. OrderOf(b)' = r.order
  BY <1>2, <1>4, <1>5, <1>1 DEF OrderOf
<1>7. ASSUME NEW a \in Answers', a # b
      PROVE  a \in Answers /\ OrderOf(a)' = OrderOf(a)
  <2>1. a \in Conns \X (1 .. MaxRequests) /\ InPlace(a)'
    BY <1>7 DEF AnswersKnown
  <2>2. /\ a[1] \in Conns /\ a = <<a[1], a[2]>> /\ a[2] \in Nat
        /\ Len(out[a[1]]) \in Nat
    <3>1. a[1] \in Conns /\ a = <<a[1], a[2]>> /\ a[2] \in Nat
      BY <2>1, PairOf
    <3> QED
      BY <3>1 DEF IndInv, TypeOK
  <2>3. a \in Answers <=> InPlace(a)
    BY <2>1 DEF AnswersKnown
  <2>4. CASE a[1] = c
    <3>1. a[2] <= Len(out[c])
      BY <1>4, <1>2, <1>1, <1>7, <2>1, <2>2, <2>4 DEF InPlace
    <3> QED
      BY <1>4, <2>2, <2>3, <2>4, <3>1 DEF InPlace, OrderOf
  <2>5. CASE a[1] # c
    <3>1. ops'[a[1]] = ops[a[1]] /\ writeBuf'[a[1]] = writeBuf[a[1]]
      BY <1>4, <1>5, <2>2, <2>5
    <3> QED
      BY <1>4, <2>1, <2>3, <3>1 DEF InPlace, OrderOf
  <2> QED
    BY <2>4, <2>5
<1>8. \A a \in Answers' : OrderOf(a)' < orderCounter'
  BY DEF AnswersKnown
<1>9. \A a \in Answers : OrderOf(a) \in Nat /\ OrderOf(a) < orderCounter
  BY DEF AnswersKnown
<1>10. orderCounter \in Nat
  BY DEF IndInv, TypeOK
<1> HIDE DEF b
<1>11. ASSUME NEW a1 \in Answers', NEW a2 \in Answers', a1 # a2,
              OrderOf(a1)' = OrderOf(a2)'
       PROVE  OrderOf(a1)' = NoOrder
  <2>1. CASE a1 # b /\ a2 # b
    BY <1>7, <1>11, <2>1 DEF OrderIdsUnique
  <2>2. CASE a1 = b
    <3>1. a2 \in Answers /\ OrderOf(a2)' = OrderOf(a2)
      BY <1>7, <1>11, <2>2
    <3>2. OrderOf(a2)' # orderCounter
      BY <1>9, <1>10, <3>1
    <3>3. OrderOf(a1)' = r.order
      BY <1>6, <2>2
    <3> QED
      BY <1>3, <1>11, <3>2, <3>3
  <2>3. CASE a2 = b
    <3>1. a1 \in Answers /\ OrderOf(a1)' = OrderOf(a1)
      BY <1>7, <1>11, <2>3
    <3>2. OrderOf(a1)' # orderCounter
      BY <1>9, <1>10, <3>1
    <3>3. OrderOf(a2)' = r.order
      BY <1>6, <2>3
    <3> QED
      BY <1>3, <1>11, <3>2, <3>3
  <2> QED
    BY <2>1, <2>2, <2>3
<1> QED
  BY <1>8, <1>11 DEF OrderIdsUnique

LEMMA UniqueWrites ==
  ASSUME IndInv, IndInv', AnswersKnown, OrderIdsUnique,
         AnswersKnown', NEW c \in Conns, Writes(c)
  PROVE  OrderIdsUnique'
<1>1. ASSUME NEW a \in Answers'
      PROVE  a \in Answers /\ OrderOf(a)' = OrderOf(a)
  <2>1. a \in Conns \X (1 .. MaxRequests) /\ InPlace(a)'
    BY <1>1 DEF AnswersKnown
  <2>2. a[1] \in Conns /\ a[2] \in Nat \ {0} /\ Len(out[a[1]]) \in Nat
    <3>1. a[1] \in Conns /\ a[2] \in Nat \ {0}
      BY <2>1, PairOf
    <3> QED
      BY <3>1 DEF IndInv, TypeOK
  <2>3. a \in Answers <=> InPlace(a)
    BY <2>1 DEF AnswersKnown
  <2>4. CASE a[1] = c
    <3>1. a[2] <= Len(out'[c]) /\ Len(out'[c]) = Len(out[c]) + 1
      BY <2>1, <2>4 DEF Writes, InPlace
    <3>2. CASE a[2] <= Len(out[c])
      BY <2>2, <2>4, <2>3, <3>1, <3>2 DEF Writes, OrderOf, InPlace
    <3>3. CASE a[2] = Len(out[c]) + 1
      BY <2>2, <2>4, <2>3, <3>1, <3>3 DEF Writes, OrderOf, InPlace
    <3> QED
      BY <2>2, <2>4, <3>1, <3>2, <3>3
  <2>5. CASE a[1] # c
    <3>1. /\ ops'[a[1]] = ops[a[1]] /\ out'[a[1]] = out[a[1]]
          /\ writeBuf' = writeBuf
      BY <2>2, <2>5 DEF Writes
    <3> QED
      BY <2>1, <2>2, <2>3, <3>1 DEF OrderOf, InPlace
  <2> QED
    BY <2>4, <2>5
<1>2. orderCounter' >= orderCounter
  BY DEF Writes, IndInv, TypeOK
<1> QED
  BY <1>1, <1>2, UniqueKept

(* No two orders are given the same number, whatever handler runs. *)
LEMMA UniqueStep ==
  ASSUME IndInv, IndInv', AnswersKnown, AnswersKnown', OrderIdsUnique,
         \A c \in Conns : Framed(c), [Next]_vars
  PROVE  OrderIdsUnique'
<1>1. ASSUME NEW c \in Conns, HeaderWithoutBody(c) \/ BodyRead(c)
      PROVE  OrderIdsUnique'
  BY <1>1, DispatchesStep, UniqueDispatch
<1>2. ASSUME NEW c \in Conns, WriteDone(c)
      PROVE  OrderIdsUnique'
  BY <1>2, WritesStep, UniqueWrites
<1>3. ASSUME \A c \in Conns :
               ~(HeaderWithoutBody(c) \/ BodyRead(c) \/ WriteDone(c))
      PROVE  OrderIdsUnique'
  <2>1. UNCHANGED <<writeBuf, orderCounter>>
    BY <1>3, OthersTakeNone
  <2>2. /\ out' = out
        /\ \A c \in Conns : ops'[c] = {"write"} => ops[c] = {"write"}
    BY <1>3, OthersWriteNone
  <2>3. ASSUME NEW a \in Answers'
        PROVE  a \in Answers /\ OrderOf(a)' = OrderOf(a)
    <3>1. a \in Conns \X (1 .. MaxRequests) /\ InPlace(a)'
      BY <2>3 DEF AnswersKnown
    <3>2. a[1] \in Conns
      BY <3>1, PairOf
    <3>3. InPlace(a)
      BY <2>2, <3>1, <3>2 DEF InPlace
    <3>4. a \in Answers
      BY <3>1, <3>3 DEF AnswersKnown
    <3> QED
      BY <2>1, <2>2, <3>4 DEF OrderOf
  <2>4. orderCounter' >= orderCounter
    BY <2>1 DEF IndInv, TypeOK
  <2> QED
    BY <2>3, <2>4, UniqueKept
<1> QED
  BY <1>1, <1>2, <1>3

LEMMA DispatchedFinite ==
  IsFiniteSet(Conns \X (1 .. MaxRequests)) /\ IsFiniteSet(Dispatched)
<1>1. IsFiniteSet(1 .. MaxRequests)
  BY FS_Interval, ServerAssumption
<1>2. IsFiniteSet(Conns \X (1 .. MaxRequests))
  BY <1>1, FS_Product, ServerAssumption
<1> QED
  BY <1>2, FS_Subset DEF Dispatched

(* A dispatch takes at most one number, and is a request more. *)
LEMMA NumbersDispatch ==
  ASSUME IndInv, NEW c \in Conns, Answered(c), NumbersTaken, Dispatches(c)
  PROVE  NumbersTaken'
<1> DEFINE n == Len(out[c]) + 1
<1>1. PICK r \in Response :
        writeBuf' = [writeBuf EXCEPT ![c] = r] /\ r.tag = n
  BY DEF Dispatches
<1>2. /\ c \in Live /\ ops[c] # {"write"} /\ n \in 1 .. MaxRequests
      /\ orderCounter' \in {orderCounter, orderCounter + 1}
  BY DEF Dispatches
<1>3. /\ writeBuf'[c] = r /\ r # NoMessage
      /\ \A e \in Conns \ {c} : writeBuf'[e] = writeBuf[e]
  BY <1>1, NoMessageAssumption DEF IndInv, TypeOK
<1>4. Len(out[c]) \in Nat
  BY DEF IndInv, TypeOK
<1>5. \/ n = 1 /\ writeBuf[c] = NoMessage
      \/ writeBuf[c] # NoMessage /\ writeBuf[c].tag = n - 1
  BY <1>2, <1>4, NoMessageAssumption, EmptySeq DEF Answered
<1>6. \A a \in Conns \X (1 .. MaxRequests) :
        a \in Dispatched' <=> a \in Dispatched \/ a = <<c, n>>
  <2> TAKE a \in Conns \X (1 .. MaxRequests)
  <2>1. a[1] \in Conns /\ a[2] \in Nat \ {0} /\ a = <<a[1], a[2]>>
    BY PairOf
  <2>2. CASE a[1] = c
    <3>1. a \in Dispatched' <=> a[2] <= n
      BY <1>1, <1>3, <2>2 DEF Dispatched
    <3>2. a \in Dispatched <=> a[2] <= n - 1
      BY <1>4, <1>5, <2>1, <2>2 DEF Dispatched
    <3>3. a = <<c, n>> <=> a[2] = n
      BY <2>1, <2>2
    <3> QED
      BY <1>4, <2>1, <3>1, <3>2, <3>3
  <2>3. CASE a[1] # c
    BY <1>3, <2>1, <2>3 DEF Dispatched
  <2> QED
    BY <2>2, <2>3
<1>7. <<c, n>> \in Conns \X (1 .. MaxRequests)
  BY <1>2
<1>8. Dispatched' = Dispatched \cup {<<c, n>>}
  <2>1. Dispatched \subseteq Conns \X (1 .. MaxRequests)
    BY DEF Dispatched
  <2>2. Dispatched' \subseteq Conns \X (1 .. MaxRequests)
    BY DEF Dispatched
  <2> QED
    BY <1>6, <1>7, <2>1, <2>2
<1>9. <<c, n>> \notin Dispatched
  <2>1. \/ writeBuf[c] = NoMessage
        \/ ~(n <= writeBuf[c].tag)
    BY <1>4, <1>5
  <2> QED
    BY <2>1 DEF Dispatched
<1> HIDE DEF n
<1>10. Cardinality(Dispatched') = Cardinality(Dispatched) + 1
  BY <1>8, <1>9, DispatchedFinite, FS_AddElement
<1>11. Cardinality(Dispatched) \in Nat /\ orderCounter \in Nat
  BY DispatchedFinite, FS_CardinalityType DEF IndInv, TypeOK
<1> QED
  BY <1>2, <1>10, <1>11 DEF NumbersTaken

LEMMA NumbersStep ==
  ASSUME IndInv, \A c \in Conns : Framed(c) /\ Answered(c), NumbersTaken,
         [Next]_vars
  PROVE  NumbersTaken'
<1>1. CASE \E c \in Conns : HeaderWithoutBody(c) \/ BodyRead(c)
  BY <1>1, DispatchesStep, NumbersDispatch
<1>2. CASE \A c \in Conns : ~(HeaderWithoutBody(c) \/ BodyRead(c))
  BY <1>2, OthersTakeNone DEF NumbersTaken, Dispatched
<1> QED
  BY <1>1, <1>2

-----------------------------------------------------------------------------
(* The theorems.                                                           *)

LEMMA TalkInit == Init => TalkInv
<1> SUFFICES ASSUME Init PROVE TalkInv
  OBVIOUS
<1>1. \A c \in Conns : Framed(c)
  BY FramedInit
<1>2. \A c \in Conns : Answered(c)
  BY DEF Init, Answered, Live, Sessions
<1>3. IndInv
  BY InitInv
<1>4. OrderIdsUnique
  <2>1. AnswersKnown
    BY <1>2, <1>3, AnswersAreKnown
  <2>2. \A a \in Conns \X (1 .. MaxRequests) : ~InPlace(a)
    BY PairOf DEF Init, InPlace
  <2> QED
    BY <2>1, <2>2 DEF AnswersKnown, OrderIdsUnique
<1>5. NumbersTaken
  <2>1. Cardinality(Dispatched) \in Nat
    BY DispatchedFinite, FS_CardinalityType
  <2> QED
    BY <2>1 DEF Init, NumbersTaken
<1> QED
  BY <1>1, <1>2, <1>4, <1>5 DEF TalkInv, InStep

(* Framed and Answered hold of every connection: neither speaks of another *)
(* one, except for the order counter, which only grows.                    *)
LEMMA AlwaysInStep == Spec => []InStep
<1>1. Init => InStep
  BY TalkInit DEF TalkInv
<1>2. IndInv /\ IndInv' /\ InStep /\ [Next]_vars => InStep'
  BY FramedStep, AnsweredStep DEF InStep
<1> QED
  BY <1>1, <1>2, Invariance, PTL DEF Spec

(* Whatever peers send and threads interleave, the conversation keeps in   *)
(* step on every connection, and order numbers are taken once and only by  *)
(* requests dispatched.                                                    *)
THEOREM TalkInvariance == Spec => []TalkInv
<1>1. Init => TalkInv
  BY TalkInit
<1>2. /\ IndInv /\ IndInv' /\ InStep /\ InStep'
      /\ AnswersKnown /\ AnswersKnown'
      /\ TalkInv /\ [Next]_vars
      => TalkInv'
  <2> SUFFICES ASSUME IndInv, IndInv', InStep, InStep', AnswersKnown,
                      AnswersKnown', TalkInv, [Next]_vars
               PROVE  TalkInv'
    OBVIOUS
  <2>1. OrderIdsUnique'
    BY UniqueStep DEF TalkInv, InStep
  <2>2. NumbersTaken'
    BY NumbersStep DEF TalkInv, InStep
  <2> QED
    BY <2>1, <2>2 DEF TalkInv
<1>3. IndInv /\ InStep => AnswersKnown
  BY AnswersAreKnown DEF InStep
<1> QED
  BY <1>1, <1>2, <1>3, Invariance, AlwaysInStep, PTL DEF Spec

(* A session that waits for a header or a body finds that header or body   *)
(* next in its stream (session.cpp:44-102), for any mixture of requests.   *)
THEOREM FramingAlwaysInSync == Spec => []FramingInSync
<1>1. IndInv /\ InStep => FramingInSync
  BY FramedInSync DEF InStep
<1> QED
  BY <1>1, Invariance, AlwaysInStep, PTL

(* The n-th answer is the answer to the n-th request, which was sent       *)
(* completely (session.cpp:106-126).                                       *)
THEOREM ResponsesAlwaysInOrder == Spec => []ResponsesInOrder
<1>1. InStep => ResponsesInOrder
  BY DEF InStep, Answered, Answering, ResponsesInOrder
<1> QED
  BY <1>1, AlwaysInStep, PTL

(* No two clients are told the same order number (trade_service.cpp:49).   *)
THEOREM OrderIdsAlwaysUnique == Spec => []OrderIdsUnique
BY TalkInvariance, PTL DEF TalkInv

-----------------------------------------------------------------------------
(* No request is lost or taken twice.                                      *)

LEMMA AfterIs ==
  ASSUME NEW headers, NEW e \in Item
  PROVE  \/ After(headers, e) = BodyOf(e.tag)
         \/ After(headers, e) = HeaderOf(e.tag + 1)
BY DEF After

LEMMA TagAndKind ==
  ASSUME NEW n
  PROVE  /\ HeaderOf(n).kind = "header" /\ HeaderOf(n).tag = n
         /\ BodyOf(n).kind = "body" /\ BodyOf(n).tag = n
BY DEF HeaderOf, BodyOf

(* An unbroken stream that begins after the header of request b and after  *)
(* which the peer sends what follows the header of request n holds the     *)
(* headers of the requests between, and no other.                          *)
LEMMA HeadersOfRun ==
  ASSUME NEW s \in Seq(Item), s # <<>>, NEW headers, NEW b \in Nat, NEW n \in Nat,
         s[1] \in {HeaderOf(b + 1), BodyOf(b)},
         \A i \in 1 .. Len(s) - 1 : s[i + 1] = After(headers, s[i]),
         After(headers, s[Len(s)]) \in {HeaderOf(n + 1), BodyOf(n)},
         \A i \in 1 .. Len(s) : s[i].tag <= n
  PROVE  {s[i].tag : i \in {j \in 1 .. Len(s) : s[j].kind = "header"}}
           = b + 1 .. n
<1> DEFINE tag(i) == s[i].tag
           isHeader(i) == s[i].kind = "header"
<1>1. /\ Len(s) \in Nat /\ Len(s) >= 1
      /\ \A i \in 1 .. Len(s) : s[i] \in Item /\ tag(i) \in Nat
  <2>1. Len(s) \in Nat /\ Len(s) # 0 /\ \A i \in 1 .. Len(s) : s[i] \in Item
    BY EmptySeq
  <2>2. \A e \in Item : e.tag \in Nat
    BY ServerAssumption DEF Item
  <2> QED
    BY <2>1, <2>2
<1>2. /\ isHeader(1) => tag(1) = b + 1
      /\ ~isHeader(1) => tag(1) = b
  BY TagAndKind
<1>3. ASSUME NEW i \in 1 .. Len(s), i # 1
      PROVE  /\ i - 1 \in 1 .. Len(s)
             /\ isHeader(i) => tag(i) = tag(i - 1) + 1
             /\ ~isHeader(i) => tag(i) = tag(i - 1)
  <2>1. i - 1 \in 1 .. Len(s) - 1 /\ i - 1 \in 1 .. Len(s) /\ (i - 1) + 1 = i
    BY ONLY <1>1, <1>3
  <2>2. s[i] = After(headers, s[i - 1]) /\ s[i - 1] \in Item
    BY <1>1, <2>1
  <2> QED
    BY <2>1, <2>2, AfterIs, TagAndKind
<1>4. tag(Len(s)) = n
  <2>1. s[Len(s)] \in Item
    BY <1>1
  <2> DEFINE e == s[Len(s)]
             a == After(headers, e)
  <2>2. /\ \/ a.kind = "header" /\ a.tag = n + 1
           \/ a.kind = "body" /\ a.tag = n
        /\ \/ a.kind = "header" /\ a.tag = e.tag + 1
           \/ a.kind = "body" /\ a.tag = e.tag
    <3>1. a \in {HeaderOf(n + 1), BodyOf(n)} /\ e \in Item
      BY <2>1
    <3> HIDE DEF e
    <3>2. a \in {HeaderOf(e.tag + 1), BodyOf(e.tag)}
      BY <3>1, AfterIs
    <3> HIDE DEF a
    <3> QED
      BY <3>1, <3>2, TagAndKind
  <2>3. e.tag \in Nat
    BY <1>1
  <2> HIDE DEF e, a
  <2>4. e.tag = n
    BY <2>2, <2>3
  <2> QED
    BY <2>4 DEF e
<1> HIDE DEF tag, isHeader
<1>5. ASSUME NEW i \in 1 .. Len(s), isHeader(i)
      PROVE  tag(i) \in b + 1 .. n
  <2> DEFINE Low == {j \in 1 .. Len(s) : tag(j) < (IF isHeader(j) THEN b + 1 ELSE b)}
  <2>1. ASSUME Low # {} PROVE FALSE
    <3>1. Low \subseteq Nat
      OBVIOUS
    <3>2. PICK j \in Low : \A k \in Low : j <= k
      BY <2>1, <3>1, LeastNumber
    <3>3. j # 1
      BY <1>2
    <3>4. j - 1 \in 1 .. Len(s) /\ tag(j - 1) >= b
      <4>1. j - 1 \in 1 .. Len(s) /\ j - 1 \notin Low
        BY <1>3, <3>2, <3>3
      <4> QED
        BY <1>1, <4>1
    <3> QED
      BY <1>1, <1>3, <3>3, <3>4
  <2>2. tag(i) >= b + 1
    <3>1. i \notin Low /\ tag(i) \in Nat
      BY <1>1, <2>1
    <3> QED
      BY <1>5, <3>1
  <2> QED
    BY <1>1, <2>2 DEF tag
<1>6. ASSUME NEW m \in b + 1 .. n
      PROVE  \E i \in 1 .. Len(s) : isHeader(i) /\ tag(i) = m
  <2> DEFINE High == {j \in 1 .. Len(s) : tag(j) >= m}
  <2>1. Len(s) \in High /\ High \subseteq Nat
    BY <1>1, <1>4
  <2>2. PICK i \in High : \A k \in High : i <= k
    BY <2>1, LeastNumber
  <2>3. CASE i = 1
    BY <1>2, <2>2, <2>3
  <2>4. CASE i # 1
    <3>1. i - 1 \in 1 .. Len(s) /\ i - 1 \notin High
      BY <1>3, <2>2, <2>4
    <3>2. tag(i - 1) < m /\ tag(i) >= m
      BY <1>1, <3>1
    <3>3. tag(i) \in Nat /\ tag(i - 1) \in Nat
      BY <1>1, <3>1
    <3>4. isHeader(i) /\ tag(i) = tag(i - 1) + 1
      BY <1>3, <2>4, <3>2, <3>3
    <3>5. tag(i) = m
      BY <3>2, <3>3, <3>4
    <3> QED
      BY <3>4, <3>5
  <2> QED
    BY <2>3, <2>4
<1> QED
  BY <1>5, <1>6 DEF tag, isHeader

LEMMA BegunIs ==
  ASSUME IndInv, NEW c \in Live
  PROVE  Begun(c) = IF ops[c] = {"readHeader"} THEN Len(out[c])
                                               ELSE Len(out[c]) + 1
<1>1. ops[c] \in {{"readHeader"}, {"readBody"}, {"write"}} /\ Len(out[c]) \in Nat
  <2>1. c \in Conns
    BY DEF Live, Sessions
  <2>2. Len(out[c]) \in Nat
    BY <2>1 DEF IndInv, TypeOK
  <2> QED
    BY <2>1, <2>2 DEF IndInv, OperationOf
<1>2. CASE ops[c] = {"readHeader"}
  <2>1. ops[c] \cap {"readBody", "write"} = {}
    BY <1>2
  <2> QED
    BY <1>1, <1>2, <2>1, FS_EmptySet DEF Begun
<1>3. CASE \E op \in {"readBody", "write"} : ops[c] = {op}
  <2>1. PICK op \in {"readBody", "write"} : ops[c] = {op}
    BY <1>3
  <2>2. ops[c] \cap {"readBody", "write"} = {op} /\ ops[c] # {"readHeader"}
    BY <2>1
  <2> QED
    BY <1>1, <2>2, FS_Singleton DEF Begun
<1> QED
  BY <1>1, <1>2, <1>3

(* On an open session the requests whose header is still to be read are    *)
(* those sent and not yet begun, whatever was pipelined                    *)
(* (session.cpp:44-126).                                                   *)
THEOREM RequestsAlwaysAccounted == Spec => []RequestsAccounted
<1>1. ASSUME IndInv, InStep, NEW c \in Live, peerOpen[c]
      PROVE  HeadersIn(c) = Begun(c) + 1 .. Len(sent[c])
  <2> DEFINE b == Begun(c)
             n == Len(sent[c])
             s == stream[c]
  <2>1. c \in Conns /\ Serving(c) /\ Unbroken(c)
    BY <1>1 DEF Live, Sessions, Serving, InStep, Framed
  <2>2. /\ s \in Seq(Item) /\ n \in Nat /\ Len(out[c]) \in Nat
        /\ \A i \in 1 .. Len(s) : s[i].tag <= n
    BY <1>1, <2>1 DEF IndInv, TypeOK, ItemsSent
  <2>3. /\ b \in Nat
        /\ Expected(c) \in {HeaderOf(b + 1), BodyOf(b)}
    <3>1. ops[c] \in {{"readHeader"}, {"readBody"}, {"write"}}
      BY <1>1, <2>1 DEF IndInv, OperationOf
    <3>2. b = IF ops[c] = {"readHeader"} THEN Len(out[c]) ELSE Len(out[c]) + 1
      BY <1>1, BegunIs
    <3> HIDE DEF b
    <3>3. CASE ops[c] = {"readHeader"}
      BY <2>2, <3>2, <3>3 DEF Expected
    <3>4. CASE ops[c] = {"readBody"}
      BY <2>2, <3>2, <3>4 DEF Expected
    <3>5. CASE ops[c] = {"write"}
      <4>1. b = Len(out[c]) + 1 /\ Len(out[c]) + 2 = b + 1
        BY <2>2, <3>2, <3>5
      <4> QED
        BY <2>2, <3>5, <4>1 DEF Expected
    <3> QED
      BY <3>1, <3>3, <3>4, <3>5
  <2>4. NextSent(c) \in {HeaderOf(n + 1), BodyOf(n)}
    BY DEF NextSent
  <2> HIDE DEF b
  <2>5. CASE s = <<>>
    <3>1. NextSent(c) = Expected(c)
      BY <1>1, <2>1, <2>5 DEF Unbroken
    <3>2. n = b
      BY <2>2, <2>3, <2>4, <3>1, TagAndKind
    <3>3. HeadersIn(c) = {}
      BY <2>5 DEF HeadersIn
    <3> QED
      BY <2>2, <3>2, <3>3 DEF b
  <2>6. CASE s # <<>>
    <3>1. /\ s[1] \in {HeaderOf(b + 1), BodyOf(b)}
          /\ \A i \in 1 .. Len(s) - 1 : s[i + 1] = After(sent[c], s[i])
          /\ After(sent[c], s[Len(s)]) \in {HeaderOf(n + 1), BodyOf(n)}
      BY <2>1, <2>3, <2>4, <2>6 DEF Unbroken
    <3>2. \A i \in 1 .. Len(s) : s[i].tag <= n
      BY <2>2
    <3>3. s \in Seq(Item) /\ n \in Nat /\ b \in Nat
      BY <2>2, <2>3
    <3>4. HeadersIn(c) =
            {s[i].tag : i \in {j \in 1 .. Len(s) : s[j].kind = "header"}}
      BY DEF HeadersIn
    <3> HIDE DEF s, n
    <3>5. HeadersIn(c) = b + 1 .. n
      BY <2>6, <3>1, <3>2, <3>3, <3>4, HeadersOfRun
    <3> QED
      BY <3>5 DEF b, n
  <2> QED
    BY <2>5, <2>6
<1>2. IndInv /\ InStep => RequestsAccounted
  BY <1>1 DEF RequestsAccounted
<1> QED
  BY <1>2, Invariance, AlwaysInStep, PTL

-----------------------------------------------------------------------------
(* Progress of a session.                                                  *)

LEMMA WritesOutstanding ==
  ASSUME NEW o \in {{"readHeader"}, {"readBody"}, {"write"}}
  PROVE  Cardinality(o \cap {"write"}) = IF o = {"write"} THEN 1 ELSE 0
<1>1. CASE o = {"write"}
  <2>1. o \cap {"write"} = {"write"}
    BY <1>1
  <2> QED
    BY <1>1, <2>1, FS_Singleton
<1>2. CASE o # {"write"}
  <2>1. o \cap {"write"} = {}
    BY <1>2
  <2> QED
    BY <1>2, <2>1, FS_EmptySet
<1> QED
  BY <1>1, <1>2

LEMMA LiveHandlers ==
  ASSUME IndInv, NEW c \in Live
  PROVE  HandlersLeft(c) \in Nat /\ HandlersLeft(c) > 0
<1>1. c \in Conns
  BY DEF Live, Sessions
<1>2. stream[c] \in Seq(Item) /\ Len(stream[c]) \in Nat
  BY <1>1 DEF IndInv, TypeOK
<1>3. ops[c] \in {{"readHeader"}, {"readBody"}, {"write"}}
  BY <1>1 DEF IndInv, OperationOf
<1>4. Cardinality(ops[c] \cap {"write"}) \in {0, 1}
  BY <1>3, WritesOutstanding
<1>5. HandlersLeft(c) =
        1 + 2 * Len(stream[c]) + Cardinality(ops[c] \cap {"write"})
  BY DEF HandlersLeft
<1> QED
  BY ONLY <1>2, <1>4, <1>5

(* Each handler of a session, whether its peer is still there or not,      *)
(* leaves it fewer to run for what has arrived.                            *)
LEMMA SessionIsNearer ==
  ASSUME IndInv, NEW c \in Conns, SessionStep(c)
  PROVE  HandlersLeft(c)' < HandlersLeft(c)
<1>1. c \in Live
  BY LiveServes DEF IndInv, SessionStep, HeaderMalformed, HeaderWithoutBody,
     HeaderWithBody, BodyRead, ReadFails, WriteDone, WriteFails, Completes
<1>2. /\ ops[c] \in {{"readHeader"}, {"readBody"}, {"write"}}
      /\ stream[c] \in Seq(Item) /\ Len(stream[c]) \in Nat
  <2>1. ops[c] \in {{"readHeader"}, {"readBody"}, {"write"}}
    BY <1>1 DEF IndInv, OperationOf
  <2>2. stream[c] \in Seq(Item) /\ Len(stream[c]) \in Nat
    BY DEF IndInv, TypeOK
  <2> QED
    BY <2>1, <2>2
<1>3. /\ ops[c] = {"write"} => HandlersLeft(c) = 1 + 2 * Len(stream[c]) + 1
      /\ ops[c] # {"write"} => HandlersLeft(c) = 1 + 2 * Len(stream[c]) + 0
  BY <1>1, <1>2, WritesOutstanding DEF HandlersLeft
<1>4. CASE HeaderMalformed(c) \/ ReadFails(c) \/ WriteFails(c)
  <2>1. HandlersLeft(c)' = 0
    BY <1>4, ClosedStep DEF HandlersLeft
  <2> QED
    BY <1>1, <2>1, LiveHandlers
<1>5. CASE HeaderWithoutBody(c) \/ BodyRead(c)
  <2>1. PICK op \in ops[c] \ {"close"}, h \in {ArrivedHeader(c), header[c]} :
          /\ stream[c] # <<>> /\ Consume(c) /\ DispatchAndWrite(c, op, h)
          /\ HandlerFrame /\ op # "write"
    BY <1>5 DEF HeaderWithoutBody, BodyRead, Completes, NextItem
  <2>2. /\ c \in Live' /\ ops[c] = {op} /\ ops'[c] = {"write"}
        /\ stream'[c] = Tail(stream[c])
    BY <2>1, DispatchedStep
  <2>3. Len(stream'[c]) = Len(stream[c]) - 1
    BY <1>2, <2>1, <2>2
  <2>4. HandlersLeft(c)' = 1 + 2 * (Len(stream[c]) - 1) + 1
    BY <2>2, <2>3, WritesOutstanding DEF HandlersLeft
  <2>5. ops[c] # {"write"}
    BY <2>1, <2>2
  <2> QED
    BY ONLY <1>2, <1>3, <2>4, <2>5
<1>6. CASE HeaderWithBody(c)
  <2>1. /\ ops[c] = {"readHeader"} /\ stream[c] # <<>> /\ Consume(c)
        /\ Continue(c, "readHeader", {"readBody"})
        /\ UNCHANGED <<conn, closed>>
    BY <1>2, <1>6
    DEF HeaderWithBody, Completes, NextItem, HandlerFrame
  <2>2. /\ c \in Live' /\ ops'[c] = {"readBody"}
        /\ stream'[c] = Tail(stream[c])
    BY <1>1, <2>1 DEF Live, Sessions, Continue, Consume, IndInv, TypeOK
  <2>3. Len(stream'[c]) = Len(stream[c]) - 1
    BY <1>2, <2>1, <2>2
  <2>4. HandlersLeft(c)' = 1 + 2 * (Len(stream[c]) - 1) + 0
    BY <2>2, <2>3, WritesOutstanding DEF HandlersLeft
  <2>5. ops[c] # {"write"}
    BY <2>1
  <2> QED
    BY ONLY <1>2, <1>3, <2>4, <2>5
<1>7. CASE WriteDone(c)
  <2>1. /\ ops[c] = {"write"} /\ Continue(c, "write", {"readHeader"})
        /\ UNCHANGED <<conn, closed, stream>>
    BY <1>2, <1>7 DEF WriteDone, Completes, HandlerFrame
  <2>2. c \in Live' /\ ops'[c] = {"readHeader"}
    BY <1>1, <2>1 DEF Live, Sessions, Continue, IndInv, TypeOK
  <2>3. HandlersLeft(c)' = 1 + 2 * Len(stream[c]) + 0
    BY <2>1, <2>2, WritesOutstanding DEF HandlersLeft
  <2> QED
    BY ONLY <1>2, <1>3, <2>1, <2>3
<1> QED
  BY <1>4, <1>5, <1>6, <1>7 DEF SessionStep

HandlersCounted == \A c \in Conns : HandlersLeft(c) \in Nat

LEMMA HandlersAreCounted == IndInv => HandlersCounted
BY LiveHandlers DEF HandlersCounted, HandlersLeft

(* A session whose peer has gone closes after at most the handlers that    *)
(* the items still in its stream call for (session.cpp:44-126).            *)
THEOREM DeadPeerAlwaysDrains == Spec => DeadPeerDrains
<1> DEFINE Drains(c) == /\ HandlersLeft(c)' <= HandlersLeft(c)
                        /\ ops'[c] # ops[c] => HandlersLeft(c)' < HandlersLeft(c)
<1>1. ASSUME IndInv, HandlersCounted', [Next]_vars, NEW c \in Live, ~peerOpen[c]
      PROVE  Drains(c)
  <2>1. c \in Conns /\ conn[c] = "session"
    BY DEF Live, Sessions
  <2>2. HandlersLeft(c) \in Nat /\ HandlersLeft(c) > 0
    BY <1>1, LiveHandlers
  <2>3. CASE Untouched(c)
    <3>1. ops'[c] = ops[c] /\ HandlersLeft(c)' = HandlersLeft(c)
      BY <1>1, <2>1, <2>3 DEF Untouched, HandlersLeft, Live, Sessions
    <3> QED
      BY <2>2, <3>1
  <2>4. CASE SessionStep(c)
    <3>1. HandlersLeft(c)' < HandlersLeft(c)
      BY <1>1, <2>1, <2>4, SessionIsNearer
    <3>2. HandlersLeft(c)' \in Nat
      BY <1>1, <2>1 DEF HandlersCounted
    <3> QED
      BY <2>2, <3>1, <3>2
  <2>5. CASE DestroySession(c)
    <3>1. HandlersLeft(c)' = 0
      BY <1>1, <2>1, <2>5, ClosedStep DEF HandlersLeft
    <3> QED
      BY <2>2, <3>1
  <2>6. ~AcceptOf(c)
    BY <1>1, <2>1 DEF AcceptOf, AcceptAdmit, AcceptReject, AcceptError,
       AcceptStart, IndInv, AcceptOwns
  <2>7. ~CloseReturns(c)
    BY <1>1, <2>1, ReturnedStep
  <2>8. ~Peer(c)
    BY <1>1, <2>1 DEF Peer, Connect, SendHeader, SendBody, CanSend, ReadAnswer,
       PeerClose
  <2> QED
    BY <1>1, <2>1, <2>3, <2>4, <2>5, <2>6, <2>7, <2>8, StepOf
<1>2. IndInv /\ HandlersCounted' /\ [Next]_vars =>
        [\A c \in Live : ~peerOpen[c] => Drains(c)]_vars
  BY <1>1
<1> QED
  BY <1>2, HandlersAreCounted, Invariance, PTL DEF Spec, DeadPeerDrains

=============================================================================
