---------------------------- MODULE ServiceProofs ---------------------------
(***************************************************************************)
(* Server implements Service, for any number of connections, any mixture   *)
(* and number of requests: under the mapping of Server, every step is a    *)
(* step of Service or leaves its variables alone.                          *)
(***************************************************************************)
EXTENDS AnswerProofs

-----------------------------------------------------------------------------
(* The mapped variables.                                                   *)

links   == [c \in Conns |-> Link(c)]
asked   == [c \in Conns |-> Asked(c)]
answers == [c \in Conns |-> Told(c)]

OrderIds == 1 .. Cardinality(Conns) * MaxRequests

(* An answer without its tag, as its client is told. *)
Shown(r) == [type |-> r.type, order |-> r.order]

(* The number of requests sent completely. *)
Complete(c) == Len(sent[c]) - (IF partial[c] THEN 1 ELSE 0)

LEMMA AppendIs ==
  ASSUME NEW S, NEW s \in Seq(S), NEW x \in S, NEW t \in Seq(S),
         Len(t) = Len(s) + 1, t[Len(s) + 1] = x,
         \A i \in 1 .. Len(s) : t[i] = s[i]
  PROVE  t = Append(s, x)
<1>1. /\ Append(s, x) \in Seq(S)
      /\ Len(Append(s, x)) = Len(s) + 1
      /\ Append(s, x)[Len(s) + 1] = x
      /\ \A i \in 1 .. Len(s) : Append(s, x)[i] = s[i]
  BY AppendProperties
<1>2. Len(s) \in Nat
  BY LenProperties
<1>3. \A i \in 1 .. Len(t) : t[i] = Append(s, x)[i]
  BY <1>1, <1>2
<1> QED
  BY <1>1, <1>3, SeqEqual

LEMMA SeqOfFunction ==
  ASSUME NEW S, NEW n \in Nat, NEW f \in [1 .. n -> S]
  PROVE  f \in Seq(S) /\ Len(f) = n
OBVIOUS

(* What asked and answers hold for a connection. *)
AskedShape(c) ==
  /\ Complete(c) \in Nat /\ Complete(c) <= Len(sent[c])
  /\ Asked(c) \in Seq(Types) /\ Len(Asked(c)) = Complete(c)
  /\ \A n \in 1 .. Complete(c) : Asked(c)[n] = sent[c][n].type

ToldShape(c) ==
  /\ Len(out[c]) \in Nat
  /\ Told(c) \in Seq([type : UInt16, order : Nat])
  /\ Len(Told(c)) = Len(out[c])
  /\ \A n \in 1 .. Len(out[c]) : Told(c)[n] = Shown(out[c][n])

Shapes == \A c \in Conns : AskedShape(c) /\ ToldShape(c)

LEMMA ShapesHold == TypeOK /\ BodyAnnounced => Shapes
<1> SUFFICES ASSUME TypeOK, BodyAnnounced, NEW c \in Conns
             PROVE  AskedShape(c) /\ ToldShape(c)
  BY DEF Shapes
<1>1. AskedShape(c)
  <2>1. sent[c] \in Seq(Announce) /\ Len(sent[c]) \in Nat
    BY DEF TypeOK
  <2>2. Complete(c) \in Nat /\ Complete(c) <= Len(sent[c])
    <3>1. CASE partial[c]
      BY <2>1, <3>1 DEF Complete, BodyAnnounced
    <3>2. CASE ~partial[c]
      BY <2>1, <3>2 DEF Complete
    <3> QED
      BY <3>1, <3>2
  <2>3. \A n \in 1 .. Complete(c) : sent[c][n] \in Announce
    BY <2>1, <2>2, ElementOfSeq
  <2>4. Asked(c) = [n \in 1 .. Complete(c) |-> sent[c][n].type]
    BY DEF Asked, Complete
  <2>5. Asked(c) \in [1 .. Complete(c) -> Types]
    BY <2>3, <2>4 DEF Announce
  <2> QED
    BY <2>2, <2>4, <2>5, SeqOfFunction DEF AskedShape
<1>2. ToldShape(c)
  <2>1. out[c] \in Seq(Response) /\ Len(out[c]) \in Nat
    BY DEF TypeOK
  <2>2. DOMAIN out[c] = 1 .. Len(out[c])
    BY <2>1
  <2>3. \A n \in 1 .. Len(out[c]) : out[c][n] \in Response
    BY <2>1, ElementOfSeq
  <2>4. Told(c) = [n \in 1 .. Len(out[c]) |-> Shown(out[c][n])]
    BY <2>2 DEF Told, Shown
  <2>5. Told(c) \in [1 .. Len(out[c]) -> [type : UInt16, order : Nat]]
    BY <2>3, <2>4 DEF Response, Shown
  <2> QED
    BY <2>1, <2>4, <2>5, SeqOfFunction DEF ToldShape
<1> QED
  BY <1>1, <1>2

-----------------------------------------------------------------------------
(* What a step does to the mapped variables.                               *)

LEMMA AskedKept ==
  ASSUME UNCHANGED <<sent, partial>>
  PROVE  asked' = asked
BY DEF asked, Asked

LEMMA ToldKept ==
  ASSUME UNCHANGED out
  PROVE  answers' = answers
BY DEF answers, Told

LEMMA LinksKept ==
  ASSUME Up' = Up, UNCHANGED closed,
         \A c \in Conns :
           \/ conn'[c] = conn[c]
           \/ /\ conn[c] \in {"backlog", "accepting", "session"}
              /\ conn'[c] \in {"backlog", "accepting", "session"}
  PROVE  links' = links
<1>1. ASSUME NEW c \in Conns PROVE Link(c)' = Link(c)
  BY DEF Link
<1> QED
  BY <1>1 DEF links

(* The link of one connection changes. *)
LEMMA LinkChanged ==
  ASSUME NEW c \in Conns, NEW l, Link(c)' = l,
         Up' = Up, \A d \in Conns \ {c} : conn'[d] = conn[d] /\ closed'[d] = closed[d]
  PROVE  links' = [links EXCEPT ![c] = l]
<1>1. ASSUME NEW d \in Conns, d # c PROVE Link(d)' = Link(d)
  BY <1>1 DEF Link
<1> QED
  BY <1>1 DEF links

-----------------------------------------------------------------------------
(* The steps of the server as steps of Service.                            *)

Stutters == UNCHANGED <<Up, links, asked, answers>>

(* The server closes a session. *)
LEMMA ClosingHangsUp ==
  ASSUME IndInv, NEW c \in Conns,
         \/ HeaderMalformed(c) \/ ReadFails(c) \/ WriteFails(c)
         \/ DestroySession(c)
  PROVE  Promised!Hangup(c)
<1>1. /\ c \in Live /\ closed'[c]
      /\ UNCHANGED <<phase, conn, sent, partial, out>>
      /\ \A d \in Conns \ {c} : closed'[d] = closed[d]
  BY ClosedStep
<1>2. Up /\ Up' = Up
  BY <1>1 DEF Up, HeaderMalformed, ReadFails, WriteFails, DestroySession,
     Completes
<1>3. Link(c) = "open" /\ Link(c)' = "closed"
  BY <1>1, <1>2 DEF Link, Live, Sessions
<1>4. links[c] = "open" /\ links' = [links EXCEPT ![c] = "closed"]
  BY <1>1, <1>2, <1>3, LinkChanged DEF links
<1>5. asked' = asked /\ answers' = answers
  BY <1>1, AskedKept, ToldKept
<1> QED
  BY <1>2, <1>4, <1>5 DEF Promised!Hangup, links, asked, answers

(* The accept handler turns a connection away, or loses it. *)
LEMMA TurningAwayHangsUp ==
  ASSUME IndInv, NEW c \in Conns, AcceptReject(c) \/ AcceptError(c)
  PROVE  Promised!Hangup(c)
<1>1. /\ phase = "running" /\ conn[c] = "backlog"
      /\ conn' \in {[conn EXCEPT ![c] = "rejected"], [conn EXCEPT ![c] = "aborted"]}
      /\ UNCHANGED <<phase, closed, sent, partial, out>>
  BY DEF AcceptReject, AcceptError, AcceptFrame, peerVars
<1>2. Up /\ Up' = Up
  BY <1>1 DEF Up
<1>3. ~closed[c]
  BY <1>1 DEF IndInv, AcceptOwns
<1>4. conn'[c] \in {"rejected", "aborted"}
  BY <1>1 DEF IndInv, TypeOK
<1>5. Link(c) = "open" /\ Link(c)' = "closed"
  BY <1>1, <1>2, <1>3, <1>4 DEF Link
<1>6. \A d \in Conns \ {c} : conn'[d] = conn[d] /\ closed'[d] = closed[d]
  BY <1>1 DEF IndInv, TypeOK
<1>7. links[c] = "open" /\ links' = [links EXCEPT ![c] = "closed"]
  BY <1>2, <1>5, <1>6, LinkChanged DEF links
<1>8. asked' = asked /\ answers' = answers
  BY <1>1, AskedKept, ToldKept
<1> QED
  BY <1>2, <1>7, <1>8 DEF Promised!Hangup, links, asked, answers

(* The kernel completes the handshake. *)
LEMMA ConnectOpens ==
  ASSUME IndInv, NEW c \in Conns, Connect(c)
  PROVE  Promised!Open(c)
<1>1. /\ phase = "running" /\ conn[c] = "new"
      /\ conn' = [conn EXCEPT ![c] = "backlog"]
      /\ UNCHANGED <<phase, closed, sent, partial, out>>
  BY DEF Connect, PeerFrame, peerVars, sessionVars
<1>2. Up /\ Up' = Up
  BY <1>1 DEF Up
<1>3. ~closed[c] /\ conn'[c] = "backlog"
  BY <1>1 DEF IndInv, AcceptOwns, TypeOK
<1>4. Link(c) = "new" /\ Link(c)' = "open"
  BY <1>1, <1>2, <1>3 DEF Link
<1>5. \A d \in Conns \ {c} : conn'[d] = conn[d] /\ closed'[d] = closed[d]
  BY <1>1 DEF IndInv, TypeOK
<1>6. links[c] = "new" /\ links' = [links EXCEPT ![c] = "open"]
  BY <1>2, <1>4, <1>5, LinkChanged DEF links
<1>7. asked' = asked /\ answers' = answers
  BY <1>1, AskedKept, ToldKept
<1> QED
  BY <1>2, <1>6, <1>7 DEF Promised!Open, links, asked, answers

(* The process ends, with what it still had open. *)
LEMMA EndShutsDown ==
  ASSUME IndInv, AcceptThrow \/ Exit
  PROVE  Promised!Shutdown
<1>1. /\ Up /\ ~Up'
      /\ UNCHANGED <<conn, closed, sent, partial, out>>
  BY DEF Up, AcceptThrow, Exit, ShutdownFrame, peerVars, sessionVars, IndInv,
     AcceptOwns
<1>2. ASSUME NEW c \in Conns
      PROVE  Link(c)' = IF Link(c) = "open" THEN "closed" ELSE Link(c)
  BY <1>1 DEF Link
<1>3. links' = [c \in Conns |-> IF links[c] = "open" THEN "closed" ELSE links[c]]
  BY <1>2 DEF links
<1>4. asked' = asked /\ answers' = answers
  BY <1>1, AskedKept, ToldKept
<1>5. Up = TRUE /\ Up' = FALSE
  BY <1>1 DEF Up
<1> QED
  BY <1>3, <1>4, <1>5 DEF Promised!Shutdown, links, asked, answers

(* A request is complete: with its header, or with its body. *)
LEMMA CompletionAsks ==
  ASSUME IndInv, Shapes, Shapes', NEW c \in Conns, NEW t \in Types, CanSend(c),
         UNCHANGED <<phase, conn, closed, out>>,
         \A d \in Conns \ {c} : sent'[d] = sent[d] /\ partial'[d] = partial[d],
         Complete(c)' = Complete(c) + 1,
         \A i \in 1 .. Complete(c) : sent'[c][i] = sent[c][i],
         sent'[c][Complete(c) + 1].type = t
  PROVE  Promised!Ask(c, t)
<1>1. links[c] = "open" /\ links' = links /\ Up' = Up
  BY DEF CanSend, links, Link, Up
<1>2. /\ Complete(c) \in Nat
      /\ Asked(c) \in Seq(Types) /\ Len(Asked(c)) = Complete(c)
      /\ \A n \in 1 .. Complete(c) : Asked(c)[n] = sent[c][n].type
  BY DEF Shapes, AskedShape
<1>3. /\ Asked(c)' \in Seq(Types) /\ Len(Asked(c)') = Complete(c) + 1
      /\ \A n \in 1 .. Complete(c) + 1 : Asked(c)'[n] = sent'[c][n].type
  BY DEF Shapes, AskedShape
<1>4. Asked(c)' = Append(Asked(c), t)
  BY <1>2, <1>3, AppendIs
<1>5. ASSUME NEW d \in Conns, d # c PROVE Asked(d)' = Asked(d)
  BY <1>5 DEF Asked
<1>6. asked' = [asked EXCEPT ![c] = Append(@, t)]
  BY <1>4, <1>5 DEF asked
<1>7. answers' = answers
  BY ToldKept
<1> QED
  BY <1>1, <1>6, <1>7 DEF Promised!Ask, links, asked, answers

LEMMA SendingAsks ==
  ASSUME IndInv, Shapes, Shapes', NEW c \in Conns, NEW t \in Types,
         NEW l \in Lengths, SendHeader(c, t, l)
  PROVE  Promised!Ask(c, t) \/ Stutters
<1> DEFINE h == [type |-> t, length |-> l]
<1>1. /\ CanSend(c) /\ ~partial[c]
      /\ sent'[c] = Append(sent[c], h)
      /\ partial'[c] = (l = "some")
      /\ \A d \in Conns \ {c} : sent'[d] = sent[d] /\ partial'[d] = partial[d]
      /\ UNCHANGED <<phase, conn, closed, out>>
  BY DEF SendHeader, PeerFrame, sessionVars, IndInv, TypeOK
<1>2. sent[c] \in Seq(Announce) /\ h \in Announce
  BY DEF IndInv, TypeOK, Announce
<1>3. /\ Len(sent[c]) \in Nat /\ Len(sent'[c]) = Len(sent[c]) + 1
      /\ sent'[c][Len(sent[c]) + 1] = h
      /\ \A i \in 1 .. Len(sent[c]) : sent'[c][i] = sent[c][i]
  BY <1>1, <1>2, AppendProperties, LenProperties
<1>4. Complete(c) = Len(sent[c])
  BY <1>1, <1>3 DEF Complete
<1>5. CASE l # "some"
  <2>1. ~partial'[c]
    BY <1>1, <1>5
  <2>2. Complete(c)' = Len(sent'[c])
    BY <1>3, <2>1 DEF Complete
  <2>3. Complete(c)' = Complete(c) + 1
    BY <1>3, <1>4, <2>2
  <2>4. sent'[c][Complete(c) + 1].type = t
    BY <1>3, <1>4
  <2>5. \A i \in 1 .. Complete(c) : sent'[c][i] = sent[c][i]
    BY <1>3, <1>4
  <2> QED
    BY <1>1, <2>3, <2>4, <2>5, CompletionAsks
<1>6. CASE l = "some"
  <2>1. partial'[c]
    BY <1>1, <1>6
  <2>2. Complete(c)' = Complete(c)
    <3>1. Complete(c)' = Len(sent'[c]) - 1
      BY <2>1 DEF Complete
    <3> QED
      BY <1>3, <1>4, <3>1
  <2>3. Asked(c)' = Asked(c)
    <3>1. /\ Asked(c)' \in Seq(Types) /\ Len(Asked(c)') = Complete(c)
          /\ \A n \in 1 .. Complete(c) : Asked(c)'[n] = sent'[c][n].type
      BY <2>2 DEF Shapes, AskedShape
    <3>2. /\ Asked(c) \in Seq(Types) /\ Len(Asked(c)) = Complete(c)
          /\ \A n \in 1 .. Complete(c) : Asked(c)[n] = sent[c][n].type
      BY DEF Shapes, AskedShape
    <3>3. \A n \in 1 .. Complete(c) : Asked(c)'[n] = Asked(c)[n]
      BY <1>3, <1>4, <3>1, <3>2
    <3> QED
      BY <3>1, <3>2, <3>3, SeqEqual
  <2>4. ASSUME NEW d \in Conns, d # c PROVE Asked(d)' = Asked(d)
    BY <1>1, <2>4 DEF Asked
  <2>5. asked' = asked
    BY <2>3, <2>4 DEF asked
  <2> QED
    BY <1>1, <2>5, ToldKept, LinksKept DEF Stutters, Up
<1> QED
  BY <1>5, <1>6

LEMMA BodyAsks ==
  ASSUME IndInv, BodyAnnounced, Shapes, Shapes', NEW c \in Conns, SendBody(c)
  PROVE  \E t \in Types : Promised!Ask(c, t)
<1>1. /\ CanSend(c) /\ partial[c] /\ ~partial'[c]
      /\ \A d \in Conns \ {c} : partial'[d] = partial[d]
      /\ UNCHANGED <<phase, conn, closed, out, sent>>
  BY DEF SendBody, PeerFrame, sessionVars, IndInv, TypeOK
<1>2. sent[c] \in Seq(Announce) /\ Len(sent[c]) \in Nat \ {0}
  BY <1>1 DEF IndInv, TypeOK, BodyAnnounced
<1>3. Complete(c) = Len(sent[c]) - 1 /\ Complete(c)' = Complete(c) + 1
  BY <1>1, <1>2 DEF Complete
<1>4. sent[c][Complete(c) + 1] \in Announce
  BY <1>2, <1>3, ElementOfSeq
<1>5. sent[c][Complete(c) + 1].type \in Types
  BY <1>4 DEF Announce
<1> QED
  BY <1>1, <1>3, <1>5, CompletionAsks

(* There are order numbers enough: no dispatch takes more than one. *)
LEMMA NumbersSuffice ==
  ASSUME TypeOK, NumbersTaken, NEW k \in 1 .. orderCounter - 1
  PROVE  k \in OrderIds
<1> DEFINE R == 1 .. MaxRequests
<1>1. IsFiniteSet(R) /\ Cardinality(R) = MaxRequests
  <2>1. MaxRequests \in Nat /\ 1 \in Int /\ MaxRequests \in Int
    BY ServerAssumption
  <2>2. /\ IsFiniteSet(R)
        /\ Cardinality(R) = IF 1 > MaxRequests THEN 0 ELSE MaxRequests - 1 + 1
    BY <2>1, FS_Interval
  <2> QED
    BY <2>1, <2>2
<1>2. /\ IsFiniteSet(Conns \X R)
      /\ Cardinality(Conns \X R) = Cardinality(Conns) * MaxRequests
  BY <1>1, FS_Product, ServerAssumption
<1>3. Dispatched \in SUBSET (Conns \X R)
  BY DEF Dispatched
<1> HIDE DEF R
<1>4. Cardinality(Dispatched) <= Cardinality(Conns) * MaxRequests
  BY <1>2, <1>3, FS_Subset
<1>5. /\ Cardinality(Dispatched) \in Nat
      /\ Cardinality(Conns) * MaxRequests \in Nat
  BY <1>2, DispatchedFinite, FS_CardinalityType
<1> DEFINE m == Cardinality(Conns) * MaxRequests
           e == Cardinality(Dispatched)
<1>6. m \in Nat /\ e \in Nat /\ e <= m /\ orderCounter <= e + 1
  BY <1>4, <1>5 DEF NumbersTaken
<1>7. orderCounter \in Nat
  BY DEF TypeOK
<1> HIDE DEF m, e
<1>8. k \in 1 .. m
  BY <1>6, <1>7
<1> QED
  BY <1>8 DEF m, OrderIds

(* The order number in a write buffer was told to no client yet. *)
LEMMA OrderIsFresh ==
  ASSUME IndInv, InStep, AnswersKnown, OrderIdsUnique, Shapes,
         NEW c \in Conns, ops[c] = {"write"}, writeBuf[c].order # NoOrder
  PROVE  writeBuf[c].order \notin Promised!Issued
<1>1. SUFFICES ASSUME writeBuf[c].order \in Promised!Issued PROVE FALSE
  OBVIOUS
<1>2. PICK d \in Conns :
        \E m \in 1 .. Len(out[d]) : writeBuf[c].order = out[d][m].order
  <2>1. PICK d \in Conns :
          writeBuf[c].order \in {Told(d)[m].order : m \in DOMAIN Told(d)}
    BY <1>1 DEF Promised!Issued
  <2>2. PICK m \in DOMAIN Told(d) : writeBuf[c].order = Told(d)[m].order
    BY <2>1
  <2>3. DOMAIN Told(d) = 1 .. Len(out[d])
    BY LenProperties DEF Shapes, ToldShape
  <2>4. m \in 1 .. Len(out[d]) /\ Told(d)[m] = Shown(out[d][m])
    BY <2>3 DEF Shapes, ToldShape
  <2> QED
    BY <2>2, <2>4 DEF Shown
<1>3. \A e \in Conns : Len(out[e]) \in Nat /\ Len(sent[e]) \in Nat
                       /\ Len(sent[e]) <= MaxRequests
  BY DEF IndInv, TypeOK, ItemsSent
<1> DEFINE n == Len(out[c]) + 1
<1>9. PICK m \in 1 .. Len(out[d]) : writeBuf[c].order = out[d][m].order
  BY <1>2
<1>4. Answering(c, n, writeBuf[c]) /\ Answering(d, m, out[d][m])
  BY DEF InStep, Answered
<1>5. n \in 1 .. MaxRequests /\ m \in 1 .. MaxRequests
  BY <1>3, <1>4, ServerAssumption DEF Answering
<1>6. <<c, n>> \in Answers /\ <<d, m>> \in Answers
  BY <1>3, <1>5 DEF AnswersKnown, InPlace
<1>7. /\ OrderOf(<<c, n>>) = writeBuf[c].order
      /\ OrderOf(<<d, m>>) = out[d][m].order
  BY <1>3 DEF OrderOf
<1>8. <<c, n>> # <<d, m>>
  BY <1>3
<1> QED
  BY <1>6, <1>7, <1>8, <1>9 DEF OrderIdsUnique

LEMMA WritingReplies ==
  ASSUME IndInv, InStep, AnswersKnown, OrderIdsUnique, NumbersTaken, Shapes,
         Shapes', NEW c \in Conns, WriteDone(c)
  PROVE  Promised!Reply(c)
<1> DEFINE n == Len(out[c]) + 1
           r == writeBuf[c]
           t == sent[c][n].type
<1>1. Writes(c) /\ phase = "running" /\ phase' = phase
  BY WritesStep DEF WriteDone, Completes, HandlerFrame
<1>2. /\ c \in Live /\ ops[c] = {"write"}
      /\ UNCHANGED <<conn, closed, sent, partial>>
  BY <1>1 DEF Writes
<1>3. Answering(c, n, r) /\ r \in Response
  BY <1>2 DEF InStep, Answered, IndInv, OperationOf
<1>4. /\ Complete(c) \in Nat /\ Len(Asked(c)) = Complete(c)
      /\ \A i \in 1 .. Complete(c) : Asked(c)[i] = sent[c][i].type
  BY DEF Shapes, AskedShape
<1>5. /\ Len(out[c]) \in Nat /\ Len(Told(c)) = Len(out[c])
      /\ Told(c) \in Seq([type : UInt16, order : Nat])
      /\ \A i \in 1 .. Len(out[c]) : Told(c)[i] = Shown(out[c][i])
  BY DEF Shapes, ToldShape
<1>6. n <= Complete(c)
  <2>1. Len(sent[c]) \in Nat
    BY DEF IndInv, TypeOK
  <2>2. CASE partial[c]
    BY <1>3, <1>5, <2>1, <2>2 DEF Answering, Complete
  <2>3. CASE ~partial[c]
    BY <1>3, <1>5, <2>1, <2>3 DEF Answering, Complete
  <2> QED
    BY <2>2, <2>3
<1>7. Asked(c)[n] = t /\ Len(Told(c)) < Len(Asked(c))
  BY <1>4, <1>5, <1>6
<1>8. Shown(r) \in [type : UInt16, order : Nat]
  BY <1>3 DEF Response, Shown
<1>9. Told(c)' = Append(Told(c), Shown(r))
  <2>1. /\ Told(c)' \in Seq([type : UInt16, order : Nat])
        /\ Len(Told(c)') = Len(out'[c])
        /\ \A i \in 1 .. Len(out'[c]) : Told(c)'[i] = Shown(out'[c][i])
    BY DEF Shapes, ToldShape
  <2>2. /\ Len(out'[c]) = n
        /\ out'[c][n] = r
        /\ \A i \in 1 .. Len(out[c]) : out'[c][i] = out[c][i]
    BY <1>1 DEF Writes
  <2>3. Told(c)'[n] = Shown(r) /\ Len(Told(c)') = Len(Told(c)) + 1
    BY <1>5, <2>1, <2>2
  <2>4. \A i \in 1 .. Len(Told(c)) : Told(c)'[i] = Told(c)[i]
    BY <1>5, <2>1, <2>2
  <2> QED
    BY <1>5, <1>8, <2>1, <2>3, <2>4, AppendIs
<1>10. ASSUME NEW d \in Conns, d # c PROVE Told(d)' = Told(d)
  BY <1>1, <1>10 DEF Writes, Told
<1>11. answers' = [answers EXCEPT ![c] = Append(@, Shown(r))]
  BY <1>9, <1>10 DEF answers
<1>12. Shown(r) \in Promised!AnswersTo(t)
  <2>1. CASE r.type = kError /\ r.order = NoOrder
    BY <2>1 DEF Shown, Promised!AnswersTo, kError, Promised!kError
  <2>2. CASE /\ r.type = ResponseType(t) /\ t \in OrderTypes
             /\ r.order \in 1 .. orderCounter - 1
    <3>1. r.order \in OrderIds
      BY <2>2, NumbersSuffice DEF IndInv
    <3>2. r.order # NoOrder
      BY <2>2 DEF NoOrder
    <3>3. r.order \notin Promised!Issued
      BY <1>2, <3>2, OrderIsFresh
    <3>4. /\ Promised!ResponseType(t) = ResponseType(t)
          /\ Promised!OrderTypes = OrderTypes
      BY DEF Promised!ResponseType, ResponseType, Promised!OrderTypes, OrderTypes,
         Promised!HighBit, HighBit, Promised!kBuyOrder, kBuyOrder,
         Promised!kSellOrder, kSellOrder
    <3> QED
      BY <2>2, <3>1, <3>3, <3>4 DEF Shown, Promised!AnswersTo, OrderIds
  <2>3. CASE /\ r.type = ResponseType(t) /\ t \notin OrderTypes
             /\ r.order = NoOrder
    <3>1. /\ Promised!ResponseType(t) = ResponseType(t)
          /\ Promised!OrderTypes = OrderTypes
      BY DEF Promised!ResponseType, ResponseType, Promised!OrderTypes, OrderTypes,
         Promised!HighBit, HighBit, Promised!kBuyOrder, kBuyOrder,
         Promised!kSellOrder, kSellOrder
    <3> QED
      BY <2>3, <3>1 DEF Shown, Promised!AnswersTo
  <2> QED
    BY <1>3, <2>1, <2>2, <2>3 DEF Answering
<1>13. links[c] = "open" /\ links' = links /\ Up' = Up
  BY <1>1, <1>2 DEF links, Link, Up, Live, Sessions
<1>14. asked' = asked
  BY <1>2, AskedKept
<1>15. asked[c] = Asked(c) /\ answers[c] = Told(c)
  BY DEF asked, answers
<1>16. Len(answers[c]) + 1 = n
  BY <1>5, <1>15
<1>17. /\ Len(answers[c]) < Len(asked[c])
       /\ Shown(r) \in Promised!AnswersTo(asked[c][Len(answers[c]) + 1])
  BY <1>7, <1>12, <1>15, <1>16
<1>18. \E a \in Promised!AnswersTo(asked[c][Len(answers[c]) + 1]) :
         answers' = [answers EXCEPT ![c] = Append(@, a)]
  BY <1>11, <1>17
<1> HIDE DEF n, r, t
<1> QED
  BY <1>13, <1>14, <1>17, <1>18 DEF Promised!Reply, links, asked, answers

(* The other steps are not seen by clients. *)
LEMMA OthersStutter ==
  ASSUME IndInv,
         \/ \E c \in Conns : \/ HeaderWithoutBody(c) \/ HeaderWithBody(c)
                            \/ BodyRead(c) \/ CloseReturns(c)
                            \/ AcceptAdmit(c) \/ ReadAnswer(c) \/ PeerClose(c)
         \/ AcceptCount \/ AcceptStart \/ Signal \/ Join \/ UNCHANGED vars
  PROVE  Stutters
<1>1. CASE \E c \in Conns : \/ HeaderWithoutBody(c) \/ HeaderWithBody(c)
                            \/ BodyRead(c) \/ CloseReturns(c)
  <2>1. UNCHANGED <<phase, conn, closed, sent, partial, out>>
    BY <1>1 DEF HeaderWithoutBody, HeaderWithBody, BodyRead, DispatchAndWrite,
       CloseReturns, HandlerFrame, peerVars
  <2> QED
    BY <2>1, AskedKept, ToldKept, LinksKept DEF Stutters, Up
<1>2. CASE (\E c \in Conns : AcceptAdmit(c)) \/ AcceptCount \/ AcceptStart
  <2>1. UNCHANGED <<phase, closed, sent, partial, out>>
    BY <1>2 DEF AcceptAdmit, AcceptCount, AcceptStart, AcceptFrame, peerVars
  <2>2. \A d \in Conns :
          \/ conn'[d] = conn[d]
          \/ /\ conn[d] \in {"backlog", "accepting", "session"}
             /\ conn'[d] \in {"backlog", "accepting", "session"}
    BY <1>2 DEF AcceptAdmit, AcceptCount, AcceptStart, IndInv, TypeOK, AcceptOwns
  <2> QED
    BY <2>1, <2>2, AskedKept, ToldKept, LinksKept DEF Stutters, Up
<1>3. CASE (\E c \in Conns : ReadAnswer(c) \/ PeerClose(c)) \/ Signal \/ Join
           \/ UNCHANGED vars
  <2>1. /\ UNCHANGED <<conn, closed, sent, partial, out>>
        /\ phase' = phase \/ {phase, phase'} \subseteq {"running", "stopped", "joined"}
    BY <1>3 DEF ReadAnswer, PeerClose, PeerFrame, Signal, Join, ShutdownFrame,
       vars, peerVars, sessionVars
  <2>2. Up' = Up
    BY <2>1 DEF Up
  <2> QED
    BY <2>1, <2>2, AskedKept, ToldKept, LinksKept DEF Stutters
<1> QED
  BY <1>1, <1>2, <1>3

LEMMA StepImplements ==
  ASSUME IndInv, BodyAnnounced, InStep, AnswersKnown, OrderIdsUnique,
         NumbersTaken, Shapes, Shapes', [Next]_vars
  PROVE  Promised!Next \/ Stutters
<1>1. ASSUME NEW c \in Conns, SessionStep(c)
      PROVE  Promised!Next \/ Stutters
  <2>1. CASE HeaderMalformed(c) \/ ReadFails(c) \/ WriteFails(c)
    BY <2>1, ClosingHangsUp DEF Promised!Next
  <2>2. CASE WriteDone(c)
    BY <2>2, WritingReplies DEF Promised!Next
  <2>3. CASE HeaderWithoutBody(c) \/ HeaderWithBody(c) \/ BodyRead(c)
    BY <2>3, OthersStutter
  <2> QED
    BY <1>1, <2>1, <2>2, <2>3 DEF SessionStep
<1>2. CASE Accept \/ AcceptCount \/ AcceptStart \/ AcceptThrow
  <2>1. ASSUME NEW c \in Conns, AcceptReject(c) \/ AcceptError(c)
        PROVE  Promised!Next
    BY <2>1, TurningAwayHangsUp DEF Promised!Next
  <2>2. CASE AcceptThrow
    BY <2>2, EndShutsDown DEF Promised!Next
  <2> QED
    BY <1>2, <2>1, <2>2, OthersStutter DEF Accept
<1>3. CASE Signal \/ Shutdown
  <2>1. ASSUME NEW c \in Conns, DestroySession(c)
        PROVE  Promised!Next
    BY <2>1, ClosingHangsUp DEF Promised!Next
  <2>2. CASE Exit
    BY <2>2, EndShutsDown DEF Promised!Next
  <2> QED
    BY <1>3, <2>1, <2>2, OthersStutter DEF Shutdown
<1>4. ASSUME NEW c \in Conns, Peer(c)
      PROVE  Promised!Next \/ Stutters
  <2>1. CASE Connect(c)
    BY <2>1, ConnectOpens DEF Promised!Next
  <2>2. ASSUME NEW t \in Types, NEW l \in Lengths, SendHeader(c, t, l)
        PROVE  Promised!Next \/ Stutters
    BY <2>2, SendingAsks DEF Promised!Next
  <2>3. CASE SendBody(c)
    BY <2>3, BodyAsks DEF Promised!Next
  <2>4. CASE ReadAnswer(c) \/ PeerClose(c)
    BY <2>4, OthersStutter
  <2> QED
    BY <1>4, <2>1, <2>2, <2>3, <2>4 DEF Peer
<1>5. CASE UNCHANGED vars \/ \E c \in Conns : CloseReturns(c)
  BY <1>5, OthersStutter
<1> QED
  BY <1>1, <1>2, <1>3, <1>4, <1>5 DEF Next, Gone

LEMMA InitImplements == Init => Promised!Init
<1> SUFFICES ASSUME Init PROVE Promised!Init
  OBVIOUS
<1>1. Up = TRUE /\ links = [c \in Conns |-> "new"]
  BY DEF Init, Up, links, Link
<1>2. Shapes
  BY InitInv, ShapesHold DEF Init, IndInv, BodyAnnounced
<1>3. ASSUME NEW c \in Conns PROVE Asked(c) = <<>> /\ Told(c) = <<>>
  <2>1. sent[c] = <<>> /\ out[c] = <<>> /\ ~partial[c]
    BY DEF Init
  <2>2. Complete(c) = 0 /\ Len(out[c]) = 0
    BY <2>1, EmptySeq DEF Complete
  <2> QED
    BY <1>2, <2>2, EmptySeq DEF Shapes, AskedShape, ToldShape
<1>4. /\ asked = [c \in Conns |-> <<>>]
      /\ answers = [c \in Conns |-> <<>>]
  BY <1>3 DEF asked, answers
<1> QED
  BY <1>1, <1>4 DEF Promised!Init, links, asked, answers

(* Whatever its threads, its peers and its shutdown do, the server keeps   *)
(* what Service promises: answers in the order of complete requests, of    *)
(* their type or an error, on a connection still open, and each order      *)
(* number once.                                                            *)
THEOREM ServerImplementsService == Spec => Implements
<1>1. Init => Promised!Init
  BY InitImplements
<1>2. /\ IndInv /\ BodyAnnounced /\ InStep /\ AnswersKnown /\ TalkInv
      /\ Shapes /\ Shapes' /\ [Next]_vars
      => [Promised!Next]_(Promised!vars)
  <2>1. Stutters => UNCHANGED Promised!vars
    BY DEF Stutters, Promised!vars, links, asked, answers
  <2> QED
    BY <2>1, StepImplements DEF TalkInv
<1>3. IndInv /\ InStep => AnswersKnown
  BY AnswersAreKnown DEF InStep
<1>4. IndInv /\ BodyAnnounced => Shapes
  BY ShapesHold DEF IndInv
<1> QED
  BY <1>1, <1>2, <1>3, <1>4, Invariance, AlwaysInStep, TalkInvariance, PTL
  DEF Spec, Implements, Promised!Spec

=============================================================================
