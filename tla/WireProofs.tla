----------------------------- MODULE WireProofs -----------------------------
(***************************************************************************)
(* The codecs agree for any size of a byte and any payload lengths: what   *)
(* one end encodes, an end of the same wire order decodes, and an end of   *)
(* the other one reads in reverse.                                         *)
(***************************************************************************)
EXTENDS Wire, TLAPS

LEMMA WordTuples ==
  /\ \A w \in Word4 : w = <<w[1], w[2], w[3], w[4]>>
  /\ \A w \in Word2 : w = <<w[1], w[2]>>
BY DEF Word4, Word2

(* A header survives the wire between ends of the same order. *)
LEMMA RoundTrip ==
  ASSUME NEW a \in [codec : Codecs, host : Hosts],
         NEW b \in [codec : Codecs, host : Hosts],
         WireOrder(a) = WireOrder(b), NEW h \in Header
  PROVE  Decode(b, Encode(a, h)) = [ok |-> ~OverLimit(h.length), header |-> h]
<1>1. /\ h.length = <<h.length[1], h.length[2], h.length[3], h.length[4]>>
      /\ h.type = <<h.type[1], h.type[2]>>
      /\ h.flags = 0
      /\ h = [length |-> h.length, type |-> h.type, flags |-> h.flags]
  BY WordTuples, WireAssumption DEF Header, Type
<1>2. CASE WireOrder(a) = "big"
  <2>1. Encode(a, h) = <<h.length[1], h.length[2], h.length[3], h.length[4],
                         h.type[1], h.type[2], 0, 0>>
    BY <1>1, <1>2 DEF WireOrder, Encode, EncodeHeader, encode_header, Swap4,
       Swap2, Codecs, Hosts
  <2> QED
    BY <1>1, <1>2, <2>1 DEF WireOrder, Decode, DecodeHeader, decode_header,
       Swap4, Swap2, Codecs, Hosts
<1>3. CASE WireOrder(a) # "big"
  <2>1. Encode(a, h) = <<h.length[4], h.length[3], h.length[2], h.length[1],
                         h.type[2], h.type[1], 0, 0>>
    BY <1>1, <1>3 DEF WireOrder, Encode, encode_header, Swap4, Swap2
  <2> QED
    BY <1>1, <1>3, <2>1 DEF WireOrder, Decode, decode_header, Swap4, Swap2
<1> QED
  BY <1>2, <1>3

-----------------------------------------------------------------------------
(* What is on the wire is the encoding of what its sender meant. *)
OnTheWire ==
  /\ step = "requested" => bytes = Encode(client, request)
  /\ step = "answered" => bytes = Encode(server, answer) /\ answer \in Header

IndInv == TypeOK /\ OnTheWire /\ CodecsAgree

LEMMA Ends ==
  ASSUME TypeOK
  PROVE  /\ client \in [codec : Codecs, host : Hosts]
         /\ server \in [codec : Codecs, host : Hosts]
BY DEF TypeOK, Codecs

LEMMA InitInv == Init => IndInv
BY DEF Init, IndInv, TypeOK, OnTheWire, CodecsAgree

LEMMA ReceiveRequestInv ==
  ASSUME IndInv, ReceiveRequest
  PROVE  IndInv'
<1> DEFINE d == Decode(server, bytes)
<1>1. /\ step = "requested" /\ bytes = Encode(client, request)
      /\ request \in Header
  BY DEF ReceiveRequest, IndInv, OnTheWire, TypeOK
<1>2. SameOrder => d.ok = ~OverLimit(request.length) /\ d.header = request
  BY <1>1, Ends, RoundTrip DEF SameOrder, IndInv
<1>3. /\ UNCHANGED <<client, server, request, bytes, answer, understood>>
      /\ \/ d.ok /\ step' = "received" /\ received' = d.header
         \/ ~d.ok /\ step' = "closed"
  BY DEF ReceiveRequest
<1>4. SameOrder' = SameOrder
  BY <1>3 DEF SameOrder
<1>5. TypeOK' /\ OnTheWire'
  BY <1>3 DEF IndInv, TypeOK, OnTheWire
<1>6. CodecsAgree'
  BY <1>2, <1>3, <1>4 DEF CodecsAgree
<1> QED
  BY <1>5, <1>6 DEF IndInv

LEMMA ReceiveAnswerInv ==
  ASSUME IndInv, ReceiveAnswer
  PROVE  IndInv'
<1> DEFINE d == Decode(client, bytes)
<1>1. /\ step = "answered" /\ bytes = Encode(server, answer)
      /\ answer \in Header
  BY DEF ReceiveAnswer, IndInv, OnTheWire
<1>2. SameOrder => d.ok = ~OverLimit(answer.length) /\ d.header = answer
  BY <1>1, Ends, RoundTrip DEF SameOrder, IndInv
<1>3. /\ UNCHANGED <<client, server, request, bytes, received, answer>>
      /\ \/ d.ok /\ step' = "done" /\ understood' = d.header
         \/ ~d.ok /\ step' = "closed"
  BY DEF ReceiveAnswer
<1>4. SameOrder' = SameOrder
  BY <1>3 DEF SameOrder
<1>5. TypeOK' /\ OnTheWire'
  BY <1>3 DEF IndInv, TypeOK, OnTheWire
<1>6. CodecsAgree'
  BY <1>1, <1>2, <1>3, <1>4 DEF CodecsAgree, IndInv
<1> QED
  BY <1>5, <1>6 DEF IndInv

LEMMA StepInv == IndInv /\ [Next]_vars => IndInv'
<1> SUFFICES ASSUME IndInv, [Next]_vars PROVE IndInv'
  OBVIOUS
<1>1. CASE SendRequest
  BY <1>1
  DEF SendRequest, IndInv, TypeOK, OnTheWire, CodecsAgree, SameOrder
<1>2. CASE ReceiveRequest
  BY <1>2, ReceiveRequestInv
<1>3. CASE SendAnswer
  BY <1>3
  DEF SendAnswer, IndInv, TypeOK, OnTheWire, CodecsAgree, SameOrder
<1>4. CASE ReceiveAnswer
  BY <1>4, ReceiveAnswerInv
<1>5. CASE UNCHANGED vars
  BY <1>5 DEF vars, IndInv, TypeOK, OnTheWire, CodecsAgree, SameOrder
<1> QED
  BY <1>1, <1>2, <1>3, <1>4, <1>5 DEF Next

(* Ends of the same wire order understand each other, and an exchange      *)
(* fails only for a payload over the limit.                                *)
THEOREM CodecsAlwaysAgree == Spec => []CodecsAgree
<1>1. IndInv => CodecsAgree
  BY DEF IndInv
<1> QED
  BY <1>1, InitInv, StepInv, PTL DEF Spec

-----------------------------------------------------------------------------
(* Ends of different wire order.                                           *)

Reversed(h) ==
  [length |-> <<h.length[4], h.length[3], h.length[2], h.length[1]>>,
   type   |-> <<h.type[2], h.type[1]>>, flags |-> 0]

(* A header arrives with the bytes of its length and of its type in        *)
(* reverse.                                                                *)
LEMMA CrossOver ==
  ASSUME NEW a \in [codec : Codecs, host : Hosts],
         NEW b \in [codec : Codecs, host : Hosts],
         WireOrder(a) # WireOrder(b), NEW h \in Header
  PROVE  Decode(b, Encode(a, h))
           = [ok |-> ~OverLimit(Reversed(h).length), header |-> Reversed(h)]
<1>1. h.flags = 0
  BY DEF Header
<1>2. CASE WireOrder(a) = "big"
  <2>1. Encode(a, h) = <<h.length[1], h.length[2], h.length[3], h.length[4],
                         h.type[1], h.type[2], 0, 0>>
    BY <1>1, <1>2 DEF WireOrder, Encode, EncodeHeader, encode_header, Swap4,
       Swap2, Codecs, Hosts
  <2>2. b.codec = "shared" /\ b.host = "little"
    BY <1>2 DEF WireOrder
  <2> QED
    BY <2>1, <2>2 DEF Decode, decode_header, Swap4, Swap2, Reversed
<1>3. CASE WireOrder(a) # "big"
  <2>1. a.codec = "shared" /\ a.host = "little"
    BY <1>3 DEF WireOrder
  <2>2. Encode(a, h) = <<h.length[4], h.length[3], h.length[2], h.length[1],
                         h.type[2], h.type[1], 0, 0>>
    BY <1>1, <2>1 DEF Encode, encode_header, Swap4, Swap2
  <2>3. WireOrder(b) = "big"
    BY <1>3 DEF WireOrder
  <2> QED
    BY <2>2, <2>3 DEF WireOrder, Decode, DecodeHeader, decode_header, Swap4,
       Swap2, Codecs, Hosts, Reversed
<1> QED
  BY <1>2, <1>3

(* What each end takes for the header the other meant. *)
MisreadInReverse ==
  ~SameOrder =>
    /\ step \in {"received", "answered", "done"} =>
         received = Reversed(request) /\ ~OverLimit(Reversed(request).length)
    /\ step = "done" =>
         understood = Reversed(answer) /\ ~OverLimit(Reversed(answer).length)
    /\ step = "closed" =>
         \/ OverLimit(Reversed(request).length)
         \/ OverLimit(Reversed(answer).length)

LEMMA MisreadStep ==
  ASSUME IndInv, MisreadInReverse, [Next]_vars
  PROVE  MisreadInReverse'
<1>1. CASE SendRequest \/ SendAnswer \/ UNCHANGED vars
  BY <1>1 DEF SendRequest, SendAnswer, vars, MisreadInReverse, SameOrder, Reversed
<1>2. CASE ReceiveRequest
  <2> DEFINE d == Decode(server, bytes)
  <2>1. /\ step = "requested" /\ bytes = Encode(client, request)
        /\ request \in Header
    BY <1>2 DEF ReceiveRequest, IndInv, OnTheWire, TypeOK
  <2>2. ~SameOrder => /\ d.ok = ~OverLimit(Reversed(request).length)
                      /\ d.header = Reversed(request)
    BY <2>1, Ends, CrossOver DEF SameOrder, IndInv
  <2>3. /\ UNCHANGED <<client, server, request, bytes, answer, understood>>
        /\ \/ d.ok /\ step' = "received" /\ received' = d.header
           \/ ~d.ok /\ step' = "closed"
    BY <1>2 DEF ReceiveRequest
  <2>4. SameOrder' = SameOrder /\ Reversed(request)' = Reversed(request)
    BY <2>3 DEF SameOrder, Reversed
  <2> QED
    BY <2>2, <2>3, <2>4 DEF MisreadInReverse
<1>3. CASE ReceiveAnswer
  <2> DEFINE d == Decode(client, bytes)
  <2>1. /\ step = "answered" /\ bytes = Encode(server, answer)
        /\ answer \in Header
    BY <1>3 DEF ReceiveAnswer, IndInv, OnTheWire
  <2>2. ~SameOrder => /\ d.ok = ~OverLimit(Reversed(answer).length)
                      /\ d.header = Reversed(answer)
    BY <2>1, Ends, CrossOver DEF SameOrder, IndInv
  <2>3. /\ UNCHANGED <<client, server, request, bytes, received, answer>>
        /\ \/ d.ok /\ step' = "done" /\ understood' = d.header
           \/ ~d.ok /\ step' = "closed"
    BY <1>3 DEF ReceiveAnswer
  <2>4. SameOrder' = SameOrder /\ Reversed(request)' = Reversed(request)
        /\ Reversed(answer)' = Reversed(answer)
    BY <2>3 DEF SameOrder, Reversed
  <2> QED
    BY <2>1, <2>2, <2>3, <2>4 DEF MisreadInReverse
<1> QED
  BY <1>1, <1>2, <1>3 DEF Next

(* Ends of different wire order read each other's headers in reverse: the  *)
(* general form of what wire_ui shows (protocol.hpp:89-118,                *)
(* MainDlg.cpp:44-70).                                                     *)
THEOREM OtherOrderReverses == Spec => []MisreadInReverse
<1>1. Init => MisreadInReverse
  BY DEF Init, MisreadInReverse
<1> QED
  BY <1>1, InitInv, StepInv, MisreadStep, PTL DEF Spec

(* Every type of the protocol that clients send is a byte 0 and a byte     *)
(* that is not 0 (protocol.hpp:56-61): a server of the other wire order    *)
(* finds none of them in a request.                                        *)
NoTypeRecognised ==
  /\ ~SameOrder /\ step \in {"received", "answered", "done"}
  /\ request.type[1] = 0 /\ request.type[2] # 0
  => received.type[1] # 0

(* A request between ends of different wire order reaches no handler.      *)
THEOREM OtherOrderServesNothing == Spec => []NoTypeRecognised
<1>1. MisreadInReverse => NoTypeRecognised
  BY DEF MisreadInReverse, NoTypeRecognised, Reversed
<1> QED
  BY <1>1, OtherOrderReverses, PTL

=============================================================================
