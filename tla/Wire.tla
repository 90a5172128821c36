-------------------------------- MODULE Wire --------------------------------
(***************************************************************************)
(* The two header codecs of the repository and one exchange between a      *)
(* client and the server: the shared codec of server/include/protocol.hpp, *)
(* used by the server and the load generator, and the UI client's own      *)
(* EncodeHeader and DecodeHeader.                                          *)
(*                                                                         *)
(* A value is the sequence of its bytes, most significant first, so that   *)
(* a shift by 8 * k and a mask picks a byte by its place.  Bytes are the   *)
(* digits 0 .. Base - 1: for the code Base is 256, and kMaxPayloadSize,    *)
(* 16 MiB, is the value <<1, 0, 0, 0>>.                                    *)
(***************************************************************************)
EXTENDS Integers, Sequences

CONSTANTS
  Base,       (* the number of values of a byte                             *)
  Payloads    (* the payload lengths of the messages that are exchanged     *)

Byte  == 0 .. Base - 1
Word4 == Byte \X Byte \X Byte \X Byte
Word2 == Byte \X Byte

ASSUME WireAssumption ==
  /\ Base \in Nat \ {0, 1}
  /\ Payloads \subseteq Word4

Hosts  == {"little", "big"}
Codecs == {"shared", "ui"}

(* payload_length > kMaxPayloadSize *)
OverLimit(w) == w[1] > 1 \/ (w[1] = 1 /\ <<w[2], w[3], w[4]>> # <<0, 0, 0>>)

-----------------------------------------------------------------------------
(* htonl, ntohl, htons, ntohs reverse the bytes on a little-endian host.   *)

Swap4(host, w) == IF host = "little" THEN <<w[4], w[3], w[2], w[1]>> ELSE w
Swap2(host, w) == IF host = "little" THEN <<w[2], w[1]>> ELSE w

(* The shared codec converts to network order and then stores the bytes by *)
(* their place in the value, which is already independent of the host.     *)
encode_header(host, h) ==
  LET net_len  == Swap4(host, h.length)
      net_type == Swap2(host, h.type)
  IN <<net_len[1], net_len[2], net_len[3], net_len[4],
       net_type[1], net_type[2], h.flags, 0>>

(* Seeded fault: the limit is compared before the bytes are put in order. *)
decode_unordered(host, b) ==
  LET net_len == <<b[1], b[2], b[3], b[4]>>
      h       == [length |-> Swap4(host, net_len),
                  type |-> Swap2(host, <<b[5], b[6]>>), flags |-> b[7]]
  IN [ok |-> ~OverLimit(net_len), header |-> h]

(* decode_header throws when the length is over the limit; the flags and   *)
(* the reserved byte are copied, and nothing is required of them.          *)
decode_header(host, b) ==
  LET h == [length |-> Swap4(host, <<b[1], b[2], b[3], b[4]>>),
            type |-> Swap2(host, <<b[5], b[6]>>), flags |-> b[7]]
  IN [ok |-> ~OverLimit(h.length), header |-> h]

(* The UI client stores the bytes by their place, without conversion; its  *)
(* flags are always 0, and RecvMsg compares the length with kMaxPayload.   *)
EncodeHeader(h) ==
  <<h.length[1], h.length[2], h.length[3], h.length[4],
    h.type[1], h.type[2], 0, 0>>

DecodeHeader(b) ==
  LET h == [length |-> <<b[1], b[2], b[3], b[4]>>, type |-> <<b[5], b[6]>>,
            flags |-> b[7]]
  IN [ok |-> ~OverLimit(h.length), header |-> h]

Encode(end, h) == IF end.codec = "ui" THEN EncodeHeader(h)
                                      ELSE encode_header(end.host, h)
Decode(end, b) == IF end.codec = "ui" THEN DecodeHeader(b)
                                      ELSE decode_header(end.host, b)

-----------------------------------------------------------------------------
(* A client sends a request, the server answers it.                        *)

VARIABLES
  client,     (* the codec and host of the client                           *)
  server,     (* the server uses the shared codec                           *)
  step,       (* how far the exchange is                                    *)
  request,    (* the header the client means                                *)
  bytes,      (* the header last put on the wire                            *)
  received,   (* the header the server decoded                              *)
  answer,     (* the header the server means                                *)
  understood  (* the header the client decoded                              *)

vars == <<client, server, step, request, bytes, received, answer, understood>>

Type   == Word2
Header == [length : Payloads, type : Type, flags : {0}]
NoHeader == [length |-> <<0, 0, 0, 0>>, type |-> <<0, 0>>, flags |-> 0]

Init ==
  /\ client \in [codec : Codecs, host : Hosts]
  /\ client.codec = "ui" => client.host = "little"
  /\ server \in [codec : {"shared"}, host : Hosts]
  /\ step = "idle"
  /\ request \in Header
  /\ bytes = <<>>
  /\ received = NoHeader /\ answer = NoHeader /\ understood = NoHeader

SendRequest ==
  /\ step = "idle"
  /\ step' = "requested"
  /\ bytes' = Encode(client, request)
  /\ UNCHANGED <<client, server, request, received, answer, understood>>

(* do_read_header: a header that does not decode closes the connection. *)
ReceiveRequest ==
  /\ step = "requested"
  /\ LET d == Decode(server, bytes)
     IN IF d.ok THEN step' = "received" /\ received' = d.header
                ELSE step' = "closed" /\ UNCHANGED received
  /\ UNCHANGED <<client, server, request, bytes, answer, understood>>

(* dispatch chooses a type and a payload; do_write encodes the header. *)
SendAnswer ==
  /\ step = "received"
  /\ step' = "answered"
  /\ answer' \in {h \in Header : h.type = received.type}
  /\ bytes' = Encode(server, answer')
  /\ UNCHANGED <<client, server, request, received, understood>>

ReceiveAnswer ==
  /\ step = "answered"
  /\ LET d == Decode(client, bytes)
     IN IF d.ok THEN step' = "done" /\ understood' = d.header
                ELSE step' = "closed" /\ UNCHANGED understood
  /\ UNCHANGED <<client, server, request, bytes, received, answer>>

Next == SendRequest \/ ReceiveRequest \/ SendAnswer \/ ReceiveAnswer

Spec == Init /\ [][Next]_vars

-----------------------------------------------------------------------------
(* Safety.                                                                 *)

TypeOK ==
  /\ client \in [codec : Codecs, host : Hosts]
  /\ server \in [codec : {"shared"}, host : Hosts]
  /\ step \in {"idle", "requested", "received", "answered", "done", "closed"}
  /\ request \in Header
  /\ answer \in Header \cup {NoHeader}

(* The order in which the bytes of an end's values really travel: the two  *)
(* conversions of the shared codec cancel out on a little-endian host.     *)
WireOrder(end) == IF end.codec = "shared" /\ end.host = "little"
                  THEN "little" ELSE "big"

SameOrder == WireOrder(client) = WireOrder(server)

(* Two ends of the same wire order understand each other: each decodes the *)
(* header the other meant (protocol.hpp:88-118), and refuses it exactly    *)
(* when its length is over kMaxPayloadSize, whichever end checks.          *)
CodecsAgree ==
  SameOrder =>
    /\ step \in {"received", "answered", "done"} =>
         received = request /\ ~OverLimit(request.length)
    /\ step = "done" => understood = answer /\ ~OverLimit(answer.length)
    /\ step = "closed" => OverLimit(request.length) \/ OverLimit(answer.length)

(* What comments say and the code does not do.                             *)

(* payload_length and message_type travel in network byte order            *)
(* (protocol.hpp:7-8).                                                     *)
NetworkByteOrder ==
  step = "requested" =>
    <<bytes[1], bytes[2], bytes[3], bytes[4], bytes[5], bytes[6]>> =
      <<request.length[1], request.length[2], request.length[3],
        request.length[4], request.type[1], request.type[2]>>

(* The UI client's framing is the one the server uses (MainDlg.cpp:11-12): *)
(* the server takes the header of its request for what it is, and does not *)
(* refuse a length that is within the limit.                               *)
UiFramingUnderstood ==
  client.codec = "ui" =>
    /\ step \in {"received", "answered", "done"} => received = request
    /\ step = "closed" /\ answer = NoHeader => OverLimit(request.length)

=============================================================================
