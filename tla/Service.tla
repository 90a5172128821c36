------------------------------- MODULE Service ------------------------------
(***************************************************************************)
(* What the server promises the clients on its connections, whatever its   *)
(* threads do: every connection gets the answers to its requests one by    *)
(* one and in their order, each is of the response type of its request or  *)
(* an error, and an order number is given out once in the life of the      *)
(* process.  The server may hang up at any time, and when it shuts down it *)
(* drops every connection.  It owes no answer.                             *)
(***************************************************************************)
EXTENDS Naturals, Sequences, MessageTypes

CONSTANTS
  Conns,      (* the connections of clients                                 *)
  Types,      (* the message types clients ask for                          *)
  OrderIds,   (* the numbers orders may be given                            *)
  NoOrder     (* the order number of an answer to something else            *)

VARIABLES
  up,         (* the server is there                                        *)
  link,       (* each connection: not opened yet, open, or closed           *)
  asked,      (* the types of the requests sent completely, in order        *)
  answers     (* the answers sent, in order                                 *)

vars == <<up, link, asked, answers>>

Answer == [type : UInt16, order : OrderIds \cup {NoOrder}]

TypeOK ==
  /\ up \in BOOLEAN
  /\ link \in [Conns -> {"new", "open", "closed"}]
  /\ asked \in [Conns -> Seq(Types)]
  /\ answers \in [Conns -> Seq(Answer)]

Init ==
  /\ up = TRUE
  /\ link = [c \in Conns |-> "new"]
  /\ asked = [c \in Conns |-> <<>>]
  /\ answers = [c \in Conns |-> <<>>]

(* The order numbers some client was given. *)
Issued == UNION {{answers[c][n].order : n \in DOMAIN answers[c]} : c \in Conns}

Open(c) ==
  /\ up /\ link[c] = "new"
  /\ link' = [link EXCEPT ![c] = "open"]
  /\ UNCHANGED <<up, asked, answers>>

Ask(c, t) ==
  /\ link[c] = "open"
  /\ asked' = [asked EXCEPT ![c] = Append(@, t)]
  /\ UNCHANGED <<up, link, answers>>

(* What may be answered to a request of type t. *)
AnswersTo(t) ==
  [type : {kError}, order : {NoOrder}]
  \cup [type  : {ResponseType(t)},
        order : IF t \in OrderTypes THEN OrderIds \ Issued ELSE {NoOrder}]

Reply(c) ==
  /\ link[c] = "open" /\ Len(answers[c]) < Len(asked[c])
  /\ \E a \in AnswersTo(asked[c][Len(answers[c]) + 1]) :
       answers' = [answers EXCEPT ![c] = Append(@, a)]
  /\ UNCHANGED <<up, link, asked>>

Hangup(c) ==
  /\ link[c] = "open"
  /\ link' = [link EXCEPT ![c] = "closed"]
  /\ UNCHANGED <<up, asked, answers>>

(* The process ends and the kernel closes what it still had open. *)
Shutdown ==
  /\ up
  /\ up' = FALSE
  /\ link' = [c \in Conns |-> IF link[c] = "open" THEN "closed" ELSE link[c]]
  /\ UNCHANGED <<asked, answers>>

Next ==
  \/ \E c \in Conns : Open(c) \/ Reply(c) \/ Hangup(c)
  \/ \E c \in Conns, t \in Types : Ask(c, t)
  \/ Shutdown

Spec == Init /\ [][Next]_vars

=============================================================================
