----------------------------- MODULE MCScenario -----------------------------
(***************************************************************************)
(* One client of a test without end: do_send_request calls next_request    *)
(* again after every answer.  Nothing is bounded here but the generator's  *)
(* state, which the repeated calls walk through for ever.                  *)
(***************************************************************************)
EXTENDS Scenario

CONSTANT ClientId   (* client_id *)

VARIABLES
  rng,    (* rng_state_, its low bits                                       *)
  type    (* the type of the last request                                   *)

Init == rng = Seed(ClientId) /\ type = kPing

do_send_request ==
  \E r \in NextRequest(rng) : rng' = r.rng /\ type' = r.type

Spec == Init /\ [][do_send_request]_<<rng, type>>
             /\ WF_<<rng, type>>(do_send_request)

(* "Choose a random request type from the configured scenario mix."        *)
(* (client_session.hpp:7): a client that goes on for ever asks, at some    *)
(* time, for every type of positive weight.                                *)
EveryTypeChosen ==
  \A i \in DOMAIN Kinds : Weight[i] > 0 => <>(type = Kinds[i])

(* As many queries as buy orders. *)
QueriesAndBuys == <<1, 1, 0, 0, 0>>

=============================================================================
