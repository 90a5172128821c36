------------------------------ MODULE Scenario ------------------------------
(***************************************************************************)
(* How a client of the load generator chooses its next request: a linear   *)
(* congruential generator with 64 bits of state, of which                  *)
(*     next_rand() % total                                                 *)
(* picks a request type by its weight.                                     *)
(*                                                                         *)
(* Only the low bits of the state are kept, its remainder by RandSize.     *)
(* They determine the low bits of every later state, and the remainder of  *)
(* a draw by the largest power of two that divides both RandSize and the   *)
(* total; where the total divides RandSize the pick is exact, otherwise it *)
(* is one of those with that remainder.                                    *)
(***************************************************************************)
EXTENDS Integers, Sequences, FiniteSetsExt, MessageTypes

CONSTANTS
  Weight,     (* ScenarioConfig: the weight of each type of Kinds, in order *)
  RandSize    (* rng_state_ is kept modulo this power of two                *)

ASSUME ScenarioAssumption ==
  /\ Weight \in [1 .. 5 -> Int]
  /\ RandSize \in {2, 4, 8, 16, 32, 64, 128, 256, 512, 1024, 2048, 4096, 8192,
                   16384, 32768, 65536}

(* The types a load generator asks for, in the order of the thresholds. *)
Kinds == <<kSqlQuery, kBuyOrder, kSellOrder, kGetPosition, kGetPriceHistory>>

Rng == 0 .. RandSize - 1

(* The low 16 bits of the generator's constants and of the factor of the   *)
(* seed, client_id * 2654435761 + 1.                                       *)
Multiplier == 32557
Increment  == 33103
SeedFactor == 31153

Seed(id)    == (id * SeedFactor + 1) % RandSize
NextRand(x) == (x * Multiplier + Increment) % RandSize

SumOfWeights == Weight[1] + Weight[2] + Weight[3] + Weight[4] + Weight[5]
Total        == IF SumOfWeights <= 0 THEN 1 ELSE SumOfWeights

Modulus == Max({m \in 1 .. RandSize : RandSize % m = 0 /\ Total % m = 0})

(* What next_rand() % total may be when next_rand() returns x. *)
Picks(x) == {p \in 0 .. Total - 1 : p % Modulus = x % Modulus}

(* The threshold as the weights are added to it, one by one. *)
Threshold == <<Weight[1],
               Weight[1] + Weight[2],
               Weight[1] + Weight[2] + Weight[3],
               Weight[1] + Weight[2] + Weight[3] + Weight[4]>>

(* Seeded fault: the comparison with a threshold lets it be reached. *)
ReachedAt(pick) == {i \in 1 .. 4 : pick <= Threshold[i]}

Below(pick) == {i \in 1 .. 4 : pick < Threshold[i]}

(* The first type whose threshold the pick is below; price history is the  *)
(* type of every other pick.                                               *)
KindOf(pick) ==
  IF Below(pick) = {} THEN kGetPriceHistory ELSE Kinds[Min(Below(pick))]

(* The requests next_request() may return, with the state it leaves: every *)
(* request draws a pick and a symbol, an order its quantity and price too, *)
(* a price history its number of days.                                     *)
NextRequest(x) ==
  LET first  == NextRand(x)
      second == NextRand(first)
      third  == NextRand(second)
      fourth == NextRand(third)
      Left(kind) == IF kind \in OrderTypes THEN fourth
                    ELSE IF kind = kGetPriceHistory THEN third ELSE second
  IN {[type |-> KindOf(p), rng |-> Left(KindOf(p))] : p \in Picks(first)}

=============================================================================
