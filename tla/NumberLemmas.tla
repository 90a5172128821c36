---------------------------- MODULE NumberLemmas ----------------------------
(***************************************************************************)
(* Facts about the natural numbers, cited by the proofs of the server, the *)
(* load generator and the metrics.                                         *)
(***************************************************************************)
EXTENDS Integers, WellFoundedInduction, TLAPS

(* Nat is well-founded by its order, so its sets have a least member. *)
LEMMA LeastNumber ==
  ASSUME NEW T, T \subseteq Nat, T # {}
  PROVE  \E x \in T : \A y \in T : x <= y
<1>1. IsWellFoundedOn(OpToRel(<, Nat), Nat)
  BY NatLessThanWellFounded
<1>2. PICK x \in T : \A y \in T : ~ (<<y, x>> \in OpToRel(<, Nat))
  BY <1>1, WFMin
<1>3. \A y \in T : y < x => <<y, x>> \in OpToRel(<, Nat)
  BY DEF OpToRel
<1>4. \A y \in T : ~ (y < x)
  BY <1>2, <1>3
<1>5. \A y \in T : x <= y
  BY <1>4
<1> QED
  BY <1>5

(* What the quotient and the remainder are. *)
LEMMA Division ==
  ASSUME NEW n \in Int, NEW m \in Nat, m > 0
  PROVE  /\ n \div m \in Int /\ n % m \in 0 .. m - 1
         /\ n = m * (n \div m) + (n % m)
OBVIOUS

(* A multiple leaves no remainder. *)
LEMMA Quotient ==
  ASSUME NEW m \in Nat, m > 0, NEW q \in Nat
  PROVE  (m * q) % m = 0
OBVIOUS

(* Twice an odd number divides every even number that it divides. *)
LEMMA OddDivisor ==
  ASSUME NEW m \in Nat, m > 0, m % 2 # 0, NEW n \in Nat, n > 0, n % 2 = 0,
         n % m = 0
  PROVE  n % (2 * m) = 0 /\ 2 * m <= n
<1> DEFINE q == n \div m
           a == m \div 2
           h == q \div 2
<1>1. q \in Int /\ n = m * q
  BY Division
<1>2. q > 0
  BY <1>1
<1>3. a \in Int /\ m = 2 * a + 1
  OBVIOUS
<1> HIDE DEF q, a
<1>4. h \in Int /\ (q = 2 * h \/ q = 2 * h + 1)
  BY <1>1
<1> HIDE DEF h
<1>5. q = 2 * h
  <2>1. CASE q = 2 * h + 1
    <3>1. n = (2 * a + 1) * (2 * h + 1)
      BY <1>1, <1>3, <2>1
    <3>2. (2 * a + 1) * (2 * h + 1) = 2 * (2 * (a * h) + a + h) + 1
      BY <1>3, <1>4
    <3>3. a * h \in Int
      BY <1>3, <1>4
    <3> QED
      BY <1>3, <1>4, <3>1, <3>2, <3>3
  <2> QED
    BY <1>4, <2>1
<1>6. n = (2 * m) * h
  BY <1>1, <1>4, <1>5
<1>7. h > 0 /\ h \in Nat
  BY <1>2, <1>4, <1>5
<1>8. (2 * m) * h >= 2 * m
  BY <1>7
<1>9. ((2 * m) * h) % (2 * m) = 0
  <2>1. 2 * m \in Nat /\ 2 * m > 0
    OBVIOUS
  <2> QED
    BY <1>7, <2>1, Quotient
<1> QED
  BY <1>6, <1>8, <1>9

(* Numbers that are alike by an even modulus are alike by 2. *)
LEMMA SameParity ==
  ASSUME NEW p \in Int, NEW x \in Int, NEW m \in Nat, m > 0, m % 2 = 0,
         p % m = x % m
  PROVE  p % 2 = x % 2
<1> DEFINE i == p \div m
           j == x \div m
           h == m \div 2
           k == p % m
<1>1. i \in Int /\ k \in Int /\ p = m * i + k
  BY Division
<1>2. j \in Int /\ x = m * j + k
  BY Division
<1>3. h \in Int /\ m = 2 * h
  OBVIOUS
<1> HIDE DEF i, j, h, k
<1>4. p = 2 * (h * i) + k /\ x = 2 * (h * j) + k
  BY <1>1, <1>2, <1>3
<1>5. h * i \in Int /\ h * j \in Int
  BY <1>1, <1>2, <1>3
<1> QED
  BY <1>1, <1>4, <1>5

=============================================================================
