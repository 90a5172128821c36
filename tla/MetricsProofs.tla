---------------------------- MODULE MetricsProofs ---------------------------
(***************************************************************************)
(* Lemmas about numbers and sizes, and what they say of the statistics     *)
(* that MetricsCollector computes, for any samples.                        *)
(***************************************************************************)
EXTENDS Metrics, NumberLemmas, FiniteSetTheorems, TLAPS

-----------------------------------------------------------------------------
(* Lemmas about the least and the greatest.                                *)

(* What Min returns. *)
LEMMA LeastOf ==
  ASSUME NEW T, T \subseteq Nat, T # {}
  PROVE  Min(T) \in T /\ \A y \in T : Min(T) <= y
BY LeastNumber DEF Min

(* What Max returns of a finite set: the member with the fewest above it. *)
LEMMA GreatestOf ==
  ASSUME NEW T, T \subseteq Nat, T # {}, IsFiniteSet(T)
  PROVE  Max(T) \in T /\ \A y \in T : y <= Max(T)
<1> DEFINE Above(v) == {u \in T : u > v}
           Counts == {Cardinality(Above(v)) : v \in T}
<1>1. \A u \in T : u \in Nat
  OBVIOUS
<1>2. \A v : IsFiniteSet(Above(v)) /\ Cardinality(Above(v)) \in Nat
  BY FS_Subset, FS_CardinalityType
<1>3. PICK v \in T : \A w \in T : Cardinality(Above(v)) <= Cardinality(Above(w))
  <2>1. Counts \subseteq Nat /\ Counts # {}
    BY <1>2
  <2>2. PICK n \in Counts : \A m \in Counts : n <= m
    BY <2>1, LeastNumber
  <2> QED
    BY <2>2
<1>4. ASSUME NEW w \in T, w > v
      PROVE  FALSE
  <2>1. /\ w \in Above(v) /\ w \notin Above(w)
        /\ \A u \in Above(w) : u \in T /\ u > v
    BY <1>1, <1>4
  <2>2. Above(w) \subseteq Above(v) \ {w}
    BY <2>1
  <2>3. IsFiniteSet(Above(v)) /\ w \in Above(v) /\ Cardinality(Above(v)) \in Nat
        /\ Cardinality(Above(w)) \in Nat
    BY <1>2, <2>1
  <2>4. Cardinality(Above(v)) <= Cardinality(Above(w))
    BY <1>3
  <2> HIDE DEF Above
  <2>5. /\ IsFiniteSet(Above(v) \ {w})
        /\ Cardinality(Above(v) \ {w}) = Cardinality(Above(v)) - 1
    BY <2>3, FS_RemoveElement
  <2>6. Cardinality(Above(w)) <= Cardinality(Above(v) \ {w})
    BY <2>2, <2>5, FS_Subset
  <2> QED
    BY <2>5, <2>6, <2>4, <2>3
<1>5. \A w \in T : w <= v
  BY <1>4
<1> QED
  BY <1>5 DEF Max

-----------------------------------------------------------------------------
(* Lemmas about what is counted.                                           *)

(* A set that gains a member. *)
LEMMA CountOneMore ==
  ASSUME NEW X, NEW Y, NEW e, IsFiniteSet(X), Y = X \cup {e}, e \notin X
  PROVE  IsFiniteSet(Y) /\ Cardinality(Y) = Cardinality(X) + 1
BY FS_AddElement

(* A set that changes in one member at most. *)
LEMMA CountMoves ==
  ASSUME NEW X, NEW Y, NEW e, IsFiniteSet(X),
         \A d : d # e => (d \in X <=> d \in Y)
  PROVE  /\ IsFiniteSet(Y) /\ Cardinality(X) \in Nat /\ Cardinality(Y) \in Nat
         /\ (e \in X <=> e \in Y) => Cardinality(Y) = Cardinality(X)
         /\ e \notin X /\ e \in Y => Cardinality(Y) = Cardinality(X) + 1
         /\ e \in X /\ e \notin Y => Cardinality(Y) = Cardinality(X) - 1
<1>1. Cardinality(X) \in Nat
  BY FS_CardinalityType
<1>2. CASE e \in X <=> e \in Y
  <2>1. \A d : d \in X <=> d \in Y
    BY <1>2
  <2>2. X = Y
    BY <2>1
  <2> QED
    BY <1>1, <1>2, <2>2
<1>3. CASE e \notin X /\ e \in Y
  <2>1. Y = X \cup {e}
    BY <1>3
  <2>2. IsFiniteSet(Y) /\ Cardinality(Y) = Cardinality(X) + 1
    BY <1>3, <2>1, CountOneMore
  <2> QED
    BY <1>1, <1>3, <2>2
<1>4. CASE e \in X /\ e \notin Y
  <2>1. Y = X \ {e}
    BY <1>4
  <2>2. IsFiniteSet(Y) /\ Cardinality(Y) = Cardinality(X) - 1
    BY <1>4, <2>1, FS_RemoveElement
  <2>3. Cardinality(Y) \in Nat
    BY <2>2, FS_CardinalityType
  <2> QED
    BY <1>1, <1>4, <2>2, <2>3
<1> QED
  BY <1>2, <1>3, <1>4

(* A function that counts one more for one argument. *)
LEMMA EachOneMore ==
  ASSUME NEW D, NEW f \in [D -> Nat], NEW x \in D, IsFiniteSet(Each(f))
  PROVE  /\ IsFiniteSet(Each([f EXCEPT ![x] = @ + 1]))
         /\ Cardinality(Each(f)) \in Nat
         /\ Cardinality(Each([f EXCEPT ![x] = @ + 1])) = Cardinality(Each(f)) + 1
<1> SUFFICES ASSUME NEW g, g = [f EXCEPT ![x] = @ + 1]
             PROVE  /\ IsFiniteSet(Each(g)) /\ Cardinality(Each(f)) \in Nat
                    /\ Cardinality(Each(g)) = Cardinality(Each(f)) + 1
  OBVIOUS
<1> DEFINE n == f[x] + 1
<1>1. \A y, k : <<y, k>> \in Each(f) <=> y \in D /\ k \in 1 .. f[y]
  BY DEF Each
<1>2. \A y, k : <<y, k>> \in Each(g) <=> y \in D /\ k \in 1 .. g[y]
  BY DEF Each
<1>3. \A y, k : <<y, k>> \in Each(g) <=>
                  <<y, k>> \in Each(f) \/ <<y, k>> = <<x, n>>
  <2> TAKE y, k
  <2>1. CASE y = x
    <3>1. k \in 1 .. f[x] + 1 <=> k \in 1 .. f[x] \/ k = f[x] + 1
      OBVIOUS
    <3> QED
      BY <1>1, <1>2, <2>1, <3>1
  <2>2. CASE y # x
    BY <1>1, <1>2, <2>2
  <2> QED
    BY <2>1, <2>2
<1>4. \A h : \A e \in Each(h) : \E y, k : e = <<y, k>>
  BY DEF Each
<1>5. ASSUME NEW e
      PROVE  e \in Each(g) <=> e \in Each(f) \cup {<<x, n>>}
  <2>1. CASE \E y, k : e = <<y, k>>
    <3>1. PICK y, k : e = <<y, k>>
      BY <2>1
    <3> QED
      BY <1>3, <3>1
  <2>2. CASE ~ \E y, k : e = <<y, k>>
    BY <1>4, <2>2
  <2> QED
    BY <2>1, <2>2
<1>6. <<x, n>> \notin Each(f)
  BY <1>1
<1> HIDE DEF n
<1>7. Each(g) = Each(f) \cup {<<x, n>>}
  BY <1>5
<1>8. IsFiniteSet(Each(g)) /\ Cardinality(Each(g)) = Cardinality(Each(f)) + 1
  <2>1. PICK e : e = <<x, n>>
    OBVIOUS
  <2>2. Each(g) = Each(f) \cup {e} /\ e \notin Each(f)
    BY <1>6, <1>7, <2>1
  <2> QED
    BY <2>2, CountOneMore
<1>9. Cardinality(Each(f)) \in Nat
  BY FS_CardinalityType
<1> QED
  BY <1>8, <1>9

(* A function that counts nothing. *)
LEMMA EachOfNone ==
  ASSUME NEW D
  PROVE  Each([x \in D |-> 0]) = {}
BY DEF Each

-----------------------------------------------------------------------------
(* Lemmas about the statistics.                                            *)

(* The samples, one by one. *)
LEMMA SamplesAreOccurring ==
  ASSUME NEW D, D \subseteq Nat, NEW f \in [D -> Nat], NEW s \in Each(f)
  PROVE  s[1] \in Occurring(f) /\ s[1] \in Nat
<1>1. PICK v \in D, k \in Nat : s = <<v, k>> /\ k \in 1 .. f[v]
  BY DEF Each
<1>2. f[v] \in Nat
  OBVIOUS
<1> QED
  BY <1>1, <1>2 DEF Occurring

(* The smallest and the largest sample. *)
LEMMA Extremes ==
  ASSUME NEW D, D \subseteq Nat, IsFiniteSet(D), NEW f \in [D -> Nat],
         IsFiniteSet(Each(f)), Size(f) # 0
  PROVE  /\ Min(Occurring(f)) \in D /\ Max(Occurring(f)) \in D
         /\ \A s \in Each(f) : /\ Min(Occurring(f)) <= s[1]
                              /\ s[1] <= Max(Occurring(f))
<1>1. Occurring(f) \subseteq D /\ Occurring(f) \subseteq Nat
  BY DEF Occurring
<1>2. IsFiniteSet(Occurring(f))
  BY <1>1, FS_Subset
<1>3. Each(f) # {}
  BY FS_EmptySet DEF Size
<1>4. Occurring(f) # {}
  BY <1>3, SamplesAreOccurring
<1>5. /\ Min(Occurring(f)) \in Occurring(f)
      /\ \A v \in Occurring(f) : Min(Occurring(f)) <= v
  BY <1>1, <1>4, LeastOf
<1>6. /\ Max(Occurring(f)) \in Occurring(f)
      /\ \A v \in Occurring(f) : v <= Max(Occurring(f))
  BY <1>1, <1>2, <1>4, GreatestOf
<1> QED
  BY <1>1, <1>5, <1>6, SamplesAreOccurring

(* The sum of the samples is at least their number times the smallest, and *)
(* at most their number times the largest.                                 *)
LEMMA SumBetween ==
  ASSUME NEW D, D \subseteq Nat, IsFiniteSet(D), NEW f \in [D -> Nat],
         IsFiniteSet(Each(f)), Size(f) # 0
  PROVE  /\ Min(Occurring(f)) * Size(f) <= Sum(f)
         /\ Sum(f) <= Max(Occurring(f)) * Size(f)
<1> DEFINE U  == UNION {{s} \X (1 .. s[1]) : s \in Each(f)}
           lo == Min(Occurring(f))
           hi == Max(Occurring(f))
<1>1. /\ lo \in Nat /\ hi \in Nat
      /\ \A s \in Each(f) : lo <= s[1] /\ s[1] <= hi /\ s[1] \in Nat
  BY Extremes, SamplesAreOccurring
<1>2. /\ Sum(f) = Cardinality(U) /\ Size(f) = Cardinality(Each(f))
      /\ Cardinality(Each(f)) \in Nat
  BY FS_CardinalityType DEF Sum, Size
<1> HIDE DEF lo, hi
<1>3. Each(f) \X (1 .. lo) \subseteq U
  <2> SUFFICES ASSUME NEW s \in Each(f), NEW k \in 1 .. lo
               PROVE  <<s, k>> \in U
    OBVIOUS
  <2>1. k \in 1 .. s[1]
    BY <1>1
  <2> QED
    BY <2>1
<1>4. U \subseteq Each(f) \X (1 .. hi)
  <2> SUFFICES ASSUME NEW s \in Each(f), NEW k \in 1 .. s[1]
               PROVE  k \in 1 .. hi
    OBVIOUS
  <2> QED
    BY <1>1
<1> HIDE DEF U
<1>5. ASSUME NEW n \in Nat
      PROVE  /\ IsFiniteSet(Each(f) \X (1 .. n))
             /\ Cardinality(Each(f) \X (1 .. n)) = n * Size(f)
  <2>1. IsFiniteSet(1 .. n) /\ Cardinality(1 .. n) = n
    BY FS_Interval
  <2>2. /\ IsFiniteSet(Each(f) \X (1 .. n))
        /\ Cardinality(Each(f) \X (1 .. n)) = Cardinality(Each(f)) * n
    BY <2>1, FS_Product
  <2> QED
    BY <1>2, <2>2
<1>6. IsFiniteSet(U) /\ Cardinality(U) <= hi * Size(f)
  <2>1. /\ IsFiniteSet(Each(f) \X (1 .. hi))
        /\ Cardinality(Each(f) \X (1 .. hi)) = hi * Size(f)
    BY <1>1, <1>5
  <2>2. IsFiniteSet(U) /\ Cardinality(U) <= Cardinality(Each(f) \X (1 .. hi))
    BY <1>4, <2>1, FS_Subset
  <2> QED
    BY <2>1, <2>2
<1>7. lo * Size(f) <= Cardinality(U)
  <2>1. Cardinality(Each(f) \X (1 .. lo)) = lo * Size(f)
    BY <1>1, <1>5
  <2>2. Cardinality(Each(f) \X (1 .. lo)) <= Cardinality(U)
    BY <1>3, <1>6, FS_Subset
  <2> QED
    BY <2>1, <2>2
<1> QED
  BY <1>2, <1>6, <1>7 DEF lo, hi

(* sorted[i] of the sorted vector: it lies between the extremes, grows     *)
(* with its index, and more than i samples are at most it.                 *)
LEMMA SortedOrdered ==
  ASSUME NEW D, D \subseteq Nat, IsFiniteSet(D), NEW f \in [D -> Nat],
         IsFiniteSet(Each(f)), Size(f) # 0,
         NEW i \in Nat, NEW j \in Nat, i <= j, j < Size(f)
  PROVE  /\ Sorted(f, i) \in D /\ Sorted(f, j) \in D
         /\ Min(Occurring(f)) <= Sorted(f, i)
         /\ Sorted(f, i) <= Sorted(f, j)
         /\ Sorted(f, j) <= Max(Occurring(f))
         /\ UpTo(f, Sorted(f, i)) \in Nat /\ i < UpTo(f, Sorted(f, i))
<1> DEFINE G(n) == {v \in D : n < UpTo(f, v)}
           hi   == Max(Occurring(f))
<1>1. \A v : UpTo(f, v) \in Nat
  <2> TAKE v
  <2>1. IsFiniteSet({s \in Each(f) : s[1] <= v})
    BY FS_Subset
  <2> QED
    BY <2>1, FS_CardinalityType DEF UpTo
<1>2. /\ hi \in D /\ Min(Occurring(f)) \in D
      /\ \A s \in Each(f) : Min(Occurring(f)) <= s[1] /\ s[1] <= hi
                          /\ s[1] \in Nat
  BY Extremes, SamplesAreOccurring
<1> HIDE DEF hi
<1>3. UpTo(f, hi) = Size(f)
  <2>1. {s \in Each(f) : s[1] <= hi} = Each(f)
    BY <1>2
  <2> QED
    BY <2>1 DEF UpTo, Size
<1>4. hi \in G(i) /\ hi \in G(j) /\ G(j) \subseteq G(i) /\ G(i) \subseteq Nat
  <2>1. i < Size(f)
    <3>1. Size(f) \in Nat
      BY FS_CardinalityType DEF Size
    <3> QED
      BY <3>1
  <2>2. \A v \in D : j < UpTo(f, v) => i < UpTo(f, v)
    BY <1>1
  <2> QED
    BY <1>2, <1>3, <2>1, <2>2
<1>5. Sorted(f, i) = Min(G(i)) /\ Sorted(f, j) = Min(G(j))
  BY DEF Sorted
<1>6. /\ Min(G(i)) \in G(i) /\ \A v \in G(i) : Min(G(i)) <= v
      /\ Min(G(j)) \in G(j) /\ \A v \in G(j) : Min(G(j)) <= v
  <2>1. G(i) # {} /\ G(j) # {} /\ G(j) \subseteq Nat
    BY <1>4
  <2> HIDE DEF G
  <2> QED
    BY <1>4, <2>1, LeastOf
<1>7. ASSUME NEW v \in G(i)
      PROVE  Min(Occurring(f)) <= v
  <2>1. UpTo(f, v) # 0 /\ v \in Nat
    BY <1>1
  <2>2. {s \in Each(f) : s[1] <= v} # {}
    BY <2>1, FS_EmptySet DEF UpTo
  <2>3. PICK s \in Each(f) : s[1] <= v
    BY <2>2
  <2>4. Min(Occurring(f)) \in Nat /\ s[1] \in Nat /\ Min(Occurring(f)) <= s[1]
    BY <1>2
  <2> QED
    BY <2>1, <2>3, <2>4
<1>8. Min(G(i)) \in D /\ Min(G(j)) \in D
  BY <1>6
<1>9. UpTo(f, Min(G(i))) \in Nat /\ i < UpTo(f, Min(G(i)))
  BY <1>1, <1>6
<1> QED
  BY <1>4, <1>5, <1>6, <1>7, <1>8, <1>9 DEF hi

(* The indices of the percentiles are in their order, and in the vector. *)
LEMMA IndicesOrdered ==
  ASSUME NEW n \in Nat, n # 0
  PROVE  /\ PercentileIndex(50, n) \in Nat /\ PercentileIndex(90, n) \in Nat
         /\ PercentileIndex(99, n) \in Nat
         /\ PercentileIndex(50, n) <= PercentileIndex(90, n)
         /\ PercentileIndex(90, n) <= PercentileIndex(99, n)
         /\ PercentileIndex(99, n) < n
BY DEF PercentileIndex

(* Cutting the fraction of an index costs less than one sample. *)
LEMMA IndexCut ==
  ASSUME NEW n \in Nat, n # 0, NEW p \in {50, 90, 99},
         NEW k \in Nat, PercentileIndex(p, n) < k
  PROVE  p * (n - 1) < 100 * k
BY DEF PercentileIndex

=============================================================================
