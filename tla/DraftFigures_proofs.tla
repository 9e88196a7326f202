------------------------- MODULE DraftFigures_proofs ------------------------
(***************************************************************************)
(* Proofs about the figures of a draft: its taxes (DraftTaxes and          *)
(* ImportTaxes), for any items, values, weights, costs, rules and          *)
(* requests, and its number (NfeNumbering), for any handlers, limit and    *)
(* inputs.  The two specifications share nothing but this module.          *)
(*                                                                         *)
(* Arithmetic.  A Total is a fold, so facts about it go by induction on    *)
(* the subsets of its domain (AllSubsets), on sets and not on predicates.  *)
(* The fractions that the cut to whole cents leaves add up to less than    *)
(* one cent per item (CentsLeft), so the missing cents find enough items,  *)
(* and exactly that many items come first in a strict order (FirstPlaces): *)
(* an allocation loses no cent.  The ICMS is rounded two or three times,   *)
(* and the errors add up to less than two cents.                           *)
(*                                                                         *)
(* The draft.  A handler that has missed no commit holds the draft (Holds),*)
(* so until the first race the payload and the rows agree (Exact).  After  *)
(* a race they may not, but a row keeps its types and an ICMS that was     *)
(* computed as a whole (Rowed), no request touches the declared ICMS, and  *)
(* the XML is built only of rows and a payload that balance (Printed).     *)
(*                                                                         *)
(* The number.  FOR UPDATE keeps at most one transaction on an existing    *)
(* row (RowLocked), so what an open transaction computed continues the     *)
(* committed row (PendingRows): a reserving one holds exactly the numbers  *)
(* after the committed current one, and a configuring one skips exactly    *)
(* those.  A commit therefore extends 1..current without a hole.           *)
(***************************************************************************)
EXTENDS DraftTaxes, NfeNumbering, Folds, FiniteSetTheorems, WellFoundedInduction, TLAPS

-----------------------------------------------------------------------------
(* Sums over the items *)

\* A nonempty set of naturals has a least element.
LEMMA LeastNatural ==
  ASSUME NEW T \in SUBSET Nat, T # {}
  PROVE  \E m \in T : \A k \in T : m <= k
<1> DEFINE Less == {z \in Nat \X Nat : z[1] < z[2]}
<1>1. IsWellFoundedOn(Less, Nat)
  BY NatLessThanWellFounded DEF OpToRel
<1> HIDE DEF Less
<1>2. PICK m \in T : \A k \in T : <<k, m>> \notin Less
  BY <1>1, WFMin
<1>3. ASSUME NEW k \in T PROVE m <= k
  <2>1. k \in Nat /\ m \in Nat
    OBVIOUS
  <2>2. <<k, m>> \in Nat \X Nat /\ <<k, m>>[1] = k /\ <<k, m>>[2] = m
    BY <2>1
  <2>3. ~(k < m)
    BY <1>2, <2>2 DEF Less
  <2> QED
    BY <2>1, <2>3
<1> QED
  BY <1>3

\* A set that holds 0 and the successor of what it holds has every natural.
LEMMA AllNaturals ==
  ASSUME NEW G, 0 \in G, \A n \in Nat : n \in G => n + 1 \in G
  PROVE  Nat \subseteq G
<1> SUFFICES ASSUME Nat \ G # {} PROVE FALSE
  OBVIOUS
<1>1. PICK m \in Nat \ G : \A k \in Nat \ G : m <= k
  BY LeastNatural
<1>2. m # 0 /\ m - 1 \in Nat
  BY <1>1
<1>3. m - 1 \in G
  BY <1>1, <1>2
<1>4. (m - 1) + 1 \in G /\ (m - 1) + 1 = m
  BY <1>2, <1>3
<1> QED
  BY <1>1, <1>4

\* The element of a set that is added next, and what is left without it.
First(s) == CHOOSE x \in s : TRUE
Rest(s) == s \ {First(s)}

\* The sums of f over the subsets of its domain, one element after the other.
Summed(f, s, sums) == IF s = {} THEN 0 ELSE f[First(s)] + sums[Rest(s)]
Sums(f) == CHOOSE sums : sums = [s \in SUBSET (DOMAIN f) |-> Summed(f, s, sums)]

\* A total is the sum over the whole domain.
LEMMA TotalIsSum == ASSUME NEW f PROVE Total(f) = Sums(f)[DOMAIN f]
BY DEF Total, FoldFunction, FoldFunctionOnSet, MapThenFoldSet, Sums, Summed, First, Rest

\* Taking elements away ends.
LEMMA RestOfFinite ==
  ASSUME NEW S, IsFiniteSet(S), NEW s \in SUBSET S, s # {}
  PROVE  /\ First(s) \in s /\ Rest(s) \in SUBSET S /\ IsFiniteSet(s)
         /\ Cardinality(s) \in Nat /\ Cardinality(Rest(s)) \in Nat
         /\ Cardinality(Rest(s)) = Cardinality(s) - 1
<1>1. First(s) \in s
  BY DEF First
<1>2. IsFiniteSet(s)
  BY FS_Subset
<1>3. IsFiniteSet(Rest(s)) /\ Cardinality(Rest(s)) = Cardinality(s) - 1
  BY <1>1, <1>2, FS_RemoveElement DEF Rest
<1> QED
  BY <1>1, <1>2, <1>3, FS_CardinalityType DEF Rest

\* A set that holds {} and every set whose rest it holds has every subset.
LEMMA AllSubsets ==
  ASSUME NEW S, IsFiniteSet(S), NEW G, {} \in G,
         \A s \in SUBSET S : s # {} /\ Rest(s) \in G => s \in G
  PROVE  SUBSET S \subseteq G
<1> DEFINE Within(n) == \A s \in SUBSET S : Cardinality(s) = n => s \in G
           N == {n \in Nat : Within(n)}
<1>1. 0 \in N
  BY FS_Subset, FS_EmptySet
<1>2. ASSUME NEW n \in Nat, n \in N PROVE n + 1 \in N
  <2> SUFFICES ASSUME NEW s \in SUBSET S, Cardinality(s) = n + 1 PROVE s \in G
    OBVIOUS
  <2>1. s # {}
    BY FS_EmptySet
  <2>2. Rest(s) \in SUBSET S /\ Cardinality(Rest(s)) = n
    BY <2>1, RestOfFinite
  <2> QED
    BY <1>2, <2>1, <2>2
<1> HIDE DEF N
<1>3. Nat \subseteq N
  BY <1>1, <1>2, AllNaturals
<1>4. \A s \in SUBSET S : Cardinality(s) \in N
  BY <1>3, FS_Subset, FS_CardinalityType
<1> QED
  BY <1>4 DEF N

\* There are such sums: what is known of the sets of n elements makes the sums
\* of those of n + 1.
LEMMA SumsExist ==
  ASSUME NEW f, IsFiniteSet(DOMAIN f)
  PROVE  Sums(f) = [s \in SUBSET (DOMAIN f) |-> Summed(f, s, Sums(f))]
<1> DEFINE S == DOMAIN f
           Small(n) == {s \in SUBSET S : Cardinality(s) <= n}
           N == {n \in Nat : \E sums : sums = [s \in Small(n) |-> Summed(f, s, sums)]}
<1>0. \A s \in SUBSET S : IsFiniteSet(s) /\ Cardinality(s) \in Nat
  BY FS_Subset, FS_CardinalityType
<1>1. 0 \in N
  <2>1. \A s \in Small(0) : s = {}
    BY <1>0, FS_EmptySet
  <2> DEFINE zero == [s \in Small(0) |-> 0]
  <2>2. zero = [s \in Small(0) |-> Summed(f, s, zero)]
    BY <2>1 DEF Summed
  <2> QED
    BY <2>2
<1>2. ASSUME NEW n \in Nat, n \in N PROVE n + 1 \in N
  <2>1. PICK sums : sums = [s \in Small(n) |-> Summed(f, s, sums)]
    BY <1>2
  <2> DEFINE more == [s \in Small(n + 1) |-> Summed(f, s, sums)]
  <2>2. ASSUME NEW s \in Small(n + 1), s # {} PROVE more[Rest(s)] = sums[Rest(s)]
    <3>1. Rest(s) \in SUBSET S /\ Cardinality(Rest(s)) <= n
      BY <2>2, RestOfFinite
    <3>2. Rest(s) \in Small(n) /\ Rest(s) \in Small(n + 1)
      BY <1>0, <3>1
    <3> HIDE DEF Small
    <3>3. sums[Rest(s)] = Summed(f, Rest(s), sums)
      BY <2>1, <3>2
    <3> QED
      BY <3>2, <3>3
  <2>3. \A s \in Small(n + 1) : Summed(f, s, sums) = Summed(f, s, more)
    <3> HIDE DEF Small, more
    <3> QED BY <2>2 DEF Summed
  <2>4. more = [s \in Small(n + 1) |-> Summed(f, s, more)]
    BY <2>3
  <2> HIDE DEF more, Small
  <2>5. \E g : g = [s \in Small(n + 1) |-> Summed(f, s, g)]
    BY <2>4
  <2> QED
    BY <2>5
<1>3. Nat \subseteq N
  <2> HIDE DEF N
  <2> QED BY <1>1, <1>2, AllNaturals
<1>4. Cardinality(S) \in N
  BY <1>0, <1>3
<1>5. Small(Cardinality(S)) = SUBSET S
  BY <1>0, FS_Subset
<1>6. \E sums : sums = [s \in SUBSET S |-> Summed(f, s, sums)]
  BY <1>4, <1>5
<1> QED
  BY <1>6 DEF Sums

\* Summing nothing gives 0; summing more adds one element.
LEMMA SumsStep ==
  ASSUME NEW S, IsFiniteSet(S), NEW f, DOMAIN f = S
  PROVE  /\ Sums(f)[{}] = 0
         /\ \A s \in SUBSET S : s # {} => Sums(f)[s] = f[First(s)] + Sums(f)[Rest(s)]
<1>1. Sums(f) = [s \in SUBSET S |-> Summed(f, s, Sums(f))]
  BY SumsExist
<1>2. \A s \in SUBSET S : Sums(f)[s] = Summed(f, s, Sums(f))
  BY <1>1
<1>3. {} \in SUBSET S
  OBVIOUS
<1> QED
  BY <1>2, <1>3 DEF Summed

\* A total of integers is one.
LEMMA TotalInt ==
  ASSUME NEW S, IsFiniteSet(S), NEW f \in [S -> Int]
  PROVE  Total(f) \in Int /\ \A s \in SUBSET S : Sums(f)[s] \in Int
<1> DEFINE G == {s \in SUBSET S : Sums(f)[s] \in Int}
<1>1. {} \in G
  BY SumsStep
<1>2. ASSUME NEW s \in SUBSET S, s # {}, Rest(s) \in G PROVE s \in G
  <2>1. f[First(s)] \in Int /\ Sums(f)[Rest(s)] \in Int
    BY <1>2, RestOfFinite
  <2>2. Sums(f)[s] = f[First(s)] + Sums(f)[Rest(s)]
    BY <1>2, SumsStep
  <2> QED
    BY <2>1, <2>2
<1>3. SUBSET S \subseteq G
  <2> HIDE DEF G
  <2> QED BY <1>1, <1>2, AllSubsets
<1> QED
  BY <1>3, TotalIsSum

\* The total of sums is the sum of the totals.
LEMMA TotalAdd ==
  ASSUME NEW S, IsFiniteSet(S),
         NEW f \in [S -> Int], NEW g \in [S -> Int], NEW h \in [S -> Int],
         \A i \in S : h[i] = f[i] + g[i]
  PROVE  Total(h) = Total(f) + Total(g)
<1> DEFINE G == {s \in SUBSET S : Sums(h)[s] = Sums(f)[s] + Sums(g)[s]}
<1>1. {} \in G
  BY SumsStep
<1>2. ASSUME NEW s \in SUBSET S, s # {}, Rest(s) \in G PROVE s \in G
  <2>1. First(s) \in S /\ Rest(s) \in SUBSET S
    BY <1>2, RestOfFinite
  <2>2. /\ Sums(f)[s] = f[First(s)] + Sums(f)[Rest(s)]
        /\ Sums(g)[s] = g[First(s)] + Sums(g)[Rest(s)]
        /\ Sums(h)[s] = h[First(s)] + Sums(h)[Rest(s)]
    BY <1>2, SumsStep
  <2>3. /\ Sums(f)[Rest(s)] \in Int /\ Sums(g)[Rest(s)] \in Int
        /\ f[First(s)] \in Int /\ g[First(s)] \in Int
    BY <2>1, TotalInt
  <2>4. h[First(s)] = f[First(s)] + g[First(s)]
    BY <2>1
  <2>5. Sums(h)[Rest(s)] = Sums(f)[Rest(s)] + Sums(g)[Rest(s)]
    BY <1>2
  <2> QED
    BY <2>2, <2>3, <2>4, <2>5
<1>3. SUBSET S \subseteq G
  <2> HIDE DEF G
  <2> QED BY <1>1, <1>2, AllSubsets
<1> QED
  BY <1>3, TotalIsSum

\* A factor may be taken out.
LEMMA TotalScale ==
  ASSUME NEW S, IsFiniteSet(S), NEW a \in Int,
         NEW f \in [S -> Int], NEW h \in [S -> Int], \A i \in S : h[i] = a * f[i]
  PROVE  Total(h) = a * Total(f)
<1> DEFINE G == {s \in SUBSET S : Sums(h)[s] = a * Sums(f)[s]}
<1>1. {} \in G
  BY SumsStep
<1>2. ASSUME NEW s \in SUBSET S, s # {}, Rest(s) \in G PROVE s \in G
  <2>1. First(s) \in S /\ Rest(s) \in SUBSET S
    BY <1>2, RestOfFinite
  <2>2. /\ Sums(f)[s] = f[First(s)] + Sums(f)[Rest(s)]
        /\ Sums(h)[s] = h[First(s)] + Sums(h)[Rest(s)]
    BY <1>2, SumsStep
  <2>3. Sums(f)[Rest(s)] \in Int /\ f[First(s)] \in Int
    BY <2>1, TotalInt
  <2>4. h[First(s)] = a * f[First(s)] /\ Sums(h)[Rest(s)] = a * Sums(f)[Rest(s)]
    BY <1>2, <2>1
  <2>5. \A x, y \in Int : a * x + a * y = a * (x + y)
    OBVIOUS
  <2> QED
    BY <2>2, <2>3, <2>4, <2>5
<1>3. SUBSET S \subseteq G
  <2> HIDE DEF G
  <2> QED BY <1>1, <1>2, AllSubsets
<1> QED
  BY <1>3, TotalIsSum

\* A total grows with what it is made of.
LEMMA TotalMonotone ==
  ASSUME NEW S, IsFiniteSet(S), NEW f \in [S -> Int], NEW g \in [S -> Int],
         \A i \in S : f[i] <= g[i]
  PROVE  Total(f) <= Total(g)
<1> DEFINE G == {s \in SUBSET S : Sums(f)[s] <= Sums(g)[s]}
<1>1. {} \in G
  BY SumsStep
<1>2. ASSUME NEW s \in SUBSET S, s # {}, Rest(s) \in G PROVE s \in G
  <2>1. First(s) \in S /\ Rest(s) \in SUBSET S
    BY <1>2, RestOfFinite
  <2>2. /\ Sums(f)[s] = f[First(s)] + Sums(f)[Rest(s)]
        /\ Sums(g)[s] = g[First(s)] + Sums(g)[Rest(s)]
    BY <1>2, SumsStep
  <2>3. /\ Sums(f)[Rest(s)] \in Int /\ Sums(g)[Rest(s)] \in Int
        /\ f[First(s)] \in Int /\ g[First(s)] \in Int
    BY <2>1, TotalInt
  <2>4. f[First(s)] <= g[First(s)] /\ Sums(f)[Rest(s)] <= Sums(g)[Rest(s)]
    BY <1>2, <2>1
  <2>5. f[First(s)] + Sums(f)[Rest(s)] <= g[First(s)] + Sums(g)[Rest(s)]
    BY <2>3, <2>4
  <2> QED
    BY <2>2, <2>5
<1>3. SUBSET S \subseteq G
  <2> HIDE DEF G
  <2> QED BY <1>1, <1>2, AllSubsets
<1> QED
  BY <1>3, TotalIsSum

Ones(S, A) == [i \in S |-> IF i \in A THEN 1 ELSE 0]

\* A total of ones counts them.
LEMMA TotalCount ==
  ASSUME NEW S, IsFiniteSet(S), NEW A \in SUBSET S
  PROVE  Ones(S, A) \in [S -> Int] /\ Total(Ones(S, A)) = Cardinality(A)
<1> DEFINE f == Ones(S, A)
           G == {s \in SUBSET S : Sums(f)[s] = Cardinality(s \cap A)}
<1>0. f \in [S -> Int] /\ \A i \in S : f[i] = IF i \in A THEN 1 ELSE 0
  BY DEF Ones
<1> HIDE DEF f
<1>1. {} \in G
  BY <1>0, SumsStep, FS_EmptySet
<1>2. ASSUME NEW s \in SUBSET S, s # {}, Rest(s) \in G PROVE s \in G
  <2>1. First(s) \in s /\ Rest(s) \in SUBSET S /\ IsFiniteSet(s)
    BY <1>2, RestOfFinite
  <2>2. Sums(f)[s] = f[First(s)] + Cardinality(Rest(s) \cap A)
    BY <1>0, <1>2, SumsStep
  <2>3. IsFiniteSet(s \cap A)
    BY <2>1, FS_Intersection
  <2>4. Rest(s) \cap A = (s \cap A) \ {First(s)}
    BY DEF Rest
  <2>5. Cardinality(s \cap A) \in Nat
    BY <2>3, FS_CardinalityType
  <2>6. Cardinality(Rest(s) \cap A) =
          IF First(s) \in s \cap A THEN Cardinality(s \cap A) - 1 ELSE Cardinality(s \cap A)
    BY <2>3, <2>4, FS_RemoveElement
  <2>7. CASE First(s) \in A
    BY <1>0, <2>1, <2>2, <2>5, <2>6, <2>7
  <2>8. CASE First(s) \notin A
    BY <1>0, <2>1, <2>2, <2>5, <2>6, <2>8
  <2> QED
    BY <2>7, <2>8
<1>3. SUBSET S \subseteq G
  <2> HIDE DEF G
  <2> QED BY <1>1, <1>2, AllSubsets
<1>4. S \cap A = A
  OBVIOUS
<1>5. Total(f) = Cardinality(A)
  BY <1>0, <1>3, <1>4, TotalIsSum
<1> QED
  BY <1>0, <1>5 DEF f

\* Of naturals none is above the total.
LEMMA TotalAtLeast ==
  ASSUME NEW S, IsFiniteSet(S), NEW f \in [S -> Nat], NEW i \in S
  PROVE  f[i] <= Total(f)
<1>1. PICK one \in [S -> Int] : /\ \A j \in S : one[j] = IF j = i THEN 1 ELSE 0
                                /\ Total(one) = 1
  <2>1. {i} \in SUBSET S /\ Cardinality({i}) = 1
    BY FS_Singleton
  <2>2. Ones(S, {i}) \in [S -> Int] /\ Total(Ones(S, {i})) = 1
    BY <2>1, TotalCount
  <2>3. \A j \in S : Ones(S, {i})[j] = IF j = i THEN 1 ELSE 0
    BY DEF Ones
  <2> QED
    BY <2>2, <2>3
<1>2. PICK x \in Nat : x = f[i]
  OBVIOUS
<1>3. PICK g \in [S -> Int] : \A j \in S : g[j] = x * one[j]
  <2>1. \A j \in S : x * one[j] \in Int
    BY <1>1
  <2>2. [j \in S |-> x * one[j]] \in [S -> Int]
    BY <2>1
  <2> QED
    BY <2>2
<1>4. Total(g) = x * Total(one)
  <2>1. x \in Int
    OBVIOUS
  <2> QED
    BY <1>3, <2>1, TotalScale
<1>5. \A j \in S : g[j] <= f[j]
  BY <1>1, <1>2, <1>3
<1>6. f \in [S -> Int]
  OBVIOUS
<1>7. Total(g) <= Total(f)
  BY <1>5, <1>6, TotalMonotone
<1> QED
  BY <1>1, <1>2, <1>4, <1>7

-----------------------------------------------------------------------------
(* Sharing an expense *)

\* Division with rest.
LEMMA Quotient ==
  ASSUME NEW n \in Nat, NEW W \in Nat, W > 0
  PROVE  /\ n \div W \in Nat /\ n % W \in Nat /\ n % W < W
         /\ n = W * (n \div W) + (n % W)
OBVIOUS

\* A positive factor can be cancelled.
LEMMA Multiples ==
  ASSUME NEW W \in Nat, W > 0, NEW x \in Int, NEW y \in Int
  PROVE  /\ W * x >= 0 => x >= 0
         /\ W * x < W * y => x < y
OBVIOUS

\* Where there is no expense nobody bears any.
LEMMA TotalOfNothing ==
  ASSUME NEW S, IsFiniteSet(S), NEW w \in [S -> Nat]
  PROVE  Unshared(w) \in [S -> Nat] /\ Total(Unshared(w)) = 0
<1>1. PICK z \in [S -> Int] : z = Unshared(w) /\ \A i \in S : z[i] = 0
  <2>1. Unshared(w) = [i \in S |-> 0] /\ [i \in S |-> 0] \in [S -> Int]
    BY DEF Unshared
  <2> QED
    BY <2>1
<1>2. \A i \in S : z[i] = 0 * z[i]
  BY <1>1
<1>3. Total(z) = 0 * Total(z) /\ Total(z) \in Int
  BY <1>2, TotalScale, TotalInt
<1>4. z \in [S -> Nat] /\ Total(z) = 0
  BY <1>1, <1>3
<1> QED
  BY <1>1, <1>4

\* What lies below a bound stays below it together.
LEMMA TotalBelow ==
  ASSUME NEW S, IsFiniteSet(S), S # {}, NEW f \in [S -> Nat], NEW W \in Nat,
         \A i \in S : f[i] < W
  PROVE  0 <= Total(f) /\ Total(f) < W * Cardinality(S)
<1>1. Cardinality(S) \in Nat /\ Cardinality(S) > 0
  BY FS_CardinalityType, FS_EmptySet
<1>2. PICK one \in [S -> Int] : (\A i \in S : one[i] = 1) /\ Total(one) = Cardinality(S)
  <2>1. S \in SUBSET S /\ \A i \in S : Ones(S, S)[i] = 1
    BY DEF Ones
  <2> QED
    BY <2>1, TotalCount
<1>3. PICK g \in [S -> Int] : \A i \in S : g[i] = W * one[i]
  <2>1. [i \in S |-> W * one[i]] \in [S -> Int]
    OBVIOUS
  <2> QED
    BY <2>1
<1>4. PICK h \in [S -> Int] : \A i \in S : h[i] = f[i] + one[i]
  <2>1. [i \in S |-> f[i] + one[i]] \in [S -> Int]
    OBVIOUS
  <2> QED
    BY <2>1
<1>5. f \in [S -> Int]
  OBVIOUS
<1>6. Total(g) = W * Total(one)
  BY <1>3, TotalScale
<1>7. Total(f) \in Int /\ Total(h) = Total(f) + Total(one)
  <2>1. Total(f) \in Int
    BY <1>5, TotalInt
  <2>2. Total(h) = Total(f) + Total(one)
    BY <1>4, <1>5, TotalAdd
  <2> QED
    BY <2>1, <2>2
<1>8. \A i \in S : h[i] <= g[i]
  BY <1>2, <1>3, <1>4
<1>9. Total(h) <= Total(g)
  BY <1>8, TotalMonotone
<1>10. PICK i \in S : TRUE
  OBVIOUS
<1>11. 0 <= Total(f)
  <2>1. f[i] \in Nat /\ f[i] <= Total(f)
    BY TotalAtLeast
  <2> QED
    BY <1>7, <2>1
<1>12. Total(f) + Cardinality(S) <= W * Cardinality(S)
  BY <1>2, <1>6, <1>7, <1>9
<1>13. W * Cardinality(S) \in Int
  BY <1>1
<1> QED
  BY <1>1, <1>7, <1>11, <1>12, <1>13

\* The cut to whole cents leaves less than a cent for each item.
LEMMA CentsLeft ==
  ASSUME NEW S, IsFiniteSet(S), S # {}, NEW w \in [S -> Nat], Total(w) > 0,
         NEW total \in Nat
  PROVE  /\ Floors(total, w) \in [S -> Nat] /\ Fractions(total, w) \in [S -> Nat]
         /\ Total(Floors(total, w)) \in Int
         /\ total - Total(Floors(total, w)) \in 0..(Cardinality(S) - 1)
<1>1. PICK W \in Nat : W = Total(w) /\ W > 0
  <2>1. w \in [S -> Int]
    OBVIOUS
  <2>2. Total(w) \in Int
    BY <2>1, TotalInt
  <2> QED
    BY <2>2
<1>2. \A i \in S : total * w[i] \in Nat
  OBVIOUS
<1>3. PICK F \in [S -> Nat] : /\ F = Floors(total, w)
                              /\ \A i \in S : F[i] = (total * w[i]) \div W
  <2>1. \A i \in S : (total * w[i]) \div W \in Nat
    BY <1>1, <1>2, Quotient
  <2>2. Floors(total, w) = [i \in S |-> (total * w[i]) \div W]
    BY <1>1 DEF Floors
  <2> QED
    BY <2>1, <2>2
<1>4. PICK R \in [S -> Nat] : /\ R = Fractions(total, w)
                              /\ \A i \in S : R[i] = (total * w[i]) % W
  <2>1. \A i \in S : (total * w[i]) % W \in Nat
    BY <1>1, <1>2, Quotient
  <2>2. Fractions(total, w) = [i \in S |-> (total * w[i]) % W]
    BY <1>1 DEF Fractions
  <2> QED
    BY <2>1, <2>2
<1>5. ASSUME NEW i \in S PROVE total * w[i] = W * F[i] + R[i] /\ R[i] < W
  <2>1. PICK n \in Nat : n = total * w[i]
    BY <1>2
  <2>2. F[i] = n \div W /\ R[i] = n % W
    BY <1>3, <1>4, <2>1
  <2>3. n = W * (n \div W) + (n % W) /\ n % W < W
    BY <1>1, Quotient
  <2> QED
    BY <2>1, <2>2, <2>3
<1>6. F \in [S -> Int] /\ R \in [S -> Int] /\ w \in [S -> Int] /\ total \in Int /\ W \in Int
  OBVIOUS
<1>7. Total(F) \in Int /\ Total(R) \in Int
  BY <1>6, TotalInt
<1>8. PICK p \in [S -> Int] : \A i \in S : p[i] = total * w[i]
  <2>1. [i \in S |-> total * w[i]] \in [S -> Int]
    OBVIOUS
  <2> QED
    BY <2>1
<1>9. PICK q \in [S -> Int] : \A i \in S : q[i] = W * F[i]
  <2>1. [i \in S |-> W * F[i]] \in [S -> Int]
    OBVIOUS
  <2> QED
    BY <2>1
<1>10. Total(p) = total * W
  BY <1>1, <1>6, <1>8, TotalScale
<1>11. Total(q) = W * Total(F)
  BY <1>6, <1>9, TotalScale
<1>12. Total(p) = Total(q) + Total(R)
  <2>1. \A i \in S : p[i] = q[i] + R[i]
    BY <1>5, <1>8, <1>9
  <2> QED
    BY <1>6, <2>1, TotalAdd
<1>13. 0 <= Total(R) /\ Total(R) < W * Cardinality(S)
  BY <1>5, TotalBelow
<1>14. PICK x \in Int : x = total - Total(F)
  BY <1>7
<1>15. W * x = Total(R)
  <2>1. total * W = W * Total(F) + Total(R)
    BY <1>10, <1>11, <1>12
  <2>2. W * (total - Total(F)) = total * W - W * Total(F)
    BY <1>7
  <2>3. W * Total(F) \in Int /\ total * W \in Int
    BY <1>7
  <2> QED
    BY <1>7, <1>14, <2>1, <2>2, <2>3
<1>16. Cardinality(S) \in Nat
  BY FS_CardinalityType
<1>17. x >= 0 /\ x < Cardinality(S)
  BY <1>1, <1>13, <1>15, <1>16, Multiples
<1> QED
  BY <1>3, <1>4, <1>7, <1>14, <1>16, <1>17

\* As many items come among the first n as there are places.
LEMMA FirstPlaces ==
  ASSUME NEW S \in SUBSET Nat, IsFiniteSet(S), NEW R \in [S -> Nat],
         NEW n \in 0..Cardinality(S)
  PROVE  Cardinality({i \in S : Cardinality(Before(R, i)) < n}) = n
<1>1. Cardinality(S) \in Nat
  BY FS_CardinalityType
<1>2. ASSUME NEW i \in S
      PROVE  /\ Before(R, i) \in SUBSET S /\ i \notin Before(R, i) /\ IsFiniteSet(Before(R, i))
             /\ Cardinality(Before(R, i)) \in 0..(Cardinality(S) - 1)
  <2>1. Before(R, i) \in SUBSET S /\ i \notin Before(R, i)
    BY DEF Before
  <2>2. IsFiniteSet(Before(R, i)) /\ Cardinality(Before(R, i)) <= Cardinality(S)
        /\ (Cardinality(S) = Cardinality(Before(R, i)) => S = Before(R, i))
    BY <2>1, FS_Subset
  <2>3. Cardinality(Before(R, i)) \in Nat
    BY <2>2, FS_CardinalityType
  <2> QED
    BY <1>1, <2>1, <2>2, <2>3
<1>3. ASSUME NEW i \in S, NEW j \in S, i \in Before(R, j)
      PROVE  Cardinality(Before(R, i)) < Cardinality(Before(R, j))
  <2>1. ASSUME NEW k \in Before(R, i) PROVE k \in Before(R, j)
    <3>1. k \in S /\ k \in Nat /\ i \in Nat /\ j \in Nat
      BY DEF Before
    <3>2. R[k] \in Nat /\ R[i] \in Nat /\ R[j] \in Nat
      BY <3>1
    <3>3. R[k] > R[i] \/ (R[k] = R[i] /\ k < i)
      BY DEF Before
    <3>4. R[i] > R[j] \/ (R[i] = R[j] /\ i < j)
      BY <1>3 DEF Before
    <3>5. R[k] > R[j] \/ (R[k] = R[j] /\ k < j)
      BY <3>1, <3>2, <3>3, <3>4
    <3> QED
      BY <3>1, <3>5 DEF Before
  <2>2. Before(R, i) # Before(R, j)
    BY <1>2, <1>3
  <2>3. /\ Cardinality(Before(R, i)) <= Cardinality(Before(R, j))
        /\ Cardinality(Before(R, j)) # Cardinality(Before(R, i))
    BY <1>2, <2>1, <2>2, FS_Subset
  <2> QED
    BY <1>2, <2>3
<1>4. \A i, j \in S : i # j => i \in Before(R, j) \/ j \in Before(R, i)
  BY DEF Before
<1>5. \A i, j \in S : Cardinality(Before(R, i)) = Cardinality(Before(R, j)) => i = j
  BY <1>2, <1>3, <1>4
<1>6. ASSUME NEW A \in SUBSET S, NEW a \in Nat, NEW b \in Nat, a <= b,
             \A i \in A : Cardinality(Before(R, i)) \in a..(b - 1)
      PROVE  Cardinality(A) <= b - a
  <2> DEFINE place == [i \in A |-> Cardinality(Before(R, i))]
  <2>1. place \in Injection(A, a..(b - 1))
    <3>1. place \in [A -> a..(b - 1)]
      BY <1>6
    <3>2. \A i, j \in A : place[i] = place[j] => i = j
      BY <1>5
    <3> QED
      BY <3>1, <3>2 DEF Injection, IsInjective
  <2>2. IsFiniteSet(a..(b - 1)) /\ Cardinality(a..(b - 1)) = b - a
    BY <1>6, FS_Interval
  <2> HIDE DEF place
  <2> QED
    BY <2>1, <2>2, FS_Injection
<1> DEFINE E == {i \in S : Cardinality(Before(R, i)) < n}
<1>7. Cardinality(E) <= n
  <2>1. \A i \in E : Cardinality(Before(R, i)) \in 0..(n - 1)
    BY <1>2
  <2>2. E \in SUBSET S /\ n \in Nat /\ 0 \in Nat /\ 0 <= n /\ n - 0 = n
    OBVIOUS
  <2> HIDE DEF E
  <2>3. Cardinality(E) <= n - 0
    BY <1>6, <2>1, <2>2
  <2> QED
    BY <2>2, <2>3
<1>8. Cardinality(S \ E) <= Cardinality(S) - n
  <2>1. \A i \in S \ E : Cardinality(Before(R, i)) \in n..(Cardinality(S) - 1)
    BY <1>1, <1>2
  <2>2. S \ E \in SUBSET S /\ n \in Nat /\ n <= Cardinality(S)
    BY <1>1
  <2> HIDE DEF E
  <2> QED
    BY <1>1, <1>6, <2>1, <2>2
<1>9. Cardinality(S \ E) = Cardinality(S) - Cardinality(E) /\ Cardinality(E) \in Nat
  <2>1. S \cap E = E /\ E \in SUBSET S
    OBVIOUS
  <2> HIDE DEF E
  <2> QED
    BY ZenonT(40), <2>1, FS_Difference, FS_Subset, FS_CardinalityType
<1> HIDE DEF E
<1>10. Cardinality(E) = n
  BY <1>1, <1>7, <1>8, <1>9
<1> QED
  BY <1>10 DEF E

\* An expense is shared to the cent: the shares add up to it, and each is the
\* exact share cut to a cent, or a cent more (ImportTaxCalculator.allocate).
THEOREM AllocationIsExact ==
  ASSUME NEW S \in SUBSET Nat, IsFiniteSet(S), S # {}, NEW w \in [S -> Nat],
         NEW total \in Nat, total > 0 => Total(w) > 0
  PROVE  /\ Allocate(total, w) \in [S -> Nat]
         /\ Total(Allocate(total, w)) = total
         /\ total > 0 => \A i \in S : Allocate(total, w)[i] - Floors(total, w)[i] \in 0..1
<1>1. CASE total = 0
  <2>1. Allocate(total, w) = Unshared(w)
    BY <1>1 DEF Allocate
  <2>2. Unshared(w) \in [S -> Nat] /\ Total(Unshared(w)) = 0
    BY TotalOfNothing
  <2> QED
    BY <1>1, <2>1, <2>2
<1>2. CASE total > 0
  <2>1. PICK F \in [S -> Nat], R \in [S -> Nat] : F = Floors(total, w) /\ R = Fractions(total, w)
    BY <1>2, CentsLeft
  <2>2. PICK left \in 0..(Cardinality(S) - 1) : left = total - Total(F)
    BY <1>2, <2>1, CentsLeft
  <2>3. Cardinality(S) \in Nat
    BY FS_CardinalityType
  <2> DEFINE E == {i \in S : Cardinality(Before(R, i)) < left}
  <2>4. Cardinality(E) = left
    <3>1. left \in 0..Cardinality(S)
      BY <2>3
    <3> QED
      BY <3>1, FirstPlaces
  <2>5. E \in SUBSET S
    OBVIOUS
  <2>6. PICK A \in [S -> Nat] : /\ A = Allocate(total, w)
                                /\ \A i \in S : A[i] = F[i] + Ones(S, E)[i]
    <3>1. Allocate(total, w) =
            [i \in S |-> F[i] + IF Cardinality(Before(R, i)) < left THEN 1 ELSE 0]
      BY <1>2, <2>1, <2>2 DEF Allocate
    <3>2. \A i \in S : Ones(S, E)[i] = IF Cardinality(Before(R, i)) < left THEN 1 ELSE 0
      BY DEF Ones
    <3>3. \A i \in S : (F[i] + IF Cardinality(Before(R, i)) < left THEN 1 ELSE 0) \in Nat
      OBVIOUS
    <3> HIDE DEF E
    <3> QED
      BY <3>1, <3>2, <3>3
  <2>7. \A i \in S : Ones(S, E)[i] \in 0..1
    BY DEF Ones
  <2> HIDE DEF E
  <2>8. PICK more \in [S -> Int] : more = Ones(S, E) /\ Total(more) = left
    BY <2>4, <2>5, TotalCount
  <2>9. A \in [S -> Int] /\ F \in [S -> Int] /\ Total(F) \in Int
    <3>1. A \in [S -> Int] /\ F \in [S -> Int]
      OBVIOUS
    <3> QED
      BY <3>1, TotalInt
  <2>10. Total(A) = Total(F) + Total(more)
    <3>1. \A i \in S : A[i] = F[i] + more[i]
      BY <2>6, <2>8
    <3>2. \A f, g, h \in [S -> Int] :
            (\A i \in S : h[i] = f[i] + g[i]) => Total(h) = Total(f) + Total(g)
      BY TotalAdd
    <3> QED
      BY <2>9, <3>1, <3>2
  <2>11. Total(A) = total
    BY <2>2, <2>8, <2>9, <2>10
  <2>12. \A i \in S : A[i] - F[i] \in 0..1
    BY <2>6, <2>7
  <2> QED
    BY <2>1, <2>6, <2>11, <2>12
<1> QED
  BY <1>1, <1>2

\* One item is the largest, or the first of those that are.
LEMMA LargestExists ==
  ASSUME NEW S \in SUBSET Nat, IsFiniteSet(S), S # {}, NEW w \in [S -> Nat]
  PROVE  \E i \in S : \A j \in S : w[i] > w[j] \/ (w[i] = w[j] /\ i <= j)
<1>1. PICK W \in Int : \A i \in S : w[i] <= W
  <2>1. w \in [S -> Int]
    OBVIOUS
  <2>2. Total(w) \in Int /\ \A i \in S : w[i] <= Total(w)
    BY <2>1, TotalInt, TotalAtLeast
  <2> QED
    BY <2>2
<1> DEFINE Gaps == {W - w[i] : i \in S}
<1>2. Gaps \in SUBSET Nat /\ Gaps # {}
  <2>1. \A i \in S : W - w[i] \in Nat
    BY <1>1
  <2> QED
    BY <2>1
<1>3. PICK i \in S : \A j \in S : W - w[i] <= W - w[j]
  <2>1. PICK g \in Gaps : \A k \in Gaps : g <= k
    BY <1>2, LeastNatural
  <2> QED
    BY <2>1
<1>4. \A j \in S : w[j] <= w[i]
  BY <1>3
<1> DEFINE Largest == {k \in S : w[k] = w[i]}
<1>5. Largest \in SUBSET Nat /\ Largest # {}
  OBVIOUS
<1>6. PICK l \in Largest : \A k \in Largest : l <= k
  BY <1>5, LeastNatural
<1>7. \A j \in S : w[l] > w[j] \/ (w[l] = w[j] /\ l <= j)
  BY <1>4, <1>6
<1> QED
  BY <1>6, <1>7

\* The shares of a planned document add up to its expense as well
\* (_allocate_shared_cost_to_items).
THEOREM PlannedAllocationIsExact ==
  ASSUME NEW S \in SUBSET Nat, IsFiniteSet(S), S # {}, NEW w \in [S -> Nat],
         NEW total \in Nat, total > 0 => Total(w) > 0
  PROVE  /\ AllocatePlanned(total, w) \in [S -> Nat]
         /\ Total(AllocatePlanned(total, w)) = total
<1>1. CASE total = 0
  <2>1. AllocatePlanned(total, w) = Unshared(w)
    BY <1>1 DEF AllocatePlanned
  <2>2. Unshared(w) \in [S -> Nat] /\ Total(Unshared(w)) = 0
    BY TotalOfNothing
  <2> QED
    BY <1>1, <2>1, <2>2
<1>2. CASE total > 0
  <2>1. PICK F \in [S -> Nat] : F = Floors(total, w) /\ Total(F) \in Int
    BY <1>2, CentsLeft
  <2>2. PICK left \in Nat : left = total - Total(F)
    <3>1. total - Total(F) \in 0..(Cardinality(S) - 1)
      BY <1>2, <2>1, CentsLeft
    <3> QED
      BY <3>1
  <2> DEFINE l == CHOOSE i \in S : \A j \in S : w[i] > w[j] \/ (w[i] = w[j] /\ i <= j)
  <2>3. l \in S
    BY LargestExists
  <2>4. AllocatePlanned(total, w) = [F EXCEPT ![l] = @ + total - Total(F)]
    BY <1>2, <2>1 DEF AllocatePlanned
  <2> HIDE DEF l
  <2>5. PICK one \in [S -> Int] : /\ \A i \in S : one[i] = IF i = l THEN 1 ELSE 0
                                  /\ Total(one) = 1
    <3>1. {l} \in SUBSET S /\ Cardinality({l}) = 1
      BY <2>3, FS_Singleton
    <3>2. Ones(S, {l}) \in [S -> Int] /\ Total(Ones(S, {l})) = 1
      BY <3>1, TotalCount
    <3>3. \A i \in S : Ones(S, {l})[i] = IF i = l THEN 1 ELSE 0
      BY DEF Ones
    <3> QED
      BY <3>2, <3>3
  <2>6. PICK more \in [S -> Int] : \A i \in S : more[i] = left * one[i]
    <3>1. [i \in S |-> left * one[i]] \in [S -> Int]
      OBVIOUS
    <3> QED
      BY <3>1
  <2>7. Total(more) = left * Total(one)
    <3>1. \A a \in Int : \A f, h \in [S -> Int] :
            (\A i \in S : h[i] = a * f[i]) => Total(h) = a * Total(f)
      BY TotalScale
    <3>2. left \in Int
      OBVIOUS
    <3> QED
      BY <2>6, <3>1, <3>2
  <2>8. PICK A \in [S -> Nat] : /\ A = AllocatePlanned(total, w)
                                /\ \A i \in S : A[i] = F[i] + more[i]
    <3>1. F[l] + total - Total(F) = F[l] + left
      BY <2>1, <2>2, <2>3
    <3>2. AllocatePlanned(total, w) = [F EXCEPT ![l] = F[l] + left]
      BY <2>4, <3>1
    <3>3. AllocatePlanned(total, w) \in [S -> Nat]
      BY <2>3, <3>2
    <3>4. \A i \in S : more[i] = IF i = l THEN left ELSE 0
      BY <2>5, <2>6
    <3>5. \A i \in S : [F EXCEPT ![l] = F[l] + left][i] = F[i] + more[i]
      BY <2>3, <3>4
    <3> QED
      BY <3>2, <3>3, <3>5
  <2>9. \A f, g, h \in [S -> Int] :
          (\A i \in S : h[i] = f[i] + g[i]) => Total(h) = Total(f) + Total(g)
    BY TotalAdd
  <2>10. A \in [S -> Int] /\ F \in [S -> Int]
    OBVIOUS
  <2>11. Total(A) = Total(F) + Total(more)
    BY <2>8, <2>9, <2>10
  <2>12. Total(A) = total
    BY <2>1, <2>2, <2>5, <2>7, <2>11
  <2> QED
    BY <2>8, <2>12
<1> QED
  BY <1>1, <1>2

-----------------------------------------------------------------------------
(* The ICMS inside its base *)

\* q is n / d rounded to a nearest integer.
Rounds(q, n, d) == q \in Int /\ 2 * (d * q) <= 2 * n + d /\ 2 * n + d <= 2 * (d * q) + 2 * d

\* ROUND_HALF_UP is one of those roundings.
LEMMA HalfUpRounds ==
  ASSUME NEW n \in Int, NEW d \in Nat, d > 0
  PROVE  Rounds(HalfUp(n, d), n, d)
<1>1. PICK e \in Nat : e = 2 * d /\ e > 0
  OBVIOUS
<1>2. ASSUME NEW m \in Int
      PROVE  m \div e \in Int /\ 2 * (d * (m \div e)) <= m /\ m < 2 * (d * (m \div e)) + 2 * d
  <2>1. m \div e \in Int /\ m % e \in 0..(e - 1) /\ m = e * (m \div e) + (m % e)
    BY <1>1
  <2>2. PICK q \in Int : q = m \div e
    BY <2>1
  <2>3. e * q <= m /\ m < e * q + e
    BY <1>1, <2>1, <2>2
  <2>4. e * q = 2 * (d * q) /\ d * q \in Int
    BY <1>1
  <2> QED
    BY <1>1, <2>2, <2>3, <2>4
<1>3. CASE n >= 0
  <2>1. PICK q \in Int : q = (2 * n + d) \div e
    BY <1>2
  <2>2. HalfUp(n, d) = q
    BY <1>1, <1>3, <2>1 DEF HalfUp
  <2>3. 2 * n + d \in Int
    OBVIOUS
  <2>4. 2 * (d * q) <= 2 * n + d /\ 2 * n + d < 2 * (d * q) + 2 * d
    BY <1>2, <2>1, <2>3
  <2>5. d * q \in Int
    OBVIOUS
  <2> QED
    BY <2>2, <2>4, <2>5 DEF Rounds
<1>4. CASE n < 0
  <2>1. PICK q \in Int : q = (d - 2 * n) \div e
    BY <1>2
  <2>2. HalfUp(n, d) = 0 - q
    BY <1>1, <1>4, <2>1 DEF HalfUp
  <2>3. d - 2 * n \in Int
    OBVIOUS
  <2>4. 2 * (d * q) <= d - 2 * n /\ d - 2 * n < 2 * (d * q) + 2 * d
    BY <1>2, <2>1, <2>3
  <2>5. PICK z \in Int : z = d * q
    OBVIOUS
  <2>6. d * (0 - q) = 0 - z
    BY <2>5
  <2> QED
    BY <2>2, <2>4, <2>5, <2>6 DEF Rounds
<1> QED
  BY <1>3, <1>4

\* Rates and reductions of a tax that is there.
Taxed(conf) == conf.cst \notin WithoutValue \cup {"51"}

\* The base q of amount a at rate r, and its tax v: a and v make q, give or take a
\* cent.
LEMMA PlainIcmsIsInside ==
  ASSUME NEW r \in 1..99, NEW a \in Int, NEW q, NEW v,
         Rounds(q, a * 1000000, 1000000 - r * 10000), Rounds(v, q * r, 100)
  PROVE  a + v - q \in -1..1
<1> q \in Int /\ v \in Int
  BY SMT DEF Rounds
<1>1. PICK d \in Int : d = 1000000 - r * 10000
  BY SMT
<1>2. PICK x \in Int : x = q * r
  BY SMT
<1>3. PICK w \in Int : w = d * q /\ w = 1000000 * q - 10000 * x
  BY SMT, <1>1, <1>2
<1>4. 2 * w <= 2000000 * a + d /\ 2000000 * a + d <= 2 * w + 2 * d
  BY SMT, <1>1, <1>3 DEF Rounds
<1>5. 200 * v <= 2 * x + 100 /\ 2 * x + 100 <= 200 * v + 200
  BY SMT, <1>2 DEF Rounds
<1>6. 200 * q - 2 * x <= 200 * a + 100 - r
  BY SMT, <1>1, <1>3, <1>4
<1>7. 200 * a + 100 - r <= 200 * q - 2 * x + 200 - 2 * r
  BY SMT, <1>1, <1>3, <1>4
<1>8. 200 * (a + v - q) < 200 + 200 /\ 200 * (a + v - q) > 0 - 200 - 200
  BY SMT, <1>5, <1>6, <1>7
<1>9. a + v - q \in Int
  BY SMT
<1> QED
  BY SMT, <1>8, <1>9

\* The three roundings of a tax on a reduced base.
RoundedThrice(r, c, a, q, t, v) ==
  Rounds(q, a * 1000000, 1000000 - r * c * 100) /\ Rounds(t, q * c, 100) /\ Rounds(v, t * r, 100)

\* So they do when only the part c of the base, t, is taxed and the effective rate
\* is lower for it.
LEMMA ReducedIcmsIsInside ==
  ASSUME NEW r \in 1..99, NEW c \in 0..99, NEW a \in Int, NEW q, NEW t, NEW v,
         RoundedThrice(r, c, a, q, t, v)
  PROVE  a + v - q \in -1..1
<1> /\ Rounds(q, a * 1000000, 1000000 - r * c * 100)
    /\ Rounds(t, q * c, 100) /\ Rounds(v, t * r, 100)
  BY SMT DEF RoundedThrice
<1> q \in Int /\ t \in Int /\ v \in Int
  BY SMT DEF Rounds
<1>1. PICK z \in Int : z = r * c /\ 0 <= z /\ z <= 9801
  <2>1. r * c \in Nat /\ r * c <= 99 * 99
    BY SMT
  <2> QED
    BY SMT, <2>1
<1>2. PICK d \in Int : d = 1000000 - r * c * 100 /\ d = 1000000 - z * 100
  BY SMT, <1>1
<1>3. PICK p \in Int, u \in Int, y \in Int : p = q * c /\ u = t * r /\ y = p * r
  BY SMT
<1>4. PICK w \in Int : w = d * q /\ w = 1000000 * q - 100 * y
  <2>1. z * q = y
    BY SMT, <1>1, <1>3
  <2>2. d * q = 1000000 * q - 100 * (z * q)
    BY SMT, <1>2
  <2> QED
    BY SMT, <2>1, <2>2
<1>5. 2 * w <= 2000000 * a + d /\ 2000000 * a + d <= 2 * w + 2 * d
  BY SMT, <1>2, <1>4 DEF Rounds
<1>6. 200 * t <= 2 * p + 100 /\ 2 * p + 100 <= 200 * t + 200
  BY SMT, <1>3 DEF Rounds
<1>7. 200 * v <= 2 * u + 100 /\ 2 * u + 100 <= 200 * v + 200
  BY SMT, <1>3 DEF Rounds
<1>8. 200 * u <= 2 * y + 100 * r /\ 2 * y + 100 * r <= 200 * u + 200 * r
  <2>1. PICK g \in Int : g = 2 * p + 100 - 200 * t /\ 0 <= g /\ g <= 200
    BY SMT, <1>6
  <2>2. 0 <= g * r /\ g * r <= 200 * r
    BY SMT, <2>1
  <2>3. g * r = 2 * y + 100 * r - 200 * u
    BY SMT, <1>3, <2>1
  <2> QED
    BY SMT, <2>2, <2>3
<1>9. 20000 * q - 2 * y <= 20000 * a + 10000 - z
  BY SMT, <1>2, <1>4, <1>5
<1>10. 20000 * a + 10000 - z <= 20000 * q - 2 * y + 20000 - 2 * z
  BY SMT, <1>2, <1>4, <1>5
<1>11. /\ 20000 * (a + v - q) < 20000 + 20000
       /\ 20000 * (a + v - q) > 0 - 20000 - 20000
  BY SMT, <1>1, <1>7, <1>8, <1>9, <1>10
<1>12. a + v - q \in Int
  BY SMT
<1> QED
  BY SMT, <1>11, <1>12

\* What IcmsIsInside says of one item, and that its configuration can be used again.
Inside(icms) ==
  icms.by = "rule" =>
    /\ icms.conf \in Configs
    /\ Taxed(icms.conf) => icms.amount + icms.value - FullBase(icms.conf, icms.amount) \in -1..1

\* An ICMS says how it was computed.
Tagged(icms) == "by" \in DOMAIN icms /\ icms.by \in {"rule", "manual"}

\* The ICMS that a rule gives one item is inside its base.
LEMMA IcmsAloneIsInside ==
  ASSUME NEW conf \in Configs, NEW a \in Int
  PROVE  Inside(IcmsAlone(conf, a))
<1> DEFINE icms == IcmsAlone(conf, a)
<1>1. icms.conf = conf /\ icms.amount = a
  BY DEF IcmsAlone, Icms
<1>2. SUFFICES ASSUME Taxed(conf) PROVE a + icms.value - FullBase(conf, a) \in -1..1
  BY <1>1 DEF Inside
<1>3. Accepted(conf)
  BY DraftTaxesAssumption
<1>4. PICK r \in 1..99 : r = conf.rate
  BY <1>2, <1>3 DEF Accepted, Taxed
<1>5. CASE conf.cst \in ReducedBase
  <2>1. PICK c \in 0..99 : c = 100 - conf.reduction
    BY <1>3, <1>5 DEF Accepted
  <2>2. PICK full, taxed : full = FullBase(conf, a) /\ taxed = HalfUp(full * c, 100)
    OBVIOUS
  <2>3. Effective(conf) = r * c * 100
    BY <1>4, <1>5, <2>1 DEF Effective, ReducedBase
  <2>4. Rounds(full, a * 1000000, 1000000 - r * c * 100)
    <3>1. 1000000 - r * c * 100 \in Nat /\ 1000000 - r * c * 100 > 0 /\ a * 1000000 \in Int
      <4>1. r * c \in Nat /\ r * c <= 99 * 99
        BY SMT
      <4> QED
        BY SMT, <4>1
    <3>2. PICK n \in Int, d \in Nat : n = a * 1000000 /\ d = 1000000 - r * c * 100 /\ d > 0
      BY SMT, <3>1
    <3>3. full = HalfUp(n, d)
      BY SMT, <2>2, <2>3, <3>2 DEF FullBase
    <3> QED
      BY SMT, <3>2, <3>3, HalfUpRounds
  <2>5. Rounds(taxed, full * c, 100)
    <3>1. full * c \in Int
      BY SMT, <2>4 DEF Rounds
    <3> QED
      BY SMT, <2>2, <3>1, HalfUpRounds
  <2>6. icms.value = HalfUp(taxed * r, 100)
    BY <1>2, <1>4, <1>5, <2>1, <2>2 DEF IcmsAlone, Icms, Taxed, ReducedBase
  <2>7. Rounds(icms.value, taxed * r, 100)
    <3>1. taxed * r \in Int
      BY SMT, <2>5 DEF Rounds
    <3> QED
      BY SMT, <2>6, <3>1, HalfUpRounds
  <2> HIDE DEF icms
  <2>8. RoundedThrice(r, c, a, full, taxed, icms.value)
    BY SMT, <2>4, <2>5, <2>7 DEF RoundedThrice
  <2>9. a + icms.value - full \in -1..1
    BY <2>8, ReducedIcmsIsInside
  <2> QED
    BY <2>2, <2>9
<1>6. CASE conf.cst \notin ReducedBase
  <2>1. PICK full : full = FullBase(conf, a)
    OBVIOUS
  <2>2. Effective(conf) = r * 10000
    BY SMT, <1>2, <1>4, <1>6 DEF Effective, Taxed
  <2>3. Rounds(full, a * 1000000, 1000000 - r * 10000)
    <3>1. PICK n \in Int, d \in Nat : n = a * 1000000 /\ d = 1000000 - r * 10000 /\ d > 0
      BY SMT
    <3>2. full = HalfUp(n, d)
      BY SMT, <2>1, <2>2, <3>1 DEF FullBase
    <3> QED
      BY SMT, <3>1, <3>2, HalfUpRounds
  <2>4. icms.value = HalfUp(full * r, 100)
    BY <1>2, <1>4, <1>6, <2>1 DEF IcmsAlone, Icms, Taxed
  <2>5. Rounds(icms.value, full * r, 100)
    <3>1. full * r \in Int
      BY SMT, <2>3 DEF Rounds
    <3> QED
      BY SMT, <2>4, <3>1, HalfUpRounds
  <2> HIDE DEF icms
  <2>6. a + icms.value - full \in -1..1
    BY SMTT(30), <2>3, <2>5, PlainIcmsIsInside
  <2> QED
    BY <2>1, <2>6
<1> QED
  BY <1>5, <1>6

\* So is that of items whose ICMS is computed together.
LEMMA IcmsTogetherIsInside ==
  ASSUME NEW conf \in Configs, NEW amounts, NEW customs, NEW i \in Items, amounts[i] \in Int
  PROVE  Inside(IcmsTogether(conf, amounts, customs)[i])
<1> DEFINE bases == Allocate(FullBase(conf, Total(amounts)), customs)
<1>1. CASE conf.cst = "51"
  <2>1. IcmsTogether(conf, amounts, customs)[i] = Icms(conf, amounts[i], bases[i])
    BY <1>1 DEF IcmsTogether
  <2> HIDE DEF bases
  <2>2. Icms(conf, amounts[i], bases[i]).conf = conf
    BY DEF Icms
  <2> QED
    BY <1>1, <2>1, <2>2 DEF Inside, Taxed
<1>2. CASE conf.cst # "51"
  <2>1. IcmsTogether(conf, amounts, customs)[i] = IcmsAlone(conf, amounts[i])
    BY <1>2 DEF IcmsTogether
  <2> QED
    BY <2>1, IcmsAloneIsInside
<1> QED
  BY <1>1, <1>2

-----------------------------------------------------------------------------
(* The draft and what the requests have read of it *)

\* A stored row of an item with these values, or others that were typed.
Rowed(stored, item) ==
  /\ DOMAIN stored = {"product", "taxes", "other", "shares", "icms"}
  /\ stored.product \in Nat /\ (item.product > 0 => stored.product > 0)
  /\ stored.taxes \in Int /\ stored.other \in Int
  /\ stored.shares \in [Costs -> Int]
  /\ Tagged(stored.icms) /\ Inside(stored.icms)

RowsOf(src, rs) == DOMAIN rs = Items /\ \A i \in Items : Rowed(rs[i], src[i])

\* A payload; no request changes the ICMS that the DUIMP declares.
Paid(p, declared) ==
  /\ DOMAIN p = {"costs", "weighed", "shares", "declared"}
  /\ \A k \in Costs : p.costs[k] \in Nat
  /\ p.shares \in [Items -> [Costs -> Int]]
  /\ p.declared = declared

Drafted(d, declared) == DOMAIN d = {"payload", "status", "xml"} /\ Paid(d.payload, declared)

\* The ICMS is the one declared, give or take a cent.
Declared(rs, declared) ==
  LET icms == Total([i \in Items |-> rs[i].icms.value]) IN
  declared # None => icms - declared \in -1..1

Printed(xml, declared) ==
  xml # NoXml =>
    /\ \A k \in Costs : SharedOut(k, xml.rows) = xml.costs[k]
    /\ Declared(xml.rows, declared)

\* A payload and rows that agree to the cent.
Exact(p, rs, alone) ==
  /\ \A k \in Costs : SharedOut(k, rs) = p.costs[k]
  /\ \A i \in Items : p.shares[i] = rs[i].shares
  /\ \A i \in Items : OwnOther(rs[i], rs[i].shares) = alone[i]

\* What handler h holds.  As long as nobody else has committed, it is the draft.
Holds(h) ==
  /\ DOMAIN req[h] = {"busy", "draft", "rows", "late"}
  /\ req[h].busy \in BOOLEAN /\ req[h].late \in BOOLEAN
  /\ req[h].busy => /\ Drafted(req[h].draft, draft.payload.declared)
                    /\ RowsOf(source, req[h].rows)
  /\ req[h].busy /\ ~req[h].late => req[h].draft = draft /\ req[h].rows = rows

\* The tables.
Tables ==
  /\ source \in Sources /\ rule \in [RulesOf(source) -> Configs]
  /\ Drafted(draft, draft.payload.declared) /\ RowsOf(source, rows)
  /\ raced \in BOOLEAN /\ DOMAIN own = Items /\ DOMAIN req = Handlers

Inv ==
  /\ Tables
  /\ \A h \in Handlers : Holds(h)
  /\ Printed(draft.xml, draft.payload.declared)
  /\ ~raced => Exact(draft.payload, rows, own)

-----------------------------------------------------------------------------
(* Reading and writing *)

\* The expenses can be counted.
LEMMA FiniteCosts == IsFiniteSet(Costs) /\ Cardinality(Costs) \in Nat
<1>1. IsFiniteSet({}) /\ IsFiniteSet({} \cup {"afrmm"})
  BY FS_EmptySet, FS_AddElement
<1>2. IsFiniteSet(({} \cup {"afrmm"}) \cup {"siscomex_fee"})
  BY <1>1, FS_AddElement
<1>3. Costs = ({} \cup {"afrmm"}) \cup {"siscomex_fee"}
  BY DEF Costs
<1> QED
  BY <1>2, <1>3, FS_CardinalityType

\* What an item bears of all the expenses is a number.
LEMMA SharesAddUp == ASSUME NEW f \in [Costs -> Int] PROVE Total(f) \in Int
BY FiniteCosts, TotalInt

\* A column that is written has the new value or the stored one; the new one if
\* what the session had read was still stored.
LEMMA WrittenColumn ==
  ASSUME NEW stored, NEW read, NEW new
  PROVE  /\ DOMAIN Written(stored, read, new) = DOMAIN stored
         /\ \A f \in DOMAIN stored :
              /\ Written(stored, read, new)[f] \in {stored[f], new[f]}
              /\ stored = read => Written(stored, read, new)[f] = new[f]
              /\ new[f] = read[f] => Written(stored, read, new)[f] = stored[f]
BY DEF Written

\* Rows of the same items, written column by column.
LEMMA WrittenRow ==
  ASSUME NEW item, NEW stored, NEW read, NEW new, Rowed(stored, item), Rowed(new, item)
  PROVE  /\ Rowed(Written(stored, read, new), item)
         /\ stored = read => /\ Written(stored, read, new).shares = new.shares
                             /\ Written(stored, read, new).other = new.other
                             /\ Written(stored, read, new).icms = new.icms
<1> DEFINE w == Written(stored, read, new)
           F == {"product", "taxes", "other", "shares", "icms"}
<1>1. DOMAIN stored = F
  BY DEF Rowed
<1>2. /\ DOMAIN w = F
      /\ \A f \in F : w[f] \in {stored[f], new[f]} /\ (stored = read => w[f] = new[f])
  BY <1>1, WrittenColumn
<1>3. /\ w.product \in {stored.product, new.product} /\ w.taxes \in {stored.taxes, new.taxes}
      /\ w.other \in {stored.other, new.other} /\ w.shares \in {stored.shares, new.shares}
      /\ w.icms \in {stored.icms, new.icms}
  BY <1>2
<1>4. stored = read => w.shares = new.shares /\ w.other = new.other /\ w.icms = new.icms
  BY <1>2
<1> HIDE DEF w
<1>5. Rowed(w, item)
  BY <1>2, <1>3 DEF Rowed
<1> QED
  BY <1>4, <1>5 DEF w

\* What a handler has seen are rows of the items, and the present ones if nobody
\* else has committed.
LEMMA SeenRows ==
  ASSUME Inv, NEW h \in Handlers, req[h].busy, NEW seen \in Seen(h)
  PROVE  /\ RowsOf(source, seen) /\ Drafted(req[h].draft, draft.payload.declared)
         /\ req[h].late \in BOOLEAN
         /\ ~req[h].late => seen = rows /\ req[h].draft = draft
<1>1. Holds(h) /\ RowsOf(source, rows)
  BY DEF Inv, Tables
<1> QED
  BY <1>1 DEF Holds, Seen

\* The end of a request that stores payload p and rows rs.
LEMMA FinishKeeps ==
  ASSUME Inv, NEW h \in Handlers, req[h].busy, NEW seen \in Seen(h),
         NEW p, NEW rs, NEW status, NEW xml, Finish(h, seen, p, rs, status, xml),
         Paid(p, draft.payload.declared), RowsOf(source, rs), DOMAIN own' = Items,
         xml = req[h].draft.xml \/ Printed(xml, draft.payload.declared),
         ~raced /\ ~req[h].late => Exact(p, rs, own')
  PROVE  /\ Inv'
         /\ ~raced' => \A i \in Items : rows'[i].icms = rs[i].icms
<1> DEFINE d == draft.payload.declared
           new == [payload |-> p, status |-> status, xml |-> xml]
<1>1. /\ Tables /\ Printed(draft.xml, d) /\ \A g \in Handlers : Holds(g)
      /\ ~raced => Exact(draft.payload, rows, own)
  BY DEF Inv
<1>2. /\ draft' = Written(draft, req[h].draft, new)
      /\ rows' = [i \in Items |-> Written(rows[i], seen[i], rs[i])]
      /\ req' = [g \in Handlers |-> IF g = h THEN Idle ELSE [req[g] EXCEPT !.late = req[g].busy]]
      /\ raced' = (raced \/ req[h].late) /\ source' = source /\ rule' = rule
  BY DEF Finish
<1>3. /\ RowsOf(source, seen) /\ Drafted(req[h].draft, d) /\ req[h].late \in BOOLEAN
      /\ ~req[h].late => seen = rows /\ req[h].draft = draft
  BY SeenRows
<1>4. raced \in BOOLEAN /\ DOMAIN draft = {"payload", "status", "xml"} /\ Paid(draft.payload, d)
      /\ RowsOf(source, rows)
  BY <1>1 DEF Tables, Drafted
<1>5. /\ DOMAIN draft' = {"payload", "status", "xml"}
      /\ draft'.payload \in {draft.payload, p}
      /\ draft'.xml \in {draft.xml, xml}
      /\ xml = req[h].draft.xml => draft'.xml = draft.xml
      /\ ~req[h].late => draft'.payload = p
  <2>1. new.payload = p /\ new.xml = xml
    OBVIOUS
  <2> HIDE DEF new
  <2>2. \A f \in {"payload", "status", "xml"} :
          /\ draft'[f] \in {draft[f], new[f]}
          /\ draft = req[h].draft => draft'[f] = new[f]
          /\ new[f] = req[h].draft[f] => draft'[f] = draft[f]
    BY <1>2, <1>4, WrittenColumn
  <2>3. DOMAIN draft' = {"payload", "status", "xml"}
    BY <1>2, <1>4, WrittenColumn
  <2> QED
    BY <1>3, <2>1, <2>2, <2>3
<1>6. draft'.payload.declared = d /\ Drafted(draft', d)
  BY <1>4, <1>5 DEF Paid, Drafted
<1>7. Printed(draft'.xml, d)
  BY <1>1, <1>5
<1>8. ASSUME NEW i \in Items
      PROVE  /\ Rowed(rows'[i], source[i])
             /\ ~req[h].late => /\ rows'[i].shares = rs[i].shares /\ rows'[i].other = rs[i].other
                                /\ rows'[i].icms = rs[i].icms
  <2>1. Rowed(rows[i], source[i]) /\ Rowed(rs[i], source[i])
    BY <1>4 DEF RowsOf
  <2>2. rows'[i] = Written(rows[i], seen[i], rs[i])
    BY <1>2
  <2>3. ~req[h].late => rows[i] = seen[i]
    BY <1>3
  <2> QED
    BY <2>1, <2>2, <2>3, WrittenRow
<1>9. RowsOf(source, rows')
  BY <1>2, <1>8 DEF RowsOf
<1>10. ASSUME NEW g \in Handlers PROVE Holds(g)'
  <2>1. CASE g = h
    <3>1. req'[g] = Idle
      BY <1>2, <2>1
    <3> QED
      BY <3>1 DEF Holds, Idle
  <2>2. CASE g # h
    <3>1. Holds(g)
      BY <1>1
    <3>2. /\ DOMAIN req'[g] = DOMAIN req[g] /\ req'[g].busy = req[g].busy
          /\ req'[g].draft = req[g].draft /\ req'[g].rows = req[g].rows
          /\ req'[g].late = req[g].busy
      BY <1>2, <2>2, <3>1 DEF Holds
    <3> QED
      BY <1>2, <1>6, <3>1, <3>2 DEF Holds
  <2> QED
    BY <2>1, <2>2
<1>11. ~raced' => Exact(draft'.payload, rows', own')
  <2>1. SUFFICES ASSUME ~raced' PROVE Exact(draft'.payload, rows', own')
    OBVIOUS
  <2>2. ~raced /\ ~req[h].late
    BY <1>2, <2>1
  <2>3. Exact(p, rs, own') /\ draft'.payload = p
    BY <1>5, <2>2
  <2>4. \A i \in Items : rows'[i].shares = rs[i].shares /\ rows'[i].other = rs[i].other
    BY <1>8, <2>2
  <2>5. \A k \in Costs : SharedOut(k, rows') = SharedOut(k, rs)
    BY <2>4 DEF SharedOut
  <2>6. \A i \in Items : OwnOther(rows'[i], rows'[i].shares) = OwnOther(rs[i], rs[i].shares)
    BY <2>4 DEF OwnOther
  <2> QED
    BY <2>3, <2>4, <2>5, <2>6 DEF Exact
<1>12. Tables'
  <2>1. raced' \in BOOLEAN
    BY <1>2, <1>3, <1>4
  <2>2. DOMAIN req' = Handlers
    BY <1>2
  <2>3. Drafted(draft', draft'.payload.declared)
    BY <1>6
  <2> QED
    BY <1>1, <1>2, <1>9, <2>1, <2>2, <2>3 DEF Tables, RulesOf
<1>13. Printed(draft'.xml, draft'.payload.declared)
  BY <1>6, <1>7
<1>14. ~raced' => \A i \in Items : rows'[i].icms = rs[i].icms
  BY <1>2, <1>8
<1> QED
  BY <1>10, <1>11, <1>12, <1>13, <1>14 DEF Inv

-----------------------------------------------------------------------------
(* What the requests compute *)

\* Some weight is positive, so the items can share.
LEMMA SomeWeight ==
  ASSUME NEW w \in [Items -> Nat], NEW i \in Items, w[i] > 0
  PROVE  Total(w) > 0
<1>1. IsFiniteSet(Items)
  BY ItemsAssumption
<1>2. w[i] <= Total(w)
  BY <1>1, TotalAtLeast
<1>3. w \in [Items -> Int]
  OBVIOUS
<1>4. Total(w) \in Int
  BY <1>1, <1>3, TotalInt
<1>5. PICK n \in Nat, t \in Int : n = w[i] /\ t = Total(w)
  BY <1>4
<1> QED
  BY <1>2, <1>5

\* The rows of a draft always have weights to share by.
LEMMA WeightsOfRows ==
  ASSUME source \in Sources, NEW rs, RowsOf(source, rs), NEW k \in Costs, NEW weighed
  PROVE  Weights(k, rs, weighed) \in [Items -> Nat] /\ Total(Weights(k, rs, weighed)) > 0
<1>1. /\ \A i \in Items : source[i].product \in Nat /\ source[i].net \in Nat
      /\ \E i \in Items : source[i].product > 0
  BY SourcesAssumption
<1>2. ASSUME NEW i \in Items
      PROVE  rs[i].product \in Nat /\ (source[i].product > 0 => rs[i].product > 0)
  <2>1. Rowed(rs[i], source[i])
    BY DEF RowsOf
  <2> QED
    BY <2>1 DEF Rowed
<1>3. PICK w : w = Weights(k, rs, weighed)
  OBVIOUS
<1>4. CASE k = "afrmm" /\ weighed /\ \A i \in Items : source[i].net > 0
  <2>1. w = [i \in Items |-> source[i].net]
    BY <1>3, <1>4 DEF Weights
  <2>2. PICK i \in Items : source[i].net > 0
    BY <1>4, ItemsAssumption
  <2>3. w \in [Items -> Nat] /\ w[i] > 0
    BY <1>1, <2>1, <2>2
  <2> QED
    BY <1>3, <2>3, SomeWeight
<1>5. CASE ~(k = "afrmm" /\ weighed /\ \A i \in Items : source[i].net > 0)
  <2>1. w = [i \in Items |-> IF weighed THEN source[i].product ELSE rs[i].product]
    BY <1>3, <1>5 DEF Weights
  <2>2. PICK i \in Items : source[i].product > 0
    BY <1>1
  <2>3. w \in [Items -> Nat] /\ w[i] > 0
    <3>1. CASE weighed
      <4>1. w = [x \in Items |-> source[x].product]
        BY <2>1, <3>1
      <4> QED
        BY <1>1, <2>2, <4>1
    <3>2. CASE ~weighed
      <4>1. w = [x \in Items |-> rs[x].product]
        BY <2>1, <3>2
      <4>2. rs[i].product > 0 /\ \A x \in Items : rs[x].product \in Nat
        BY <1>2, <2>2, Zenon
      <4> QED
        BY <4>1, <4>2
    <3> QED
      BY <3>1, <3>2
  <2> QED
    BY <1>3, <2>3, SomeWeight
<1> QED
  BY <1>4, <1>5

\* Allocation among the items of the draft.
LEMMA ItemsShare ==
  ASSUME NEW w \in [Items -> Nat], NEW total \in Nat, total > 0 => Total(w) > 0
  PROVE  /\ Allocate(total, w) \in [Items -> Nat]
         /\ Total(Allocate(total, w)) = total
         /\ AllocatePlanned(total, w) \in [Items -> Nat]
         /\ Total(AllocatePlanned(total, w)) = total
BY ItemsAssumption, AllocationIsExact, PlannedAllocationIsExact

\* An ICMS by the present rule of an item, or by what its row has.
LEMMA RuleOfItem ==
  ASSUME source \in Sources, rule \in [RulesOf(source) -> Configs], NEW i \in Items
  PROVE  /\ rule[source[i].rule] \in Configs
         /\ \A r : Inside(r.icms) /\ r.icms.by = "rule" => Configuration(i, r) \in Configs
BY DEF RulesOf, Configuration, Inside

\* A recalculation shares the costs to the cent, keeps what each item has of its
\* own and the adjustments by hand.
LEMMA RecalculatedRows ==
  ASSUME source \in Sources, rule \in [RulesOf(source) -> Configs],
         NEW rs, RowsOf(source, rs), NEW p, NEW declared, Paid(p, declared),
         NEW costs, \A k \in Costs : costs[k] \in Nat
  PROVE  /\ RowsOf(source, Recalculated(p, rs, costs))
         /\ \A k \in Costs : SharedOut(k, Recalculated(p, rs, costs)) = costs[k]
         /\ \A i \in Items :
              /\ OwnOther(Recalculated(p, rs, costs)[i], Recalculated(p, rs, costs)[i].shares)
                   = OwnOther(rs[i], p.shares[i])
              /\ rs[i].icms.by = "manual" => Recalculated(p, rs, costs)[i].icms = rs[i].icms
<1>1. PICK shared : shared = [k \in Costs |-> Allocate(costs[k], Weights(k, rs, p.weighed))]
  OBVIOUS
<1>2. ASSUME NEW k \in Costs
      PROVE  shared[k] \in [Items -> Nat] /\ Total(shared[k]) = costs[k]
  <2>1. PICK w \in [Items -> Nat] : w = Weights(k, rs, p.weighed) /\ Total(w) > 0
    BY WeightsOfRows
  <2>2. PICK n \in Nat : n = costs[k]
    OBVIOUS
  <2>3. shared[k] = Allocate(n, w)
    BY <1>1, <2>1, <2>2
  <2> QED
    BY <2>1, <2>2, <2>3, ItemsShare
<1>3. PICK bears : bears = [i \in Items |-> [k \in Costs |-> shared[k][i]]]
  OBVIOUS
<1>4. ASSUME NEW i \in Items
      PROVE  /\ bears[i] \in [Costs -> Int] /\ Total(bears[i]) \in Int
             /\ \A k \in Costs : bears[i][k] = shared[k][i]
  <2>1. bears[i] \in [Costs -> Int] /\ \A k \in Costs : bears[i][k] = shared[k][i]
    BY <1>2, <1>3
  <2> QED
    BY <2>1, SharesAddUp
<1>5. PICK R : R = Recalculated(p, rs, costs)
  OBVIOUS
<1>6. DOMAIN R = Items
  BY <1>5 DEF Recalculated
<1>7. ASSUME NEW i \in Items
      PROVE  /\ Rowed(R[i], source[i]) /\ R[i].shares = bears[i]
             /\ OwnOther(R[i], R[i].shares) = OwnOther(rs[i], p.shares[i])
             /\ rs[i].icms.by = "manual" => R[i].icms = rs[i].icms
  <2>1. Rowed(rs[i], source[i])
    BY DEF RowsOf
  <2>2. source[i].product \in Nat
    BY SourcesAssumption
  <2>3. p.shares[i] \in [Costs -> Int]
    BY DEF Paid
  <2>4. PICK was \in Int : was = OwnOther(rs[i], p.shares[i])
    BY <2>1, <2>3, SharesAddUp DEF OwnOther, Rowed
  <2>5. PICK other \in Int : other = was + Total(bears[i])
    BY <1>4
  <2>6. PICK icms : icms = RecalculatedIcms(i, rs[i], rs[i].product + rs[i].taxes + other)
    OBVIOUS
  <2>7. R[i] = [rs[i] EXCEPT !.shares = bears[i], !.other = other, !.icms = icms]
    BY <1>1, <1>3, <1>5, <2>4, <2>5, <2>6 DEF Recalculated
  <2>8. PICK amount \in Int : amount = rs[i].product + rs[i].taxes + other
    BY <2>1, <2>2 DEF Rowed
  <2>9. rs[i].icms.by = "manual" => icms = rs[i].icms
    BY <2>6 DEF RecalculatedIcms
  <2>10. Tagged(icms) /\ Inside(icms)
    <3>1. CASE rs[i].icms.by = "manual"
      BY <2>1, <2>9, <3>1 DEF Rowed
    <3>2. CASE rs[i].icms.by # "manual"
      <4>1. icms = IcmsAlone(Configuration(i, rs[i]), amount)
        BY <2>6, <2>8, <3>2 DEF RecalculatedIcms
      <4>2. Configuration(i, rs[i]) \in Configs
        BY <2>1, <3>2, RuleOfItem DEF Rowed, Tagged
      <4>3. Tagged(icms)
        BY <4>1 DEF IcmsAlone, Icms, Tagged
      <4> QED
        BY <4>1, <4>2, <4>3, IcmsAloneIsInside
    <3> QED
      BY <3>1, <3>2
  <2>11. /\ DOMAIN R[i] = DOMAIN rs[i] /\ R[i].shares = bears[i] /\ R[i].other = other
         /\ R[i].icms = icms /\ R[i].product = rs[i].product /\ R[i].taxes = rs[i].taxes
    BY <2>1, <2>7 DEF Rowed
  <2>12. Rowed(R[i], source[i])
    BY <1>4, <2>1, <2>10, <2>11 DEF Rowed
  <2>13. OwnOther(R[i], R[i].shares) = other - Total(bears[i])
    BY <2>11 DEF OwnOther
  <2>14. OwnOther(R[i], R[i].shares) = was
    BY <1>4, <2>5, <2>13
  <2> QED
    BY <2>4, <2>9, <2>11, <2>12, <2>14
<1>8. ASSUME NEW k \in Costs PROVE SharedOut(k, R) = costs[k]
  <2>1. \A i \in Items : R[i].shares[k] = shared[k][i]
    BY <1>4, <1>7
  <2>2. [i \in Items |-> R[i].shares[k]] = shared[k]
    BY <1>2, <2>1
  <2> QED
    BY <1>2, <2>2 DEF SharedOut
<1>9. RowsOf(source, R)
  BY <1>6, <1>7 DEF RowsOf
<1> QED
  BY <1>5, <1>7, <1>8, <1>9

\* The payload copied from the rows.
LEMMA RefreshedPayload ==
  ASSUME NEW src, NEW rs, RowsOf(src, rs), NEW p, NEW declared, Paid(p, declared)
  PROVE  /\ Paid(Refreshed(p, rs), declared) /\ Refreshed(p, rs).costs = p.costs
         /\ \A i \in Items : Refreshed(p, rs).shares[i] = rs[i].shares
<1>1. PICK new : new = Refreshed(p, rs)
  OBVIOUS
<1>2. \A i \in Items : rs[i].shares \in [Costs -> Int]
  BY DEF RowsOf, Rowed
<1>3. /\ DOMAIN new = DOMAIN p /\ new.costs = p.costs /\ new.declared = p.declared
      /\ new.shares = [i \in Items |-> rs[i].shares]
  BY <1>1 DEF Refreshed, Paid
<1> QED
  BY <1>1, <1>2, <1>3 DEF Paid

-----------------------------------------------------------------------------
(* The requests keep the invariant *)

\* No adjustment by hand is lost in this step, an adjustment apart.
Stands ==
  \A i \in Items :
    rows[i].icms.by = "manual" /\ rows'[i].icms # rows[i].icms =>
      (\E h \in Handlers : AdjustTax(h)) \/ raced'

\* An edit whose rows bear its costs.
LEMMA EditKeeps ==
  ASSUME Inv, NEW h \in Handlers, req[h].busy, NEW seen \in Seen(h), NEW p, NEW rs,
         Edit(h, seen, p, rs), Paid(p, draft.payload.declared), RowsOf(source, rs),
         DOMAIN own' = Items,
         ~raced /\ ~req[h].late =>
           /\ \A k \in Costs : SharedOut(k, rs) = p.costs[k]
           /\ \A i \in Items : OwnOther(rs[i], rs[i].shares) = own'[i]
  PROVE  Inv' /\ (~raced' => \A i \in Items : rows'[i].icms = rs[i].icms)
<1>1. PICK after, status, xml :
        /\ after = Refreshed(p, rs) /\ xml = req[h].draft.xml
        /\ Finish(h, seen, after, rs, status, xml)
  BY DEF Edit
<1>2. /\ Paid(after, draft.payload.declared) /\ after.costs = p.costs
      /\ \A i \in Items : after.shares[i] = rs[i].shares
  BY <1>1, RefreshedPayload
<1>3. ~raced /\ ~req[h].late => Exact(after, rs, own')
  BY <1>2 DEF Exact
<1> QED
  BY <1>1, <1>2, <1>3, FinishKeeps

\* Without a commit in between, a step that keeps the adjustments it has seen
\* keeps those that are stored.
LEMMA SeenStands ==
  ASSUME Inv, NEW h \in Handlers, req[h].busy, NEW seen \in Seen(h), NEW rs,
         raced' = (raced \/ req[h].late),
         \A i \in Items : seen[i].icms.by = "manual" => rs[i].icms = seen[i].icms,
         ~raced' => \A i \in Items : rows'[i].icms = rs[i].icms
  PROVE  Stands
<1>1. ~raced' => seen = rows
  BY SeenRows
<1> QED
  BY <1>1 DEF Stands

\* New costs: a recalculation with what the request has read.
LEMMA UpdateCostsStep ==
  ASSUME Inv, NEW h \in Handlers, UpdateCosts(h)
  PROVE  Inv' /\ Stands
<1>1. PICK p : p = req[h].draft.payload
  OBVIOUS
<1>2. req[h].busy /\ own' = own
  BY DEF UpdateCosts
<1>3. PICK sent \in CostSets, seen \in Seen(h) :
        Edit(h, seen, [p EXCEPT !.costs = Merged(p.costs, sent)],
             Recalculated(p, seen, Merged(p.costs, sent)))
  BY <1>1 DEF UpdateCosts
<1>4. PICK costs, rs :
        /\ costs = Merged(p.costs, sent) /\ rs = Recalculated(p, seen, costs)
        /\ Edit(h, seen, [p EXCEPT !.costs = costs], rs)
  BY <1>3
<1>5. /\ RowsOf(source, seen) /\ Paid(p, draft.payload.declared) /\ req[h].late \in BOOLEAN
      /\ ~req[h].late => seen = rows /\ req[h].draft = draft
  BY <1>1, <1>2, SeenRows DEF Drafted
<1>6. /\ source \in Sources /\ rule \in [RulesOf(source) -> Configs] /\ DOMAIN own = Items
      /\ ~raced => Exact(draft.payload, rows, own)
  BY DEF Inv, Tables
<1>7. \A k \in Costs : costs[k] \in Nat
  BY <1>4, <1>5, DraftTaxesAssumption DEF Merged, Paid
<1>8. /\ RowsOf(source, rs) /\ \A k \in Costs : SharedOut(k, rs) = costs[k]
      /\ \A i \in Items : /\ OwnOther(rs[i], rs[i].shares) = OwnOther(seen[i], p.shares[i])
                          /\ seen[i].icms.by = "manual" => rs[i].icms = seen[i].icms
  BY <1>4, <1>5, <1>6, <1>7, RecalculatedRows
<1>9. PICK paid : paid = [p EXCEPT !.costs = costs]
  OBVIOUS
<1>10. paid.costs = costs /\ Paid(paid, draft.payload.declared)
  BY <1>5, <1>7, <1>9 DEF Paid
<1>11. ~raced /\ ~req[h].late =>
         /\ \A k \in Costs : SharedOut(k, rs) = paid.costs[k]
         /\ \A i \in Items : OwnOther(rs[i], rs[i].shares) = own'[i]
  BY <1>1, <1>2, <1>5, <1>6, <1>8, <1>10 DEF Exact
<1>12. Inv' /\ (~raced' => \A i \in Items : rows'[i].icms = rs[i].icms)
  <2>1. Edit(h, seen, paid, rs) /\ DOMAIN own' = Items
    BY <1>2, <1>4, <1>6, <1>9
  <2> QED
    BY <1>2, <1>8, <1>10, <1>11, <2>1, EditKeeps
<1>13. raced' = (raced \/ req[h].late)
  BY <1>4 DEF Edit, Finish
<1>14. Stands
  BY <1>2, <1>8, <1>12, <1>13, SeenStands
<1> QED
  BY <1>12, <1>14

\* A typed amount: of the other expenses, what is not the shares' becomes the item's
\* own.
LEMMA UpdateItemStep ==
  ASSUME Inv, NEW h \in Handlers, UpdateItem(h)
  PROVE  Inv' /\ Stands
<1>1. PICK p : p = req[h].draft.payload
  OBVIOUS
<1>2. req[h].busy
  BY DEF UpdateItem
<1>3. PICK i \in Items, f \in {"product", "taxes", "other"}, amount \in Amounts, seen \in Seen(h) :
        /\ Edit(h, seen, p, [seen EXCEPT ![i][f] = amount])
        /\ own' = IF f = "other" THEN [own EXCEPT ![i] = amount - Total(seen[i].shares)] ELSE own
  BY <1>1 DEF UpdateItem
<1>4. PICK rs : /\ rs = [seen EXCEPT ![i][f] = amount] /\ Edit(h, seen, p, rs)
                /\ own' = IF f = "other" THEN [own EXCEPT ![i] = amount - Total(seen[i].shares)]
                          ELSE own
  BY <1>3
<1>5. /\ RowsOf(source, seen) /\ Paid(p, draft.payload.declared) /\ req[h].late \in BOOLEAN
      /\ ~req[h].late => seen = rows /\ req[h].draft = draft
  BY <1>1, <1>2, SeenRows DEF Drafted
<1>6. DOMAIN own = Items /\ (~raced => Exact(draft.payload, rows, own))
  BY DEF Inv, Tables
<1>7. DOMAIN own' = Items
  BY <1>4, <1>6
<1>8. amount \in Nat /\ amount > 0
  BY DraftTaxesAssumption
<1>9. DOMAIN rs = Items /\ rs[i] = [seen[i] EXCEPT ![f] = amount]
      /\ \A j \in Items \ {i} : rs[j] = seen[j]
  BY <1>4, <1>5 DEF RowsOf
<1>10. Rowed(seen[i], source[i])
  BY <1>5 DEF RowsOf
<1>11. /\ DOMAIN rs[i] = DOMAIN seen[i]
       /\ rs[i].product = IF f = "product" THEN amount ELSE seen[i].product
       /\ rs[i].taxes = IF f = "taxes" THEN amount ELSE seen[i].taxes
       /\ rs[i].other = IF f = "other" THEN amount ELSE seen[i].other
       /\ rs[i].shares = seen[i].shares /\ rs[i].icms = seen[i].icms
  BY <1>9, <1>10 DEF Rowed
<1>12. Rowed(rs[i], source[i])
  BY <1>8, <1>10, <1>11 DEF Rowed
<1>13. RowsOf(source, rs)
  BY <1>5, <1>9, <1>12 DEF RowsOf
<1>14. \A j \in Items : rs[j].shares = seen[j].shares /\ rs[j].icms = seen[j].icms
  BY <1>9, <1>11
<1>15. ~raced /\ ~req[h].late =>
         /\ \A k \in Costs : SharedOut(k, rs) = p.costs[k]
         /\ \A j \in Items : OwnOther(rs[j], rs[j].shares) = own'[j]
  <2> SUFFICES ASSUME ~raced, ~req[h].late
               PROVE  /\ \A k \in Costs : SharedOut(k, rs) = p.costs[k]
                      /\ \A j \in Items : OwnOther(rs[j], rs[j].shares) = own'[j]
    OBVIOUS
  <2>1. seen = rows /\ p = draft.payload /\ Exact(draft.payload, rows, own)
    BY <1>1, <1>5, <1>6
  <2>2. \A k \in Costs : SharedOut(k, rs) = SharedOut(k, seen)
    BY <1>14 DEF SharedOut
  <2>3. OwnOther(rs[i], rs[i].shares) = own'[i]
    <3>1. CASE f = "other"
      BY <1>4, <1>6, <1>11, <3>1 DEF OwnOther
    <3>2. CASE f # "other"
      BY <1>4, <1>11, <2>1, <3>2 DEF OwnOther, Exact
    <3> QED
      BY <3>1, <3>2
  <2>4. \A j \in Items \ {i} : OwnOther(rs[j], rs[j].shares) = own'[j]
    BY <1>4, <1>6, <1>9, <2>1 DEF Exact
  <2> QED
    BY <2>1, <2>2, <2>3, <2>4 DEF Exact
<1>16. Inv' /\ (~raced' => \A j \in Items : rows'[j].icms = rs[j].icms)
  <2>1. Edit(h, seen, p, rs) /\ Paid(p, draft.payload.declared)
    BY <1>4, <1>5
  <2> QED
    BY <1>2, <1>7, <1>13, <1>15, <2>1, EditKeeps
<1>17. raced' = (raced \/ req[h].late)
  BY <1>4 DEF Edit, Finish
<1>18. Stands
  BY <1>2, <1>14, <1>16, <1>17, SeenStands
<1> QED
  BY <1>16, <1>18

\* An adjustment touches one ICMS and no share.
LEMMA AdjustTaxStep ==
  ASSUME Inv, NEW h \in Handlers, AdjustTax(h)
  PROVE  Inv' /\ Stands
<1>1. PICK p : p = req[h].draft.payload
  OBVIOUS
<1>2. req[h].busy /\ own' = own
  BY DEF AdjustTax
<1>3. PICK i \in Items, seen \in Seen(h) :
        \E icms \in Adjusted(i, seen[i]) : Edit(h, seen, p, [seen EXCEPT ![i].icms = icms])
  BY <1>1 DEF AdjustTax
<1>4. PICK icms, rs :
        /\ icms \in Adjusted(i, seen[i])
        /\ rs = [seen EXCEPT ![i].icms = icms] /\ Edit(h, seen, p, rs)
  BY <1>3
<1>5. /\ RowsOf(source, seen) /\ Paid(p, draft.payload.declared) /\ req[h].late \in BOOLEAN
      /\ ~req[h].late => seen = rows /\ req[h].draft = draft
  BY <1>1, <1>2, SeenRows DEF Drafted
<1>6. /\ source \in Sources /\ rule \in [RulesOf(source) -> Configs] /\ DOMAIN own = Items
      /\ ~raced => Exact(draft.payload, rows, own)
  BY DEF Inv, Tables
<1>7. Rowed(seen[i], source[i])
  BY <1>5 DEF RowsOf
<1>8. Tagged(icms) /\ Inside(icms)
  <2>1. PICK amount \in Int : amount = Amount(seen[i])
    BY <1>7 DEF Amount, Rowed
  <2>2. PICK conf \in Configs : conf = rule[source[i].rule]
    BY <1>6, RuleOfItem
  <2>3. CASE icms = IcmsAlone(conf, amount)
    <3>1. Tagged(icms)
      BY <2>3 DEF IcmsAlone, Icms, Tagged
    <3> QED
      BY <2>3, <3>1, IcmsAloneIsInside
  <2>4. CASE \E c \in Typed, base \in Amounts : icms = Manual(seen[i].icms, c, base)
    <3>1. PICK c \in Typed, base \in Amounts : icms = Manual(seen[i].icms, c, base)
      BY <2>4
    <3>2. Tagged(icms) /\ icms.by = "manual"
      BY <1>7, <3>1 DEF Manual, Rowed, Tagged
    <3> QED
      BY <3>2 DEF Inside
  <2> QED
    BY <1>4, <2>1, <2>2, <2>3, <2>4 DEF Adjusted
<1>9. DOMAIN rs = Items /\ rs[i] = [seen[i] EXCEPT !.icms = icms]
      /\ \A j \in Items \ {i} : rs[j] = seen[j]
  BY <1>4, <1>5 DEF RowsOf
<1>10. /\ DOMAIN rs[i] = DOMAIN seen[i] /\ rs[i].other = seen[i].other
      /\ rs[i].product = seen[i].product /\ rs[i].taxes = seen[i].taxes
      /\ rs[i].shares = seen[i].shares /\ rs[i].icms = icms
  BY <1>7, <1>9 DEF Rowed
<1>11. RowsOf(source, rs)
  <2>1. Rowed(rs[i], source[i])
    BY <1>7, <1>8, <1>10 DEF Rowed
  <2> QED
    BY <1>5, <1>9, <2>1 DEF RowsOf
<1>12. \A j \in Items : rs[j].shares = seen[j].shares /\ rs[j].other = seen[j].other
  BY <1>9, <1>10
<1>13. ASSUME ~raced, ~req[h].late
       PROVE  /\ \A k \in Costs : SharedOut(k, rs) = p.costs[k]
              /\ \A j \in Items : OwnOther(rs[j], rs[j].shares) = own'[j]
  <2>1. seen = rows /\ p = draft.payload /\ Exact(draft.payload, rows, own)
    BY <1>1, <1>5, <1>6, <1>13
  <2>2. \A k \in Costs : SharedOut(k, rs) = SharedOut(k, seen)
    BY <1>12 DEF SharedOut
  <2>3. \A j \in Items : OwnOther(rs[j], rs[j].shares) = OwnOther(seen[j], seen[j].shares)
    BY <1>12 DEF OwnOther
  <2> QED
    BY <1>2, <2>1, <2>2, <2>3 DEF Exact
<1>14. Inv'
  BY <1>2, <1>4, <1>5, <1>6, <1>11, <1>13, EditKeeps
<1> QED
  BY <1>14 DEF Stands

\* Storing what was seen, after a validation.
LEMMA StoreSeen ==
  ASSUME Inv, NEW h \in Handlers, req[h].busy, NEW seen \in Seen(h), own' = own, NEW after,
         after = Refreshed(req[h].draft.payload, seen), NEW status, NEW xml,
         Finish(h, seen, after, seen, status, xml),
         xml = req[h].draft.xml \/ Printed(xml, draft.payload.declared)
  PROVE  Inv' /\ Stands
<1>1. /\ RowsOf(source, seen) /\ Paid(req[h].draft.payload, draft.payload.declared)
      /\ req[h].late \in BOOLEAN
      /\ ~req[h].late => seen = rows /\ req[h].draft = draft
  BY SeenRows DEF Drafted
<1>2. DOMAIN own = Items /\ (~raced => Exact(draft.payload, rows, own))
  BY DEF Inv, Tables
<1>3. /\ Paid(after, draft.payload.declared) /\ after.costs = req[h].draft.payload.costs
      /\ \A i \in Items : after.shares[i] = seen[i].shares
  BY <1>1, RefreshedPayload
<1>4. ~raced /\ ~req[h].late => Exact(after, seen, own')
  BY <1>1, <1>2, <1>3 DEF Exact
<1>5. Inv' /\ (~raced' => \A i \in Items : rows'[i].icms = seen[i].icms)
  BY <1>1, <1>2, <1>3, <1>4, FinishKeeps
<1>6. raced' = (raced \/ req[h].late)
  BY DEF Finish
<1>7. Stands
  BY <1>5, <1>6, SeenStands
<1> QED
  BY <1>5, <1>7

\* A validation stores what it has seen.
LEMMA ValidateStep ==
  ASSUME Inv, NEW h \in Handlers, Validate(h)
  PROVE  Inv' /\ Stands
<1>1. req[h].busy /\ own' = own
  BY DEF Validate
<1>2. PICK seen \in Seen(h) :
        \E after : /\ after = Refreshed(req[h].draft.payload, seen)
                   /\ Finish(h, seen, after, seen, StatusOf(after, seen), req[h].draft.xml)
  BY DEF Validate
<1>3. PICK after, status, xml :
        /\ after = Refreshed(req[h].draft.payload, seen) /\ xml = req[h].draft.xml
        /\ Finish(h, seen, after, seen, status, xml)
  BY <1>2
<1> QED
  BY <1>1, <1>3, StoreSeen

\* An XML is printed only of rows and a payload that balance.
LEMMA GenerateXmlStep ==
  ASSUME Inv, NEW h \in Handlers, GenerateXml(h)
  PROVE  Inv' /\ Stands
<1>1. req[h].busy /\ own' = own
  BY DEF GenerateXml
<1>2. PICK seen \in Seen(h) :
        \E after, xml :
          /\ after = Refreshed(req[h].draft.payload, seen) /\ Balanced(after, seen)
          /\ xml = [rows |-> seen, costs |-> after.costs]
          /\ Finish(h, seen, after, seen, "xml_generated", xml)
  BY DEF GenerateXml, FitForXml
<1>3. PICK after, status, xml :
        /\ after = Refreshed(req[h].draft.payload, seen) /\ Balanced(after, seen)
        /\ xml = [rows |-> seen, costs |-> after.costs]
        /\ Finish(h, seen, after, seen, status, xml)
  BY <1>2
<1>4. RowsOf(source, seen) /\ Paid(req[h].draft.payload, draft.payload.declared)
  BY <1>1, SeenRows DEF Drafted
<1>5. after.declared = draft.payload.declared
  <2>1. Paid(after, draft.payload.declared)
    BY <1>3, <1>4, RefreshedPayload
  <2> QED
    BY <2>1 DEF Paid
<1>6. xml.rows = seen /\ xml.costs = after.costs
  BY <1>3
<1>7. Printed(xml, draft.payload.declared)
  BY <1>3, <1>5, <1>6 DEF Printed, Declared, Balanced
<1> QED
  BY <1>1, <1>3, <1>7, StoreSeen

\* What no request changes.
LEMMA UnchangedTables ==
  ASSUME Inv, UNCHANGED <<source, draft, rows, own, raced>>, DOMAIN req' = Handlers,
         rule' \in [RulesOf(source) -> Configs], \A g \in Handlers : Holds(g)'
  PROVE  Inv' /\ Stands
<1>1. Tables'
  BY DEF Inv, Tables, RulesOf
<1>2. Printed(draft.xml, draft.payload.declared)' /\ (~raced => Exact(draft.payload, rows, own))'
  BY DEF Inv
<1> QED
  BY <1>1, <1>2 DEF Inv, Stands

\* A request that has just read the draft has the draft.
LEMMA LoadStep ==
  ASSUME Inv, NEW h \in Handlers, Load(h)
  PROVE  Inv' /\ Stands
<1>1. /\ Tables /\ \A g \in Handlers : Holds(g)
      /\ UNCHANGED <<source, rule, draft, rows, own, raced>>
      /\ req' = [req EXCEPT ![h] =
                   [busy |-> TRUE, draft |-> draft, rows |-> rows, late |-> FALSE]]
  BY DEF Inv, Load
<1>2. DOMAIN req' = Handlers
  BY <1>1 DEF Tables
<1>3. ASSUME NEW g \in Handlers PROVE Holds(g)'
  <2>1. CASE g = h
    <3>1. req'[g] = [busy |-> TRUE, draft |-> draft, rows |-> rows, late |-> FALSE]
      BY <1>1, <2>1 DEF Tables
    <3> QED
      BY <1>1, <3>1 DEF Holds, Tables
  <2>2. CASE g # h
    <3>1. req'[g] = req[g]
      BY <1>1, <2>2
    <3> QED
      BY <1>1, <3>1 DEF Holds
  <2> QED
    BY <2>1, <2>2
<1> QED
  BY <1>1, <1>2, <1>3, UnchangedTables DEF Tables

\* A request that gives up holds nothing.
LEMMA GiveUpStep ==
  ASSUME Inv, NEW h \in Handlers, GiveUp(h)
  PROVE  Inv' /\ Stands
<1>1. /\ Tables /\ \A g \in Handlers : Holds(g)
      /\ UNCHANGED <<source, rule, draft, rows, own, raced>>
      /\ req' = [req EXCEPT ![h] = Idle]
  BY DEF Inv, GiveUp
<1>2. DOMAIN req' = Handlers
  BY <1>1 DEF Tables
<1>3. ASSUME NEW g \in Handlers PROVE Holds(g)'
  <2>1. CASE g = h
    <3>1. req'[g] = Idle
      BY <1>1, <2>1 DEF Tables
    <3> QED
      BY <3>1 DEF Holds, Idle
  <2>2. CASE g # h
    <3>1. req'[g] = req[g]
      BY <1>1, <2>2
    <3> QED
      BY <1>1, <3>1 DEF Holds
  <2> QED
    BY <2>1, <2>2
<1> QED
  BY <1>1, <1>2, <1>3, UnchangedTables DEF Tables

\* Another configuration of a rule touches no stored figure.
LEMMA ReviseRuleStep ==
  ASSUME Inv, ReviseRule
  PROVE  Inv' /\ Stands
<1>1. /\ Tables /\ \A g \in Handlers : Holds(g)
      /\ UNCHANGED <<source, draft, rows, req, own, raced>>
  BY DEF Inv, ReviseRule
<1>2. rule' \in [RulesOf(source) -> Configs]
  BY <1>1 DEF Tables, ReviseRule
<1>3. \A g \in Handlers : Holds(g)'
  BY <1>1 DEF Holds
<1> QED
  BY <1>1, <1>2, <1>3, UnchangedTables DEF Tables

\* Every step.
LEMMA InvStep == Inv /\ [Next]_vars => Inv' /\ Stands
<1> SUFFICES ASSUME Inv, [Next]_vars PROVE Inv' /\ Stands
  OBVIOUS
<1>1. ASSUME NEW h \in Handlers,
             \/ Load(h) \/ UpdateCosts(h) \/ UpdateItem(h) \/ AdjustTax(h)
             \/ Validate(h) \/ GenerateXml(h) \/ GiveUp(h)
      PROVE  Inv' /\ Stands
  BY <1>1, LoadStep, UpdateCostsStep, UpdateItemStep, AdjustTaxStep, ValidateStep,
     GenerateXmlStep, GiveUpStep
<1>2. CASE ReviseRule
  BY <1>2, ReviseRuleStep
<1>3. CASE UNCHANGED vars
  <2>1. UNCHANGED <<source, rule, draft, rows, req, own, raced>>
    BY <1>3 DEF vars
  <2>2. \A g \in Handlers : Holds(g)'
    BY <2>1 DEF Inv, Holds
  <2> QED
    BY <2>1, <2>2, UnchangedTables DEF Inv, Tables
<1> QED
  BY <1>1, <1>2, <1>3 DEF Next

-----------------------------------------------------------------------------
(* A new draft *)

\* The weights of a new draft.
LEMMA FirstWeightsShare ==
  ASSUME NEW src \in Sources, NEW costs \in CostSets, DOMAIN costs = Costs,
         NEW planned \in BOOLEAN, Weighed(src, costs, planned), NEW k \in Costs
  PROVE  /\ FirstWeights(k, src, planned) \in [Items -> Nat] /\ costs[k] \in Nat
         /\ costs[k] > 0 => Total(FirstWeights(k, src, planned)) > 0
<1>1. PICK w : w = FirstWeights(k, src, planned)
  OBVIOUS
<1>2. \A i \in Items : src[i].product \in Nat /\ src[i].net \in Nat
  BY SourcesAssumption
<1>3. w \in [Items -> Nat]
  BY <1>1, <1>2 DEF FirstWeights
<1>4. costs[k] \in Nat
  BY DraftTaxesAssumption
<1>5. ASSUME costs[k] > 0 PROVE Total(w) > 0
  <2>1. PICK i \in Items : TRUE
    BY ItemsAssumption
  <2>2. w[i] > 0
    BY <1>1, <1>5 DEF Weighed, FirstWeights, Costs
  <2> QED
    BY <1>3, <2>2, SomeWeight
<1> QED
  BY <1>1, <1>3, <1>4, <1>5

\* The shares of a new draft add up to its expenses.
LEMMA FirstSharesAreExact ==
  ASSUME NEW src \in Sources, NEW costs \in CostSets, DOMAIN costs = Costs,
         NEW planned \in BOOLEAN, Weighed(src, costs, planned)
  PROVE  /\ FirstShares(src, costs, planned) \in [Items -> [Costs -> Int]]
         /\ \A k \in Costs :
              Total([i \in Items |-> FirstShares(src, costs, planned)[i][k]]) = costs[k]
<1>1. PICK shared :
        shared = [k \in Costs |->
                    IF planned THEN AllocatePlanned(costs[k], FirstWeights(k, src, planned))
                    ELSE Allocate(costs[k], FirstWeights(k, src, planned))]
  OBVIOUS
<1>2. ASSUME NEW k \in Costs
      PROVE  shared[k] \in [Items -> Nat] /\ Total(shared[k]) = costs[k]
  <2>1. PICK w \in [Items -> Nat], n \in Nat :
          w = FirstWeights(k, src, planned) /\ n = costs[k] /\ (n > 0 => Total(w) > 0)
    BY FirstWeightsShare
  <2>2. shared[k] = IF planned THEN AllocatePlanned(n, w) ELSE Allocate(n, w)
    BY <1>1, <2>1
  <2> QED
    BY <2>1, <2>2, ItemsShare
<1>3. PICK F : F = FirstShares(src, costs, planned)
  OBVIOUS
<1>4. F = [i \in Items |-> [k \in Costs |-> shared[k][i]]]
  BY <1>1, <1>3 DEF FirstShares
<1>5. F \in [Items -> [Costs -> Int]]
  BY <1>2, <1>4
<1>6. ASSUME NEW k \in Costs PROVE Total([i \in Items |-> F[i][k]]) = costs[k]
  <2>1. [i \in Items |-> F[i][k]] = shared[k]
    BY <1>2, <1>4
  <2> QED
    BY <1>2, <2>1
<1> QED
  BY <1>3, <1>5, <1>6

\* So is the ICMS of a new draft inside its base.
LEMMA FirstIcmsIsInside ==
  ASSUME NEW src, NEW amounts \in [Items -> Int], NEW confs \in [RulesOf(src) -> Configs],
         NEW lead \in Items, NEW i \in Items
  PROVE  /\ Tagged(FirstIcms(src, amounts, confs, lead)[i])
         /\ Inside(FirstIcms(src, amounts, confs, lead)[i])
<1>1. \A j \in Items : confs[src[j].rule] \in Configs
  BY DEF RulesOf
<1>2. amounts[i] \in Int
  OBVIOUS
<1>3. CASE Cardinality({u \in RulesOf(src) : Ruled(u)}) = 1
  <2>1. PICK conf \in Configs : conf = confs[src[lead].rule]
    BY <1>1
  <2>2. PICK customs : customs = [x \in Items |-> src[x].product]
    OBVIOUS
  <2>3. FirstIcms(src, amounts, confs, lead)[i] = IcmsTogether(conf, amounts, customs)[i]
    BY <1>3, <2>1, <2>2 DEF FirstIcms
  <2>4. Tagged(IcmsTogether(conf, amounts, customs)[i])
    BY DEF IcmsTogether, IcmsAlone, Icms, Tagged
  <2> QED
    BY <1>2, <2>3, <2>4, IcmsTogetherIsInside
<1>4. CASE Cardinality({u \in RulesOf(src) : Ruled(u)}) # 1
  <2>1. PICK conf \in Configs, a \in Int : conf = confs[src[i].rule] /\ a = amounts[i]
    BY <1>1, <1>2
  <2>2. FirstIcms(src, amounts, confs, lead)[i] = IcmsAlone(conf, a)
    BY <1>4, <2>1 DEF FirstIcms
  <2>3. Tagged(IcmsAlone(conf, a))
    BY DEF IcmsAlone, Icms, Tagged
  <2> QED
    BY <2>2, <2>3, IcmsAloneIsInside
<1> QED
  BY <1>3, <1>4

\* The rows of a new draft: each bears its own expenses and its shares.
LEMMA FirstRowsAreExact ==
  ASSUME NEW src \in Sources, NEW shares \in [Items -> [Costs -> Int]],
         NEW confs \in [RulesOf(src) -> Configs], NEW lead \in Items
  PROVE  /\ RowsOf(src, FirstRows(src, shares, confs, lead))
         /\ \A i \in Items :
              /\ FirstRows(src, shares, confs, lead)[i].shares = shares[i]
              /\ OwnOther(FirstRows(src, shares, confs, lead)[i], shares[i]) = src[i].other
<1>1. \A i \in Items : src[i].product \in Nat /\ src[i].taxes \in Int /\ src[i].other \in Int
  BY SourcesAssumption
<1>2. \A i \in Items : Total(shares[i]) \in Int
  BY SharesAddUp
<1>3. PICK other : other = [i \in Items |-> src[i].other + Total(shares[i])]
  OBVIOUS
<1>4. other \in [Items -> Int] /\ \A i \in Items : other[i] = src[i].other + Total(shares[i])
  BY <1>1, <1>2, <1>3
<1>5. PICK amounts : amounts = [i \in Items |-> src[i].product + src[i].taxes + other[i]]
  OBVIOUS
<1>6. amounts \in [Items -> Int]
  BY <1>1, <1>4, <1>5
<1>7. PICK icms : icms = FirstIcms(src, amounts, confs, lead)
  OBVIOUS
<1>8. \A i \in Items : Tagged(icms[i]) /\ Inside(icms[i])
  BY <1>6, <1>7, FirstIcmsIsInside
<1>9. PICK R : R = FirstRows(src, shares, confs, lead)
  OBVIOUS
<1>10. amounts = [i \in Items |->
                    src[i].product + src[i].taxes + (src[i].other + Total(shares[i]))]
  BY <1>4, <1>5
<1>11. R = [i \in Items |-> [product |-> src[i].product, taxes |-> src[i].taxes,
                             other |-> src[i].other + Total(shares[i]),
                             shares |-> shares[i], icms |-> icms[i]]]
  BY <1>7, <1>9, <1>10 DEF FirstRows
<1>12. ASSUME NEW i \in Items
       PROVE  /\ Rowed(R[i], src[i]) /\ R[i].shares = shares[i]
              /\ OwnOther(R[i], shares[i]) = src[i].other
  <2>1. R[i] = [product |-> src[i].product, taxes |-> src[i].taxes, other |-> other[i],
                shares |-> shares[i], icms |-> icms[i]]
    BY <1>4, <1>11
  <2>2. other[i] \in Int /\ shares[i] \in [Costs -> Int]
    BY <1>4
  <2>3. Rowed(R[i], src[i]) /\ R[i].shares = shares[i] /\ R[i].other = other[i]
    BY <1>1, <1>8, <2>1, <2>2 DEF Rowed
  <2>4. OwnOther(R[i], shares[i]) = other[i] - Total(shares[i])
    BY <2>3 DEF OwnOther
  <2> QED
    BY <1>1, <1>2, <1>4, <2>3, <2>4
<1> QED
  BY <1>9, <1>11, <1>12 DEF RowsOf

\* A new draft bears its expenses to the cent.
LEMMA InitInv == Init => Inv
<1> SUFFICES ASSUME Init PROVE Inv
  OBVIOUS
<1>1. PICK costs \in CostSets, planned \in BOOLEAN, declares \in BOOLEAN, lead \in Items :
        /\ DOMAIN costs = Costs /\ Weighed(source, costs, planned)
        /\ rows = Created(source, costs, rule, planned, declares, lead).rows
        /\ draft = [payload |-> Created(source, costs, rule, planned, declares, lead).payload,
                    status |-> Created(source, costs, rule, planned, declares, lead).status,
                    xml |-> Created(source, costs, rule, planned, declares, lead).xml]
  BY DEF Init
<1>2. /\ source \in Sources /\ rule \in [RulesOf(source) -> Configs]
      /\ req = [h \in Handlers |-> Idle] /\ own = [i \in Items |-> source[i].other]
      /\ raced = FALSE
  BY DEF Init
<1>3. PICK shares : shares = FirstShares(source, costs, planned)
  OBVIOUS
<1>4. /\ shares \in [Items -> [Costs -> Int]]
      /\ \A k \in Costs : Total([i \in Items |-> shares[i][k]]) = costs[k]
  BY <1>1, <1>2, <1>3, FirstSharesAreExact
<1>5. PICK rs : rs = FirstRows(source, shares, rule, lead)
  OBVIOUS
<1>6. /\ RowsOf(source, rs)
      /\ \A i \in Items : rs[i].shares = shares[i] /\ OwnOther(rs[i], shares[i]) = source[i].other
  BY SMTT(30), <1>2, <1>4, <1>5, FirstRowsAreExact
<1>7. PICK p : p = FirstPayload(rs, costs, planned, declares)
  OBVIOUS
<1>8. /\ DOMAIN p = {"costs", "weighed", "shares", "declared"} /\ p.costs = costs
      /\ p.shares = [i \in Items |-> rs[i].shares]
  BY <1>7 DEF FirstPayload
<1>9. /\ rows = rs /\ draft.payload = p /\ draft.xml = NoXml
      /\ DOMAIN draft = {"payload", "status", "xml"}
  BY <1>1, <1>3, <1>5, <1>7 DEF Created
<1>10. Paid(p, p.declared)
  <2>1. \A k \in Costs : costs[k] \in Nat
    BY <1>1, DraftTaxesAssumption
  <2>2. [i \in Items |-> rs[i].shares] \in [Items -> [Costs -> Int]]
    BY <1>4, <1>6
  <2> QED
    BY <1>8, <2>1, <2>2 DEF Paid
<1>11. Exact(p, rs, own)
  <2>1. \A k \in Costs : [i \in Items |-> rs[i].shares[k]] = [i \in Items |-> shares[i][k]]
    BY <1>6
  <2>2. \A k \in Costs : SharedOut(k, rs) = costs[k]
    BY <1>4, <2>1 DEF SharedOut
  <2>3. \A i \in Items : OwnOther(rs[i], rs[i].shares) = own[i]
    BY <1>2, <1>6
  <2> QED
    BY <1>8, <2>2, <2>3 DEF Exact
<1>12. \A h \in Handlers : Holds(h)
  BY <1>2 DEF Holds, Idle
<1>13. Tables
  BY <1>2, <1>6, <1>9, <1>10 DEF Tables, Drafted
<1> QED
  BY <1>9, <1>11, <1>12, <1>13 DEF Inv, Printed

-----------------------------------------------------------------------------
(* Theorems *)

\* The invariant holds whatever requests do.
LEMMA AlwaysInv == Spec => []Inv
<1>1. Inv /\ [Next]_vars => Inv'
  BY InvStep
<1> QED
  BY InitInv, <1>1, PTL DEF Spec

\* An unsigned XML always states expenses that add up to those of its items and
\* the ICMS of the DUIMP, however the requests that edit the draft overlap
\* (generate_unsigned_xml validates what it prints).
THEOREM XmlBalanced == Spec => []XmlIsBalanced
<1>1. Inv => XmlIsBalanced
  BY DEF Inv, Printed, Declared, XmlIsBalanced
<1> QED
  BY <1>1, AlwaysInv, PTL

\* As long as requests do not overlap, no edit shares an expense twice or loses a
\* cent of it, for any items, weights, costs and rules.
THEOREM SharesExact == Spec => []SharesAreExact
<1>1. Inv => SharesAreExact
  BY DEF Inv, Exact, SharesAreExact
<1> QED
  BY <1>1, AlwaysInv, PTL

\* The ICMS by rule of every stored item is part of its own base, give or take a
\* cent, at any rate and reduction and whatever was written over.
THEOREM IcmsInside == Spec => []IcmsIsInside
<1>1. Inv => IcmsIsInside
  BY DEF Inv, Tables, RowsOf, Rowed, Inside, Taxed, IcmsIsInside
<1> QED
  BY <1>1, AlwaysInv, PTL

\* No recalculation changes an ICMS that was adjusted by hand.
THEOREM AdjustmentsKept == Spec => AdjustmentsStand
<1>1. Inv /\ [Next]_vars => Stands
  BY InvStep
<1>2. Inv /\ [Next]_vars =>
        [\A i \in Items :
           rows[i].icms.by = "manual" /\ rows'[i].icms # rows[i].icms =>
             \/ \E h \in Handlers : AdjustTax(h)
             \/ raced']_vars
  BY <1>1 DEF Stands
<1> QED
  BY <1>2, AlwaysInv, PTL DEF Spec, AdjustmentsStand

-----------------------------------------------------------------------------
(* The number of a draft *)

HoldsRow(r) == tx[r].does \in {"reserve", "update"}

\* At most one transaction holds the row, and only a row that exists.
RowLocked ==
  /\ \A r, q \in Requests : HoldsRow(r) /\ HoldsRow(q) => r = q
  /\ \A r \in Requests : HoldsRow(r) => Exists(row)

\* What transaction r will add to the committed row.
PendingOf(r) ==
  LET t == tx[r] IN
  /\ t.does = "nothing" => t = Closed
  /\ t.does = "reserve" => /\ t.numbers = (row.current + 1)..t.row.current
                           /\ t.skips = {}
                           /\ t.row.current > row.current
                           /\ t.row.last = t.row.current
                           /\ Exists(t.row)
  /\ t.does = "update" => /\ t.numbers = {}
                          /\ t.skips = (row.current + 1)..t.row.current
                          /\ t.row.current >= row.current
                          /\ t.row.last = row.last
                          /\ Exists(t.row)
  /\ t.does = "insert" => /\ t.numbers = {}
                          /\ t.skips = 1..t.row.current
                          /\ t.row.last = 0
                          /\ Exists(t.row)
PendingRows == \A r \in Requests : PendingOf(r)

EmptyRow == ~Exists(row) => row = NoRow

SequenceInv == TypeOK /\ RowLocked /\ PendingRows /\ EmptyRow /\ NoHoles

\* The minimum safe current number is one of the three and no less than any.
LEMMA MinimumSafeIsMaximum ==
  ASSUME NEW s \in Rows, NEW i \in Int
  PROVE  /\ MinimumSafe(s, i) \in Int
         /\ MinimumSafe(s, i) >= s.current
         /\ MinimumSafe(s, i) >= s.last
         /\ MinimumSafe(s, i) >= i - 1
<1> DEFINE S == {s.current, s.last, i - 1}
           Greatest(m) == \A n \in S : n <= m
<1>1. s.current \in Int /\ s.last \in Int /\ i - 1 \in Int
  BY DEF Rows
<1>2. \E m \in S : Greatest(m)
  <2>1. CASE s.current >= s.last /\ s.current >= i - 1
    BY <1>1, <2>1
  <2>2. CASE s.last >= s.current /\ s.last >= i - 1
    BY <1>1, <2>2
  <2>3. CASE i - 1 >= s.current /\ i - 1 >= s.last
    BY <1>1, <2>3
  <2> QED
    BY <1>1, <2>1, <2>2, <2>3
<1>3. MinimumSafe(s, i) = CHOOSE m \in S : Greatest(m)
  BY DEF MinimumSafe
<1>4. MinimumSafe(s, i) \in S /\ Greatest(MinimumSafe(s, i))
  <2> HIDE DEF S, Greatest
  <2> QED BY <1>2, <1>3
<1> QED
  BY <1>1, <1>4

\* The sequence starts empty.
LEMMA SequenceInitInv == SequenceInit => SequenceInv
<1> SUFFICES ASSUME SequenceInit PROVE SequenceInv
  OBVIOUS
<1> USE DEF SequenceInit, NoRow, Closed
<1>1. TypeOK
  BY CeilingAssumption DEF TypeOK, Rows, InRange, Transactions
<1>2. RowLocked /\ PendingRows
  BY DEF RowLocked, PendingRows, PendingOf, HoldsRow
<1>3. EmptyRow /\ NoHoles
  BY DEF EmptyRow, NoHoles
<1> QED
  BY <1>1, <1>2, <1>3 DEF SequenceInv

\* A reservation takes the number after the last one its transaction sees.
LEMMA ReserveStep ==
  ASSUME SequenceInv, NEW r \in Requests, Reserve(r)
  PROVE  SequenceInv'
<1> DEFINE s == SeenRow(r)
           next == Base(s) + 1
           t == tx[r]
<1>1. /\ s \in Rows /\ InRange(s) /\ Exists(s) /\ s.active
      /\ t \in Transactions /\ t.does \in {"nothing", "reserve"}
  BY DEF SequenceInv, TypeOK, SeenRow, Reserve, Transactions
<1>2. next = s.current + 1 /\ next <= s.max
  BY <1>1 DEF Base, InRange, Rows, Reserve, Fits
<1> DEFINE u == [t EXCEPT !.does = "reserve", !.numbers = @ \cup {next},
                          !.row = [s EXCEPT !.current = next, !.last = next]]
<1>3. /\ tx' = [tx EXCEPT ![r] = u]
      /\ UNCHANGED <<row, given, skipped>>
  BY Zenon DEF Reserve
<1>4. tx'[r] = u /\ \A q \in Requests \ {r} : tx'[q] = tx[q]
  <2> HIDE DEF u
  <2> QED BY <1>3 DEF SequenceInv, TypeOK
<1>5. /\ u.row \in Rows /\ InRange(u.row) /\ Exists(u.row)
      /\ u.row.current = next /\ u.row.last = next
  <2> DEFINE v == [s EXCEPT !.current = next, !.last = next]
  <2>1. u.row = v
    BY <1>1 DEF Transactions
  <2>2. next \in Nat /\ next = s.current + 1 /\ next <= s.max
    BY <1>1, <1>2 DEF Rows
  <2>3. /\ v \in Rows /\ v.current = next /\ v.last = next
        /\ v.initial = s.initial /\ v.max = s.max
    <3> HIDE DEF next, s
    <3> QED BY <1>1, <2>2 DEF Rows
  <2>4. InRange(v) /\ Exists(v)
    <3> HIDE DEF v, next, s
    <3> QED BY <1>1, <2>2, <2>3 DEF Rows, InRange, Exists
  <2> HIDE DEF u, v
  <2> QED BY <2>1, <2>3, <2>4
<1>6. u.does = "reserve" /\ u.numbers = t.numbers \cup {next} /\ u.skips = t.skips
  BY <1>1 DEF Transactions
<1>7. next \in Nat
  BY <1>1, <1>2 DEF Rows
<1>8. u \in Transactions
  BY <1>1, <1>5, <1>6, <1>7 DEF Transactions
<1> HIDE DEF u, t, next, s
<1>9. TypeOK'
  BY <1>3, <1>4, <1>5, <1>8 DEF SequenceInv, TypeOK, InRange
<1>10. Exists(row)
  BY <1>1 DEF SequenceInv, SeenRow, RowLocked, HoldsRow, s
<1>11. RowLocked'
  BY <1>3, <1>4, <1>6, <1>10 DEF SequenceInv, RowLocked, HoldsRow, Reserve, Free, Exists
<1>12. PendingOf(r)'
  <2>1. row.current \in Nat
    BY DEF SequenceInv, TypeOK, Rows
  <2>2. CASE t.does = "nothing"
    <3>1. t = Closed /\ s = row
      BY <2>2 DEF SequenceInv, PendingRows, PendingOf, SeenRow, s, t
    <3>2. u.numbers = {row.current + 1} /\ u.skips = {} /\ next = row.current + 1
      BY <1>2, <1>6, <3>1 DEF Closed
    <3>3. u.numbers = (row.current + 1)..next /\ next > row.current
      BY <2>1, <3>2
    <3> QED
      BY <1>3, <1>4, <1>5, <1>6, <2>1, <3>2, <3>3 DEF PendingOf
  <2>3. CASE t.does = "reserve"
    <3>1. /\ s = t.row /\ t.numbers = (row.current + 1)..s.current
          /\ t.skips = {} /\ s.current > row.current
      BY <2>3 DEF SequenceInv, PendingRows, PendingOf, SeenRow, s, t
    <3>2. u.numbers = (row.current + 1)..next /\ next > row.current
      BY <1>1, <1>2, <1>6, <2>1, <3>1 DEF Rows
    <3> QED
      BY <1>3, <1>4, <1>5, <1>6, <3>1, <3>2 DEF PendingOf
  <2> QED
    BY <1>1, <2>2, <2>3
<1>13. PendingRows'
  BY <1>3, <1>4, <1>12 DEF SequenceInv, PendingRows, PendingOf
<1>14. EmptyRow' /\ NoHoles'
  BY <1>3 DEF SequenceInv, EmptyRow, NoHoles, Exists
<1> QED
  BY <1>9, <1>11, <1>13, <1>14 DEF SequenceInv

\* A setting never moves the sequence back.
LEMMA ConfigureStep ==
  ASSUME SequenceInv, NEW r \in Requests, NEW n \in Int, NEW i \in Int, NEW m \in Int,
         NEW a \in BOOLEAN, Configure(r, n, i, m, a)
  PROVE  SequenceInv'
<1> DEFINE w == [current |-> n, initial |-> i, max |-> m, last |-> row.last, active |-> a]
           u == [does |-> IF Exists(row) THEN "update" ELSE "insert", numbers |-> {},
                 skips |-> (row.current + 1)..n, row |-> w]
<1>1. row \in Rows /\ InRange(row) /\ row.current \in Nat /\ row.last \in Nat
  BY DEF SequenceInv, TypeOK, Rows
<1>2. /\ n >= row.current /\ n >= row.last /\ n >= i - 1
      /\ 1 <= i /\ i <= m /\ m <= Ceiling /\ n <= m
  <2>1. MinimumSafe(row, i) <= n /\ 1 <= i /\ i <= m /\ m <= Ceiling /\ n <= m
    BY DEF Configure
  <2> QED
    BY <1>1, <2>1, MinimumSafeIsMaximum
<1>3. w \in Rows /\ InRange(w) /\ Exists(w)
  BY <1>1, <1>2, CeilingAssumption DEF Rows, InRange, Exists
<1>4. tx' = [tx EXCEPT ![r] = u] /\ UNCHANGED <<row, given, skipped>>
  BY DEF Configure
<1>5. tx'[r] = u /\ \A q \in Requests \ {r} : tx'[q] = tx[q]
  BY <1>4 DEF SequenceInv, TypeOK
<1>6. u \in Transactions
  BY <1>1, <1>3 DEF Transactions
<1>7. TypeOK'
  BY <1>3, <1>4, <1>5, <1>6 DEF SequenceInv, TypeOK, InRange
<1>8. RowLocked'
  BY <1>4, <1>5 DEF SequenceInv, RowLocked, HoldsRow, Configure, Free, Exists
<1>9. PendingOf(r)'
  <2>1. CASE Exists(row)
    BY <1>2, <1>3, <1>4, <1>5, <2>1 DEF PendingOf
  <2>2. CASE ~Exists(row)
    <3>1. row.current = 0 /\ row.last = 0
      BY <2>2 DEF SequenceInv, EmptyRow, NoRow
    <3> QED
      BY <1>3, <1>4, <1>5, <2>2, <3>1 DEF PendingOf
  <2> QED
    BY <2>1, <2>2
<1>10. PendingRows'
  BY <1>4, <1>5, <1>9 DEF SequenceInv, PendingRows, PendingOf
<1>11. EmptyRow' /\ NoHoles'
  BY <1>4 DEF SequenceInv, EmptyRow, NoHoles, Exists
<1> QED
  BY <1>7, <1>8, <1>10, <1>11 DEF SequenceInv

\* Closing a transaction that wrote nothing leaves the invariant.
LEMMA RollbackStep ==
  ASSUME SequenceInv, NEW r \in Requests, Rollback(r)
  PROVE  SequenceInv'
<1>1. tx' = [tx EXCEPT ![r] = Closed] /\ UNCHANGED <<row, given, skipped>>
  BY DEF Rollback
<1>2. tx'[r] = Closed /\ \A q \in Requests \ {r} : tx'[q] = tx[q]
  BY <1>1 DEF SequenceInv, TypeOK
<1>3. Closed \in Transactions /\ InRange(Closed.row) /\ Closed.does = "nothing"
  BY CeilingAssumption DEF Closed, Transactions, Rows, NoRow, InRange
<1>4. TypeOK'
  BY <1>1, <1>2, <1>3 DEF SequenceInv, TypeOK, InRange
<1>5. RowLocked'
  BY <1>1, <1>2, <1>3 DEF SequenceInv, RowLocked, HoldsRow, Exists
<1>6. PendingOf(r)'
  BY <1>2, <1>3 DEF PendingOf
<1>7. PendingRows'
  BY <1>1, <1>2, <1>6 DEF SequenceInv, PendingRows, PendingOf
<1>8. EmptyRow' /\ NoHoles'
  BY <1>1 DEF SequenceInv, EmptyRow, NoHoles, Exists
<1> QED
  BY <1>4, <1>5, <1>7, <1>8 DEF SequenceInv

\* A commit writes the numbers after the committed current one, and only those.
LEMMA CommitExtends ==
  ASSUME SequenceInv, NEW r \in Requests, Commit(r)
  PROVE  /\ row' = tx[r].row /\ Exists(row')
         /\ row.current \in Nat /\ row'.current \in Nat
         /\ row'.current >= row.current /\ row'.last >= row.last
         /\ tx[r].numbers \cup tx[r].skips = (row.current + 1)..row'.current
         /\ tx[r].numbers \cap tx[r].skips = {}
<1> DEFINE t == tx[r]
<1>1. /\ row' = t.row /\ t.does \in {"reserve", "insert", "update"}
      /\ t.does = "insert" => ~Exists(row)
  BY DEF Commit, SequenceInv, TypeOK, Transactions
<1>2. row.current \in Nat /\ row.last \in Nat /\ t.row.current \in Nat /\ t.row.last \in Nat
  BY DEF SequenceInv, TypeOK, Transactions, Rows
<1>3. row.last <= row.current
  BY DEF SequenceInv, TypeOK, InRange
<1>4. CASE t.does = "reserve"
  <2>1. /\ t.numbers = (row.current + 1)..t.row.current /\ t.skips = {}
        /\ t.row.current > row.current /\ t.row.last = t.row.current /\ Exists(t.row)
    BY <1>4 DEF SequenceInv, PendingRows, PendingOf
  <2> HIDE DEF t
  <2> QED BY <1>1, <1>2, <1>3, <2>1 DEF t
<1>5. CASE t.does = "update"
  <2>1. /\ t.numbers = {} /\ t.skips = (row.current + 1)..t.row.current
        /\ t.row.current >= row.current /\ t.row.last = row.last /\ Exists(t.row)
    BY <1>5 DEF SequenceInv, PendingRows, PendingOf
  <2> QED BY <1>1, <1>2, <1>3, <2>1
<1>6. CASE t.does = "insert"
  <2>1. /\ t.numbers = {} /\ t.skips = 1..t.row.current
        /\ t.row.last = 0 /\ Exists(t.row)
    BY <1>6 DEF SequenceInv, PendingRows, PendingOf
  <2>2. row.current = 0 /\ row.last = 0
    BY <1>1, <1>6 DEF SequenceInv, EmptyRow, NoRow
  <2> QED BY <1>1, <1>2, <2>1, <2>2
<1> QED
  BY <1>1, <1>4, <1>5, <1>6

\* While one handler commits, no other holds the row.
LEMMA CommitAlone ==
  ASSUME SequenceInv, NEW r \in Requests, Commit(r), NEW q \in Requests \ {r}
  PROVE  ~HoldsRow(q)
<1>1. CASE HoldsRow(r)
  BY <1>1 DEF SequenceInv, RowLocked
<1>2. CASE ~HoldsRow(r)
  <2>1. tx[r].does = "insert"
    BY <1>2 DEF SequenceInv, TypeOK, Transactions, Commit, HoldsRow
  <2> QED
    BY <2>1 DEF Commit, SequenceInv, RowLocked
<1> QED
  BY <1>1, <1>2

LEMMA CommitStep ==
  ASSUME SequenceInv, NEW r \in Requests, Commit(r)
  PROVE  SequenceInv'
<1>1. /\ tx' = [tx EXCEPT ![r] = Closed]
      /\ given' = given \cup tx[r].numbers /\ skipped' = skipped \cup tx[r].skips
  BY DEF Commit
<1>2. tx'[r] = Closed /\ \A q \in Requests \ {r} : tx'[q] = tx[q]
  BY <1>1 DEF SequenceInv, TypeOK
<1>3. Closed \in Transactions /\ InRange(Closed.row) /\ Closed.does = "nothing"
  BY CeilingAssumption DEF Closed, Transactions, Rows, NoRow, InRange
<1>4. /\ row' = tx[r].row /\ row' \in Rows /\ InRange(tx[r].row) /\ Exists(row')
      /\ tx[r].numbers \subseteq Nat /\ tx[r].skips \subseteq Nat
  BY CommitExtends DEF SequenceInv, TypeOK, Transactions
<1>5. TypeOK'
  <2>1. tx' \in [Requests -> Transactions] /\ \A q \in Requests : InRange(tx'[q].row)
    BY <1>1, <1>2, <1>3 DEF SequenceInv, TypeOK
  <2> QED
    BY <1>1, <1>4, <2>1 DEF SequenceInv, TypeOK, InRange
<1>6. \A q \in Requests : ~HoldsRow(q)'
  BY <1>2, <1>3, CommitAlone DEF HoldsRow
<1>7. RowLocked'
  BY <1>6 DEF RowLocked
<1>8. PendingRows'
  <2> SUFFICES ASSUME NEW q \in Requests PROVE PendingOf(q)'
    BY DEF PendingRows
  <2>1. CASE q = r
    BY <1>2, <1>3, <2>1 DEF PendingOf
  <2>2. CASE q # r
    <3>1. tx'[q] = tx[q] /\ tx[q].does \notin {"reserve", "update"} /\ PendingOf(q)
      BY <1>2, <2>2, CommitAlone DEF HoldsRow, SequenceInv, PendingRows
    <3> QED
      BY <3>1 DEF PendingOf, Exists
  <2> QED
    BY <2>1, <2>2
<1>9. EmptyRow'
  BY <1>4 DEF EmptyRow, Exists
<1>10. NoHoles'
  <2>1. /\ 1..row.current = given \cup skipped /\ given \cap skipped = {}
        /\ row.current \in Nat /\ row'.current \in Nat /\ row'.current >= row.current
        /\ tx[r].numbers \cup tx[r].skips = (row.current + 1)..row'.current
        /\ tx[r].numbers \cap tx[r].skips = {}
    BY CommitExtends DEF SequenceInv, NoHoles
  <2>2. 1..row'.current = 1..row.current \cup (row.current + 1)..row'.current
    BY <2>1
  <2>3. (1..row.current) \cap ((row.current + 1)..row'.current) = {}
    BY <2>1
  <2>4. 1..row'.current = given' \cup skipped'
    BY <1>1, <2>1, <2>2
  <2>5. given' \cap skipped' = {}
    BY <1>1, <2>1, <2>3
  <2> QED
    BY <2>4, <2>5 DEF NoHoles
<1> QED
  BY <1>5, <1>7, <1>8, <1>9, <1>10 DEF SequenceInv

LEMMA SequenceNextInv == SequenceInv /\ [SequenceNext]_sequenceVars => SequenceInv'
<1> SUFFICES ASSUME SequenceInv, [SequenceNext]_sequenceVars PROVE SequenceInv'
  OBVIOUS
<1>1. CASE UNCHANGED sequenceVars
  BY <1>1 DEF sequenceVars, SequenceInv, TypeOK, InRange, RowLocked, HoldsRow, Exists, PendingRows, PendingOf,
              EmptyRow, NoHoles
<1>2. ASSUME NEW r \in Requests, Reserve(r) PROVE SequenceInv'
  BY <1>2, ReserveStep
<1>3. ASSUME NEW r \in Requests, NEW i \in Inputs, NEW m \in Inputs, NEW a \in BOOLEAN,
             CreateOrUpdate(r, i, m, a)
      PROVE SequenceInv'
  <2>1. i \in Int /\ m \in Int /\ row \in Rows
    BY InputsAssumption DEF SequenceInv, TypeOK
  <2>2. MinimumSafe(row, i) \in Int
    BY <2>1, MinimumSafeIsMaximum
  <2> QED
    BY <1>3, <2>1, <2>2, ConfigureStep DEF CreateOrUpdate
<1>4. ASSUME NEW r \in Requests, NEW n \in Inputs, NEW i \in Inputs, NEW m \in Inputs,
             NEW a \in BOOLEAN, CreateOrUpdateAt(r, n, i, m, a)
      PROVE SequenceInv'
  <2>1. n \in Int /\ i \in Int /\ m \in Int
    BY InputsAssumption
  <2> QED
    BY <1>4, <2>1, ConfigureStep DEF CreateOrUpdateAt
<1>5. ASSUME NEW r \in Requests, Commit(r) PROVE SequenceInv'
  BY <1>5, CommitStep
<1>6. ASSUME NEW r \in Requests, Rollback(r) PROVE SequenceInv'
  BY <1>6, RollbackStep
<1> QED
  BY <1>1, <1>2, <1>3, <1>4, <1>5, <1>6 DEF SequenceNext

LEMMA SequenceAlwaysInv == SequenceSpec => []SequenceInv
BY SequenceInitInv, SequenceNextInv, PTL DEF SequenceSpec

\* The row and the open transactions keep their types and limits.
THEOREM NumberingTypeCorrect == SequenceSpec => []TypeOK
<1>1. SequenceInv => TypeOK
  BY DEF SequenceInv
<1> QED
  BY <1>1, SequenceAlwaysInv, PTL

\* No number is reserved twice: not by two transactions, nor after its commit.
THEOREM UniqueNumbers == SequenceSpec => []NumbersAreUnique
<1>1. SequenceInv => NumbersAreUnique
  <2> SUFFICES ASSUME SequenceInv, NEW r \in Requests
               PROVE  /\ tx[r].numbers \cap given = {}
                      /\ \A q \in Requests \ {r} : tx[r].numbers \cap tx[q].numbers = {}
    BY DEF NumbersAreUnique
  <2>1. row.current \in Nat /\ given \subseteq 1..row.current
    BY DEF SequenceInv, TypeOK, Rows, NoHoles
  <2>2. \A q \in Requests : ~(tx[q].does = "reserve") => tx[q].numbers = {}
    BY DEF SequenceInv, PendingRows, PendingOf, TypeOK, Transactions, Closed
  <2>3. tx[r].numbers \cap given = {}
    <3>1. CASE tx[r].does = "reserve"
      <4>1. tx[r].numbers = (row.current + 1)..tx[r].row.current
        BY <3>1 DEF SequenceInv, PendingRows, PendingOf
      <4>2. tx[r].row.current \in Nat
        BY DEF SequenceInv, TypeOK, Transactions, Rows
      <4> QED
        BY <2>1, <4>1, <4>2
    <3>2. CASE tx[r].does # "reserve"
      BY <2>2, <3>2
    <3> QED
      BY <3>1, <3>2
  <2>4. ASSUME NEW q \in Requests \ {r} PROVE tx[r].numbers \cap tx[q].numbers = {}
    <3>1. tx[r].does # "reserve" \/ tx[q].does # "reserve"
      BY DEF SequenceInv, RowLocked, HoldsRow
    <3> QED
      BY <2>2, <3>1
  <2> QED
    BY <2>3, <2>4
<1> QED
  BY <1>1, SequenceAlwaysInv, PTL

\* Every number up to the current one was given or deliberately skipped.
THEOREM Gapless == SequenceSpec => []NoHoles
<1>1. SequenceInv => NoHoles
  BY DEF SequenceInv
<1> QED
  BY <1>1, SequenceAlwaysInv, PTL

\* Given numbers never exceed the greatest nNF.
THEOREM NumbersWithinLimit == SequenceSpec => []NumbersFit
<1>1. SequenceInv => NumbersFit
  <2> SUFFICES ASSUME SequenceInv PROVE NumbersFit
    OBVIOUS
  <2>1. row.current \in Nat /\ row.max \in Nat /\ row.current <= row.max /\ row.max <= Ceiling
    BY DEF SequenceInv, TypeOK, Rows, InRange
  <2>2. given \subseteq 1..row.current
    BY DEF SequenceInv, NoHoles
  <2> QED
    BY <2>1, <2>2, CeilingAssumption DEF NumbersFit
<1> QED
  BY <1>1, SequenceAlwaysInv, PTL

\* The committed sequence only moves forward, past every number it gave.
THEOREM ProgressKept == SequenceSpec => ProgressIsKept
<1> DEFINE Forward == /\ row'.current >= row.current /\ row'.last >= row.last
                      /\ \A n \in given' \ given : \A m \in given : m < n
<1>1. ASSUME SequenceInv, [SequenceNext]_sequenceVars PROVE [Forward]_sequenceVars
  <2>1. ASSUME NEW r \in Requests, Commit(r) PROVE Forward
    <3>1. row'.current >= row.current /\ row'.last >= row.last /\ row.current \in Nat
          /\ row'.current \in Nat
      BY <1>1, <2>1, CommitExtends
    <3>2. given' \ given \subseteq (row.current + 1)..row'.current
      <4>1. tx[r].numbers \subseteq (row.current + 1)..row'.current
        BY <1>1, <2>1, CommitExtends
      <4>2. given' = given \cup tx[r].numbers
        BY <2>1 DEF Commit
      <4> QED
        BY <4>1, <4>2
    <3>3. given \subseteq 1..row.current
      BY <1>1 DEF SequenceInv, NoHoles
    <3> QED
      BY <3>1, <3>2, <3>3
  <2>2. row.current \in Nat /\ row.last \in Nat
    BY <1>1 DEF SequenceInv, TypeOK, Rows
  <2>3. ASSUME UNCHANGED <<row, given>> PROVE Forward
    BY <2>2, <2>3
  <2>4. ASSUME NEW r \in Requests, Reserve(r) \/ Rollback(r) PROVE UNCHANGED <<row, given>>
    BY <2>4 DEF Reserve, Rollback
  <2>5. ASSUME NEW r \in Requests, NEW i \in Inputs, NEW m \in Inputs, NEW a \in BOOLEAN,
               \/ CreateOrUpdate(r, i, m, a)
               \/ \E n \in Inputs : CreateOrUpdateAt(r, n, i, m, a)
        PROVE  UNCHANGED <<row, given>>
    BY <2>5 DEF CreateOrUpdate, CreateOrUpdateAt, Configure
  <2> HIDE DEF Forward
  <2> QED
    BY <1>1, <2>1, <2>3, <2>4, <2>5 DEF SequenceNext
<1>2. SequenceInv /\ [SequenceNext]_sequenceVars => [Forward]_sequenceVars
  BY <1>1
<1> QED
  BY <1>2, SequenceAlwaysInv, PTL DEF SequenceSpec, ProgressIsKept
=============================================================================
