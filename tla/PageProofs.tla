----------------------------- MODULE PageProofs -----------------------------
(***************************************************************************)
(* The allocator never gives back a page that a neighbour still needs, its *)
(* counts balance, its peak stays under the bar that the analysis sets and *)
(* the leases it released leave a bounded number of runs of pages behind,  *)
(* for every file that both manifests accept, every page size and base,    *)
(* every number of layers, experts and expert tensors, and every sequence  *)
(* of route calls.                                                         *)
(***************************************************************************)
EXTENDS PageCommit, FiniteSetTheorems, WellFoundedInduction, TLAPS

----------------------------------------------------------------------------
(* Arithmetic.                                                             *)

\* Multiplication by a natural number is monotone.
LEMMA Monotone ==
    ASSUME NEW a \in Int, NEW b \in Int, NEW c \in Nat, a <= b
    PROVE  c * a <= c * b
OBVIOUS

\* What the quotient says of the dividend.
LEMMA Quotient ==
    ASSUME NEW a \in Int, NEW d \in Nat \ {0}
    PROVE  a \div d \in Int /\ d * (a \div d) <= a /\ a < d * (a \div d) + d
OBVIOUS

\* A set of natural numbers has a least element.
LEMMA LeastNat ==
    ASSUME NEW S \in SUBSET Nat, S # {}
    PROVE  Min(S) \in S /\ \A x \in S : Min(S) <= x
<1> DEFINE R == {ss \in Nat \X Nat : ss[1] < ss[2]}
<1>1. IsWellFoundedOn(R, Nat)
    BY NatLessThanWellFounded DEF OpToRel
<1>2. \A x, y \in Nat : y < x => <<y, x>> \in R
    OBVIOUS
<1>3. PICK x \in S : \A y \in S : ~ (<<y, x>> \in R)
    <2> HIDE DEF R
    <2> QED BY <1>1, WFMin
<1>4. ASSUME NEW y \in S PROVE x <= y
    <2>1. x \in Nat /\ y \in Nat
        OBVIOUS
    <2>2. ~ (y < x)
        <3> HIDE DEF R
        <3> QED BY <2>1, <1>2, <1>3
    <2> QED BY <2>1, <2>2
<1> QED
    BY <1>4 DEF Min

\* Multiplication distributes over addition.
LEMMA Distribute == \A a, x, y \in Nat : a * (x + y) = a * x + a * y
OBVIOUS

\* A set of natural numbers up to n has a greatest element.
LEMMA GreatestNat ==
    ASSUME NEW S \in SUBSET Nat, S # {}, NEW n \in Nat, \A x \in S : x <= n
    PROVE  Max(S) \in S /\ \A x \in S : x <= Max(S)
<1> DEFINE D == {n - x : x \in S}
<1>1. D \in SUBSET Nat /\ D # {}
    <2>1. ASSUME NEW x \in S PROVE n - x \in Nat
        BY x <= n, x \in Nat
    <2>2. D # {}
        OBVIOUS
    <2> QED BY <2>1, <2>2
<1>2. Min(D) \in D /\ \A y \in D : Min(D) <= y
    <2> HIDE DEF D
    <2> QED BY <1>1, LeastNat
<1>3. PICK m \in S : Min(D) = n - m
    BY <1>2
<1>4. ASSUME NEW x \in S PROVE m >= x
    <2>1. n - m <= n - x
        BY <1>2, <1>3
    <2> QED BY <2>1
<1> QED BY <1>4 DEF Max

\* The greater of two numbers.
LEMMA MaxOfTwo ==
    ASSUME NEW a \in Nat, NEW b \in Nat
    PROVE  Max({a, b}) \in {a, b} /\ a <= Max({a, b}) /\ b <= Max({a, b})
<1> DEFINE S == {a, b}
<1>1. S \in SUBSET Nat /\ S # {} /\ a + b \in Nat /\ \A x \in S : x <= a + b
    OBVIOUS
<1> HIDE DEF S
<1>2. Max(S) \in S /\ \A x \in S : x <= Max(S)
    BY <1>1, GreatestNat
<1> QED BY <1>2 DEF S

----------------------------------------------------------------------------
(* Sizes.                                                                  *)

\* Two sets together have at most as many elements as both.
LEMMA AtMostBoth ==
    ASSUME NEW A, NEW B, IsFiniteSet(A), IsFiniteSet(B)
    PROVE  /\ IsFiniteSet(A \cup B) /\ Cardinality(A) \in Nat /\ Cardinality(B) \in Nat
           /\ Cardinality(A \cup B) \in Nat
           /\ Cardinality(A \cup B) <= Cardinality(A) + Cardinality(B)
<1>1. /\ IsFiniteSet(A \cup B) /\ IsFiniteSet(A \cap B)
      /\ Cardinality(A \cup B) = Cardinality(A) + Cardinality(B) - Cardinality(A \cap B)
    BY FS_Union, FS_Intersection
<1>2. Cardinality(A) \in Nat /\ Cardinality(B) \in Nat /\ Cardinality(A \cap B) \in Nat
      /\ Cardinality(A \cup B) \in Nat
    BY <1>1, FS_CardinalityType
<1> QED BY <1>1, <1>2

\* A function has no more values than arguments.
LEMMA ImageBound ==
    ASSUME NEW I, IsFiniteSet(I), NEW f, f = [x \in I |-> f[x]]
    PROVE  IsFiniteSet({f[x] : x \in I}) /\ Cardinality({f[x] : x \in I}) <= Cardinality(I)
<1> DEFINE T == {f[x] : x \in I}
<1>1. f \in [I -> T]
    OBVIOUS
<1>2. f \in Surjection(I, T)
    BY <1>1 DEF Surjection
<1> HIDE DEF T
<1>3. IsFiniteSet(T) /\ Cardinality(T) <= Cardinality(I)
    BY <1>2, FS_Surjection
<1> QED BY <1>3 DEF T

----------------------------------------------------------------------------
(* Sums over a finite set.  h is what MapThenSumSet computes its sum with:  *)
(* the sum of the weights g over every subset of S.                         *)

Pick(s) == CHOOSE x \in s : TRUE
Sums(h, g, D) == h = [s \in D |-> IF s = {} THEN 0 ELSE g[Pick(s)] + h[s \ {Pick(s)}]]
Small(S, n) == {s \in SUBSET S : Cardinality(s) <= n}

\* An element less.
LEMMA Rest ==
    ASSUME NEW S, IsFiniteSet(S), S # {}
    PROVE  /\ Pick(S) \in S /\ IsFiniteSet(S \ {Pick(S)}) /\ Cardinality(S) \in Nat \ {0}
           /\ Cardinality(S \ {Pick(S)}) = Cardinality(S) - 1
<1>1. Pick(S) \in S
    BY DEF Pick
<1>2. Cardinality(S) \in Nat /\ Cardinality(S) # 0
    BY FS_CardinalityType, FS_EmptySet
<1>3. IsFiniteSet(S \ {Pick(S)}) /\ Cardinality(S \ {Pick(S)}) = Cardinality(S) - 1
    BY <1>1, FS_RemoveElement
<1> QED
    BY <1>1, <1>2, <1>3

\* A family of subsets of S with the empty set and with every subset that has
\* the rest of it in the family contains S.
LEMMA EveryRest ==
    ASSUME NEW S, IsFiniteSet(S), NEW F, {} \in F,
           \A T \in SUBSET S : T # {} /\ T \ {Pick(T)} \in F => T \in F
    PROVE  S \in F
<1> DEFINE Bad == {n \in Nat : \E T \in SUBSET S : Cardinality(T) = n /\ T \notin F}
<1>1. \A T \in SUBSET S : IsFiniteSet(T) /\ Cardinality(T) \in Nat
    BY FS_Subset, FS_CardinalityType
<1>2. Bad = {}
    <2> SUFFICES ASSUME Bad # {} PROVE FALSE
        OBVIOUS
    <2>1. PICK m \in Bad : \A y \in Bad : m <= y
        <3>1. Bad \in SUBSET Nat
            OBVIOUS
        <3> HIDE DEF Bad
        <3> QED BY <3>1, LeastNat
    <2>2. PICK T \in SUBSET S : Cardinality(T) = m /\ T \notin F
        OBVIOUS
    <2>3. T # {}
        BY <2>2
    <2>4. T \ {Pick(T)} \in SUBSET S /\ Cardinality(T \ {Pick(T)}) = m - 1 /\ m - 1 \in Nat
        <3>1. IsFiniteSet(T) /\ T \ {Pick(T)} \in SUBSET S
            BY <1>1
        <3>2. Cardinality(T) \in Nat \ {0} /\ Cardinality(T \ {Pick(T)}) = Cardinality(T) - 1
            BY <2>3, <3>1, Rest
        <3> QED BY <2>2, <3>1, <3>2
    <2>5. m - 1 \notin Bad /\ m \in Nat
        <3> HIDE DEF Bad
        <3> QED BY <2>1, <2>2, <2>4, <1>1
    <2>6. T \ {Pick(T)} \in F
        BY <2>4, <2>5
    <2> QED BY <2>2, <2>3, <2>6
<1> QED BY <1>1, <1>2

\* The sums over the sets of at most n elements give those over the larger ones.
LEMMA MoreSums ==
    ASSUME NEW S, IsFiniteSet(S), NEW g, NEW n \in Nat, NEW h, Sums(h, g, Small(S, n))
    PROVE  \E k : Sums(k, g, Small(S, n + 1))
<1> DEFINE D == Small(S, n)
           X == Small(S, n + 1)
           k == [s \in X |-> IF s = {} THEN 0 ELSE g[Pick(s)] + h[s \ {Pick(s)}]]
<1>1. ASSUME NEW s \in X, s # {} PROVE s \ {Pick(s)} \in D /\ s \ {Pick(s)} \in X
    <2>1. s \in SUBSET S /\ Cardinality(s) <= n + 1 /\ IsFiniteSet(s)
        BY FS_Subset DEF Small
    <2>2. Cardinality(s) \in Nat /\ Cardinality(s \ {Pick(s)}) = Cardinality(s) - 1
        BY <1>1, <2>1, Rest
    <2>3. s \ {Pick(s)} \in SUBSET S
        BY <2>1
    <2> QED BY <2>1, <2>2, <2>3 DEF Small
<1>2. ASSUME NEW s \in D PROVE s \in X /\ k[s] = h[s]
    <2>1. s \in X
        <3>1. Cardinality(s) \in Nat
            BY FS_Subset, FS_CardinalityType DEF Small
        <3> QED BY <3>1 DEF Small
    <2>2. k[s] = IF s = {} THEN 0 ELSE g[Pick(s)] + h[s \ {Pick(s)}]
        BY <2>1
    <2>3. h[s] = IF s = {} THEN 0 ELSE g[Pick(s)] + h[s \ {Pick(s)}]
        BY DEF Sums
    <2> QED BY <2>1, <2>2, <2>3
<1>3. ASSUME NEW s \in X
      PROVE  (IF s = {} THEN 0 ELSE g[Pick(s)] + h[s \ {Pick(s)}])
                = (IF s = {} THEN 0 ELSE g[Pick(s)] + k[s \ {Pick(s)}])
    <2> HIDE DEF D, X, k
    <2> QED BY <1>1, <1>2
<1>4. k = [s \in X |-> IF s = {} THEN 0 ELSE g[Pick(s)] + k[s \ {Pick(s)}]]
    <2> HIDE DEF X
    <2> QED BY <1>3
<1> HIDE DEF k
<1> QED BY <1>4 DEF Sums

\* Over the subsets of a finite set the sums exist.
LEMMA SumsExist ==
    ASSUME NEW S, IsFiniteSet(S), NEW g
    PROVE  \E h : Sums(h, g, SUBSET S)
<1> DEFINE None == {n \in Nat : ~ \E h : Sums(h, g, Small(S, n))}
<1>1. None = {}
    <2> SUFFICES ASSUME None # {} PROVE FALSE
        OBVIOUS
    <2>1. PICK m \in None : \A x \in None : m <= x
        <3>1. None \in SUBSET Nat
            OBVIOUS
        <3> HIDE DEF None
        <3> QED BY <3>1, LeastNat
    <2>2. m \in Nat /\ ~ \E h : Sums(h, g, Small(S, m))
        OBVIOUS
    <2>3. m # 0
        <3> DEFINE h == [s \in Small(S, 0) |-> 0]
        <3>1. \A s \in Small(S, 0) : s = {}
            BY FS_Subset, FS_EmptySet, FS_CardinalityType DEF Small
        <3>2. h = [s \in Small(S, 0) |-> IF s = {} THEN 0 ELSE g[Pick(s)] + h[s \ {Pick(s)}]]
            BY <3>1
        <3> HIDE DEF h
        <3>3. Sums(h, g, Small(S, 0))
            BY <3>2 DEF Sums
        <3> QED BY <2>2, <3>3
    <2>4. m - 1 \in Nat /\ m - 1 \notin None
        <3> HIDE DEF None
        <3> QED BY <2>1, <2>2, <2>3
    <2>5. PICK h : Sums(h, g, Small(S, m - 1))
        BY <2>4
    <2>6. \E k : Sums(k, g, Small(S, (m - 1) + 1))
        BY <2>4, <2>5, MoreSums
    <2>7. (m - 1) + 1 = m
        BY <2>2
    <2> QED BY <2>2, <2>6, <2>7
<1>2. Cardinality(S) \in Nat
    BY FS_CardinalityType
<1>3. Small(S, Cardinality(S)) = SUBSET S
    BY FS_Subset DEF Small
<1>4. \E h : Sums(h, g, Small(S, Cardinality(S)))
    BY <1>1, <1>2
<1> HIDE DEF None
<1> QED BY <1>3, <1>4

\* The union of the parts F of a set, and what every part, a-fold, is at most:
\* c-fold its weight and d.
Whole(F, S) == UNION {F[x] : x \in S}
PartsBounded(S, g, F, a, c, d) ==
    \A x \in S : g[x] \in Nat /\ IsFiniteSet(F[x]) /\ a * Cardinality(F[x]) <= c * g[x] + d

\* Then the union, a-fold, is at most c-fold the sum of the weights and d for each part.
LEMMA UnionBound ==
    ASSUME NEW S, NEW g, NEW h, NEW F, NEW a \in Nat, NEW c \in Nat, NEW d \in Nat,
           IsFiniteSet(S), Sums(h, g, SUBSET S), PartsBounded(S, g, F, a, c, d)
    PROVE  /\ h[S] \in Nat /\ IsFiniteSet(Whole(F, S)) /\ Cardinality(S) \in Nat
           /\ a * Cardinality(Whole(F, S)) <= c * h[S] + d * Cardinality(S)
<1> DEFINE U(T) == Whole(F, T)
           Bounded(T) == /\ h[T] \in Nat /\ IsFiniteSet(U(T))
                         /\ a * Cardinality(U(T)) <= c * h[T] + d * Cardinality(T)
           Family == {T \in SUBSET S : Bounded(T)}
<1>1. \A T \in SUBSET S : IsFiniteSet(T) /\ Cardinality(T) \in Nat
    BY FS_Subset, FS_CardinalityType
<1>2. Bounded({})
    <2>1. h[{}] = 0
        BY DEF Sums
    <2>2. U({}) = {} /\ IsFiniteSet({}) /\ Cardinality({}) = 0
        BY FS_EmptySet DEF Whole
    <2>3. a * 0 = 0 /\ c * 0 = 0 /\ d * 0 = 0
        OBVIOUS
    <2>4. IsFiniteSet(U({})) /\ Cardinality(U({})) = 0
        BY <2>2
    <2>5. /\ a * Cardinality(U({})) = 0 /\ c * h[{}] + d * Cardinality({}) = 0
        <3> HIDE DEF U
        <3> QED BY <2>1, <2>2, <2>3, <2>4
    <2>6. a * Cardinality(U({})) <= c * h[{}] + d * Cardinality({})
        BY <2>5, 0 <= 0, Zenon
    <2>7. h[{}] \in Nat
        BY <2>1
    <2> HIDE DEF U
    <2> QED BY <2>4, <2>6, <2>7
<1>3. ASSUME NEW T \in SUBSET S, T # {}, Bounded(T \ {Pick(T)}) PROVE Bounded(T)
    <2> DEFINE x == Pick(T)
               R == T \ {x}
    <2>1. x \in T /\ R \in SUBSET S /\ Cardinality(T) \in Nat /\ Cardinality(R) \in Nat
          /\ Cardinality(T) = Cardinality(R) + 1
        <3>1. IsFiniteSet(T) /\ T # {}
            BY <1>1, <1>3
        <3>2. /\ x \in T /\ IsFiniteSet(R) /\ Cardinality(T) \in Nat \ {0}
              /\ Cardinality(R) = Cardinality(T) - 1
            BY <3>1, Rest
        <3>3. R \in SUBSET S
            BY DEF R
        <3> HIDE DEF x, R
        <3> QED BY <3>2, <3>3
    <2>2. h[T] = g[x] + h[R] /\ g[x] \in Nat /\ h[R] \in Nat
        BY <1>3, <2>1 DEF Sums, PartsBounded
    <2>3. U(T) = F[x] \cup U(R)
        BY <2>1 DEF Whole
    <2>4. /\ IsFiniteSet(F[x]) /\ IsFiniteSet(U(R))
          /\ a * Cardinality(F[x]) <= c * g[x] + d
          /\ a * Cardinality(U(R)) <= c * h[R] + d * Cardinality(R)
        BY <1>3, <2>1 DEF PartsBounded
    <2> HIDE DEF x, R, U
    <2>5. /\ IsFiniteSet(U(T)) /\ Cardinality(F[x]) \in Nat /\ Cardinality(U(R)) \in Nat
          /\ Cardinality(U(T)) \in Nat
          /\ Cardinality(U(T)) <= Cardinality(F[x]) + Cardinality(U(R))
        BY <2>3, <2>4, AtMostBoth
    <2>6. a * Cardinality(U(T)) <= a * Cardinality(F[x]) + a * Cardinality(U(R))
        <3>1. a * Cardinality(U(T)) <= a * (Cardinality(F[x]) + Cardinality(U(R)))
            BY <2>5, Monotone
        <3>2. a * (Cardinality(F[x]) + Cardinality(U(R)))
                = a * Cardinality(F[x]) + a * Cardinality(U(R))
            BY <2>5, Distribute
        <3> QED BY <3>1, <3>2
    <2>7. c * h[T] = c * g[x] + c * h[R] /\ d * Cardinality(T) = d * Cardinality(R) + d
        <3>1. c * (g[x] + h[R]) = c * g[x] + c * h[R]
            BY <2>2, Distribute
        <3>2. d * (Cardinality(R) + 1) = d * Cardinality(R) + d * 1 /\ d * 1 = d
            BY <2>1, Distribute
        <3> QED BY <2>1, <2>2, <3>1, <3>2
    <2>8. /\ a * Cardinality(U(T)) \in Int /\ a * Cardinality(F[x]) \in Int
          /\ a * Cardinality(U(R)) \in Int /\ c * g[x] \in Int /\ c * h[R] \in Int
          /\ d * Cardinality(R) \in Int
        BY <2>1, <2>2, <2>5
    <2>9. a * Cardinality(U(T)) <= c * h[T] + d * Cardinality(T)
        BY <2>4, <2>6, <2>7, <2>8
    <2> QED BY <2>2, <2>5, <2>9
<1>4. Bounded(S)
    <2>1. {} \in Family
        BY <1>2
    <2>2. \A T \in SUBSET S : T # {} /\ T \ {Pick(T)} \in Family => T \in Family
        <3> HIDE DEF Bounded
        <3> QED BY <1>3
    <2>3. S \in Family
        <3> HIDE DEF Family
        <3> QED BY <2>1, <2>2, EveryRest
    <2> QED BY <2>3
<1> QED BY <1>1, <1>4

----------------------------------------------------------------------------
(* Pages.                                                                  *)

\* Of two byte ranges one ends before the other starts.
Apart(a, b) == a[1] + a[2] <= b[1] \/ b[1] + b[2] <= a[1]

\* A page inside a range lies between its ends, one that a range touches has a
\* byte of it.
LEMMA InwardPage ==
    ASSUME NEW lo \in Int, NEW len \in Int, NEW p \in Inward(lo, len)
    PROVE  p \in Int /\ lo <= PAGE * p /\ PAGE * p + PAGE <= lo + len
<1> DEFINE hi == lo + len
<1>1. PAGE \in Nat \ {0} /\ hi \in Int /\ lo + PAGE - 1 \in Int
    BY PageAssumption
<1>2. /\ Ceil(lo) \in Int /\ Floor(hi) \in Int
      /\ lo + PAGE - 1 < PAGE * Ceil(lo) + PAGE /\ PAGE * Floor(hi) <= hi
    BY <1>1, Quotient DEF Ceil, Floor
<1>3. p \in Int /\ Ceil(lo) <= p /\ p + 1 <= Floor(hi)
    BY <1>2 DEF Inward
<1>4. PAGE * Ceil(lo) <= PAGE * p /\ PAGE * (p + 1) <= PAGE * Floor(hi)
    BY <1>1, <1>2, <1>3, Monotone
<1>5. PAGE * (p + 1) = PAGE * p + PAGE /\ PAGE * Ceil(lo) \in Int /\ PAGE * Floor(hi) \in Int
      /\ PAGE * p \in Int
    BY <1>1, <1>2, <1>3
<1> QED
    BY <1>1, <1>2, <1>3, <1>4, <1>5

(* An outward commit takes the pages that have a byte of the range.        *)
LEMMA OutwardPage ==
    ASSUME NEW lo \in Int, NEW len \in Int, NEW p \in Outward(lo, len)
    PROVE  p \in Int /\ lo < PAGE * p + PAGE /\ PAGE * p < lo + len
<1> DEFINE hi == lo + len
<1>1. PAGE \in Nat \ {0} /\ hi \in Int /\ hi + PAGE - 1 \in Int
    BY PageAssumption
<1>2. /\ Floor(lo) \in Int /\ Ceil(hi) \in Int
      /\ lo < PAGE * Floor(lo) + PAGE /\ PAGE * Ceil(hi) <= hi + PAGE - 1
    BY <1>1, Quotient DEF Ceil, Floor
<1>3. p \in Int /\ Floor(lo) <= p /\ p + 1 <= Ceil(hi)
    BY <1>2 DEF Outward
<1>4. PAGE * Floor(lo) <= PAGE * p /\ PAGE * (p + 1) <= PAGE * Ceil(hi)
    BY <1>1, <1>2, <1>3, Monotone
<1>5. PAGE * (p + 1) = PAGE * p + PAGE /\ PAGE * Floor(lo) \in Int /\ PAGE * Ceil(hi) \in Int
      /\ PAGE * p \in Int
    BY <1>1, <1>2, <1>3
<1> QED
    BY <1>1, <1>2, <1>3, <1>4, <1>5

\* Giving back the pages inside one range takes no page that another touches.
LEMMA InwardMissesNeighbour ==
    ASSUME NEW a, NEW b, a[1] \in Int, a[2] \in Int, b[1] \in Int, b[2] \in Int, Apart(a, b)
    PROVE  Inward(a[1], a[2]) \cap Outward(b[1], b[2]) = {}
<1> SUFFICES ASSUME NEW p \in Inward(a[1], a[2]), p \in Outward(b[1], b[2])
             PROVE  FALSE
    OBVIOUS
<1>1. p \in Int /\ a[1] <= PAGE * p /\ PAGE * p + PAGE <= a[1] + a[2]
    BY InwardPage
<1>2. b[1] < PAGE * p + PAGE /\ PAGE * p < b[1] + b[2]
    BY OutwardPage
<1>3. PAGE * p \in Int /\ PAGE \in Nat
    BY <1>1, PageAssumption
<1> QED
    BY <1>1, <1>2, <1>3 DEF Apart

\* A page that a range touches and does not contain has an end of it inside.
LEMMA EdgeOfRange ==
    ASSUME NEW lo \in Int, NEW len \in Int,
           NEW p \in Outward(lo, len), p \notin Inward(lo, len)
    PROVE  \E a \in {lo, lo + len} : PAGE * p < a /\ a < PAGE * (p + 1)
<1> DEFINE hi == lo + len
<1>1. PAGE \in Nat \ {0} /\ hi \in Int /\ lo + PAGE - 1 \in Int
    BY PageAssumption
<1>2. p \in Int /\ lo < PAGE * p + PAGE /\ PAGE * p < hi
    BY OutwardPage
<1>3. /\ Ceil(lo) \in Int /\ Floor(hi) \in Int
      /\ PAGE * Ceil(lo) <= lo + PAGE - 1 /\ hi < PAGE * Floor(hi) + PAGE
    BY <1>1, Quotient DEF Ceil, Floor
<1>4. p + 1 <= Ceil(lo) \/ Floor(hi) <= p
    BY <1>2, <1>3 DEF Inward
<1>5. PAGE * (p + 1) <= PAGE * Ceil(lo) \/ PAGE * Floor(hi) <= PAGE * p
    BY <1>1, <1>2, <1>3, <1>4, Monotone
<1>6. PAGE * (p + 1) = PAGE * p + PAGE /\ PAGE * Ceil(lo) \in Int /\ PAGE * Floor(hi) \in Int
      /\ PAGE * p \in Int
    BY <1>1, <1>2, <1>3
<1>7. PAGE * p < lo \/ hi < PAGE * (p + 1)
    BY <1>1, <1>3, <1>5, <1>6
<1> QED
    BY <1>1, <1>2, <1>6, <1>7

----------------------------------------------------------------------------
(* The tensor table.                                                       *)

\* Offset order, ties by slot, is total.
LEMMA AfterTotal ==
    ASSUME NEW f, FileOK(f), NEW i \in Slots(f), NEW j \in Slots(f), i # j
    PROVE  j \in After(f, i) \/ i \in After(f, j)
<1>1. i \in Nat /\ j \in Nat /\ f.tensors[i].offset \in Nat /\ f.tensors[j].offset \in Nat
    BY DEF FileOK
<1> QED
    BY <1>1 DEF After

\* A tensor ends where a later one starts, or before.
LEMMA SpanEnds ==
    ASSUME NEW f, FileOK(f), NEW i \in Slots(f)
    PROVE  /\ Span(f, i) \in Int
           /\ \A j \in After(f, i) : f.tensors[i].offset + Span(f, i) <= f.tensors[j].offset
<1> DEFINE S == {f.tensors[j].offset : j \in After(f, i)}
<1>1. f.tensors[i].offset \in Nat /\ S \in SUBSET Nat
    BY DEF FileOK, After
<1>2. DataBytes(f) \in Int
    <2>1. f.header \in Nat /\ f.align \in Nat \ {0} /\ f.size \in Nat
        BY DEF FileOK
    <2>2. (-f.header) % f.align \in Int
        BY <2>1
    <2> QED BY <2>1, <2>2 DEF DataBytes, DataStartOf
<1>3. CASE After(f, i) = {}
    <2>1. Span(f, i) = DataBytes(f) - f.tensors[i].offset
        BY <1>3 DEF Span
    <2> QED BY <1>1, <1>2, <1>3, <2>1
<1>4. CASE After(f, i) # {}
    <2>1. Span(f, i) = Min(S) - f.tensors[i].offset
        BY <1>4 DEF Span
    <2>2. S # {}
        BY <1>4
    <2>3. Min(S) \in S /\ \A x \in S : Min(S) <= x
        BY <1>1, <2>2, LeastNat
    <2>4. \A j \in After(f, i) : f.tensors[j].offset \in S
        OBVIOUS
    <2>5. Min(S) \in Nat
        BY <1>1, <2>3
    <2>6. Span(f, i) \in Int
        BY <1>1, <2>1, <2>5
    <2>7. ASSUME NEW j \in After(f, i)
          PROVE  f.tensors[i].offset + Span(f, i) <= f.tensors[j].offset
        <3>1. f.tensors[j].offset \in S /\ f.tensors[j].offset \in Nat
            BY <1>1, <2>4
        <3>2. Min(S) <= f.tensors[j].offset
            <4> HIDE DEF S
            <4> QED BY <2>3, <3>1
        <3> QED BY <1>1, <2>1, <2>5, <3>1, <3>2
    <2> QED BY <2>6, <2>7
<1> QED
    BY <1>3, <1>4

\* A name that the table has leads to a slot of that name: one of them is last.
LEMMA SlotIsNamed ==
    ASSUME NEW f, FileOK(f), NEW name, Named(f, name) # {}
    PROVE  Slot(f, name) \in Named(f, name)
<1> DEFINE N == Named(f, name)
           Later(i) == N \cap After(f, i)
           S == {Cardinality(Later(i)) : i \in N}
<1>1. IsFiniteSet(N)
    <2>1. PICK n \in Nat : Slots(f) = 1 .. n
        BY DEF FileOK
    <2>2. IsFiniteSet(1 .. n) /\ N \in SUBSET (1 .. n)
        BY <2>1, FS_Interval DEF Named
    <2> QED BY <2>2, FS_Subset
<1>2. \A i \in N : IsFiniteSet(Later(i)) /\ Cardinality(Later(i)) \in Nat
    BY <1>1, FS_Subset, FS_CardinalityType
<1>3. Min(S) \in S /\ \A x \in S : Min(S) <= x
    <2>1. S \in SUBSET Nat /\ S # {}
        BY <1>2
    <2> HIDE DEF S
    <2> QED BY <2>1, LeastNat
<1>4. PICK i \in N : Min(S) = Cardinality(Later(i))
    BY <1>3
<1>5. Later(i) = {}
    <2> SUFFICES ASSUME NEW j \in Later(i) PROVE FALSE
        OBVIOUS
    <2>1. j \in N /\ i \in Slots(f) /\ j \in Slots(f)
        BY DEF Named
    <2>2. j \notin Later(j)
        <3>1. j \in Nat /\ f.tensors[j].offset \in Nat
            BY <2>1 DEF FileOK
        <3> QED BY <3>1 DEF After
    <2>3. Later(j) \in SUBSET Later(i)
        <3>1. \A k \in Slots(f) : k \in Nat /\ f.tensors[k].offset \in Nat
            BY DEF FileOK
        <3>2. ASSUME NEW k \in After(f, j) PROVE k \in After(f, i)
            BY <2>1, <3>1 DEF After
        <3> QED BY <3>2
    <2>4. Later(i) # Later(j)
        BY <2>2
    <2>5. Cardinality(Later(j)) < Cardinality(Later(i))
        <3> HIDE DEF Later, N
        <3>1. /\ Cardinality(Later(j)) <= Cardinality(Later(i))
              /\ Cardinality(Later(i)) = Cardinality(Later(j)) => Later(i) = Later(j)
            BY <1>2, <2>3, FS_Subset
        <3> QED BY <1>2, <2>1, <2>4, <3>1
    <2>6. Cardinality(Later(i)) <= Cardinality(Later(j))
        BY <1>3, <1>4, <2>1
    <2> QED
        <3> HIDE DEF Later, N, S
        <3> QED BY <1>2, <2>1, <2>5, <2>6
<1> QED
    BY <1>5 DEF Slot

----------------------------------------------------------------------------
(* The slices of an accepted file.                                         *)

\* An expert tensor that the manifest is made from is divided without remainder.
LEMMA AcceptedTensor ==
    ASSUME NEW f, FileOK(f), ExpertsAccepted(f), NEW name \in ExpertNames
    PROVE  /\ Slot(f, name) \in Slots(f) /\ Name(f, Slot(f, name)) = name
           /\ Share(f, name) \in Nat
           /\ E * Share(f, name) = Span(f, Slot(f, name))
<1>1. Slot(f, name) \in Named(f, name)
    BY SlotIsNamed DEF ExpertsAccepted
<1>2. Slot(f, name) \in Slots(f) /\ Name(f, Slot(f, name)) = name
    BY <1>1 DEF Named
<1>3. Span(f, Slot(f, name)) \in Nat /\ Span(f, Slot(f, name)) % E = 0
    <2>1. Span(f, Slot(f, name)) \in Int
        BY <1>2, SpanEnds
    <2> QED BY <2>1 DEF ExpertsAccepted, Readable, Divisible
<1>4. E \in Nat \ {0}
    BY ManifestAssumption
<1>5. \A n \in Nat : n % E = 0 => n \div E \in Nat /\ E * (n \div E) = n
    BY <1>4
<1> QED
    BY <1>2, <1>3, <1>5 DEF Share

\* Where expert e's part of a tensor lies: inside the tensor, and before that of
\* every expert after it.
LEMMA Parts ==
    ASSUME NEW e \in Experts, NEW share \in Nat
    PROVE  /\ e * share \in Nat /\ e * share + share <= E * share
           /\ \A d \in Experts : e < d => e * share + share <= d * share
<1>1. E \in Nat /\ e \in Nat /\ \A d \in Experts : d \in Nat /\ d + 1 <= E
    BY ManifestAssumption DEF Experts
<1>2. \A d \in Nat : share * (d + 1) = d * share + share /\ share * d = d * share
    OBVIOUS
<1>3. share * (e + 1) <= share * E
    BY <1>1, Monotone
<1>4. ASSUME NEW d \in Experts, e < d PROVE share * (e + 1) <= share * d
    BY <1>1, <1>4, Monotone
<1>5. e * share \in Nat
    BY <1>1
<1> QED
    BY <1>1, <1>2, <1>3, <1>4, <1>5

\* The range of a slice, and of a trunk tensor, in a buffer that starts at base.
SliceAt(f, base, s) ==
    <<base + f.tensors[Slot(f, <<s[1], s[2]>>)].offset + s[3] * Share(f, <<s[1], s[2]>>),
      Share(f, <<s[1], s[2]>>)>>
TensorAt(f, base, i) == <<base + f.tensors[i].offset, Span(f, i)>>

IsRange(r) == r[1] \in Int /\ r[2] \in Int

\* What is known of one slice: the tensor it is in, and that it ends with it.
LEMMA SliceInTensor ==
    ASSUME NEW f, FileOK(f), ExpertsAccepted(f), NEW base \in Nat, NEW s \in Slices
    PROVE  LET i == Slot(f, <<s[1], s[2]>>)
           IN  /\ i \in Slots(f) /\ Name(f, i) = <<s[1], s[2]>>
               /\ base + f.tensors[i].offset \in Int /\ IsRange(SliceAt(f, base, s))
               /\ base + f.tensors[i].offset <= SliceAt(f, base, s)[1]
               /\ SliceAt(f, base, s)[1] + SliceAt(f, base, s)[2]
                     <= base + f.tensors[i].offset + Span(f, i)
<1> DEFINE name == <<s[1], s[2]>>
           i == Slot(f, name)
           share == Share(f, name)
<1>1. name \in ExpertNames /\ s[3] \in Experts
    BY DEF Slices, ExpertNames
<1>2. i \in Slots(f) /\ Name(f, i) = name /\ share \in Nat /\ E * share = Span(f, i)
    BY <1>1, AcceptedTensor
<1>3. f.tensors[i].offset \in Nat /\ Span(f, i) \in Int
    BY <1>2, SpanEnds DEF FileOK
<1>4. s[3] * share \in Nat /\ s[3] * share + share <= E * share
    BY <1>1, <1>2, Parts
<1>5. SliceAt(f, base, s)[1] = base + f.tensors[i].offset + s[3] * share
      /\ SliceAt(f, base, s)[2] = share
    BY DEF SliceAt
<1> HIDE DEF name, i, share
<1>6. /\ base + f.tensors[i].offset \in Int /\ IsRange(SliceAt(f, base, s))
      /\ base + f.tensors[i].offset <= SliceAt(f, base, s)[1]
      /\ SliceAt(f, base, s)[1] + SliceAt(f, base, s)[2] <= base + f.tensors[i].offset + Span(f, i)
    BY <1>2, <1>3, <1>4, <1>5 DEF IsRange
<1> QED
    BY <1>2, <1>6 DEF name, i

\* No two slices overlap.
LEMMA SlicesApart ==
    ASSUME NEW f, FileOK(f), ExpertsAccepted(f), NEW base \in Nat,
           NEW s \in Slices, NEW r \in Slices, s # r
    PROVE  Apart(SliceAt(f, base, s), SliceAt(f, base, r))
<1> DEFINE i == Slot(f, <<s[1], s[2]>>)
           j == Slot(f, <<r[1], r[2]>>)
<1>1. /\ i \in Slots(f) /\ Name(f, i) = <<s[1], s[2]>>
      /\ IsRange(SliceAt(f, base, s))
      /\ base + f.tensors[i].offset <= SliceAt(f, base, s)[1]
      /\ SliceAt(f, base, s)[1] + SliceAt(f, base, s)[2] <= base + f.tensors[i].offset + Span(f, i)
    BY SliceInTensor
<1>2. /\ j \in Slots(f) /\ Name(f, j) = <<r[1], r[2]>>
      /\ IsRange(SliceAt(f, base, r))
      /\ base + f.tensors[j].offset <= SliceAt(f, base, r)[1]
      /\ SliceAt(f, base, r)[1] + SliceAt(f, base, r)[2] <= base + f.tensors[j].offset + Span(f, j)
    BY SliceInTensor
<1>3. CASE i = j
    <2> DEFINE share == Share(f, <<s[1], s[2]>>)
               at == base + f.tensors[i].offset
    <2>1. s[1] = r[1] /\ s[2] = r[2] /\ s[3] # r[3] /\ s[3] \in Experts /\ r[3] \in Experts
        BY <1>1, <1>2, <1>3 DEF Slices
    <2>2. share \in Nat /\ at \in Int
        <3>1. <<s[1], s[2]>> \in ExpertNames
            BY DEF Slices, ExpertNames
        <3>2. share \in Nat
            BY <3>1, AcceptedTensor
        <3>3. base + f.tensors[i].offset \in Int
            BY SliceInTensor
        <3> QED BY <3>2, <3>3
    <2>3. /\ SliceAt(f, base, s) = <<at + s[3] * share, share>>
          /\ SliceAt(f, base, r) = <<at + r[3] * share, share>>
        BY <2>1 DEF SliceAt
    <2>4. s[3] * share \in Nat /\ r[3] * share \in Nat
        BY <2>1, <2>2, Parts
    <2>5. s[3] * share + share <= r[3] * share \/ r[3] * share + share <= s[3] * share
        <3>1. s[3] < r[3] \/ r[3] < s[3]
            BY <2>1, ManifestAssumption DEF Experts
        <3> QED BY <2>1, <2>2, <3>1, Parts
    <2> HIDE DEF share, at
    <2> QED BY <2>2, <2>3, <2>4, <2>5 DEF Apart
<1>4. CASE i # j
    <2>1. j \in After(f, i) \/ i \in After(f, j)
        BY <1>1, <1>2, <1>4, AfterTotal
    <2>2. /\ Span(f, i) \in Int /\ Span(f, j) \in Int
          /\ f.tensors[i].offset \in Nat /\ f.tensors[j].offset \in Nat
        BY <1>1, <1>2, SpanEnds DEF FileOK
    <2>3. \/ f.tensors[i].offset + Span(f, i) <= f.tensors[j].offset
          \/ f.tensors[j].offset + Span(f, j) <= f.tensors[i].offset
        BY <1>1, <1>2, <2>1, SpanEnds
    <2> HIDE DEF i, j
    <2> QED BY <1>1, <1>2, <2>2, <2>3 DEF Apart, IsRange
<1> QED
    BY <1>3, <1>4

\* No trunk tensor overlaps a slice: no slice is of a tensor of the trunk.
LEMMA TrunkApart ==
    ASSUME NEW f, FileOK(f), ExpertsAccepted(f), NEW base \in Nat,
           NEW s \in Slices, NEW k \in Trunk(f)
    PROVE  IsRange(TensorAt(f, base, k)) /\ Apart(SliceAt(f, base, s), TensorAt(f, base, k))
<1> DEFINE i == Slot(f, <<s[1], s[2]>>)
<1>1. /\ i \in Slots(f) /\ Name(f, i) = <<s[1], s[2]>>
      /\ IsRange(SliceAt(f, base, s))
      /\ base + f.tensors[i].offset <= SliceAt(f, base, s)[1]
      /\ SliceAt(f, base, s)[1] + SliceAt(f, base, s)[2] <= base + f.tensors[i].offset + Span(f, i)
    BY SliceInTensor
<1>2. k \in Slots(f) /\ ~IsExpert(f, k)
    BY DEF Trunk
<1>3. IsExpert(f, i)
    <2>1. f.tensors[i].block = s[1] /\ f.tensors[i].suffix = s[2]
        BY <1>1 DEF Name
    <2>2. s[1] \in Blocks /\ s[2] \in ExpertSuffixes /\ -1 \notin Blocks
        BY DEF Slices, Blocks
    <2> QED BY <2>1, <2>2 DEF IsExpert
<1>4. k \in After(f, i) \/ i \in After(f, k)
    BY <1>1, <1>2, <1>3, AfterTotal
<1>5. /\ Span(f, i) \in Int /\ Span(f, k) \in Int
      /\ f.tensors[i].offset \in Nat /\ f.tensors[k].offset \in Nat
    BY <1>1, <1>2, SpanEnds DEF FileOK
<1>6. \/ f.tensors[i].offset + Span(f, i) <= f.tensors[k].offset
      \/ f.tensors[k].offset + Span(f, k) <= f.tensors[i].offset
    BY <1>1, <1>2, <1>4, SpanEnds
<1> HIDE DEF i
<1> QED BY <1>1, <1>5, <1>6 DEF Apart, IsRange, TensorAt

----------------------------------------------------------------------------
(* The invariant.                                                          *)

LayoutOK ==
    /\ \A s \in Slices : IsRange(slices[s]) /\ \A r \in Slices : s # r => Apart(slices[s], slices[r])
    /\ \A t \in trunk : IsRange(t) /\ \A s \in Slices : Apart(slices[s], t)

\* NeighbourKept alone is not inductive: a release is harmless because ranges do
\* not overlap, and because what is leased is never resident as well.
IInv ==
    /\ FileOK(file)
    /\ turn \in -1 .. (L - 1)
    /\ resident \in [Blocks -> SUBSET Experts]
    /\ active \in SUBSET Slices
    /\ turn = -1 => active = {}
    /\ turn >= 0 => LayoutOK /\ active \cap Residents = {} /\ NeighbourKept /\ LeftoversAreEdges

(* Before the load nothing is committed and nothing is leased.             *)
LEMMA InitInv == FileOK(file) /\ AllocInit => IInv
<1> SUFFICES ASSUME FileOK(file), AllocInit PROVE IInv
    OBVIOUS
<1>1. turn = -1 /\ active = {} /\ resident = [l \in Blocks |-> {}]
    BY DEF AllocInit
<1>2. L \in Nat \ {0}
    BY ManifestAssumption
<1> QED
    BY <1>1, <1>2 DEF IInv

\* Residents are slices.
LEMMA ResidentSlices ==
    ASSUME resident \in [Blocks -> SUBSET Experts]
    PROVE  Residents \in SUBSET Slices
BY DEF Residents, SlicesOf

\* The load lays the slices out apart and commits what it makes resident.
LEMMA LoadKeeps ==
    ASSUME IInv, Load
    PROVE  IInv'
<1>1. /\ turn = -1 /\ turn' = 0 /\ active = {} /\ active' = {} /\ file' = file
      /\ FileOK(file) /\ ExpertsAccepted(file)
    BY DEF IInv, Load
<1>2. PICK base \in Bases :
        /\ trunk' = {TensorAt(file, base, i) : i \in Trunk(file)}
        /\ slices' = [s \in Slices |-> SliceAt(file, base, s)]
    BY DEF Load, SliceAt, TensorAt
<1>3. base \in Nat
    BY PageAssumption DEF Bases
<1>4. /\ resident' \in [Blocks -> SUBSET Experts]
      /\ committed' = TrunkPages' \cup UNION {SlicePages(s)' : s \in Residents'}
    <2>1. resident' \in [Blocks -> {S \in SUBSET Experts : Cardinality(S) = K}]
        BY DEF Load
    <2>2. committed' = TrunkPages' \cup UNION {SlicePages(s)' : s \in Residents'}
        BY DEF Load, CommitPages
    <2> QED BY <2>1, <2>2
<1>5. LayoutOK'
    <2>1. ASSUME NEW s \in Slices PROVE IsRange(slices'[s])
        BY <1>1, <1>2, <1>3, SliceInTensor
    <2>2. ASSUME NEW s \in Slices, NEW r \in Slices, s # r
          PROVE  Apart(slices'[s], slices'[r])
        BY <1>1, <1>2, <1>3, <2>2, SlicesApart
    <2>3. ASSUME NEW t \in trunk', NEW s \in Slices
          PROVE  IsRange(t) /\ Apart(slices'[s], t)
        <3>1. PICK i \in Trunk(file) : t = TensorAt(file, base, i)
            BY <1>2
        <3> QED BY <1>1, <1>2, <1>3, <3>1, TrunkApart
    <2>4. ASSUME NEW t \in trunk' PROVE IsRange(t)
        <3>1. PICK i \in Trunk(file) : t = TensorAt(file, base, i)
            BY <1>2
        <3>2. Span(file, i) \in Int /\ file.tensors[i].offset \in Nat
            BY <1>1, SpanEnds DEF Trunk, FileOK
        <3> QED BY <1>3, <3>1, <3>2 DEF TensorAt, IsRange
    <2> QED BY <2>1, <2>2, <2>3, <2>4 DEF LayoutOK, IsRange, Apart
<1>6. Owned' = Residents'
    BY <1>1 DEF Owned
<1>7. NeighbourKept' /\ LeftoversAreEdges'
    BY <1>4, <1>6 DEF NeighbourKept, LeftoversAreEdges
<1>8. L \in Nat \ {0}
    BY ManifestAssumption
<1> QED
    BY <1>1, <1>4, <1>5, <1>7, <1>8 DEF IInv

\* A route call releases and leases without touching what others need.
LEMMA RouteCallKeeps ==
    ASSUME IInv, NEW routed \in SUBSET Experts, RouteCall(routed)
    PROVE  IInv'
<1> DEFINE leases == Leases(routed)
<1>1. /\ turn \in 0 .. (L - 1) /\ turn' = (turn + 1) % L /\ active' = leases
      /\ committed' = (committed \ UNION {Dropped(s) : s \in active})
                          \cup UNION {SlicePages(s) : s \in leases}
      /\ file' = file /\ slices' = slices /\ trunk' = trunk /\ resident' = resident
    BY DEF IInv, RouteCall, CommitPages
<1>2. /\ LayoutOK /\ active \cap Residents = {} /\ NeighbourKept /\ LeftoversAreEdges
      /\ active \in SUBSET Slices /\ Residents \in SUBSET Slices
    BY <1>1, ResidentSlices DEF IInv
<1>3. turn' \in 0 .. (L - 1)
    <2>1. L \in Nat \ {0} /\ turn + 1 \in Nat
        BY <1>1, ManifestAssumption
    <2> QED BY <1>1, <2>1
<1>4. leases \in SUBSET Slices /\ leases \cap Residents = {}
    BY DEF Leases, SlicesOf, Residents
<1>5. LayoutOK' /\ Residents' = Residents /\ TrunkPages' = TrunkPages /\ Owned' = Residents \cup leases
    <2>1. LayoutOK'
        BY <1>1, <1>2 DEF LayoutOK
    <2>2. Residents' = Residents
        BY <1>1 DEF Residents, SlicesOf
    <2>3. TrunkPages' = TrunkPages
        BY <1>1 DEF TrunkPages
    <2> QED BY <1>1, <2>1, <2>2, <2>3 DEF Owned
<1>6. \A s \in Slices : SlicePages(s)' = SlicePages(s)
    BY <1>1 DEF SlicePages
<1>7. \A s \in active : Dropped(s) \cap TrunkPages = {}
    <2> SUFFICES ASSUME NEW s \in active, NEW t \in trunk
                 PROVE  Dropped(s) \cap Outward(t[1], t[2]) = {}
        BY DEF TrunkPages
    <2>1. IsRange(slices[s]) /\ IsRange(t) /\ Apart(slices[s], t)
        BY <1>2 DEF LayoutOK
    <2> QED BY <2>1, InwardMissesNeighbour DEF Dropped, IsRange
<1>8. \A s \in active : \A r \in Residents : Dropped(s) \cap SlicePages(r) = {}
    <2> SUFFICES ASSUME NEW s \in active, NEW r \in Residents
                 PROVE  Dropped(s) \cap SlicePages(r) = {}
        OBVIOUS
    <2>1. IsRange(slices[s]) /\ IsRange(slices[r]) /\ Apart(slices[s], slices[r])
        BY <1>2 DEF LayoutOK
    <2> QED BY <2>1, InwardMissesNeighbour DEF Dropped, SlicePages, IsRange
<1>9. NeighbourKept'
    <2>1. TrunkPages \subseteq committed'
        BY <1>1, <1>2, <1>7 DEF NeighbourKept
    <2>2. ASSUME NEW r \in Residents PROVE SlicePages(r) \subseteq committed'
        BY <1>1, <1>2, <1>8 DEF NeighbourKept, Owned
    <2>3. ASSUME NEW r \in leases PROVE SlicePages(r) \subseteq committed'
        BY <1>1
    <2> QED BY <1>2, <1>4, <1>5, <1>6, <2>1, <2>2, <2>3 DEF NeighbourKept
<1>10. LeftoversAreEdges'
    <2> SUFFICES ASSUME NEW p \in committed'
                 PROVE  \/ EdgePage(p)
                        \/ p \in TrunkPages \cup UNION {SlicePages(s) : s \in Residents \cup leases}
        BY <1>1, <1>2, <1>4, <1>5, <1>6 DEF LeftoversAreEdges, EdgePage
    <2>1. CASE \E s \in leases : p \in SlicePages(s)
        BY <2>1
    <2>2. CASE p \in committed /\ \A s \in active : p \notin Dropped(s)
        <3>1. EdgePage(p) \/ p \in TrunkPages \cup UNION {SlicePages(s) : s \in Owned}
            BY <1>1, <1>2, <2>2 DEF LeftoversAreEdges
        <3>2. CASE \E s \in active : p \in SlicePages(s)
            <4>1. PICK s \in active : p \in SlicePages(s)
                BY <3>2
            <4>2. IsRange(slices[s]) /\ s \in Slices
                BY <1>2 DEF LayoutOK
            <4>3. p \in Outward(slices[s][1], slices[s][2]) /\ p \notin Inward(slices[s][1], slices[s][2])
                BY <2>2, <4>1 DEF SlicePages, Dropped
            <4> QED BY <4>2, <4>3, EdgeOfRange DEF EdgePage, IsRange
        <3> QED BY <3>1, <3>2 DEF Owned
    <2> QED BY <1>1, <2>1, <2>2
<1> HIDE DEF leases
<1> QED
    BY <1>1, <1>2, <1>3, <1>4, <1>5, <1>9, <1>10 DEF IInv

----------------------------------------------------------------------------
(* The theorems.                                                           *)

\* The inductive invariant of the allocator.
THEOREM PageInvariant == AllocSpec => []IInv
<1>1. IInv /\ [AllocNext]_<<file, allocVars>> => IInv'
    <2> SUFFICES ASSUME IInv, [AllocNext]_<<file, allocVars>> PROVE IInv'
        OBVIOUS
    <2>1. CASE Load
        BY <2>1, LoadKeeps
    <2>2. CASE \E routed \in SUBSET Experts : RouteCall(routed)
        BY <2>2, RouteCallKeeps
    <2>3. CASE UNCHANGED <<file, allocVars>>
        <3>1. UNCHANGED <<file, slices, trunk, resident, committed, active, turn>>
            BY <2>3 DEF allocVars
        <3> QED BY <3>1 DEF IInv, LayoutOK, Residents, SlicesOf, NeighbourKept, LeftoversAreEdges,
                            TrunkPages, SlicePages, Owned, EdgePage
    <2> QED BY <2>1, <2>2, <2>3 DEF AllocNext
<1> QED
    BY <1>1, InitInv, PTL DEF AllocSpec

\* Every byte that is resident or leased stays committed, however pages are shared.
THEOREM NeighbourIsKept == AllocSpec => []NeighbourKept
<1>1. IInv => NeighbourKept
    BY DEF IInv, NeighbourKept
<1> QED
    BY <1>1, PageInvariant, PTL

\* What released leases leave committed are pages that an end of a slice is inside of.
THEOREM LeftoversStayEdges == AllocSpec => []LeftoversAreEdges
<1>1. IInv => LeftoversAreEdges
    BY DEF IInv, LeftoversAreEdges
<1> QED
    BY <1>1, PageInvariant, PTL

----------------------------------------------------------------------------
(* The calls balance.                                                      *)

\* An expert's lease is one slice per suffix.
LEMMA LeaseCount ==
    ASSUME NEW l \in Blocks, NEW D \in SUBSET Experts
    PROVE  /\ IsFiniteSet(D) /\ IsFiniteSet(SlicesOf(l, D))
           /\ Cardinality(SlicesOf(l, D)) = Cardinality(ExpertSuffixes) * Cardinality(D)
<1>1. IsFiniteSet(ExpertSuffixes) /\ IsFiniteSet(D)
    <2>1. E \in Nat
        BY ManifestAssumption
    <2>2. IsFiniteSet(Experts)
        BY <2>1, FS_Interval DEF Experts
    <2> QED BY <2>2, FS_Subset, ManifestAssumption
<1> DEFINE P == ExpertSuffixes \X D
           S == SlicesOf(l, D)
           f == [p \in P |-> <<l, p[1], p[2]>>]
<1>2. IsFiniteSet(P) /\ Cardinality(P) = Cardinality(ExpertSuffixes) * Cardinality(D)
    BY <1>1, FS_Product
<1>3. f \in Bijection(P, S)
    <2>1. \A p \in P : <<l, p[1], p[2]>> \in S
        BY DEF SlicesOf, Slices
    <2>2. f \in [P -> S]
        <3> HIDE DEF P, S
        <3> QED BY <2>1
    <2>3. \A p, q \in P : f[p] = f[q] => p = q
        OBVIOUS
    <2>4. ASSUME NEW s \in S PROVE \E p \in P : f[p] = s
        <3>1. s = <<l, s[2], s[3]>> /\ s[2] \in ExpertSuffixes /\ s[3] \in D
            BY DEF SlicesOf, Slices
        <3>2. <<s[2], s[3]>> \in P /\ f[<<s[2], s[3]>>] = <<l, s[2], s[3]>>
            BY <3>1
        <3> QED BY <3>1, <3>2
    <2> HIDE DEF f, P, S
    <2> QED BY <2>2, <2>3, <2>4 DEF Bijection, Injection, Surjection, IsInjective
<1>4. IsFiniteSet(S) /\ Cardinality(S) = Cardinality(P)
    <2> HIDE DEF f, P, S
    <2> QED BY <1>2, <1>3, FS_Bijection DEF ExistsBijection
<1> QED
    BY <1>1, <1>2, <1>4

\* What the counters say of the leases so far and of the load.
CountsOK ==
    /\ decommit_calls \in Nat /\ commit_calls \in Nat /\ lease_events \in Nat
    /\ IsFiniteSet(active) /\ (turn = -1 => lease_events = 0)
    /\ decommit_calls + Cardinality(active) = Cardinality(ExpertSuffixes) * lease_events
    /\ commit_calls = Cardinality(ExpertSuffixes) * lease_events
                        + (IF turn = -1 THEN 0 ELSE Cardinality(Residents) + Cardinality(Trunk(file)))

\* What is loaded for good is finitely many slices.
LEMMA FiniteResidents ==
    ASSUME resident \in [Blocks -> SUBSET Experts]
    PROVE  IsFiniteSet(Residents)
<1>1. IsFiniteSet(Blocks) /\ IsFiniteSet(Experts)
    <2>1. L - 1 \in Int /\ E - 1 \in Int
        BY ManifestAssumption
    <2> QED BY <2>1, FS_Interval DEF Blocks, Experts
<1>2. IsFiniteSet(Slices)
    <2> DEFINE pairs == Blocks \X ExpertSuffixes
               f == [p \in pairs \X Experts |-> <<p[1][1], p[1][2], p[2]>>]
    <2>1. IsFiniteSet(pairs \X Experts)
        BY <1>1, ManifestAssumption, FS_Product
    <2>2. f \in Surjection(pairs \X Experts, Slices)
        <3>1. \A p \in pairs \X Experts : <<p[1][1], p[1][2], p[2]>> \in Slices
            BY DEF Slices
        <3>2. ASSUME NEW s \in Slices PROVE \E p \in pairs \X Experts : f[p] = s
            <4>1. s = <<s[1], s[2], s[3]>> /\ <<<<s[1], s[2]>>, s[3]>> \in pairs \X Experts
                BY DEF Slices
            <4>2. f[<<<<s[1], s[2]>>, s[3]>>] = <<s[1], s[2], s[3]>>
                BY <4>1
            <4> QED BY <4>1, <4>2
        <3>3. f \in [pairs \X Experts -> Slices]
            <4> HIDE DEF pairs
            <4> QED BY <3>1
        <3> HIDE DEF f, pairs
        <3> QED BY <3>2, <3>3 DEF Surjection
    <2> HIDE DEF f, pairs
    <2> QED BY <2>1, <2>2, FS_Surjection
<1>3. Residents \in SUBSET Slices
    BY ResidentSlices
<1> QED BY <1>2, <1>3, FS_Subset

(* What the counters count is finite.                                      *)
LEMMA CountTypes ==
    /\ Cardinality(ExpertSuffixes) \in Nat
    /\ IsFiniteSet(active) => Cardinality(active) \in Nat
    /\ FileOK(file) => Cardinality(Trunk(file)) \in Nat
    /\ resident \in [Blocks -> SUBSET Experts] => Cardinality(Residents) \in Nat
<1>1. Cardinality(ExpertSuffixes) \in Nat
    BY ManifestAssumption, FS_CardinalityType
<1>2. IsFiniteSet(active) => Cardinality(active) \in Nat
    BY FS_CardinalityType
<1>3. ASSUME FileOK(file) PROVE Cardinality(Trunk(file)) \in Nat
    <2>1. PICK n \in Nat : Slots(file) = 1 .. n
        BY <1>3 DEF FileOK
    <2>2. IsFiniteSet(1 .. n) /\ Trunk(file) \in SUBSET (1 .. n)
        BY <2>1, FS_Interval DEF Trunk
    <2> QED BY <2>2, FS_Subset, FS_CardinalityType
<1>4. ASSUME resident \in [Blocks -> SUBSET Experts] PROVE Cardinality(Residents) \in Nat
    BY <1>4, FiniteResidents, FS_CardinalityType
<1> QED
    BY <1>1, <1>2, <1>3, <1>4

\* A route call counts what it releases and what it leases.
LEMMA RouteCallCounts ==
    ASSUME IInv, CountsOK, NEW routed \in SUBSET Experts, RouteCall(routed)
    PROVE  CountsOK'
<1> DEFINE leased == routed \ resident[turn]
           leases == Leases(routed)
           x == Cardinality(ExpertSuffixes)
<1>1. /\ turn >= 0 /\ turn \in 0 .. (L - 1) /\ turn' = (turn + 1) % L /\ active' = leases
      /\ decommit_calls' = decommit_calls + Cardinality(active)
      /\ commit_calls' = commit_calls + Cardinality(leases)
      /\ lease_events' = lease_events + Cardinality(leased)
      /\ file' = file /\ resident' = resident
    BY DEF IInv, RouteCall
<1>2. turn' # -1 /\ turn # -1
    <2>1. L \in Nat \ {0} /\ turn + 1 \in Nat
        BY <1>1, ManifestAssumption
    <2> QED BY <1>1, <2>1
<1>3. IsFiniteSet(leases) /\ Cardinality(leases) = x * Cardinality(leased) /\ Cardinality(leased) \in Nat
    <2>1. leased \in SUBSET Experts /\ turn \in Blocks
        BY <1>1 DEF Blocks
    <2> QED BY <2>1, LeaseCount, FS_CardinalityType DEF Leases
<1>4. /\ x \in Nat /\ Cardinality(active) \in Nat
      /\ Cardinality(Residents) \in Nat /\ Cardinality(Trunk(file)) \in Nat
    BY CountTypes DEF IInv, CountsOK
<1>5. Residents' = Residents /\ Trunk(file)' = Trunk(file)
    BY <1>1 DEF Residents, SlicesOf
<1> HIDE DEF leased, leases
<1>6. x * (lease_events + Cardinality(leased)) = x * lease_events + x * Cardinality(leased)
    <2> HIDE DEF x
    <2> QED BY <1>3, <1>4 DEF CountsOK
<1> DEFINE now == x * lease_events
           more == x * Cardinality(leased)
<1>7. now \in Nat /\ more \in Nat
    <2>1. lease_events \in Nat
        BY DEF CountsOK
    <2> HIDE DEF x
    <2> QED BY <1>3, <1>4, <2>1
<1>8. /\ decommit_calls + Cardinality(active) = now
      /\ commit_calls = now + (Cardinality(Residents) + Cardinality(Trunk(file)))
    BY <1>2 DEF CountsOK
<1>9. x * lease_events' = now + more
    BY <1>1, <1>6
<1>10. Cardinality(active') = more
    BY <1>1, <1>3
<1> HIDE DEF now, more
<1>11. /\ decommit_calls' + Cardinality(active') = now + more
       /\ commit_calls' = now + more + (Cardinality(Residents) + Cardinality(Trunk(file)))
       /\ decommit_calls' \in Nat /\ commit_calls' \in Nat /\ lease_events' \in Nat
    <2>1. decommit_calls \in Nat /\ commit_calls \in Nat /\ lease_events \in Nat
        BY DEF CountsOK
    <2>2. Cardinality(leases) = more
        BY <1>1, <1>10
    <2> DEFINE loaded == Cardinality(Residents) + Cardinality(Trunk(file))
               out == Cardinality(active)
    <2>3. loaded \in Nat /\ out \in Nat /\ Cardinality(leased) \in Nat
        BY <1>3, <1>4
    <2>4. /\ decommit_calls' = decommit_calls + out /\ commit_calls' = commit_calls + more
          /\ lease_events' = lease_events + Cardinality(leased)
          /\ decommit_calls + out = now /\ commit_calls = now + loaded
        BY <1>1, <1>8, <2>2
    <2> HIDE DEF loaded, out
    <2>5. decommit_calls' + Cardinality(active') = now + more /\ commit_calls' = now + more + loaded
        BY <1>7, <1>10, <2>1, <2>3, <2>4
    <2>6. decommit_calls' \in Nat /\ commit_calls' \in Nat /\ lease_events' \in Nat
        BY <1>7, <2>1, <2>3, <2>4
    <2> QED BY <2>5, <2>6 DEF loaded
<1> QED
    BY <1>1, <1>2, <1>3, <1>5, <1>9, <1>11 DEF CountsOK

\* The counters are in balance from the start, and every step keeps them so.
LEMMA CountsInvariant == AllocSpec => []CountsOK
<1>1. FileOK(file) /\ AllocInit => CountsOK
    <2> SUFFICES ASSUME FileOK(file), AllocInit PROVE CountsOK
        OBVIOUS
    <2> QED BY CountTypes, FS_EmptySet DEF AllocInit, CountsOK
<1>2. IInv /\ CountsOK /\ [AllocNext]_<<file, allocVars>> => CountsOK'
    <2> SUFFICES ASSUME IInv, CountsOK, [AllocNext]_<<file, allocVars>> PROVE CountsOK'
        OBVIOUS
    <2>1. CASE Load
        <3>1. /\ turn = -1 /\ turn' = 0 /\ file' = file /\ active' = active
              /\ decommit_calls' = decommit_calls /\ lease_events' = lease_events
              /\ commit_calls' = Cardinality(Trunk(file)) + Cardinality(Residents')
            BY <2>1 DEF Load
        <3>2. active = {} /\ IInv' /\ FileOK(file)
            BY <2>1, <3>1, LoadKeeps DEF IInv
        <3>3. Cardinality(Trunk(file)) \in Nat /\ Cardinality(Residents)' \in Nat
            <4>1. resident' \in [Blocks -> SUBSET Experts]
                BY <3>2 DEF IInv
            <4>2. (resident \in [Blocks -> SUBSET Experts] => Cardinality(Residents) \in Nat)'
                BY CountTypes, PTL
            <4> QED BY <3>2, <4>1, <4>2, CountTypes
        <3>4. lease_events = 0 /\ Cardinality(ExpertSuffixes) * 0 = 0
            BY <3>1, CountTypes DEF CountsOK
        <3> QED BY <3>1, <3>3, <3>4 DEF CountsOK
    <2>2. CASE \E routed \in SUBSET Experts : RouteCall(routed)
        BY <2>2, RouteCallCounts
    <2>3. CASE UNCHANGED <<file, allocVars>>
        <3>1. UNCHANGED <<file, resident, active, turn, commit_calls, decommit_calls, lease_events>>
            BY <2>3 DEF allocVars
        <3> QED BY <3>1 DEF CountsOK, Residents, SlicesOf
    <2> QED BY <2>1, <2>2, <2>3 DEF AllocNext
<1> QED
    BY <1>1, <1>2, PageInvariant, PTL DEF AllocSpec

\* After the load and any number of route calls: every lease event is one commit
\* per suffix, and one decommit per suffix unless it is still out.
THEOREM CallsAlwaysBalance == AllocSpec => []CallsBalance
<1>1. IInv /\ CountsOK => CallsBalance
    <2> SUFFICES ASSUME IInv, CountsOK, turn >= 0 PROVE P4d
        BY DEF CallsBalance
    <2> DEFINE now == Cardinality(ExpertSuffixes) * lease_events
               residents == Cardinality(Residents)
               tensors == Cardinality(Trunk(file))
    <2>1. now \in Int /\ residents \in Nat /\ tensors \in Nat /\ turn # -1
        BY CountTypes DEF IInv, CountsOK
    <2>2. commit_calls = now + (residents + tensors) /\ decommit_calls + Cardinality(active) = now
        BY <2>1 DEF CountsOK
    <2>3. commit_calls - residents - now = tensors
        <3> HIDE DEF now, residents, tensors
        <3> QED BY <2>1, <2>2
    <2> QED BY <2>2, <2>3 DEF P4d
<1> QED
    BY <1>1, CountsInvariant, PageInvariant, PTL

----------------------------------------------------------------------------
(* The bar on the peak.                                                    *)

\* "any tensor base is 64-byte aligned" (commit_census.py:25): the offsets are
\* multiples of the alignment, as the buffer's base is.
Aligned(f) == PAGE % ALIGN = 0 /\ \A i \in Slots(f) : f.tensors[i].offset % ALIGN = 0

\* An aligned address has an aligned distance to its page.
LEMMA AlignedResidue ==
    ASSUME NEW a \in Nat, a % ALIGN = 0, PAGE % ALIGN = 0
    PROVE  a % PAGE \in Bases
<1> DEFINE q == a \div PAGE
           j == a \div ALIGN
           k == PAGE \div ALIGN
           r == a % PAGE
<1>1. PAGE \in Nat \ {0} /\ ALIGN \in Nat \ {0}
    BY PageAssumption
<1>2. a = PAGE * q + r /\ r \in 0 .. (PAGE - 1) /\ q \in Nat
    BY <1>1
<1>3. a = ALIGN * j /\ PAGE = ALIGN * k /\ j \in Int /\ k \in Int
    BY <1>1
<1>4. (ALIGN * k) * q = ALIGN * (k * q)
    <2>1. \A x, y, z \in Int : (x * y) * z = x * (y * z)
        OBVIOUS
    <2> QED BY <1>1, <1>2, <1>3, <2>1
<1>5. r = ALIGN * (j - k * q) + 0 /\ j - k * q \in Int
    <2> DEFINE m == k * q
    <2>1. m \in Int
        BY <1>2, <1>3
    <2>2. ALIGN * j - ALIGN * m = ALIGN * (j - m)
        <3> HIDE DEF j, m
        <3> QED BY <1>1, <1>3, <2>1
    <2>3. r = ALIGN * j - ALIGN * m
        <3>1. PAGE * q = ALIGN * m
            BY <1>3, <1>4
        <3>2. ALIGN * m \in Int /\ ALIGN * j \in Int
            BY <1>1, <1>3, <2>1
        <3> HIDE DEF q, j, k, r, m
        <3> QED BY <1>2, <1>3, <3>1, <3>2
    <2> HIDE DEF q, j, k, r
    <2> QED BY <1>1, <1>3, <2>1, <2>2, <2>3
<1>6. ASSUME NEW m \in Int PROVE (ALIGN * m + 0) % ALIGN = 0
    BY <1>1
<1>7. r % ALIGN = 0
    <2> HIDE DEF q, j, k, r
    <2> QED BY <1>5, <1>6
<1> QED
    BY <1>2, <1>7 DEF Bases

\* Addresses that differ by whole pages lie alike in their pages.
LEMMA SameInPage ==
    ASSUME NEW a \in Nat, NEW b \in Nat
    PROVE  ((a % PAGE) + b) % PAGE = (a + b) % PAGE
<1> DEFINE q == a \div PAGE
           r == a % PAGE
           t == r + b
<1>1. PAGE \in Nat \ {0}
    BY PageAssumption
<1>2. a = PAGE * q + r /\ q \in Nat /\ r \in Nat
    BY <1>1
<1> DEFINE u == t \div PAGE
           v == t % PAGE
<1>3. t = PAGE * u + v /\ v \in 0 .. (PAGE - 1) /\ u \in Nat /\ t \in Nat
    <2>1. t \in Nat
        BY <1>2
    <2> HIDE DEF t
    <2> QED BY <1>1, <2>1
<1>4. a + b = PAGE * (q + u) + v
    <2>1. PAGE * (q + u) = PAGE * q + PAGE * u /\ PAGE * q \in Int /\ PAGE * u \in Int
        <3> HIDE DEF q, u
        <3> QED BY <1>1, <1>2, <1>3
    <2>2. r + b = PAGE * u + v
        BY <1>3
    <2> HIDE DEF q, r, t, u, v
    <2> QED BY <1>2, <1>3, <2>1, <2>2
<1>5. ASSUME NEW m \in Int, NEW x \in 0 .. (PAGE - 1) PROVE (PAGE * m + x) % PAGE = x
    BY <1>1
<1>6. (PAGE * (q + u) + v) % PAGE = v
    <2> HIDE DEF q, u, v
    <2> QED BY <1>2, <1>3, <1>5
<1> QED
    BY <1>4, <1>6

\* The pages inside a range have no more bytes than the range.
LEMMA InwardBytes ==
    ASSUME NEW lo \in Int, NEW len \in Nat
    PROVE  IsFiniteSet(Inward(lo, len)) /\ PAGE * Cardinality(Inward(lo, len)) <= len
<1> DEFINE hi == lo + len
           up == Ceil(lo)
           down == Floor(hi)
<1>1. PAGE \in Nat \ {0} /\ hi \in Int /\ lo + PAGE - 1 \in Int
    BY PageAssumption
<1>2. /\ up \in Int /\ down \in Int
      /\ lo + PAGE - 1 < PAGE * up + PAGE /\ PAGE * down <= hi
    BY <1>1, Quotient DEF Ceil, Floor
<1>3. PAGE * up \in Int /\ PAGE * down \in Int /\ PAGE * (down - up) = PAGE * down - PAGE * up
    <2> HIDE DEF up, down
    <2> QED BY <1>1, <1>2
<1>4. IsFiniteSet(Inward(lo, len))
      /\ Cardinality(Inward(lo, len)) = IF up > down - 1 THEN 0 ELSE down - up
    <2>1. Inward(lo, len) = up .. (down - 1) /\ down - 1 \in Int
        BY <1>2 DEF Inward
    <2>2. IsFiniteSet(up .. (down - 1))
          /\ Cardinality(up .. (down - 1)) = IF up > down - 1 THEN 0 ELSE (down - 1) - up + 1
        BY <1>2, <2>1, FS_Interval
    <2>3. (down - 1) - up + 1 = down - up
        <3> HIDE DEF up, down
        <3> QED BY <1>2
    <2> QED BY <2>1, <2>2, <2>3
<1> HIDE DEF up, down
<1>5. CASE up > down - 1
    <2>1. PAGE * 0 = 0
        BY <1>1
    <2> QED BY <1>4, <1>5, <2>1
<1>6. CASE ~(up > down - 1)
    BY <1>1, <1>2, <1>3, <1>4, <1>6
<1> QED
    BY <1>4, <1>5, <1>6

\* Blocks, experts and slices are finitely many.
LEMMA FiniteSlices ==
    /\ IsFiniteSet(Blocks) /\ Cardinality(Blocks) = L
    /\ IsFiniteSet(ExpertSuffixes) /\ Cardinality(ExpertSuffixes) \in Nat
    /\ Cardinality(ExpertNames) = L * Cardinality(ExpertSuffixes)
<1>1. L \in Nat \ {0} /\ L - 1 \in Int /\ 0 \in Int
    BY ManifestAssumption
<1>2. IsFiniteSet(Blocks) /\ Cardinality(Blocks) = L
    <2>1. IsFiniteSet(0 .. (L - 1))
          /\ Cardinality(0 .. (L - 1)) = IF 0 > L - 1 THEN 0 ELSE (L - 1) - 0 + 1
        BY <1>1, FS_Interval
    <2> QED BY <1>1, <2>1 DEF Blocks
<1>3. IsFiniteSet(ExpertSuffixes) /\ Cardinality(ExpertSuffixes) \in Nat
    BY ManifestAssumption, FS_CardinalityType
<1>4. Cardinality(ExpertNames) = L * Cardinality(ExpertSuffixes)
    BY <1>2, <1>3, FS_Product DEF ExpertNames
<1> QED BY <1>2, <1>3, <1>4

\* The slices of a tensor follow each other, and from an address that is aligned.
RowsOK ==
    \A l \in Blocks : \A x \in ExpertSuffixes :
        LET first == slices[<<l, x, 0>>]
        IN  /\ first[1] \in Nat /\ first[2] \in Nat
            /\ \A e \in Experts : slices[<<l, x, e>>] = <<first[1] + e * first[2], first[2]>>
TensorsOK ==
    /\ RowsOK
    /\ \A l \in Blocks : \A x \in ExpertSuffixes : slices[<<l, x, 0>>][1] % ALIGN = 0

\* The pages that an end of a slice of one tensor is strictly inside of.
EdgesOf(l, x) ==
    {p \in Int : \E e \in Experts :
        \E a \in {slices[<<l, x, e>>][1], slices[<<l, x, e>>][1] + slices[<<l, x, e>>][2]} :
            PAGE * p < a /\ a < PAGE * (p + 1)}

\* The boundaries of a tensor that the census counts, and its two ends.
Crossings(at, len) == {e \in 1 .. (E - 1) : (at + e * len) % PAGE # 0}

\* The boundaries that fall strictly inside a page are finitely many.
LEMMA FewCrossings ==
    \A at, len : /\ IsFiniteSet(Crossings(at, len)) /\ Straddles(at, len) = Cardinality(Crossings(at, len))
                 /\ Straddles(at, len) \in Nat /\ Straddles(at, len) <= E
<1> SUFFICES ASSUME NEW at, NEW len
             PROVE  /\ IsFiniteSet(Crossings(at, len))
                    /\ Straddles(at, len) = Cardinality(Crossings(at, len))
                    /\ Straddles(at, len) \in Nat /\ Straddles(at, len) <= E
    OBVIOUS
<1>1. E \in Nat \ {0} /\ E - 1 \in Int /\ 1 \in Int
    BY ManifestAssumption
<1>2. IsFiniteSet(1 .. (E - 1)) /\ Cardinality(1 .. (E - 1)) = IF 1 > E - 1 THEN 0 ELSE (E - 1) - 1 + 1
    BY <1>1, FS_Interval
<1>3. Cardinality(1 .. (E - 1)) <= E
    BY <1>1, <1>2
<1>4. Crossings(at, len) \in SUBSET (1 .. (E - 1))
    BY DEF Crossings
<1>5. IsFiniteSet(Crossings(at, len)) /\ Cardinality(Crossings(at, len)) <= Cardinality(1 .. (E - 1))
    BY <1>2, <1>4, FS_Subset
<1>6. Cardinality(Crossings(at, len)) \in Nat /\ Cardinality(1 .. (E - 1)) \in Nat
    BY <1>2, <1>5, FS_CardinalityType
<1>7. Straddles(at, len) = Cardinality(Crossings(at, len))
    BY DEF Straddles, Crossings
<1> QED BY <1>1, <1>3, <1>5, <1>6, <1>7

\* MaxStraddles is the greatest of the counts over the possible bases.
LEMMA StraddlesBound ==
    ASSUME NEW x, NEW at \in Bases
    PROVE  /\ MaxStraddles(x) \in Nat
           /\ Straddles(at, slices[<<0, x, 0>>][2]) <= MaxStraddles(x)
<1> DEFINE len == slices[<<0, x, 0>>][2]
           S == {Straddles(b, len) : b \in Bases}
<1>1. S \in SUBSET Nat /\ (\A y \in S : y <= E) /\ Straddles(at, len) \in S /\ E \in Nat
    BY FewCrossings, ManifestAssumption
<1>2. MaxStraddles(x) = Max(S)
    BY DEF MaxStraddles
<1> HIDE DEF S
<1>3. Max(S) \in S /\ \A y \in S : y <= Max(S)
    BY <1>1, GreatestNat
<1> QED BY <1>1, <1>2, <1>3

\* An address strictly inside page p has p as its page.
LEMMA PageOf ==
    ASSUME NEW a \in Nat, NEW p \in Int, PAGE * p < a, a < PAGE * (p + 1)
    PROVE  Floor(a) = p /\ a % PAGE # 0
<1> DEFINE r == a - PAGE * p
<1>1. PAGE \in Nat \ {0}
    BY PageAssumption
<1>2. PAGE * (p + 1) = PAGE * p + PAGE /\ PAGE * p \in Int
    BY <1>1
<1>3. r \in Int /\ 0 < r /\ r < PAGE /\ a = PAGE * p + r
    <2> DEFINE t == PAGE * p
    <2>1. t < a /\ a < t + PAGE /\ t \in Int
        BY <1>2
    <2>2. r = a - t
        OBVIOUS
    <2> HIDE DEF t, r
    <2>3. r \in Int /\ 0 < r /\ r < PAGE /\ a = t + r
        BY <1>1, <2>1, <2>2
    <2> QED BY <2>3 DEF t
<1> HIDE DEF r
<1>4. (PAGE * p + r) \div PAGE = p /\ (PAGE * p + r) % PAGE = r
    BY <1>1, <1>3
<1> QED BY <1>3, <1>4 DEF Floor

\* A tensor has no more edge pages than crossings at its base and two ends.
LEMMA FewEdges ==
    ASSUME TensorsOK, CensusReads, PAGE % ALIGN = 0, NEW l \in Blocks, NEW x \in ExpertSuffixes
    PROVE  /\ IsFiniteSet(EdgesOf(l, x)) /\ MaxStraddles(x) \in Nat
           /\ Cardinality(EdgesOf(l, x)) \in Nat
           /\ Cardinality(EdgesOf(l, x)) <= MaxStraddles(x) + 2
<1> DEFINE lo == slices[<<l, x, 0>>][1]
           len == slices[<<l, x, 0>>][2]
           at == lo % PAGE
           I == Crossings(at, len) \cup {0, E}
           f == [e \in I |-> Floor(lo + e * len)]
<1>1. /\ E \in Nat \ {0} /\ L \in Nat \ {0} /\ PAGE \in Nat \ {0}
      /\ 0 \in Experts /\ 0 \in Blocks
    BY ManifestAssumption, PageAssumption DEF Experts, Blocks
<1>2. /\ lo \in Nat /\ len \in Nat /\ lo % ALIGN = 0
      /\ \A e \in Experts : slices[<<l, x, e>>][1] = lo + e * len /\ slices[<<l, x, e>>][2] = len
    BY DEF TensorsOK, RowsOK
<1>3. at \in Bases /\ at \in Nat
    BY <1>2, AlignedResidue DEF Bases
<1>4. slices[<<0, x, 0>>][2] = len
    <2>1. <<0, x, 0>> \in Slices /\ <<l, x, 0>> \in Slices
        BY <1>1 DEF Slices
    <2> QED BY <2>1 DEF CensusReads
<1>5. MaxStraddles(x) \in Nat /\ Cardinality(Crossings(at, len)) <= MaxStraddles(x)
      /\ Cardinality(Crossings(at, len)) \in Nat /\ IsFiniteSet(Crossings(at, len))
    <2> HIDE DEF at, len
    <2> QED BY <1>3, <1>4, StraddlesBound, FewCrossings
<1>6. IsFiniteSet(I) /\ Cardinality(I) \in Nat /\ Cardinality(I) <= MaxStraddles(x) + 2
    <2>1. IsFiniteSet({0, E}) /\ Cardinality({0, E}) \in Nat /\ Cardinality({0, E}) <= 2
        <3>1. IsFiniteSet({0}) /\ Cardinality({0}) = 1 /\ IsFiniteSet({E}) /\ Cardinality({E}) = 1
            BY FS_Singleton
        <3>2. {0, E} = {0} \cup {E}
            OBVIOUS
        <3> QED BY <3>1, <3>2, AtMostBoth
    <2> DEFINE C == Crossings(at, len)
    <2>2. IsFiniteSet(C) /\ I = C \cup {0, E}
        BY <1>5
    <2>3. IsFiniteSet(I) /\ Cardinality(I) \in Nat /\ Cardinality(I) <= Cardinality(C) + Cardinality({0, E})
        <3> HIDE DEF C, I
        <3> QED BY <2>1, <2>2, AtMostBoth
    <2>4. Cardinality(C) <= MaxStraddles(x) /\ Cardinality(C) \in Nat
        BY <1>5
    <2> HIDE DEF C, I
    <2> QED BY <1>5, <2>1, <2>3, <2>4
<1>7. ASSUME NEW p \in EdgesOf(l, x) PROVE \E e \in I : p = f[e]
    <2>1. PICK e \in Experts :
            \E a \in {slices[<<l, x, e>>][1], slices[<<l, x, e>>][1] + slices[<<l, x, e>>][2]} :
                PAGE * p < a /\ a < PAGE * (p + 1)
        BY DEF EdgesOf
    <2>2. e \in Nat /\ e <= E - 1 /\ p \in Int
        BY <1>1 DEF Experts, EdgesOf
    <2>3. PICK d \in {e, e + 1} : PAGE * p < lo + d * len /\ lo + d * len < PAGE * (p + 1)
        <3>1. slices[<<l, x, e>>][1] = lo + e * len /\ slices[<<l, x, e>>][2] = len
            BY <1>2
        <3>2. (lo + e * len) + len = lo + (e + 1) * len
            <4> HIDE DEF lo, len
            <4>1. (e + 1) * len = e * len + len /\ e * len \in Nat
                BY <1>2, <2>2
            <4> QED BY <1>2, <4>1
        <3> QED BY <2>1, <3>1, <3>2
    <2>4. d \in Nat /\ d <= E
        BY <1>1, <2>2
    <2> DEFINE b == d * len
    <2>5. b \in Nat
        <3> HIDE DEF lo, len
        <3> QED BY <1>2, <2>4
    <2>6. Floor(lo + b) = p /\ (lo + b) % PAGE # 0
        <3> HIDE DEF b, lo, len
        <3>1. lo + b \in Nat
            BY <1>2, <2>5
        <3>2. PAGE * p < lo + b /\ lo + b < PAGE * (p + 1)
            BY <2>3 DEF b
        <3> QED BY <2>2, <3>1, <3>2, PageOf
    <2>7. (at + b) % PAGE # 0
        <3> HIDE DEF b, lo, len
        <3> QED BY <1>2, <2>5, <2>6, SameInPage
    <2>8. d \in I
        <3>1. CASE d \in 1 .. (E - 1)
            BY <2>7, <3>1 DEF Crossings
        <3>2. CASE d \notin 1 .. (E - 1)
            <4>1. d = 0 \/ d = E
                BY <1>1, <2>4, <3>2
            <4> QED BY <4>1
        <3> QED BY <3>1, <3>2
    <2>9. f[d] = Floor(lo + b)
        <3> HIDE DEF I
        <3> QED BY <2>8
    <2> HIDE DEF f, I, b
    <2> QED BY <2>6, <2>8, <2>9
<1> DEFINE T == {f[e] : e \in I}
<1>8. IsFiniteSet(T) /\ Cardinality(T) <= Cardinality(I) /\ Cardinality(T) \in Nat
    <2>1. f = [e \in I |-> f[e]]
        <3> HIDE DEF I
        <3> QED OBVIOUS
    <2> HIDE DEF f, I
    <2> QED BY <1>6, <2>1, ImageBound, FS_CardinalityType
<1>9. EdgesOf(l, x) \in SUBSET T
    <2> HIDE DEF f, I
    <2> QED BY <1>7
<1> HIDE DEF T, I
<1>10. IsFiniteSet(EdgesOf(l, x)) /\ Cardinality(EdgesOf(l, x)) <= Cardinality(T)
       /\ Cardinality(EdgesOf(l, x)) \in Nat
    BY <1>8, <1>9, FS_Subset, FS_CardinalityType
<1> QED BY <1>5, <1>6, <1>8, <1>10

\* BytesOf and the census add up what they are meant to add up.
LEMMA BytesAreSums ==
    ASSUME NEW set, IsFiniteSet(set)
    PROVE  \E h : /\ Sums(h, [s \in set |-> slices[s][2]], SUBSET set)
                  /\ BytesOf(set) = h[set]
<1> DEFINE g == [s \in set |-> slices[s][2]]
           P(h) == h = [t \in SUBSET set |->
                          IF t = {} THEN 0 ELSE slices[Pick(t)][2] + h[t \ {Pick(t)}]]
<1>1. ASSUME NEW t \in SUBSET set, t # {} PROVE g[Pick(t)] = slices[Pick(t)][2]
    <2>1. Pick(t) \in set
        BY <1>1 DEF Pick
    <2> QED BY <2>1
<1>2. ASSUME NEW h PROVE P(h) <=> Sums(h, g, SUBSET set)
    <2>1. ASSUME NEW t \in SUBSET set
          PROVE  (IF t = {} THEN 0 ELSE slices[Pick(t)][2] + h[t \ {Pick(t)}])
                    = (IF t = {} THEN 0 ELSE g[Pick(t)] + h[t \ {Pick(t)}])
        <3> HIDE DEF g
        <3> QED BY <1>1
    <2> HIDE DEF g
    <2>2. [t \in SUBSET set |-> IF t = {} THEN 0 ELSE slices[Pick(t)][2] + h[t \ {Pick(t)}]]
            = [t \in SUBSET set |-> IF t = {} THEN 0 ELSE g[Pick(t)] + h[t \ {Pick(t)}]]
        BY <2>1
    <2> QED BY <2>2, Zenon DEF Sums
<1>3. \E h : P(h)
    <2>1. \E h : Sums(h, g, SUBSET set)
        <3> HIDE DEF g
        <3> QED BY SumsExist
    <2> HIDE DEF P, g
    <2> QED BY <1>2, <2>1
<1>4. P(CHOOSE h : P(h))
    <2> HIDE DEF P
    <2> QED BY <1>3
<1>5. BytesOf(set) = (CHOOSE h : P(h))[set]
    BY DEF BytesOf, SumOf, MapThenSumSet, MapThenFoldSet, Pick
<1> HIDE DEF P, g
<1>6. Sums(CHOOSE h : P(h), g, SUBSET set)
    BY <1>2, <1>4
<1> QED BY <1>5, <1>6 DEF g

\* The census is the sum over the suffixes of the worst base's boundaries.
LEMMA CensusIsSum ==
    \E h : /\ Sums(h, [x \in ExpertSuffixes |-> MaxStraddles(x)], SUBSET ExpertSuffixes)
           /\ EdgeCensus = L * h[ExpertSuffixes]
<1> DEFINE set == ExpertSuffixes
           g == [x \in set |-> MaxStraddles(x)]
           P(h) == h = [t \in SUBSET set |->
                          IF t = {} THEN 0 ELSE MaxStraddles(Pick(t)) + h[t \ {Pick(t)}]]
<1>1. ASSUME NEW t \in SUBSET set, t # {} PROVE g[Pick(t)] = MaxStraddles(Pick(t))
    <2>1. Pick(t) \in set
        BY <1>1 DEF Pick
    <2> QED BY <2>1
<1>2. ASSUME NEW h PROVE P(h) <=> Sums(h, g, SUBSET set)
    <2>1. ASSUME NEW t \in SUBSET set
          PROVE  (IF t = {} THEN 0 ELSE MaxStraddles(Pick(t)) + h[t \ {Pick(t)}])
                    = (IF t = {} THEN 0 ELSE g[Pick(t)] + h[t \ {Pick(t)}])
        <3> HIDE DEF g
        <3> QED BY <1>1
    <2> HIDE DEF g
    <2>2. [t \in SUBSET set |-> IF t = {} THEN 0 ELSE MaxStraddles(Pick(t)) + h[t \ {Pick(t)}]]
            = [t \in SUBSET set |-> IF t = {} THEN 0 ELSE g[Pick(t)] + h[t \ {Pick(t)}]]
        BY <2>1
    <2> QED BY <2>2, Zenon DEF Sums
<1>3. \E h : P(h)
    <2>1. \E h : Sums(h, g, SUBSET set)
        <3> HIDE DEF g
        <3> QED BY SumsExist, ManifestAssumption
    <2> HIDE DEF P, g
    <2> QED BY <1>2, <2>1
<1>4. P(CHOOSE h : P(h))
    <2> HIDE DEF P
    <2> QED BY <1>3
<1>5. EdgeCensus = L * (CHOOSE h : P(h))[set]
    BY DEF EdgeCensus, SumOf, MapThenSumSet, MapThenFoldSet, Pick
<1> HIDE DEF P, g
<1>6. Sums(CHOOSE h : P(h), g, SUBSET set)
    BY <1>2, <1>4
<1> QED BY <1>5, <1>6 DEF g

\* The pages inside the slices of a set have no more bytes than the slices.
Inside(set) == UNION {Inward(slices[s][1], slices[s][2]) : s \in set}

\* The pages inside slices are no more than the slices' bytes pay for.
LEMMA InsideBytes ==
    ASSUME TensorsOK, NEW set \in SUBSET Slices, IsFiniteSet(set)
    PROVE  /\ IsFiniteSet(Inside(set)) /\ Cardinality(Inside(set)) \in Nat
           /\ BytesOf(set) \in Nat /\ PAGE * Cardinality(Inside(set)) <= BytesOf(set)
<1> DEFINE g == [s \in set |-> slices[s][2]]
           F == [s \in set |-> Inward(slices[s][1], slices[s][2])]
           U == Whole(F, set)
<1>1. PICK h : Sums(h, g, SUBSET set) /\ BytesOf(set) = h[set]
    BY BytesAreSums
<1>2. PAGE \in Nat /\ E \in Nat \ {0}
    BY PageAssumption, ManifestAssumption
<1>3. ASSUME NEW s \in set
      PROVE  g[s] \in Nat /\ IsFiniteSet(F[s]) /\ PAGE * Cardinality(F[s]) <= 1 * g[s] + 0
    <2>1. s = <<s[1], s[2], s[3]>> /\ s[1] \in Blocks /\ s[2] \in ExpertSuffixes /\ s[3] \in Experts
        BY DEF Slices
    <2> DEFINE lo == slices[<<s[1], s[2], 0>>][1]
               len == slices[<<s[1], s[2], 0>>][2]
               e == s[3]
    <2>2. slices[s] = <<lo + e * len, len>> /\ lo \in Nat /\ len \in Nat /\ e \in Nat
        BY <1>2, <2>1 DEF TensorsOK, RowsOK, Experts
    <2> HIDE DEF lo, len, e
    <2>3. lo + e * len \in Int
        BY <2>2
    <2>4. IsFiniteSet(F[s]) /\ PAGE * Cardinality(F[s]) <= len /\ g[s] = len
        BY <2>2, <2>3, InwardBytes
    <2> HIDE DEF g, F
    <2> QED BY <2>2, <2>4
<1> HIDE DEF g, F
<1>4. h[set] \in Nat /\ IsFiniteSet(U) /\ Cardinality(set) \in Nat
      /\ PAGE * Cardinality(U) <= 1 * h[set] + 0 * Cardinality(set)
    <2>1. PartsBounded(set, g, F, PAGE, 1, 0) /\ 1 \in Nat /\ 0 \in Nat
        BY <1>3 DEF PartsBounded
    <2> QED BY <1>1, <1>2, <2>1, UnionBound, Zenon
<1>5. U = Inside(set)
    BY DEF F, Inside, Whole
<1>6. Cardinality(U) \in Nat
    BY <1>4, FS_CardinalityType
<1>7. 1 * h[set] = h[set] /\ 0 * Cardinality(set) = 0
    BY <1>4
<1> HIDE DEF U
<1> QED BY <1>1, <1>4, <1>5, <1>6, <1>7

\* All edge pages.
Edges == UNION {UNION {EdgesOf(l, x) : l \in Blocks} : x \in ExpertSuffixes}

\* The edge pages are what the census counts and two for each expert tensor.
LEMMA EdgesBound ==
    ASSUME TensorsOK, CensusReads, PAGE % ALIGN = 0
    PROVE  /\ IsFiniteSet(Edges) /\ Cardinality(Edges) \in Nat /\ EdgeCensus \in Nat
           /\ Cardinality(Edges) <= EdgeCensus + 2 * Cardinality(ExpertNames)
<1>1. /\ IsFiniteSet(Blocks) /\ Cardinality(Blocks) = L /\ L \in Nat
      /\ IsFiniteSet(ExpertSuffixes) /\ Cardinality(ExpertSuffixes) \in Nat
      /\ Cardinality(ExpertNames) = L * Cardinality(ExpertSuffixes)
    BY FiniteSlices, ManifestAssumption
<1> DEFINE F == [x \in ExpertSuffixes |-> UNION {EdgesOf(l, x) : l \in Blocks}]
           g == [x \in ExpertSuffixes |-> MaxStraddles(x)]
<1>2. ASSUME NEW x \in ExpertSuffixes
      PROVE  g[x] \in Nat /\ IsFiniteSet(F[x]) /\ 1 * Cardinality(F[x]) <= L * g[x] + 2 * L
    <2> DEFINE G == [l \in Blocks |-> EdgesOf(l, x)]
               zero == [l \in Blocks |-> 0]
               d == MaxStraddles(x) + 2
               U == Whole(G, Blocks)
    <2>1. PICK h : Sums(h, zero, SUBSET Blocks)
        <3> HIDE DEF zero
        <3> QED BY <1>1, SumsExist
    <2>2. MaxStraddles(x) \in Nat /\ d \in Nat
        <3>1. 0 \in Blocks
            BY ManifestAssumption DEF Blocks
        <3> QED BY <3>1, FewEdges
    <2>3. ASSUME NEW l \in Blocks
          PROVE  zero[l] \in Nat /\ IsFiniteSet(G[l]) /\ 1 * Cardinality(G[l]) <= 0 * zero[l] + d
        <3>1. G[l] = EdgesOf(l, x) /\ zero[l] = 0
            OBVIOUS
        <3>2. IsFiniteSet(EdgesOf(l, x)) /\ Cardinality(EdgesOf(l, x)) \in Nat
              /\ Cardinality(EdgesOf(l, x)) <= d
            BY FewEdges
        <3> HIDE DEF G, zero, d
        <3> QED BY <2>2, <3>1, <3>2
    <2> HIDE DEF G, zero, d
    <2>4. h[Blocks] \in Nat /\ IsFiniteSet(U)
          /\ 1 * Cardinality(U) <= 0 * h[Blocks] + d * Cardinality(Blocks)
        <3>1. PartsBounded(Blocks, zero, G, 1, 0, d) /\ 1 \in Nat /\ 0 \in Nat
            BY <2>3 DEF PartsBounded
        <3> QED BY <1>1, <2>1, <2>2, <3>1, UnionBound, Zenon
    <2>5. F[x] = U /\ g[x] = MaxStraddles(x)
        BY DEF G, Whole
    <2>6. Cardinality(U) \in Nat
        BY <2>4, FS_CardinalityType
    <2> DEFINE m == MaxStraddles(x)
    <2>7. d * L = L * m + 2 * L
        <3>1. L * (m + 2) = L * m + L * 2 /\ L * 2 = 2 * L
            BY <1>1, <2>2, Distribute
        <3>2. d * L = L * (m + 2)
            <4>1. d = m + 2
                BY DEF d
            <4> HIDE DEF m
            <4> QED BY <1>1, <2>2, <4>1
        <3> QED BY <3>1, <3>2
    <2>8. 0 * h[Blocks] = 0 /\ d * L \in Nat
        BY <1>1, <2>2, <2>4
    <2> HIDE DEF U, F, g
    <2> QED BY <1>1, <2>2, <2>4, <2>5, <2>6, <2>7, <2>8
<1>3. PICK h : Sums(h, g, SUBSET ExpertSuffixes) /\ EdgeCensus = L * h[ExpertSuffixes]
    BY CensusIsSum
<1> DEFINE U == Whole(F, ExpertSuffixes)
<1> HIDE DEF F, g
<1>4. h[ExpertSuffixes] \in Nat /\ IsFiniteSet(U)
      /\ 1 * Cardinality(U) <= L * h[ExpertSuffixes] + (2 * L) * Cardinality(ExpertSuffixes)
    <2>1. 2 * L \in Nat /\ 1 \in Nat
        BY <1>1
    <2>2. PartsBounded(ExpertSuffixes, g, F, 1, L, 2 * L)
        BY <1>2 DEF PartsBounded
    <2> QED BY <1>1, <1>3, <2>1, <2>2, UnionBound, Zenon
<1>5. U = Edges
    BY DEF F, Edges, Whole
<1>6. Cardinality(U) \in Nat
    BY <1>4, FS_CardinalityType
<1>7. (2 * L) * Cardinality(ExpertSuffixes) = 2 * (L * Cardinality(ExpertSuffixes))
      /\ L * h[ExpertSuffixes] \in Nat /\ L * Cardinality(ExpertSuffixes) \in Nat
    BY <1>1, <1>4
<1> HIDE DEF U
<1> QED BY <1>1, <1>3, <1>4, <1>5, <1>6, <1>7

\* Besides the bar itself: the layout of the tensors, and that the largest lease
\* is no smaller than the one that is out.
PeakBase ==
    /\ Aligned(file) /\ peak_lease \in Nat
    /\ committed \in SUBSET Int /\ IsFiniteSet(committed)
    /\ turn >= 0 => TensorsOK /\ BytesOf(active) <= peak_lease

\* The bar by pages: the trunk's pages that no end of a slice is strictly inside
\* of take the place of the trunk's bytes.
PlainTrunk == TrunkPages \ Edges
PageBar == PAGE * Cardinality(PlainTrunk) + BytesOf(Residents) + peak_lease + PAGE * EdgeCensus
Bar == PageBar + 2 * PAGE * Cardinality(ExpertNames)

\* What is committed now: the trunk's pages, the pages inside what is resident
\* or leased, and edges.
LEMMA CommittedBound ==
    IInv /\ CountsOK /\ PeakBase /\ turn >= 0 /\ CensusReads =>
        PAGE * Cardinality(committed) <= Bar
<1> SUFFICES ASSUME IInv, CountsOK, PeakBase, turn >= 0, CensusReads
             PROVE  PAGE * Cardinality(committed) <= Bar
    OBVIOUS
<1> DEFINE inner == Inside(Residents)
           leased == Inside(active)
<1>1. /\ TensorsOK /\ PAGE % ALIGN = 0 /\ committed \in SUBSET Int /\ IsFiniteSet(committed)
      /\ BytesOf(active) <= peak_lease /\ peak_lease \in Nat /\ PAGE \in Nat
    BY PageAssumption DEF PeakBase, Aligned
<1>2. Residents \in SUBSET Slices /\ active \in SUBSET Slices
      /\ IsFiniteSet(Residents) /\ IsFiniteSet(active)
    BY ResidentSlices, FiniteResidents DEF IInv, CountsOK
<1>3. committed \subseteq ((PlainTrunk \cup inner) \cup leased) \cup Edges
    <2> SUFFICES ASSUME NEW p \in committed, p \notin PlainTrunk
                 PROVE  p \in inner \/ p \in leased \/ p \in Edges
        OBVIOUS
    <2>1. ASSUME EdgePage(p) PROVE p \in Edges
        <3>1. PICK s \in Slices : \E a \in {slices[s][1], slices[s][1] + slices[s][2]} :
                                     PAGE * p < a /\ a < PAGE * (p + 1)
            BY <2>1 DEF EdgePage
        <3>2. s = <<s[1], s[2], s[3]>> /\ s[1] \in Blocks /\ s[2] \in ExpertSuffixes /\ s[3] \in Experts
            BY DEF Slices
        <3>3. p \in EdgesOf(s[1], s[2])
            BY <1>1, <3>1, <3>2 DEF EdgesOf
        <3> QED BY <3>2, <3>3 DEF Edges
    <2>2. ASSUME NEW s \in Owned, p \in SlicePages(s), p \notin Edges PROVE p \in inner \/ p \in leased
        <3>1. s \in Slices /\ (s \in Residents \/ s \in active)
            BY <1>2 DEF Owned
        <3>2. IsRange(slices[s])
            BY <3>1 DEF IInv, LayoutOK
        <3>3. p \in Inward(slices[s][1], slices[s][2])
            <4> SUFFICES ASSUME p \notin Inward(slices[s][1], slices[s][2]) PROVE FALSE
                OBVIOUS
            <4>1. \E a \in {slices[s][1], slices[s][1] + slices[s][2]} :
                     PAGE * p < a /\ a < PAGE * (p + 1)
                BY <2>2, <3>2, EdgeOfRange DEF SlicePages, IsRange
            <4>2. EdgePage(p)
                BY <3>1, <4>1 DEF EdgePage
            <4> QED BY <2>1, <2>2, <4>2
        <3> QED BY <3>1, <3>3 DEF Inside
    <2>3. EdgePage(p) \/ p \in TrunkPages \/ \E s \in Owned : p \in SlicePages(s)
        BY DEF IInv, LeftoversAreEdges
    <2>4. p \in TrunkPages => p \in Edges
        BY DEF PlainTrunk
    <2> QED BY <2>1, <2>2, <2>3, <2>4
<1>4. /\ IsFiniteSet(inner) /\ Cardinality(inner) \in Nat
      /\ BytesOf(Residents) \in Nat /\ PAGE * Cardinality(inner) <= BytesOf(Residents)
    BY <1>1, <1>2, InsideBytes
<1>5. /\ IsFiniteSet(leased) /\ Cardinality(leased) \in Nat
      /\ BytesOf(active) \in Nat /\ PAGE * Cardinality(leased) <= BytesOf(active)
    BY <1>1, <1>2, InsideBytes
<1>6. /\ IsFiniteSet(Edges) /\ Cardinality(Edges) \in Nat /\ EdgeCensus \in Nat
      /\ Cardinality(Edges) <= EdgeCensus + 2 * Cardinality(ExpertNames)
    BY <1>1, EdgesBound
<1>7. IsFiniteSet(PlainTrunk) /\ Cardinality(PlainTrunk) \in Nat
    <2>1. PlainTrunk \in SUBSET committed
        BY DEF IInv, NeighbourKept, PlainTrunk
    <2> QED BY <1>1, <2>1, FS_Subset, FS_CardinalityType
<1>8. Cardinality(ExpertNames) \in Nat
    <2>1. Cardinality(ExpertNames) = L * Cardinality(ExpertSuffixes) /\ L \in Nat
          /\ Cardinality(ExpertSuffixes) \in Nat
        BY FiniteSlices, ManifestAssumption
    <2> QED BY <2>1
<1> DEFINE a == Cardinality(PlainTrunk)
           b == Cardinality(inner)
           c == Cardinality(leased)
           d == Cardinality(Edges)
           x == EdgeCensus
           n == Cardinality(ExpertNames)
<1> HIDE DEF inner, leased
<1>9. Cardinality(committed) \in Nat /\ Cardinality(committed) <= ((a + b) + c) + d
    <2> DEFINE A == PlainTrunk \cup inner
               B == A \cup leased
               C == B \cup Edges
    <2>1. IsFiniteSet(A) /\ Cardinality(A) \in Nat /\ Cardinality(A) <= a + b
        BY <1>4, <1>7, AtMostBoth
    <2> HIDE DEF A
    <2>2. IsFiniteSet(B) /\ Cardinality(B) \in Nat /\ Cardinality(B) <= Cardinality(A) + c
        BY <1>5, <2>1, AtMostBoth
    <2> HIDE DEF B
    <2>3. IsFiniteSet(C) /\ Cardinality(C) \in Nat /\ Cardinality(C) <= Cardinality(B) + d
        BY <1>6, <2>2, AtMostBoth
    <2>4. Cardinality(committed) \in Nat /\ Cardinality(committed) <= Cardinality(C)
        <3>1. committed \in SUBSET C
            BY <1>3 DEF A, B
        <3> HIDE DEF C
        <3> QED BY <2>3, <3>1, FS_Subset, FS_CardinalityType
    <2> HIDE DEF C, a, b, c, d
    <2>5. a \in Nat /\ b \in Nat /\ c \in Nat /\ d \in Nat
        BY <1>4, <1>5, <1>6, <1>7 DEF a, b, c, d
    <2> QED BY <2>1, <2>2, <2>3, <2>4, <2>5
<1>10. a \in Nat /\ b \in Nat /\ c \in Nat /\ d \in Nat /\ x \in Nat /\ n \in Nat /\ d <= x + 2 * n
    BY <1>4, <1>5, <1>6, <1>7, <1>8
<1>11. /\ PageBar = PAGE * a + BytesOf(Residents) + peak_lease + PAGE * x
       /\ Bar = PageBar + 2 * PAGE * n
    BY DEF Bar, PageBar
<1>12. PAGE * b <= BytesOf(Residents) /\ PAGE * c <= peak_lease /\ BytesOf(Residents) \in Nat
    <2>1. PAGE * c <= BytesOf(active) /\ BytesOf(active) \in Nat
        BY <1>5
    <2>2. PAGE * c \in Int
        <3> HIDE DEF c
        <3> QED BY <1>1, <1>10
    <2> QED BY <1>1, <1>4, <2>1, <2>2
<1> HIDE DEF a, b, c, d, x, n
<1>13. /\ PAGE * Cardinality(committed) <= PAGE * (((a + b) + c) + d)
       /\ PAGE * (((a + b) + c) + d) = ((PAGE * a + PAGE * b) + PAGE * c) + PAGE * d
       /\ PAGE * d <= PAGE * (x + 2 * n)
       /\ PAGE * (x + 2 * n) = PAGE * x + 2 * PAGE * n
    <2>1. PAGE * Cardinality(committed) <= PAGE * (((a + b) + c) + d)
        BY <1>1, <1>9, <1>10, Monotone
    <2>2. PAGE * (((a + b) + c) + d) = ((PAGE * a + PAGE * b) + PAGE * c) + PAGE * d
        BY <1>1, <1>10
    <2>3. PAGE * d <= PAGE * (x + 2 * n)
        BY <1>1, <1>10, Monotone
    <2>4. PAGE * (x + 2 * n) = PAGE * x + 2 * PAGE * n
        BY <1>1, <1>10
    <2> QED BY <2>1, <2>2, <2>3, <2>4
<1>14. /\ PAGE * a \in Nat /\ PAGE * b \in Nat /\ PAGE * c \in Nat /\ PAGE * d \in Nat
       /\ PAGE * x \in Nat /\ 2 * PAGE * n \in Nat /\ PAGE * Cardinality(committed) \in Nat
    BY <1>1, <1>9, <1>10
<1> DEFINE pa == PAGE * a
           pb == PAGE * b
           pc == PAGE * c
           pd == PAGE * d
           px == PAGE * x
           pn == 2 * PAGE * n
           now == PAGE * Cardinality(committed)
<1>15. /\ pa \in Nat /\ pb \in Nat /\ pc \in Nat /\ pd \in Nat /\ px \in Nat /\ pn \in Nat /\ now \in Nat
       /\ now <= ((pa + pb) + pc) + pd /\ pd <= px + pn
       /\ pb <= BytesOf(Residents) /\ pc <= peak_lease
       /\ PageBar = pa + BytesOf(Residents) + peak_lease + px /\ Bar = PageBar + pn
    BY <1>11, <1>12, <1>13, <1>14
<1> HIDE DEF pa, pb, pc, pd, px, pn, now
<1>16. now <= Bar
    BY <1>1, <1>12, <1>15
<1> QED BY <1>16 DEF now

\* An outward commit takes finitely many pages.
LEMMA OutwardFinite ==
    ASSUME NEW lo \in Int, NEW len \in Int
    PROVE  Outward(lo, len) \in SUBSET Int /\ IsFiniteSet(Outward(lo, len))
<1>1. PAGE \in Nat \ {0} /\ (lo + len) + PAGE - 1 \in Int
    BY PageAssumption
<1>2. Floor(lo) \in Int /\ Ceil(lo + len) - 1 \in Int
    BY <1>1, Quotient DEF Floor, Ceil
<1>3. IsFiniteSet(Floor(lo) .. (Ceil(lo + len) - 1))
    BY <1>2, FS_Interval
<1> QED BY <1>2, <1>3 DEF Outward

\* Finitely many finite parts have a finite union.
LEMMA WholeFinite ==
    ASSUME NEW S, IsFiniteSet(S), NEW F, \A x \in S : IsFiniteSet(F[x]) /\ F[x] \in SUBSET Int
    PROVE  IsFiniteSet(Whole(F, S)) /\ Whole(F, S) \in SUBSET Int
<1> DEFINE zero == [x \in S |-> 0]
<1>1. PICK h : Sums(h, zero, SUBSET S)
    <2> HIDE DEF zero
    <2> QED BY SumsExist
<1>2. PartsBounded(S, zero, F, 0, 0, 0) /\ 0 \in Nat
    <2>1. ASSUME NEW x \in S
          PROVE  zero[x] \in Nat /\ IsFiniteSet(F[x]) /\ 0 * Cardinality(F[x]) <= 0 * zero[x] + 0
        <3>1. Cardinality(F[x]) \in Nat /\ zero[x] = 0
            BY FS_CardinalityType
        <3> HIDE DEF zero
        <3> QED BY <3>1
    <2> HIDE DEF zero
    <2> QED BY <2>1 DEF PartsBounded
<1> HIDE DEF zero
<1>3. IsFiniteSet(Whole(F, S))
    BY <1>1, <1>2, UnionBound, Zenon
<1> QED BY <1>3 DEF Whole

\* A slice touches finitely many pages.
LEMMA SliceFinite ==
    TensorsOK => \A s \in Slices : SlicePages(s) \in SUBSET Int /\ IsFiniteSet(SlicePages(s))
<1> SUFFICES ASSUME TensorsOK, NEW s \in Slices
             PROVE  SlicePages(s) \in SUBSET Int /\ IsFiniteSet(SlicePages(s))
    OBVIOUS
<1>1. s = <<s[1], s[2], s[3]>> /\ s[1] \in Blocks /\ s[2] \in ExpertSuffixes /\ s[3] \in Experts
    BY DEF Slices
<1> DEFINE lo == slices[<<s[1], s[2], 0>>][1]
           len == slices[<<s[1], s[2], 0>>][2]
           e == s[3]
<1>2. slices[s] = <<lo + e * len, len>> /\ lo \in Nat /\ len \in Nat /\ e \in Nat
    BY <1>1, ManifestAssumption DEF TensorsOK, RowsOK, Experts
<1> HIDE DEF lo, len, e
<1>3. lo + e * len \in Int
    BY <1>2
<1> QED BY <1>2, <1>3, OutwardFinite DEF SlicePages

\* No slices have no bytes.
LEMMA NoBytes == BytesOf({}) = 0
<1>1. PICK h : Sums(h, [s \in {} |-> slices[s][2]], SUBSET {}) /\ BytesOf({}) = h[{}]
    BY BytesAreSums, FS_EmptySet
<1>2. {} \in SUBSET {}
    OBVIOUS
<1> QED BY <1>1, <1>2 DEF Sums

\* The sums by the layout of the slices that they are taken over.
BytesWith(layout, set) == SumOf(LAMBDA s : layout[s][2], set)
CensusWith(layout) ==
    L * SumOf(LAMBDA x : Max({Straddles(at, layout[<<0, x, 0>>][2]) : at \in Bases}), ExpertSuffixes)

\* Both are read off the slices alone.
LEMMA ByLayout ==
    (\A set : BytesOf(set) = BytesWith(slices, set)) /\ EdgeCensus = CensusWith(slices)
BY DEF BytesOf, BytesWith, EdgeCensus, CensusWith, MaxStraddles, SumOf

\* The same, of the sets that a step changes or keeps.
LEMMA ActiveByLayout == BytesOf(active) = BytesWith(slices, active)
BY ByLayout

\* The bytes of what is loaded for good.
LEMMA ResidentsByLayout == BytesOf(Residents) = BytesWith(slices, Residents)
BY ByLayout

\* No slice has no bytes in any layout.
LEMMA NoneByLayout == BytesWith(slices, {}) = 0
BY ByLayout, NoBytes

\* The census.
LEMMA CensusByLayout == EdgeCensus = CensusWith(slices)
BY ByLayout


\* What the steps keep of the peak.
PeakInPages == turn >= 0 /\ CensusReads => peak <= Bar
PeakOK ==
    /\ peak \in Nat
    /\ turn = -1 => peak = 0 /\ active = {}
    /\ PeakInPages

\* The load lays the slices of a tensor out one after the other from its address.
LEMMA RowsLaidOut ==
    ASSUME FileOK(file), ExpertsAccepted(file), NEW base \in Nat,
           slices' = [s \in Slices |-> SliceAt(file, base, s)]
    PROVE  /\ RowsOK'
           /\ \A l \in Blocks : \A x \in ExpertSuffixes :
                LET i == Slot(file, <<l, x>>)
                IN  /\ i \in Slots(file) /\ Name(file, i) = <<l, x>>
                    /\ slices'[<<l, x, 0>>] = <<base + file.tensors[i].offset, Share(file, <<l, x>>)>>
                    /\ Share(file, <<l, x>>) \in Nat /\ E * Share(file, <<l, x>>) = Span(file, i)
<1>1. ASSUME NEW l \in Blocks, NEW x \in ExpertSuffixes
      PROVE  LET i == Slot(file, <<l, x>>)
                 o == file.tensors[i].offset
                 share == Share(file, <<l, x>>)
             IN  /\ i \in Slots(file) /\ Name(file, i) = <<l, x>>
                 /\ share \in Nat /\ E * share = Span(file, i) /\ base + o \in Nat
                 /\ slices'[<<l, x, 0>>] = <<base + o, share>>
                 /\ \A e \in Experts : slices'[<<l, x, e>>] = <<(base + o) + e * share, share>>
    <2> DEFINE i == Slot(file, <<l, x>>)
               o == file.tensors[i].offset
               share == Share(file, <<l, x>>)
    <2>1. i \in Slots(file) /\ Name(file, i) = <<l, x>> /\ share \in Nat /\ E * share = Span(file, i)
        <3>1. <<l, x>> \in ExpertNames
            BY DEF ExpertNames
        <3> QED BY <3>1, AcceptedTensor
    <2>2. o \in Nat
        BY <2>1 DEF FileOK
    <2>3. \A e \in Experts : slices'[<<l, x, e>>] = <<(base + o) + e * share, share>>
        <3> SUFFICES ASSUME NEW e \in Experts
                     PROVE  slices'[<<l, x, e>>] = <<(base + o) + e * share, share>>
            OBVIOUS
        <3>1. <<l, x, e>> \in Slices
            BY DEF Slices
        <3>2. slices'[<<l, x, e>>] = SliceAt(file, base, <<l, x, e>>)
            BY <3>1
        <3> QED BY <3>2 DEF SliceAt
    <2> HIDE DEF i, o, share
    <2>4. 0 \in Experts /\ 0 * share = 0 /\ (base + o) + 0 = base + o /\ base + o \in Nat
        BY <2>1, <2>2, ManifestAssumption DEF Experts
    <2>5. slices'[<<l, x, 0>>] = <<base + o, share>>
        BY <2>3, <2>4
    <2> QED BY <2>1, <2>3, <2>4, <2>5 DEF i, o, share
<1>2. RowsOK'
    <2> SUFFICES ASSUME NEW l \in Blocks, NEW x \in ExpertSuffixes
                 PROVE  LET first == slices'[<<l, x, 0>>]
                        IN  /\ first[1] \in Nat /\ first[2] \in Nat
                            /\ \A e \in Experts :
                                  slices'[<<l, x, e>>] = <<first[1] + e * first[2], first[2]>>
        BY DEF RowsOK
    <2> DEFINE at == base + file.tensors[Slot(file, <<l, x>>)].offset
               share == Share(file, <<l, x>>)
    <2>1. /\ at \in Nat /\ share \in Nat /\ slices'[<<l, x, 0>>] = <<at, share>>
          /\ \A e \in Experts : slices'[<<l, x, e>>] = <<at + e * share, share>>
        BY <1>1
    <2> HIDE DEF at, share
    <2>2. slices'[<<l, x, 0>>][1] = at /\ slices'[<<l, x, 0>>][2] = share
        BY <2>1
    <2> QED BY <2>1, <2>2
<1> QED BY <1>1, <1>2

\* The load lays out aligned tensors and commits what the bar allows.
LEMMA LoadPeak ==
    ASSUME IInv, CountsOK, PeakBase, Load
    PROVE  PeakBase'
<1>1. /\ turn = -1 /\ turn' = 0 /\ active = {} /\ active' = {} /\ file' = file
      /\ FileOK(file) /\ ExpertsAccepted(file) /\ peak_lease' = peak_lease
    BY DEF IInv, Load
<1>2. PICK base \in Bases :
        /\ trunk' = {TensorAt(file, base, i) : i \in Trunk(file)}
        /\ slices' = [s \in Slices |-> SliceAt(file, base, s)]
    BY DEF Load, SliceAt, TensorAt
<1>3. base \in Nat /\ base % ALIGN = 0 /\ ALIGN \in Nat \ {0} /\ E \in Nat \ {0}
    BY PageAssumption, ManifestAssumption DEF Bases
<1>4. /\ resident' \in [Blocks -> SUBSET Experts]
      /\ committed' = TrunkPages' \cup UNION {SlicePages(s)' : s \in Residents'}
    <2>1. resident' \in [Blocks -> {S \in SUBSET Experts : Cardinality(S) = K}]
        BY DEF Load
    <2>2. committed' = TrunkPages' \cup UNION {SlicePages(s)' : s \in Residents'}
        BY DEF Load, CommitPages
    <2> QED BY <2>1, <2>2
<1>5. TensorsOK'
    <2>1. RowsOK'
        BY <1>1, <1>2, <1>3, RowsLaidOut
    <2>2. ASSUME NEW l \in Blocks, NEW x \in ExpertSuffixes
          PROVE  slices'[<<l, x, 0>>][1] % ALIGN = 0
        <3> DEFINE o == file.tensors[Slot(file, <<l, x>>)].offset
        <3>1. slices'[<<l, x, 0>>][1] = base + o /\ Slot(file, <<l, x>>) \in Slots(file)
            BY <1>1, <1>2, <1>3, RowsLaidOut
        <3>2. o \in Nat /\ o % ALIGN = 0
            BY <1>1, <3>1 DEF FileOK, PeakBase, Aligned
        <3> DEFINE m == base \div ALIGN
                   n == o \div ALIGN
        <3>3. base = ALIGN * m /\ o = ALIGN * n /\ m \in Int /\ n \in Int
            <4> HIDE DEF o
            <4> QED BY <1>3, <3>2
        <3> HIDE DEF m, n, o
        <3>4. base + o = ALIGN * (m + n) + 0 /\ m + n \in Int
            BY <1>3, <3>3
        <3>5. ASSUME NEW k \in Int PROVE (ALIGN * k + 0) % ALIGN = 0
            BY <1>3
        <3> QED BY <3>1, <3>4, <3>5
    <2> QED BY <2>1, <2>2 DEF TensorsOK
<1>6. IsFiniteSet(TrunkPages') /\ TrunkPages' \in SUBSET Int
    <2> DEFINE T == Trunk(file)
               F == [i \in T |-> Outward(base + file.tensors[i].offset, Span(file, i))]
               zero == [i \in T |-> 0]
    <2>1. IsFiniteSet(T)
        <3>1. PICK n \in Nat : Slots(file) = 1 .. n
            BY <1>1 DEF FileOK
        <3>2. IsFiniteSet(1 .. n) /\ Trunk(file) \in SUBSET (1 .. n)
            BY <3>1, FS_Interval DEF Trunk
        <3> QED BY <3>2, FS_Subset
    <2>2. ASSUME NEW i \in T PROVE IsFiniteSet(F[i]) /\ F[i] \in SUBSET Int
        <3>1. base + file.tensors[i].offset \in Int /\ Span(file, i) \in Int
            <4>1. i \in Slots(file)
                BY DEF Trunk
            <4>2. file.tensors[i].offset \in Nat
                BY <1>1, <4>1 DEF FileOK
            <4>3. Span(file, i) \in Int
                BY <1>1, <4>1, SpanEnds
            <4> QED BY <1>3, <4>2, <4>3
        <3>2. F[i] = Outward(base + file.tensors[i].offset, Span(file, i))
            OBVIOUS
        <3> HIDE DEF F, T
        <3> QED BY <3>1, <3>2, OutwardFinite
    <2>3. TrunkPages' = Whole(F, T)
        <3>1. TrunkPages' = UNION {Outward(t[1], t[2]) : t \in trunk'}
            BY DEF TrunkPages
        <3>2. \A i \in T : TensorAt(file, base, i)[1] = base + file.tensors[i].offset
                           /\ TensorAt(file, base, i)[2] = Span(file, i)
            BY DEF TensorAt
        <3> HIDE DEF T
        <3> QED BY <1>2, <3>1, <3>2 DEF Whole, T
    <2> HIDE DEF T, F
    <2> QED BY <2>1, <2>2, <2>3, WholeFinite
<1>7. /\ \A s \in Residents' : SlicePages(s)' \in SUBSET Int /\ IsFiniteSet(SlicePages(s)')
      /\ IsFiniteSet(Residents')
    <2>1. (resident \in [Blocks -> SUBSET Experts] =>
              IsFiniteSet(Residents) /\ Residents \in SUBSET Slices)'
        BY FiniteResidents, ResidentSlices, PTL
    <2>2. (TensorsOK => \A s \in Slices : SlicePages(s) \in SUBSET Int /\ IsFiniteSet(SlicePages(s)))'
        BY SliceFinite, PTL
    <2> QED BY <1>4, <1>5, <2>1, <2>2
<1>8. committed' \in SUBSET Int /\ IsFiniteSet(committed')
    <2> DEFINE F == [s \in Residents' |-> SlicePages(s)']
    <2>1. \A s \in Residents' : IsFiniteSet(F[s]) /\ F[s] \in SUBSET Int
        BY <1>7
    <2>2. UNION {SlicePages(s)' : s \in Residents'} = Whole(F, Residents')
        BY DEF Whole
    <2> HIDE DEF F
    <2>3. IsFiniteSet(Whole(F, Residents')) /\ Whole(F, Residents') \in SUBSET Int
        BY <1>7, <2>1, WholeFinite
    <2> QED BY <1>4, <1>6, <2>2, <2>3, FS_Union
<1>9. BytesOf(active)' <= peak_lease'
    <2>1. (BytesOf(active) = BytesWith(slices, active))'
        BY ActiveByLayout, PTL
    <2>2. (BytesWith(slices, {}) = 0)'
        BY NoneByLayout, PTL
    <2>3. BytesOf(active)' = 0
        BY <1>1, <2>1, <2>2
    <2> QED BY <1>1, <2>3 DEF PeakBase
<1> QED
    BY <1>1, <1>5, <1>8, <1>9 DEF PeakBase, Aligned

\* A route call commits finitely many pages more, and its lease is no larger than
\* the largest.
LEMMA RouteCallPeak ==
    ASSUME IInv, CountsOK, PeakBase, NEW routed \in SUBSET Experts, RouteCall(routed)
    PROVE  PeakBase'
<1> DEFINE leases == Leases(routed)
<1>1. /\ turn \in 0 .. (L - 1) /\ active' = leases
      /\ committed' = (committed \ UNION {Dropped(s) : s \in active})
                          \cup UNION {SlicePages(s) : s \in leases}
      /\ file' = file /\ slices' = slices
      /\ peak_lease' = Max({peak_lease, BytesOf(leases)})
    BY DEF IInv, RouteCall, CommitPages
<1>2. TensorsOK /\ committed \in SUBSET Int /\ IsFiniteSet(committed) /\ peak_lease \in Nat
    BY <1>1 DEF PeakBase
<1>3. leases \in SUBSET Slices /\ IsFiniteSet(leases)
    <2>1. turn \in Blocks /\ routed \ resident[turn] \in SUBSET Experts
        BY <1>1 DEF Blocks
    <2> QED BY <2>1, LeaseCount DEF Leases, SlicesOf
<1>4. committed' \in SUBSET Int /\ IsFiniteSet(committed')
    <2> DEFINE F == [s \in leases |-> SlicePages(s)]
               kept == committed \ UNION {Dropped(s) : s \in active}
    <2>1. \A s \in leases : IsFiniteSet(F[s]) /\ F[s] \in SUBSET Int
        BY <1>2, <1>3, SliceFinite
    <2>2. committed' = kept \cup Whole(F, leases)
        BY <1>1 DEF Whole
    <2>3. kept \in SUBSET Int /\ IsFiniteSet(kept)
        BY <1>2, FS_Subset
    <2> HIDE DEF F, kept, leases
    <2>4. IsFiniteSet(Whole(F, leases)) /\ Whole(F, leases) \in SUBSET Int
        BY <1>3, <2>1, WholeFinite
    <2> QED BY <2>2, <2>3, <2>4, FS_Union
<1>5. BytesOf(leases) \in Nat
    <2> HIDE DEF leases
    <2> QED BY <1>2, <1>3, InsideBytes
<1>6. peak_lease' \in Nat /\ BytesOf(leases) <= peak_lease'
    <2> HIDE DEF leases
    <2> QED BY <1>1, <1>2, <1>5, MaxOfTwo
<1>7. BytesOf(active)' = BytesOf(leases)
    <2>1. BytesOf(active) = BytesWith(slices, active) /\ BytesOf(leases) = BytesWith(slices, leases)
        BY ByLayout
    <2>2. (BytesOf(active) = BytesWith(slices, active))'
        BY ActiveByLayout, PTL
    <2> HIDE DEF leases
    <2> QED BY <1>1, <2>1, <2>2
<1>8. TensorsOK'
    BY <1>1, <1>2 DEF TensorsOK, RowsOK
<1> HIDE DEF leases
<1> QED
    BY <1>1, <1>4, <1>6, <1>7, <1>8 DEF PeakBase, Aligned

\* The bar grows with the largest lease only.
LEMMA BarGrows ==
    ASSUME IInv, CountsOK, PeakBase, turn >= 0, CensusReads,
           NEW routed \in SUBSET Experts, RouteCall(routed)
    PROVE  Bar <= Bar' /\ Bar \in Int /\ Bar' \in Int
<1>1. slices' = slices /\ trunk' = trunk /\ resident' = resident
      /\ peak_lease' = Max({peak_lease, BytesOf(Leases(routed))})
    BY DEF RouteCall
<1>2. /\ PlainTrunk' = PlainTrunk /\ BytesOf(Residents)' = BytesOf(Residents)
      /\ EdgeCensus' = EdgeCensus
    <2>1. PlainTrunk' = PlainTrunk
        BY <1>1 DEF PlainTrunk, TrunkPages, Edges, EdgesOf
    <2>2. BytesOf(Residents)' = BytesOf(Residents)
        <3>1. Residents' = Residents
            BY <1>1 DEF Residents, SlicesOf
        <3>2. BytesOf(Residents) = BytesWith(slices, Residents)
            BY ByLayout
        <3>3. (BytesOf(Residents) = BytesWith(slices, Residents))'
            BY ResidentsByLayout, PTL
        <3> QED BY <1>1, <3>1, <3>2, <3>3
    <2>3. EdgeCensus' = EdgeCensus
        <3>1. EdgeCensus = CensusWith(slices)
            BY ByLayout
        <3>2. (EdgeCensus = CensusWith(slices))'
            BY CensusByLayout, PTL
        <3> QED BY <1>1, <3>1, <3>2
    <2> QED BY <2>1, <2>2, <2>3
<1> DEFINE pages == PAGE * Cardinality(PlainTrunk)
           edges == PAGE * EdgeCensus
           pool == BytesOf(Residents)
           names == 2 * PAGE * Cardinality(ExpertNames)
<1>4. /\ PageBar = pages + pool + peak_lease + edges /\ Bar = PageBar + names
      /\ PageBar' = pages + pool + peak_lease' + edges /\ Bar' = PageBar' + names
    BY <1>2 DEF PageBar, Bar
<1>5. /\ pages \in Nat /\ edges \in Nat /\ pool \in Nat /\ names \in Nat
      /\ peak_lease \in Nat /\ BytesOf(Leases(routed)) \in Nat
    <2>2. /\ TensorsOK /\ PAGE % ALIGN = 0 /\ peak_lease \in Nat /\ PAGE \in Nat
          /\ IsFiniteSet(committed)
        BY PageAssumption DEF PeakBase, Aligned
    <2>3. EdgeCensus \in Nat
        BY <2>2, EdgesBound
    <2>4. IsFiniteSet(Residents) /\ Residents \in SUBSET Slices
        BY FiniteResidents, ResidentSlices DEF IInv
    <2>5. pool \in Nat
        BY <2>2, <2>4, InsideBytes
    <2>6. Cardinality(PlainTrunk) \in Nat
        <3>1. PlainTrunk \in SUBSET committed
            BY DEF IInv, NeighbourKept, PlainTrunk
        <3> QED BY <2>2, <3>1, FS_Subset, FS_CardinalityType
    <2>7. Cardinality(ExpertNames) \in Nat
        <3>1. Cardinality(ExpertNames) = L * Cardinality(ExpertSuffixes) /\ L \in Nat
              /\ Cardinality(ExpertSuffixes) \in Nat
            BY FiniteSlices, ManifestAssumption
        <3> QED BY <3>1
    <2>8. BytesOf(Leases(routed)) \in Nat
        <3>1. turn \in Blocks /\ routed \ resident[turn] \in SUBSET Experts
            BY DEF IInv, Blocks
        <3>2. Leases(routed) \in SUBSET Slices /\ IsFiniteSet(Leases(routed))
            BY <3>1, LeaseCount DEF Leases, SlicesOf
        <3> QED BY <2>2, <3>2, InsideBytes
    <2>9. pages \in Nat /\ edges \in Nat /\ names \in Nat
        BY <2>2, <2>3, <2>6, <2>7
    <2> QED BY <2>2, <2>5, <2>8, <2>9
<1>6. peak_lease' \in Nat /\ peak_lease <= peak_lease'
    BY <1>1, <1>5, MaxOfTwo
<1> HIDE DEF pages, edges, pool, names
<1>7. ASSUME NEW a \in Nat, NEW b \in Nat, a <= b
      PROVE  /\ pages + pool + a + edges + names \in Int
             /\ pages + pool + a + edges + names <= pages + pool + b + edges + names
    BY <1>5, <1>7
<1>8. Bar = pages + pool + peak_lease + edges + names
      /\ Bar' = pages + pool + peak_lease' + edges + names
    BY <1>4
<1>9. peak_lease \in Nat /\ peak_lease' \in Nat /\ peak_lease <= peak_lease' /\ peak_lease' <= peak_lease'
    BY <1>5, <1>6
<1> QED BY <1>7, <1>8, <1>9

\* Before the load nothing is committed.
LEMMA PeakInit == Aligned(file) /\ AllocInit => PeakBase /\ PeakOK
<1> SUFFICES ASSUME Aligned(file), AllocInit PROVE PeakBase /\ PeakOK
    OBVIOUS
<1>1. /\ committed = {} /\ active = {} /\ turn = -1 /\ peak_lease = 0 /\ peak = 0
    BY DEF AllocInit
<1> QED BY <1>1, FS_EmptySet DEF PeakBase, PeakOK, PeakInPages

\* A step that commits no more than the bar keeps the peak within it.
LEMMA CommitKeepsPeak ==
    ASSUME NEW old \in Nat, NEW bar \in Int, old <= bar,
           NEW n \in Nat, n <= bar
    PROVE  Max({old, n}) \in Nat /\ Max({old, n}) <= bar
BY MaxOfTwo

\* The page count of what is committed.
LEMMA CommittedBytes ==
    PeakBase => PAGE * Cardinality(committed) \in Nat
<1> SUFFICES ASSUME PeakBase PROVE PAGE * Cardinality(committed) \in Nat
    OBVIOUS
<1>1. PAGE \in Nat /\ Cardinality(committed) \in Nat
    BY PageAssumption, FS_CardinalityType DEF PeakBase
<1> QED BY <1>1

\* Each action's step, with the bound on what it leaves committed.
LEMMA StepBound ==
    ASSUME IInv', CountsOK', PeakBase', turn' >= 0, CensusReads'
    PROVE  PAGE * Cardinality(committed') <= Bar' /\ PAGE * Cardinality(committed') \in Nat
<1>1. (IInv /\ CountsOK /\ PeakBase /\ turn >= 0 /\ CensusReads =>
          PAGE * Cardinality(committed) <= Bar)'
    BY CommittedBound, PTL
<1>2. (PeakBase => PAGE * Cardinality(committed) \in Nat)'
    BY CommittedBytes, PTL
<1> QED BY <1>1, <1>2

\* The peak of what was ever committed is within the bar by pages.
LEMMA PeakStaysInPages == Aligned(file) /\ AllocSpec => [](PeakBase /\ PeakOK)
<1>1. IInv /\ IInv' /\ CountsOK /\ CountsOK' /\ PeakBase /\ PeakOK
        /\ [AllocNext]_<<file, allocVars>> => PeakBase' /\ PeakOK'
    <2> SUFFICES ASSUME IInv, IInv', CountsOK, CountsOK', PeakBase, PeakOK,
                        [AllocNext]_<<file, allocVars>>
                 PROVE  PeakBase' /\ PeakOK'
        OBVIOUS
    <2>1. CASE Load
        <3>1. PeakBase'
            BY <2>1, LoadPeak
        <3>2. /\ turn = -1 /\ turn' = 0
              /\ peak' = Max({peak, PAGE * Cardinality(committed')})
            BY <2>1 DEF Load, CommitPages
        <3>3. peak = 0
            BY <3>2 DEF PeakOK
        <3>4. peak' \in Nat
            <4>1. PAGE * Cardinality(committed') \in Nat
                <5>1. (PeakBase => PAGE * Cardinality(committed) \in Nat)'
                    BY CommittedBytes, PTL
                <5> QED BY <3>1, <5>1
            <4> DEFINE now == PAGE * Cardinality(committed')
            <4> HIDE DEF now
            <4> QED BY <3>2, <3>3, <4>1, MaxOfTwo DEF now
        <3>5. ASSUME CensusReads' PROVE peak' <= Bar'
            <4> DEFINE now == PAGE * Cardinality(committed')
            <4>1. now <= Bar' /\ now \in Nat
                BY <3>1, <3>2, <3>5, StepBound
            <4>2. peak' = Max({0, now})
                BY <3>2, <3>3
            <4> HIDE DEF now
            <4>3. Max({0, now}) \in {0, now}
                BY <4>1, MaxOfTwo
            <4>4. 0 <= now
                BY <4>1
            <4>5. CASE Max({0, now}) = now
                BY <4>1, <4>2, <4>5
            <4>6. CASE Max({0, now}) = 0
                <5>1. now <= Max({0, now})
                    BY <4>1, MaxOfTwo
                <5>2. now = 0
                    BY <4>1, <4>6, <5>1
                <5> QED BY <4>1, <4>2, <4>6, <5>2
            <4> QED BY <4>3, <4>5, <4>6
        <3>6. PeakInPages'
            BY <3>5 DEF PeakInPages
        <3> QED BY <3>1, <3>2, <3>4, <3>6 DEF PeakOK
    <2>2. CASE \E routed \in SUBSET Experts : RouteCall(routed)
        <3>1. PICK routed \in SUBSET Experts : RouteCall(routed)
            BY <2>2
        <3>2. PeakBase'
            BY <3>1, RouteCallPeak
        <3> DEFINE now == PAGE * Cardinality(committed')
        <3>3. /\ turn >= 0 /\ turn \in 0 .. (L - 1) /\ turn' = (turn + 1) % L
              /\ slices' = slices /\ peak' = Max({peak, now})
            BY <3>1 DEF RouteCall, CommitPages, IInv
        <3>4. turn' >= 0 /\ turn' # -1
            <4>1. L \in Nat \ {0} /\ turn + 1 \in Nat
                BY <3>3, ManifestAssumption
            <4> QED BY <3>3, <4>1
        <3>5. now \in Nat
            <4>1. (PeakBase => PAGE * Cardinality(committed) \in Nat)'
                BY CommittedBytes, PTL
            <4> QED BY <3>2, <4>1
        <3>6. peak' \in Nat
            <4> HIDE DEF now
            <4> QED BY <3>3, <3>5, MaxOfTwo DEF PeakOK
        <3>7. ASSUME CensusReads' PROVE peak' <= Bar'
            <4>1. CensusReads
                BY <3>3, <3>7 DEF CensusReads
            <4>2. Bar <= Bar' /\ Bar \in Int /\ Bar' \in Int
                BY <3>1, <3>3, <4>1, BarGrows
            <4>3. peak <= Bar /\ peak \in Nat
                BY <3>3, <4>1 DEF PeakOK, PeakInPages
            <4>4. now <= Bar'
                BY <3>2, <3>4, <3>7, StepBound
            <4> HIDE DEF now
            <4>5. peak <= Bar'
                BY <4>2, <4>3
            <4>6. peak' \in {peak, now}
                BY <3>3, <3>5, <4>3, MaxOfTwo
            <4> QED BY <4>4, <4>5, <4>6
        <3>8. PeakInPages'
            BY <3>7 DEF PeakInPages
        <3> QED BY <3>2, <3>4, <3>6, <3>8 DEF PeakOK
    <2>3. CASE UNCHANGED <<file, allocVars>>
        <3>1. UNCHANGED <<file, slices, trunk, resident, committed, active, turn, peak_lease, peak>>
            BY <2>3 DEF allocVars
        <3>2. BytesOf(active)' = BytesOf(active) /\ BytesOf(Residents)' = BytesOf(Residents)
              /\ EdgeCensus' = EdgeCensus /\ PlainTrunk' = PlainTrunk
            <4>1. (BytesOf(active) = BytesWith(slices, active))'
                BY ActiveByLayout, PTL
            <4>2. (BytesOf(Residents) = BytesWith(slices, Residents))'
                BY ResidentsByLayout, PTL
            <4>3. (EdgeCensus = CensusWith(slices))'
                BY CensusByLayout, PTL
            <4>4. Residents' = Residents
                BY <3>1 DEF Residents, SlicesOf
            <4>5. PlainTrunk' = PlainTrunk
                BY <3>1 DEF PlainTrunk, TrunkPages, Edges, EdgesOf
            <4> QED BY <3>1, <4>1, <4>2, <4>3, <4>4, <4>5, ByLayout
        <3>3. PeakBase'
            BY <3>1, <3>2 DEF PeakBase, Aligned, TensorsOK, RowsOK
        <3>4. Bar' = Bar
            BY <3>1, <3>2 DEF Bar, PageBar
        <3>5. PeakInPages'
            BY <3>1, <3>4 DEF PeakOK, PeakInPages, CensusReads
        <3> QED BY <3>1, <3>3, <3>5 DEF PeakOK
    <2> QED BY <2>1, <2>2, <2>3 DEF AllocNext
<1> QED
    BY <1>1, PeakInit, PageInvariant, CountsInvariant, PTL DEF AllocSpec


----------------------------------------------------------------------------
(* The runs of pages that are committed for the sake of experts.  Every run *)
(* starts at an end of a slice whose neighbour below is not resident.      *)

\* The ends of the slices of one tensor, from the tensor's own address on.
Boundary(l, x, j) == slices[<<l, x, 0>>][1] + j * slices[<<l, x, 0>>][2]

\* The pages that a trunk tensor touches do not lie inside an expert tensor.
TrunkBeside ==
    \A t \in trunk : \A l \in Blocks : \A x \in ExpertSuffixes :
        t[1] + t[2] <= Boundary(l, x, 0) \/ Boundary(l, x, E) <= t[1]

\* What the count of the runs needs besides the invariant.
RunBase ==
    /\ committed \in SUBSET Int
    /\ turn >= 0 => /\ RowsOK /\ TrunkBeside
                    /\ resident \in [Blocks -> {S \in SUBSET Experts : Cardinality(S) = K}]

\* The converse of OutwardPage.
LEMMA TouchedPage ==
    ASSUME NEW lo \in Int, NEW len \in Int, NEW p \in Int,
           lo < PAGE * p + PAGE, PAGE * p < lo + len
    PROVE  p \in Outward(lo, len)
<1> DEFINE hi == lo + len
<1>1. PAGE \in Nat \ {0} /\ hi \in Int /\ hi + PAGE - 1 \in Int
    BY PageAssumption
<1>2. /\ Floor(lo) \in Int /\ Ceil(hi) \in Int
      /\ PAGE * Floor(lo) <= lo /\ hi + PAGE - 1 < PAGE * Ceil(hi) + PAGE
    BY <1>1, Quotient DEF Ceil, Floor
<1>3. PAGE * Floor(lo) \in Int /\ PAGE * Ceil(hi) \in Int /\ PAGE * p \in Int
      /\ PAGE * (p + 1) = PAGE * p + PAGE
    BY <1>1, <1>2
<1>4. Floor(lo) <= p
    <2> SUFFICES ASSUME p + 1 <= Floor(lo) PROVE FALSE
        BY <1>2
    <2>1. PAGE * (p + 1) <= PAGE * Floor(lo)
        BY <1>1, <1>2, Monotone
    <2> QED BY <1>1, <1>2, <1>3, <2>1
<1>5. p <= Ceil(hi) - 1
    <2> SUFFICES ASSUME Ceil(hi) <= p PROVE FALSE
        BY <1>2
    <2>1. PAGE * Ceil(hi) <= PAGE * p
        BY <1>1, <1>2, Monotone
    <2>2. PAGE * p < hi
        OBVIOUS
    <2> HIDE DEF hi
    <2> QED BY <1>1, <1>2, <1>3, <2>1, <2>2
<1> QED BY <1>2, <1>4, <1>5 DEF Outward

\* The ends of a tensor's slices in order.
LEMMA BoundaryOrder ==
    ASSUME RowsOK, NEW l \in Blocks, NEW x \in ExpertSuffixes
    PROVE  /\ \A j \in 0 .. E : Boundary(l, x, j) \in Nat
           /\ \A i, j \in 0 .. E : i <= j => Boundary(l, x, i) <= Boundary(l, x, j)
           /\ \A e \in Experts : /\ e \in 0 .. E /\ e + 1 \in 0 .. E
                                 /\ slices[<<l, x, e>>][1] = Boundary(l, x, e)
                                 /\ slices[<<l, x, e>>][2] \in Nat
                                 /\ slices[<<l, x, e>>][1] + slices[<<l, x, e>>][2]
                                      = Boundary(l, x, e + 1)
<1> DEFINE lo == slices[<<l, x, 0>>][1]
           len == slices[<<l, x, 0>>][2]
<1>1. lo \in Nat /\ len \in Nat /\ \A e \in Experts : slices[<<l, x, e>>] = <<lo + e * len, len>>
    BY DEF RowsOK
<1>2. \A j : Boundary(l, x, j) = lo + j * len
    BY DEF Boundary
<1>3. E \in Nat \ {0}
    BY ManifestAssumption
<1> HIDE DEF lo, len
<1>4. ASSUME NEW j \in 0 .. E PROVE Boundary(l, x, j) \in Nat
    <2>1. j \in Nat /\ j * len \in Nat
        BY <1>1
    <2> QED BY <1>1, <1>2, <2>1
<1>5. ASSUME NEW i \in 0 .. E, NEW j \in 0 .. E, i <= j
      PROVE  Boundary(l, x, i) <= Boundary(l, x, j)
    <2>1. i \in Int /\ j \in Int /\ i * len \in Int /\ j * len \in Int
          /\ len * i = i * len /\ len * j = j * len
        BY <1>1
    <2>2. len * i <= len * j
        BY <1>1, <1>5, <2>1, Monotone
    <2> QED BY <1>1, <1>2, <2>1, <2>2
<1>6. ASSUME NEW e \in Experts
      PROVE  /\ e \in 0 .. E /\ e + 1 \in 0 .. E
             /\ slices[<<l, x, e>>][1] = Boundary(l, x, e)
             /\ slices[<<l, x, e>>][2] \in Nat
             /\ slices[<<l, x, e>>][1] + slices[<<l, x, e>>][2] = Boundary(l, x, e + 1)
    <2>1. e \in Nat /\ e <= E - 1
        BY <1>3 DEF Experts
    <2>2. e * len \in Nat /\ (e + 1) * len = e * len + len
        BY <1>1, <2>1
    <2>3. slices[<<l, x, e>>][1] = lo + e * len /\ slices[<<l, x, e>>][2] = len
        BY <1>1
    <2>4. Boundary(l, x, e) = lo + e * len /\ Boundary(l, x, e + 1) = lo + (e + 1) * len
        BY <1>2
    <2>5. (lo + e * len) + len = lo + (e * len + len)
        BY <1>1, <2>2
    <2> QED BY <1>1, <1>3, <2>1, <2>2, <2>3, <2>4, <2>5
<1> QED BY <1>4, <1>5, <1>6

\* No trunk tensor touches a page inside an expert tensor.
LEMMA InsideNotTrunk ==
    ASSUME LayoutOK, RowsOK, TrunkBeside, NEW l \in Blocks, NEW x \in ExpertSuffixes,
           NEW q \in Int, Boundary(l, x, 0) <= PAGE * q, PAGE * q + PAGE <= Boundary(l, x, E)
    PROVE  q \notin TrunkPages
<1> SUFFICES ASSUME NEW t \in trunk, q \in Outward(t[1], t[2]) PROVE FALSE
    BY DEF TrunkPages
<1>1. t[1] \in Int /\ t[2] \in Int
    BY DEF LayoutOK, IsRange
<1>2. t[1] < PAGE * q + PAGE /\ PAGE * q < t[1] + t[2]
    BY <1>1, OutwardPage
<1>3. t[1] + t[2] <= Boundary(l, x, 0) \/ Boundary(l, x, E) <= t[1]
    BY DEF TrunkBeside
<1>4. Boundary(l, x, 0) \in Nat /\ Boundary(l, x, E) \in Nat
    <2>1. 0 \in 0 .. E /\ E \in 0 .. E
        BY ManifestAssumption
    <2> QED BY <2>1, BoundaryOrder
<1>5. PAGE \in Nat /\ PAGE * q \in Int
    BY PageAssumption
<1> QED BY <1>1, <1>2, <1>3, <1>4, <1>5

\* Why a page that is not a trunk page is committed.
Marked(l, x, p) ==
    \/ \E j \in 0 .. E : PAGE * p < Boundary(l, x, j) /\ Boundary(l, x, j) < PAGE * p + PAGE
    \/ \E e \in Experts : /\ <<l, x, e>> \in Owned
                          /\ Boundary(l, x, e) < PAGE * p + PAGE /\ PAGE * p < Boundary(l, x, e + 1)

\* Where a run starts, and the first end of a slice that is not below the page
\* before it.
RunStart(p) == p \in committed \ TrunkPages /\ p - 1 \notin committed \ TrunkPages
FirstEnd(l, x, p, j) ==
    /\ j \in 0 .. E /\ PAGE * (p - 1) < Boundary(l, x, j)
    /\ j # 0 => Boundary(l, x, j - 1) <= PAGE * (p - 1)

\* Every page that is committed and not the trunk's is marked for some tensor.
LEMMA CommittedMarked ==
    ASSUME IInv, RunBase, turn >= 0, NEW p \in committed \ TrunkPages
    PROVE  p \in Int /\ \E l \in Blocks : \E x \in ExpertSuffixes : Marked(l, x, p)
<1>1. /\ RowsOK /\ LayoutOK /\ p \in Int /\ PAGE \in Nat
      /\ EdgePage(p) \/ p \in TrunkPages \cup UNION {SlicePages(s) : s \in Owned}
    BY PageAssumption DEF IInv, RunBase, LeftoversAreEdges
<1>2. PAGE * (p + 1) = PAGE * p + PAGE
    BY <1>1
<1>3. CASE EdgePage(p)
    <2>1. PICK s \in Slices : \E a \in {slices[s][1], slices[s][1] + slices[s][2]} :
                                 PAGE * p < a /\ a < PAGE * (p + 1)
        BY <1>3 DEF EdgePage
    <2>2. PICK l \in Blocks, x \in ExpertSuffixes, e \in Experts : s = <<l, x, e>>
        BY DEF Slices
    <2>3. /\ e \in 0 .. E /\ e + 1 \in 0 .. E
          /\ slices[s][1] = Boundary(l, x, e) /\ slices[s][1] + slices[s][2] = Boundary(l, x, e + 1)
        BY <1>1, <2>2, BoundaryOrder
    <2>4. \E j \in 0 .. E : PAGE * p < Boundary(l, x, j) /\ Boundary(l, x, j) < PAGE * p + PAGE
        BY <1>2, <2>1, <2>3
    <2> QED BY <1>1, <2>4 DEF Marked
<1>4. CASE \E s \in Owned : p \in SlicePages(s)
    <2>1. PICK s \in Owned : p \in SlicePages(s)
        BY <1>4
    <2>2. s \in Slices
        BY ResidentSlices DEF IInv, Owned
    <2>3. PICK l \in Blocks, x \in ExpertSuffixes, e \in Experts : s = <<l, x, e>>
        BY <2>2 DEF Slices
    <2>4. /\ e \in 0 .. E /\ e + 1 \in 0 .. E
          /\ slices[s][1] = Boundary(l, x, e) /\ slices[s][1] + slices[s][2] = Boundary(l, x, e + 1)
        BY <1>1, <2>3, BoundaryOrder
    <2>5. slices[s][1] \in Int /\ slices[s][2] \in Int
        BY <1>1, <2>2 DEF LayoutOK, IsRange
    <2>6. slices[s][1] < PAGE * p + PAGE /\ PAGE * p < slices[s][1] + slices[s][2]
        BY <2>1, <2>5, OutwardPage DEF SlicePages
    <2>7. Marked(l, x, p)
        BY <2>1, <2>3, <2>4, <2>6 DEF Marked
    <2> QED BY <1>1, <2>7
<1> QED BY <1>1, <1>3, <1>4

\* An expert's pages are committed while it is resident or leased.
LEMMA OwnedCommitted ==
    ASSUME IInv, RunBase, turn >= 0, NEW l \in Blocks, NEW x \in ExpertSuffixes,
           NEW e \in Experts, <<l, x, e>> \in Owned, NEW q \in Int,
           Boundary(l, x, e) < PAGE * q + PAGE, PAGE * q < Boundary(l, x, e + 1)
    PROVE  q \in committed
<1>1. RowsOK /\ NeighbourKept
    BY DEF IInv, RunBase
<1>2. /\ slices[<<l, x, e>>][1] = Boundary(l, x, e) /\ slices[<<l, x, e>>][2] \in Nat
      /\ slices[<<l, x, e>>][1] + slices[<<l, x, e>>][2] = Boundary(l, x, e + 1)
      /\ Boundary(l, x, e) \in Nat
    BY <1>1, BoundaryOrder
<1>3. q \in SlicePages(<<l, x, e>>)
    BY <1>2, TouchedPage DEF SlicePages
<1> QED BY <1>1, <1>3 DEF NeighbourKept

\* The ends at which a run can start: the tensor's own, and those of experts that
\* are not resident.
RunEnds(l) == {j \in 0 .. E : j = 0 \/ j - 1 \notin resident[l]}

\* A run starts at the first end: were the slice below it resident, the page
\* before would be committed, and it is no trunk page.
LEMMA StartHasEnd ==
    ASSUME IInv, RunBase, turn >= 0, NEW p, RunStart(p),
           NEW l \in Blocks, NEW x \in ExpertSuffixes, Marked(l, x, p)
    PROVE  \E j \in RunEnds(l) : FirstEnd(l, x, p, j)
<1>1. /\ RowsOK /\ LayoutOK /\ TrunkBeside /\ p \in Int /\ PAGE \in Nat \ {0}
      /\ E \in Nat \ {0}
    BY PageAssumption, ManifestAssumption, CommittedMarked DEF IInv, RunBase, RunStart
<1>2. PAGE * (p - 1) = PAGE * p - PAGE /\ PAGE * p \in Int
    BY <1>1
<1>3. PAGE * p < Boundary(l, x, E)
    <2>1. PICK j \in 0 .. E : PAGE * p < Boundary(l, x, j)
        BY <1>1, BoundaryOrder DEF Marked
    <2>2. E \in 0 .. E /\ j <= E
        BY <1>1
    <2>3. Boundary(l, x, j) <= Boundary(l, x, E) /\ Boundary(l, x, j) \in Nat
          /\ Boundary(l, x, E) \in Nat
        BY <1>1, <2>2, BoundaryOrder
    <2> QED BY <1>2, <2>1, <2>3
<1> DEFINE S == {j \in 0 .. E : PAGE * (p - 1) < Boundary(l, x, j)}
           first == Min(S)
<1>4. first \in S /\ \A j \in S : first <= j
    <2>1. E \in S
        <3>1. E \in 0 .. E
            BY <1>1
        <3>2. Boundary(l, x, E) \in Nat
            BY <1>1, <3>1, BoundaryOrder
        <3> QED BY <1>1, <1>2, <1>3, <3>1, <3>2
    <2>2. S \in SUBSET Nat /\ S # {}
        BY <2>1
    <2> HIDE DEF S
    <2> QED BY <2>2, LeastNat
<1>5. first \in 0 .. E /\ PAGE * (p - 1) < Boundary(l, x, first)
    BY <1>4
<1>6. ASSUME first # 0
      PROVE  Boundary(l, x, first - 1) <= PAGE * (p - 1) /\ first - 1 \in Experts
    <2>1. first - 1 \in 0 .. E /\ first - 1 \in Experts /\ first - 1 < first
        <3> HIDE DEF first
        <3> QED BY <1>1, <1>5, <1>6 DEF Experts
    <2>2. first - 1 \notin S
        <3> HIDE DEF S, first
        <3> QED BY <1>1, <1>4, <1>5, <2>1
    <2>3. Boundary(l, x, first - 1) \in Nat
        BY <1>1, <2>1, BoundaryOrder
    <2> QED BY <1>1, <1>2, <2>1, <2>2, <2>3
<1>7. ASSUME first # 0, first - 1 \in resident[l] PROVE FALSE
    <2> DEFINE e == first - 1
               q == p - 1
    <2>1. e \in Experts /\ Boundary(l, x, e) <= PAGE * q /\ e + 1 = first /\ q \in Int
        <3>1. first - 1 \in Experts /\ Boundary(l, x, first - 1) <= PAGE * (p - 1)
            BY <1>6, <1>7
        <3>2. (first - 1) + 1 = first
            <4> HIDE DEF first
            <4> QED BY <1>5
        <3>3. p - 1 \in Int
            BY <1>1
        <3> HIDE DEF first
        <3> QED BY <3>1, <3>2, <3>3
    <2>2. <<l, x, e>> \in Owned
        <3>1. e \in resident[l] /\ e \in Experts
            BY <1>7, <2>1
        <3> HIDE DEF e
        <3>2. <<l, x, e>> \in SlicesOf(l, resident[l])
            BY <3>1 DEF SlicesOf, Slices
        <3> QED BY <3>2 DEF Owned, Residents
    <2>3. /\ Boundary(l, x, 0) <= Boundary(l, x, e) /\ Boundary(l, x, e) \in Nat
          /\ Boundary(l, x, 0) \in Nat /\ Boundary(l, x, e + 1) \in Nat
          /\ Boundary(l, x, E) \in Nat
        <3>1. e \in 0 .. E /\ e + 1 \in 0 .. E /\ 0 \in 0 .. E /\ E \in 0 .. E /\ 0 <= e
            BY <1>1, <2>1 DEF Experts
        <3> QED BY <1>1, <3>1, BoundaryOrder
    <2>4. PAGE * q < Boundary(l, x, e + 1)
        BY <1>5, <2>1
    <2> HIDE DEF e, first
    <2>5. PAGE * q + PAGE = PAGE * p /\ PAGE * q \in Int
        BY <1>1, <1>2
    <2>6. Boundary(l, x, e) < PAGE * q + PAGE
        <3> HIDE DEF q
        <3> QED BY <1>1, <1>2, <2>1, <2>3, <2>5
    <2>7. q \in committed
        <3> HIDE DEF q
        <3> QED BY <2>1, <2>2, <2>4, <2>6, OwnedCommitted
    <2>8. q \notin TrunkPages
        <3>1. Boundary(l, x, 0) <= PAGE * q /\ PAGE * q + PAGE <= Boundary(l, x, E)
            <4> HIDE DEF q
            <4> QED BY <1>2, <1>3, <2>1, <2>3, <2>5
        <3> HIDE DEF q
        <3> QED BY <1>1, <2>1, <3>1, InsideNotTrunk
    <2> QED BY <2>7, <2>8 DEF RunStart
<1>8. first \in RunEnds(l) /\ FirstEnd(l, x, p, first)
    <2> HIDE DEF first, S
    <2> QED BY <1>5, <1>6, <1>7 DEF RunEnds, FirstEnd
<1> QED BY <1>8

\* Two runs do not start at the same end.
LEMMA OneStartPerEnd ==
    ASSUME IInv, RunBase, turn >= 0, NEW p, NEW q, RunStart(p), RunStart(q),
           NEW l \in Blocks, NEW x \in ExpertSuffixes, NEW j,
           Marked(l, x, p), FirstEnd(l, x, p, j), FirstEnd(l, x, q, j), p < q
    PROVE  FALSE
<1>1. /\ RowsOK /\ LayoutOK /\ TrunkBeside /\ p \in Int /\ q \in Int /\ PAGE \in Nat \ {0}
      /\ E \in Nat \ {0} /\ j \in 0 .. E
    BY PageAssumption, ManifestAssumption, CommittedMarked DEF IInv, RunBase, RunStart, FirstEnd
<1>2. p + 2 <= q
    <2>1. q - 1 # p
        BY DEF RunStart
    <2> QED BY <1>1, <2>1
<1> DEFINE b == Boundary(l, x, j)
           at == PAGE * p
<1>3. b \in Nat /\ at \in Int /\ PAGE * (p - 1) = at - PAGE
    BY <1>1, BoundaryOrder
<1>4. at + PAGE < b
    <2>1. PAGE * (p + 1) <= PAGE * (q - 1)
        BY <1>1, <1>2, Monotone
    <2>2. PAGE * (p + 1) = at + PAGE /\ PAGE * (q - 1) \in Int
        BY <1>1
    <2>3. PAGE * (q - 1) < b
        BY DEF FirstEnd
    <2> HIDE DEF b, at
    <2> QED BY <1>1, <1>3, <2>1, <2>2, <2>3
<1>5. ASSUME NEW i \in 0 .. E, Boundary(l, x, i) < at + PAGE
      PROVE  /\ i < j /\ j # 0 /\ Boundary(l, x, i) \in Nat
             /\ Boundary(l, x, i) <= at - PAGE
    <2>1. Boundary(l, x, i) \in Nat /\ (j <= i => b <= Boundary(l, x, i))
        BY <1>1, BoundaryOrder
    <2>2. i < j
        <3> HIDE DEF b, at
        <3> QED BY <1>1, <1>3, <1>4, <1>5, <2>1
    <2>3. j # 0 /\ i <= j - 1 /\ j - 1 \in 0 .. E
        BY <1>1, <2>2
    <2>4. Boundary(l, x, i) <= Boundary(l, x, j - 1) /\ Boundary(l, x, j - 1) \in Nat
        BY <1>1, <2>3, BoundaryOrder
    <2>5. Boundary(l, x, j - 1) <= at - PAGE
        BY <1>3, <2>3 DEF FirstEnd
    <2> HIDE DEF b, at
    <2> QED BY <1>1, <1>3, <2>1, <2>2, <2>3, <2>4, <2>5
<1>6. PICK e \in Experts : /\ <<l, x, e>> \in Owned
                           /\ Boundary(l, x, e) < at + PAGE /\ at < Boundary(l, x, e + 1)
    <2>1. ASSUME NEW i \in 0 .. E, at < Boundary(l, x, i), Boundary(l, x, i) < at + PAGE
          PROVE  FALSE
        <3>1. Boundary(l, x, i) <= at - PAGE /\ Boundary(l, x, i) \in Nat
            BY <1>5, <2>1
        <3> HIDE DEF at
        <3> QED BY <1>1, <1>3, <2>1, <3>1
    <2> QED BY <2>1 DEF Marked
<1> DEFINE before == p - 1
<1>7. before \in Int /\ PAGE * before = at - PAGE
    BY <1>1, <1>3
<1>8. /\ Boundary(l, x, e) <= at - PAGE /\ Boundary(l, x, e) \in Nat
      /\ Boundary(l, x, 0) <= Boundary(l, x, e) /\ Boundary(l, x, 0) \in Nat
      /\ Boundary(l, x, e + 1) <= Boundary(l, x, E) /\ Boundary(l, x, e + 1) \in Nat
      /\ Boundary(l, x, E) \in Nat
    <2>1. e \in 0 .. E /\ e + 1 \in 0 .. E /\ 0 \in 0 .. E /\ E \in 0 .. E /\ 0 <= e /\ e + 1 <= E
        BY <1>1 DEF Experts
    <2>2. Boundary(l, x, e) <= at - PAGE
        BY <1>5, <1>6, <2>1
    <2> QED BY <1>1, <2>1, <2>2, BoundaryOrder
<1> HIDE DEF at, before, b
<1>9. before \in committed
    <2>1. Boundary(l, x, e) < PAGE * before + PAGE /\ PAGE * before < Boundary(l, x, e + 1)
        BY <1>1, <1>3, <1>6, <1>7, <1>8
    <2> QED BY <1>6, <1>7, <2>1, OwnedCommitted
<1>10. before \notin TrunkPages
    <2>1. Boundary(l, x, 0) <= PAGE * before /\ PAGE * before + PAGE <= Boundary(l, x, E)
        BY <1>1, <1>3, <1>6, <1>7, <1>8
    <2> QED BY <1>1, <1>7, <2>1, InsideNotTrunk
<1> QED BY <1>9, <1>10 DEF before, RunStart

\* Pages are numbers.
LEMMA PagesAreInts ==
    /\ \A lo, len : Outward(lo, len) \in SUBSET Int
    /\ TrunkPages \in SUBSET Int /\ \A s : SlicePages(s) \in SUBSET Int
<1>1. \A lo, len : Outward(lo, len) \in SUBSET Int
    BY DEF Outward
<1> QED BY <1>1 DEF TrunkPages, SlicePages

\* The load makes it so ...
LEMMA LoadRuns ==
    ASSUME IInv, Load
    PROVE  RunBase'
<1>1. /\ turn = -1 /\ turn' = 0 /\ file' = file /\ FileOK(file) /\ ExpertsAccepted(file)
    BY DEF IInv, Load
<1>2. PICK base \in Bases :
        /\ trunk' = {TensorAt(file, base, i) : i \in Trunk(file)}
        /\ slices' = [s \in Slices |-> SliceAt(file, base, s)]
    BY DEF Load, SliceAt, TensorAt
<1>3. base \in Nat
    BY PageAssumption DEF Bases
<1>4. RowsOK'
    BY <1>1, <1>2, <1>3, RowsLaidOut
<1>5. TrunkBeside'
    <2> SUFFICES ASSUME NEW t \in trunk', NEW l \in Blocks, NEW x \in ExpertSuffixes
                 PROVE  t[1] + t[2] <= Boundary(l, x, 0)' \/ Boundary(l, x, E)' <= t[1]
        BY DEF TrunkBeside
    <2>1. PICK k \in Trunk(file) : t = TensorAt(file, base, k)
        BY <1>2
    <2> DEFINE i == Slot(file, <<l, x>>)
               share == Share(file, <<l, x>>)
               at == file.tensors[i].offset
               len == Span(file, i)
               to == file.tensors[k].offset
               tlen == Span(file, k)
    <2>2. /\ i \in Slots(file) /\ Name(file, i) = <<l, x>>
          /\ slices'[<<l, x, 0>>] = <<base + at, share>> /\ share \in Nat /\ E * share = len
        BY <1>1, <1>2, <1>3, RowsLaidOut
    <2>3. k \in Slots(file) /\ ~IsExpert(file, k)
        BY DEF Trunk
    <2>4. IsExpert(file, i)
        <3>1. file.tensors[i].block = l /\ file.tensors[i].suffix = x
            BY <2>2 DEF Name
        <3>2. -1 \notin Blocks
            BY DEF Blocks
        <3> QED BY <3>1, <3>2 DEF IsExpert
    <2>5. k \in After(file, i) \/ i \in After(file, k)
        BY <1>1, <2>2, <2>3, <2>4, AfterTotal
    <2>6. at + len <= to \/ to + tlen <= at
        BY <1>1, <2>2, <2>3, <2>5, SpanEnds
    <2>7. at \in Nat /\ to \in Nat /\ len \in Int /\ tlen \in Int
        BY <1>1, <2>2, <2>3, SpanEnds DEF FileOK
    <2>8. t[1] = base + to /\ t[2] = tlen
        BY <2>1 DEF TensorAt
    <2> HIDE DEF at, len, to, tlen, share
    <2>9. Boundary(l, x, 0)' = base + at /\ Boundary(l, x, E)' = base + at + len
        <3>1. slices'[<<l, x, 0>>][1] = base + at /\ slices'[<<l, x, 0>>][2] = share
            BY <2>2
        <3>2. /\ Boundary(l, x, 0)' = slices'[<<l, x, 0>>][1] + 0 * slices'[<<l, x, 0>>][2]
              /\ Boundary(l, x, E)' = slices'[<<l, x, 0>>][1] + E * slices'[<<l, x, 0>>][2]
            BY DEF Boundary
        <3>3. 0 * share = 0
            BY <2>2
        <3>4. Boundary(l, x, 0)' = base + at + 0 /\ Boundary(l, x, E)' = base + at + len
            BY <2>2, <3>1, <3>2, <3>3
        <3> QED BY <1>3, <2>7, <3>4
    <2> QED BY <1>3, <2>6, <2>7, <2>8, <2>9
<1>6. resident' \in [Blocks -> {S \in SUBSET Experts : Cardinality(S) = K}]
    BY DEF Load
<1>7. committed' \in SUBSET Int
    <2>1. committed' = TrunkPages' \cup UNION {SlicePages(s)' : s \in Residents'}
        BY DEF Load, CommitPages
    <2>2. TrunkPages' \in SUBSET Int /\ \A s : SlicePages(s)' \in SUBSET Int
        BY DEF TrunkPages, SlicePages, Outward
    <2> QED BY <2>1, <2>2
<1> QED BY <1>4, <1>5, <1>6, <1>7 DEF RunBase

\* ... and a route call moves neither slices nor residents.
LEMMA RunsInvariant == AllocSpec => []RunBase
<1>1. AllocInit => RunBase
    BY DEF AllocInit, RunBase
<1>2. IInv /\ RunBase /\ [AllocNext]_<<file, allocVars>> => RunBase'
    <2> SUFFICES ASSUME IInv, RunBase, [AllocNext]_<<file, allocVars>> PROVE RunBase'
        OBVIOUS
    <2>1. CASE Load
        BY <2>1, LoadRuns
    <2>2. ASSUME UNCHANGED <<slices, trunk, resident>>, committed' \in SUBSET Int, turn >= 0 \/ turn' = turn
          PROVE  RunBase'
        <3>1. turn' >= 0 => turn >= 0
            BY <2>2
        <3>2. RowsOK => RowsOK'
            BY <2>2 DEF RowsOK
        <3>3. TrunkBeside => TrunkBeside'
            BY <2>2 DEF TrunkBeside, Boundary
        <3> QED BY <2>2, <3>1, <3>2, <3>3 DEF RunBase
    <2>3. CASE \E routed \in SUBSET Experts : RouteCall(routed)
        <3>1. PICK routed \in SUBSET Experts : RouteCall(routed)
            BY <2>3
        <3>2. /\ committed' = (committed \ UNION {Dropped(s) : s \in active})
                                \cup UNION {SlicePages(s) : s \in Leases(routed)}
              /\ turn >= 0 /\ UNCHANGED <<slices, trunk, resident>>
            BY <3>1 DEF RouteCall, CommitPages
        <3>3. committed' \in SUBSET Int
            BY <3>2, PagesAreInts DEF RunBase
        <3> QED BY <2>2, <3>2, <3>3
    <2>4. CASE UNCHANGED <<file, allocVars>>
        <3>1. UNCHANGED <<slices, trunk, resident, committed, turn>>
            BY <2>4 DEF allocVars
        <3>2. committed' \in SUBSET Int
            BY <3>1 DEF RunBase
        <3> QED BY <2>2, <3>1, <3>2
    <2> QED BY <2>1, <2>3, <2>4 DEF AllocNext
<1> QED BY <1>1, <1>2, PageInvariant, PTL DEF AllocSpec

\* A run can start at a tensor's own address and at one end for each expert that is
\* not resident.
LEMMA RunEndsBound ==
    ASSUME RunBase, turn >= 0, NEW l \in Blocks
    PROVE  IsFiniteSet(RunEnds(l)) /\ Cardinality(RunEnds(l)) <= (E - K) + 1
<1> DEFINE D == Experts \ resident[l]
           f == [e \in D |-> e + 1]
           T == {f[e] : e \in D}
<1>1. E \in Nat \ {0} /\ K \in Nat /\ K <= E
    BY ManifestAssumption, PageAssumption
<1>2. resident[l] \in SUBSET Experts /\ Cardinality(resident[l]) = K
    BY DEF RunBase
<1>3. IsFiniteSet(Experts) /\ Cardinality(Experts) = E
    <2>1. /\ IsFiniteSet(0 .. (E - 1))
          /\ Cardinality(0 .. (E - 1)) = IF 0 > E - 1 THEN 0 ELSE (E - 1) - 0 + 1
        BY <1>1, FS_Interval
    <2> QED BY <1>1, <2>1 DEF Experts
<1>4. IsFiniteSet(D) /\ Cardinality(D) = E - K
    <2>1. Experts \cap resident[l] = resident[l]
        BY <1>2
    <2>2. IsFiniteSet(Experts)
        BY <1>3
    <2>3. /\ IsFiniteSet(Experts \ resident[l])
          /\ Cardinality(Experts \ resident[l])
                = Cardinality(Experts) - Cardinality(Experts \cap resident[l])
        BY <2>2, FS_Difference, Zenon
    <2> QED BY <1>2, <1>3, <2>1, <2>3
<1>5. IsFiniteSet(T) /\ Cardinality(T) <= Cardinality(D)
    <2>1. f = [e \in D |-> f[e]]
        OBVIOUS
    <2> HIDE DEF f, D
    <2> QED BY <1>4, <2>1, ImageBound
<1>6. RunEnds(l) \in SUBSET ({0} \cup T)
    <2> SUFFICES ASSUME NEW j \in RunEnds(l), j # 0 PROVE j \in T
        OBVIOUS
    <2>1. j \in 1 .. E /\ j - 1 \notin resident[l]
        BY <1>1 DEF RunEnds
    <2>2. j - 1 \in D /\ (j - 1) + 1 = j
        BY <1>1, <2>1 DEF Experts
    <2> QED BY <2>2
<1> HIDE DEF T, D
<1>7. IsFiniteSet({0}) /\ Cardinality({0}) = 1
    BY FS_Singleton
<1>8. /\ IsFiniteSet({0} \cup T) /\ Cardinality({0} \cup T) \in Nat /\ Cardinality(T) \in Nat
      /\ Cardinality({0} \cup T) <= 1 + Cardinality(T)
    BY <1>5, <1>7, AtMostBoth
<1>9. /\ IsFiniteSet(RunEnds(l)) /\ Cardinality(RunEnds(l)) \in Nat
      /\ Cardinality(RunEnds(l)) <= Cardinality({0} \cup T)
    BY <1>6, <1>8, FS_Subset, FS_CardinalityType
<1> QED BY <1>1, <1>4, <1>5, <1>8, <1>9

\* The ends at which runs can start, of all tensors.
StartsAt(w, p) ==
    Marked(w[1][1], w[1][2], p) /\ FirstEnd(w[1][1], w[1][2], p, w[2])
EndsOf == [name \in ExpertNames |-> {name} \X RunEnds(name[1])]

\* There is no more than one run for each of them.
LEMMA RunsBound ==
    ASSUME IInv, RunBase, turn >= 0
    PROVE  /\ CommittedIslands \in Nat
           /\ CommittedIslands <= ((E - K) + 1) * (L * Cardinality(ExpertSuffixes))
<1> DEFINE Starts == {p \in committed \ TrunkPages : p - 1 \notin committed \ TrunkPages}
           T == Whole(EndsOf, ExpertNames)
           f == [p \in Starts |-> CHOOSE w \in T : StartsAt(w, p)]
           d == (E - K) + 1
           zero == [name \in ExpertNames |-> 0]
<1>1. E \in Nat /\ K \in Nat /\ K <= E /\ d \in Nat
    BY ManifestAssumption, PageAssumption
<1>2. \A p : p \in Starts <=> RunStart(p)
    BY DEF RunStart
<1>3. ASSUME NEW name \in ExpertNames
      PROVE  IsFiniteSet(EndsOf[name]) /\ Cardinality(EndsOf[name]) <= d
             /\ Cardinality(EndsOf[name]) \in Nat
    <2>1. name[1] \in Blocks
        BY DEF ExpertNames
    <2>2. IsFiniteSet(RunEnds(name[1])) /\ Cardinality(RunEnds(name[1])) <= d
        BY <2>1, RunEndsBound
    <2>3. IsFiniteSet({name}) /\ Cardinality({name}) = 1
        BY FS_Singleton
    <2>4. /\ IsFiniteSet({name} \X RunEnds(name[1]))
          /\ Cardinality({name} \X RunEnds(name[1])) = 1 * Cardinality(RunEnds(name[1]))
        BY <2>2, <2>3, FS_Product
    <2>5. Cardinality(RunEnds(name[1])) \in Nat
        BY <2>2, FS_CardinalityType
    <2>6. EndsOf[name] = {name} \X RunEnds(name[1])
        BY DEF EndsOf
    <2> HIDE DEF d
    <2> QED BY <2>2, <2>4, <2>5, <2>6
<1>4. IsFiniteSet(ExpertNames) /\ Cardinality(ExpertNames) = L * Cardinality(ExpertSuffixes)
    BY FiniteSlices, FS_Product DEF ExpertNames
<1>5. IsFiniteSet(T) /\ Cardinality(T) \in Nat /\ Cardinality(T) <= d * Cardinality(ExpertNames)
    <2>1. PICK h : Sums(h, zero, SUBSET ExpertNames)
        <3> HIDE DEF zero
        <3> QED BY <1>4, SumsExist
    <2>2. \A name \in ExpertNames : zero[name] = 0
        OBVIOUS
    <2> HIDE DEF d, zero
    <2>3. PartsBounded(ExpertNames, zero, EndsOf, 1, 0, d)
        <3> SUFFICES ASSUME NEW name \in ExpertNames
                     PROVE  /\ zero[name] \in Nat /\ IsFiniteSet(EndsOf[name])
                            /\ 1 * Cardinality(EndsOf[name]) <= 0 * zero[name] + d
            BY DEF PartsBounded
        <3>1. zero[name] = 0
            BY <2>2
        <3>2. IsFiniteSet(EndsOf[name]) /\ Cardinality(EndsOf[name]) <= d
              /\ Cardinality(EndsOf[name]) \in Nat
            BY <1>3
        <3> QED BY <1>1, <3>1, <3>2
    <2>4. /\ h[ExpertNames] \in Nat /\ IsFiniteSet(T) /\ Cardinality(ExpertNames) \in Nat
          /\ 1 * Cardinality(T) <= 0 * h[ExpertNames] + d * Cardinality(ExpertNames)
        <3>1. 1 \in Nat /\ 0 \in Nat
            OBVIOUS
        <3> QED BY <1>1, <1>4, <2>1, <2>3, <3>1, UnionBound
    <2>5. Cardinality(T) \in Nat
        BY <2>4, FS_CardinalityType
    <2> HIDE DEF T
    <2>6. d * Cardinality(ExpertNames) \in Nat
        BY <1>1, <2>4
    <2> QED BY <2>4, <2>5, <2>6
<1>6. ASSUME NEW p \in Starts PROVE f[p] \in T /\ StartsAt(f[p], p)
    <2>1. p \in committed \ TrunkPages /\ RunStart(p)
        BY <1>2
    <2>2. PICK l \in Blocks, x \in ExpertSuffixes : Marked(l, x, p)
        BY <2>1, CommittedMarked
    <2>3. PICK j \in RunEnds(l) : FirstEnd(l, x, p, j)
        BY <2>1, <2>2, StartHasEnd
    <2>4. <<<<l, x>>, j>> \in T
        <3>1. <<l, x>> \in ExpertNames /\ <<l, x>>[1] = l
            BY DEF ExpertNames
        <3>2. <<<<l, x>>, j>> \in EndsOf[<<l, x>>]
            BY <3>1 DEF EndsOf
        <3> QED BY <3>1, <3>2 DEF Whole
    <2>5. StartsAt(<<<<l, x>>, j>>, p)
        BY <2>2, <2>3 DEF StartsAt
    <2>6. f[p] = CHOOSE w \in T : StartsAt(w, p)
        OBVIOUS
    <2> HIDE DEF T, f
    <2> QED BY <2>4, <2>5, <2>6
<1>7. ASSUME NEW p \in Starts, NEW q \in Starts, f[p] = f[q] PROVE p = q
    <2> DEFINE w == f[p]
    <2>1. w \in T /\ StartsAt(w, p) /\ StartsAt(w, q) /\ RunStart(p) /\ RunStart(q)
        BY <1>2, <1>6, <1>7
    <2>2. w[1][1] \in Blocks /\ w[1][2] \in ExpertSuffixes
        <3>1. PICK name \in ExpertNames : w \in {name} \X RunEnds(name[1])
            BY <2>1 DEF Whole, EndsOf
        <3> HIDE DEF w
        <3> QED BY <3>1 DEF ExpertNames
    <2>3. p \in Int /\ q \in Int
        BY <2>1, CommittedMarked DEF RunStart
    <2> HIDE DEF w
    <2>4. ~ (p < q) /\ ~ (q < p)
        BY <2>1, <2>2, OneStartPerEnd DEF StartsAt
    <2> QED BY <2>3, <2>4
<1>8. f \in Injection(Starts, T)
    <2>1. f = [p \in Starts |-> f[p]]
        OBVIOUS
    <2> HIDE DEF f, Starts, T
    <2>2. f \in [Starts -> T]
        BY <1>6, <2>1
    <2> QED BY <1>7, <2>2 DEF Injection, IsInjective
<1>9. IsFiniteSet(Starts) /\ Cardinality(Starts) <= Cardinality(T) /\ Cardinality(Starts) \in Nat
    <2> HIDE DEF f, Starts, T
    <2> QED BY <1>5, <1>8, FS_Injection, FS_CardinalityType
<1>10. CommittedIslands = Cardinality(Starts)
    BY DEF CommittedIslands, Islands
<1> HIDE DEF Starts, T
<1>11. Cardinality(ExpertNames) \in Nat
    BY <1>4, FS_CardinalityType
<1>12. d * Cardinality(ExpertNames) \in Nat
    <2> HIDE DEF d
    <2> QED BY <1>1, <1>11
<1>13. CommittedIslands \in Nat /\ CommittedIslands <= d * Cardinality(ExpertNames)
    <2> HIDE DEF d
    <2> QED BY <1>5, <1>9, <1>10, <1>12
<1> QED BY <1>4, <1>13 DEF d

\* The resident runs are the sum over the blocks of each block's.
LEMMA RunsAreSum ==
    \E h : /\ Sums(h, [l \in Blocks |-> Islands(resident[l])], SUBSET Blocks)
           /\ ResidentIslands = h[Blocks]
<1> DEFINE set == Blocks
           g == [l \in set |-> Islands(resident[l])]
           P(h) == h = [t \in SUBSET set |->
                          IF t = {} THEN 0 ELSE Islands(resident[Pick(t)]) + h[t \ {Pick(t)}]]
<1>1. ASSUME NEW t \in SUBSET set, t # {} PROVE g[Pick(t)] = Islands(resident[Pick(t)])
    <2>1. Pick(t) \in set
        BY <1>1 DEF Pick
    <2> QED BY <2>1
<1>2. ASSUME NEW h PROVE P(h) <=> Sums(h, g, SUBSET set)
    <2>1. ASSUME NEW t \in SUBSET set
          PROVE  (IF t = {} THEN 0 ELSE Islands(resident[Pick(t)]) + h[t \ {Pick(t)}])
                    = (IF t = {} THEN 0 ELSE g[Pick(t)] + h[t \ {Pick(t)}])
        <3> HIDE DEF g
        <3> QED BY <1>1
    <2> HIDE DEF g
    <2>2. [t \in SUBSET set |-> IF t = {} THEN 0 ELSE Islands(resident[Pick(t)]) + h[t \ {Pick(t)}]]
            = [t \in SUBSET set |-> IF t = {} THEN 0 ELSE g[Pick(t)] + h[t \ {Pick(t)}]]
        BY <2>1
    <2> QED BY <2>2, Zenon DEF Sums
<1>3. \E h : P(h)
    <2>1. \E h : Sums(h, g, SUBSET set)
        <3> HIDE DEF g
        <3> QED BY SumsExist, FiniteSlices
    <2> HIDE DEF P, g
    <2> QED BY <1>2, <2>1
<1>4. P(CHOOSE h : P(h))
    <2> HIDE DEF P
    <2> QED BY <1>3
<1>5. ResidentIslands = (CHOOSE h : P(h))[set]
    BY DEF ResidentIslands, SumOf, MapThenSumSet, MapThenFoldSet, Pick
<1> HIDE DEF P, g
<1>6. Sums(CHOOSE h : P(h), g, SUBSET set)
    BY <1>2, <1>4
<1> QED BY <1>5, <1>6 DEF g

\* With experts resident every block has a run of them.
LEMMA RunPerBlock ==
    ASSUME RunBase, turn >= 0
    PROVE  /\ ResidentIslands \in Nat
           /\ L <= ResidentIslands + (IF K = 0 THEN L ELSE 0)
<1> DEFINE g == [l \in Blocks |-> Islands(resident[l])]
           F == [l \in Blocks |-> {l}]
           d == IF K = 0 THEN 1 ELSE 0
<1>1. E \in Nat \ {0} /\ K \in Nat /\ L \in Nat \ {0} /\ d \in Nat
    BY ManifestAssumption, PageAssumption
<1>2. ASSUME NEW l \in Blocks
      PROVE  Islands(resident[l]) \in Nat /\ 1 <= Islands(resident[l]) + d
    <2> DEFINE S == resident[l]
               H == {e \in S : e - 1 \notin S}
    <2>1. S \in SUBSET Experts /\ Cardinality(S) = K
        BY DEF RunBase
    <2>2. S \in SUBSET Nat /\ IsFiniteSet(S)
        <3>1. E - 1 \in Int /\ 0 \in Int
            BY <1>1
        <3>2. IsFiniteSet(Experts) /\ Experts \in SUBSET Nat
            BY <3>1, FS_Interval DEF Experts
        <3> HIDE DEF S
        <3> QED BY <2>1, <3>2, FS_Subset
    <2>3. IsFiniteSet(H) /\ Cardinality(H) \in Nat
        <3>1. H \in SUBSET S
            OBVIOUS
        <3> HIDE DEF S, H
        <3> QED BY <2>2, <3>1, FS_Subset, FS_CardinalityType
    <2>4. Islands(resident[l]) = Cardinality(H)
        BY DEF Islands
    <2>5. CASE K = 0
        <3> HIDE DEF H
        <3> QED BY <2>3, <2>4, <2>5
    <2>6. CASE K # 0
        <3>1. S # {}
            <4> HIDE DEF S
            <4> QED BY <2>1, <2>6, FS_EmptySet
        <3>2. Min(S) \in S /\ \A y \in S : Min(S) <= y
            <4> HIDE DEF S
            <4> QED BY <2>2, <3>1, LeastNat
        <3>3. Min(S) \in H
            <4> DEFINE m == Min(S)
            <4>1. m \in S /\ (\A y \in S : m <= y) /\ m \in Nat
                BY <2>2, <3>2
            <4> HIDE DEF m
            <4>2. m - 1 \notin S
                <5> HIDE DEF S
                <5> QED BY <4>1
            <4>3. m \in H
                BY <4>1, <4>2
            <4> QED BY <4>3 DEF m
        <3> HIDE DEF H, S
        <3>4. Cardinality(H) # 0
            BY <2>3, <3>3, FS_EmptySet
        <3> QED BY <1>1, <2>3, <2>4, <3>4
    <2> QED BY <2>5, <2>6
<1>3. PICK h : Sums(h, g, SUBSET Blocks) /\ ResidentIslands = h[Blocks]
    BY RunsAreSum
<1>4. PartsBounded(Blocks, g, F, 1, 1, d)
    <2> SUFFICES ASSUME NEW l \in Blocks
                 PROVE  /\ g[l] \in Nat /\ IsFiniteSet(F[l])
                        /\ 1 * Cardinality(F[l]) <= 1 * g[l] + d
        BY DEF PartsBounded
    <2>1. g[l] = Islands(resident[l]) /\ F[l] = {l}
        OBVIOUS
    <2>2. Islands(resident[l]) \in Nat /\ 1 <= Islands(resident[l]) + d
        BY <1>2
    <2>3. IsFiniteSet({l}) /\ Cardinality({l}) = 1
        BY FS_Singleton
    <2> HIDE DEF d, g, F
    <2> QED BY <1>1, <2>1, <2>2, <2>3
<1>5. Whole(F, Blocks) = Blocks
    BY DEF Whole
<1>6. IsFiniteSet(Blocks) /\ Cardinality(Blocks) = L
    BY FiniteSlices
<1> HIDE DEF d, g, F
<1>7. /\ h[Blocks] \in Nat
      /\ 1 * Cardinality(Whole(F, Blocks)) <= 1 * h[Blocks] + d * Cardinality(Blocks)
    <2>1. 1 \in Nat
        OBVIOUS
    <2> QED BY <1>1, <1>3, <1>4, <1>6, <2>1, UnionBound
<1>8. ResidentIslands \in Nat /\ L <= ResidentIslands + d * L
    <2>1. 1 * L <= 1 * ResidentIslands + d * L /\ ResidentIslands \in Nat
        BY <1>3, <1>5, <1>6, <1>7
    <2>2. d * L \in Nat
        BY <1>1
    <2> QED BY <1>1, <2>1, <2>2
<1>9. d * L = IF K = 0 THEN L ELSE 0
    BY <1>1 DEF d
<1> QED BY <1>8, <1>9

\* The runs of committed pages never exceed the census's worst case and one for
\* each other expert that is not resident: what released leases leave does not grow
\* with the calls.
THEOREM OnlyEdgesAlwaysStay == AllocSpec => []OnlyEdgesStay
<1>1. IInv /\ RunBase => OnlyEdgesStay
    <2> SUFFICES ASSUME IInv, RunBase, turn >= 0
                 PROVE  /\ LeftoversAreEdges
                        /\ CommittedIslands <= WorstIslands + Cardinality(ExpertSuffixes) *
                                ((L - 1) * (E - K) + (IF K = 0 THEN L ELSE 0))
        BY DEF OnlyEdgesStay
    <2> DEFINE n == Cardinality(ExpertSuffixes)
               out == E - K
               more == IF K = 0 THEN L ELSE 0
               runs == ResidentIslands
    <2>1. /\ n \in Nat /\ L \in Nat \ {0} /\ out \in Nat /\ more \in Nat /\ runs \in Nat
          /\ L <= runs + more
        <3>1. L \in Nat \ {0} /\ E \in Nat /\ K \in 0 .. E
            BY ManifestAssumption, PageAssumption
        <3> QED BY <3>1, FiniteSlices, RunPerBlock
    <2>2. CommittedIslands \in Nat /\ CommittedIslands <= (out + 1) * (L * n)
        BY RunsBound
    <2>3. WorstIslands = n * (runs + E - K)
        BY DEF WorstIslands
    <2>4. runs + E - K = runs + out
        <3>1. E \in Nat /\ K \in Int /\ runs \in Nat
            BY <2>1, ManifestAssumption, PageAssumption
        <3> HIDE DEF runs
        <3> QED BY <3>1
    <2> HIDE DEF n, out, more, runs
    <2>5. L * out + L <= (runs + out) + ((L - 1) * out + more)
        <3>1. (L - 1) * out = L * out - out /\ L * out \in Nat
            BY <2>1
        <3> QED BY <2>1, <3>1
    <2>6. /\ L * out + L \in Nat /\ runs + out \in Nat
          /\ (L - 1) * out \in Nat /\ (L - 1) * out + more \in Nat
        <3>1. L - 1 \in Nat
            BY <2>1
        <3> QED BY <2>1, <3>1
    <2>7. (out + 1) * (L * n) = n * (L * out + L)
        <3>1. \A a, b, c \in Nat : (a + 1) * (b * c) = c * (b * a + b)
            OBVIOUS
        <3> QED BY <2>1, <3>1
    <2>8. n * (L * out + L) <= n * ((runs + out) + ((L - 1) * out + more))
        <3>1. L * out + L \in Int /\ (runs + out) + ((L - 1) * out + more) \in Int
            BY <2>6
        <3> QED BY <2>1, <2>5, <3>1, Monotone
    <2>9. n * ((runs + out) + ((L - 1) * out + more))
             = n * (runs + out) + n * ((L - 1) * out + more)
        BY <2>1, <2>6, Distribute
    <2>10. CommittedIslands <= n * (runs + out) + n * ((L - 1) * out + more)
        <3> DEFINE a == (out + 1) * (L * n)
                   b == n * (L * out + L)
                   c == n * (runs + out) + n * ((L - 1) * out + more)
        <3>1. a = b /\ b <= c /\ CommittedIslands <= a
            BY <2>2, <2>7, <2>8, <2>9
        <3>2. b \in Nat /\ c \in Nat
            BY <2>1, <2>6
        <3> HIDE DEF a, b, c
        <3>3. CommittedIslands <= c
            BY <2>2, <3>1, <3>2
        <3> QED BY <3>3 DEF c
    <2>11. LeftoversAreEdges
        BY DEF IInv
    <2> QED BY <2>3, <2>4, <2>10, <2>11 DEF n, out, more, runs
<1> QED BY <1>1, PageInvariant, RunsInvariant, PTL

----------------------------------------------------------------------------
(* What the manifests say of a file.                                       *)

\* What a writer of the format guarantees of a table, and no reader checks: no
\* name twice, the data begin with a tensor and go on to the last, and the
\* embedding is not empty.
Written(f) ==
    /\ \A i, j \in Slots(f) : Name(f, i) = Name(f, j) => i = j
    /\ \E i \in Slots(f) : f.tensors[i].offset = 0
    /\ \A i \in Slots(f) : Span(f, i) >= 0
    /\ Span(f, Global(f, TokenEmbd)) > 0

\* Parts of which no two overlap have their sizes' sum together.
PartsApart(F, S) ==
    /\ \A x \in S : IsFiniteSet(F[x])
    /\ \A x, y \in S : x # y => F[x] \cap F[y] = {}

LEMMA UnionSize ==
    ASSUME NEW S, NEW g, NEW h, NEW F, IsFiniteSet(S), Sums(h, g, SUBSET S), PartsApart(F, S),
           \A x \in S : g[x] = Cardinality(F[x])
    PROVE  IsFiniteSet(Whole(F, S)) /\ h[S] = Cardinality(Whole(F, S))
<1> DEFINE Good(T) == IsFiniteSet(Whole(F, T)) /\ h[T] = Cardinality(Whole(F, T))
           Family == {T \in SUBSET S : Good(T)}
<1>1. Good({})
    <2>1. Whole(F, {}) = {} /\ h[{}] = 0
        BY DEF Whole, Sums
    <2> QED BY <2>1, FS_EmptySet
<1>2. ASSUME NEW T \in SUBSET S, T # {}, Good(T \ {Pick(T)}) PROVE Good(T)
    <2> DEFINE x == Pick(T)
               A == F[x]
               B == Whole(F, T \ {x})
    <2>1. x \in T /\ x \in S
        BY <1>2 DEF Pick
    <2>2. Whole(F, T) = A \cup B /\ A \cap B = {}
        BY <2>1 DEF Whole, PartsApart
    <2>3. IsFiniteSet(A) /\ IsFiniteSet(B) /\ h[T \ {x}] = Cardinality(B) /\ g[x] = Cardinality(A)
        BY <1>2, <2>1 DEF PartsApart
    <2>4. h[T] = g[x] + h[T \ {x}]
        BY <1>2 DEF Sums
    <2> HIDE DEF A, B, x
    <2>5. /\ IsFiniteSet(A \cup B)
          /\ Cardinality(A \cup B) = Cardinality(A) + Cardinality(B) - Cardinality(A \cap B)
        BY <2>3, FS_Union
    <2>6. Cardinality(A \cap B) = 0 /\ Cardinality(A) \in Nat /\ Cardinality(B) \in Nat
        BY <2>2, <2>3, FS_EmptySet, FS_CardinalityType
    <2> QED BY <2>2, <2>3, <2>4, <2>5, <2>6
<1>3. S \in Family
    <2>1. {} \in Family
        BY <1>1
    <2>2. ASSUME NEW T \in SUBSET S, T # {}, T \ {Pick(T)} \in Family PROVE T \in Family
        BY <1>2, <2>2
    <2> HIDE DEF Family
    <2> QED BY <2>1, <2>2, EveryRest
<1> QED BY <1>3

\* Spans adds up what it is meant to add up.
LEMMA SpansAreSums ==
    ASSUME NEW f, NEW set, IsFiniteSet(set)
    PROVE  \E h : /\ Sums(h, [i \in set |-> Span(f, i)], SUBSET set)
                  /\ Spans(f, set) = h[set]
<1> DEFINE g == [i \in set |-> Span(f, i)]
           P(h) == h = [t \in SUBSET set |->
                          IF t = {} THEN 0 ELSE Span(f, Pick(t)) + h[t \ {Pick(t)}]]
<1>1. ASSUME NEW t \in SUBSET set, t # {} PROVE g[Pick(t)] = Span(f, Pick(t))
    <2>1. Pick(t) \in set
        BY <1>1 DEF Pick
    <2> QED BY <2>1
<1>2. ASSUME NEW h PROVE P(h) <=> Sums(h, g, SUBSET set)
    <2>1. ASSUME NEW t \in SUBSET set
          PROVE  (IF t = {} THEN 0 ELSE Span(f, Pick(t)) + h[t \ {Pick(t)}])
                    = (IF t = {} THEN 0 ELSE g[Pick(t)] + h[t \ {Pick(t)}])
        <3> HIDE DEF g
        <3> QED BY <1>1
    <2> HIDE DEF g
    <2>2. [t \in SUBSET set |-> IF t = {} THEN 0 ELSE Span(f, Pick(t)) + h[t \ {Pick(t)}]]
            = [t \in SUBSET set |-> IF t = {} THEN 0 ELSE g[Pick(t)] + h[t \ {Pick(t)}]]
        BY <2>1
    <2> QED BY <2>2, Zenon DEF Sums
<1>3. \E h : P(h)
    <2>1. \E h : Sums(h, g, SUBSET set)
        <3> HIDE DEF g
        <3> QED BY SumsExist
    <2> HIDE DEF P, g
    <2> QED BY <1>2, <2>1
<1>4. P(CHOOSE h : P(h))
    <2> HIDE DEF P
    <2> QED BY <1>3
<1>5. Spans(f, set) = (CHOOSE h : P(h))[set]
    BY DEF Spans, SumOf, MapThenSumSet, MapThenFoldSet, Pick
<1> HIDE DEF P, g
<1>6. Sums(CHOOSE h : P(h), g, SUBSET set)
    BY <1>2, <1>4
<1> QED BY <1>5, <1>6 DEF g

\* The bytes of a tensor, and of several, from the start of the data.
BytesOfTensor(f) ==
    [i \in Slots(f) |-> f.tensors[i].offset .. (f.tensors[i].offset + Span(f, i) - 1)]
BytesOfSlots(f, set) == Whole(BytesOfTensor(f), set)

LEMMA TensorBytes ==
    ASSUME NEW f, FileOK(f), Written(f)
    PROVE  /\ IsFiniteSet(Slots(f))
           /\ \A i \in Slots(f) : /\ f.tensors[i].offset \in Nat /\ Span(f, i) \in Nat
                                  /\ IsFiniteSet(BytesOfTensor(f)[i])
                                  /\ Cardinality(BytesOfTensor(f)[i]) = Span(f, i)
           /\ PartsApart(BytesOfTensor(f), Slots(f))
<1>1. IsFiniteSet(Slots(f))
    <2>1. PICK n \in Nat : Slots(f) = 1 .. n
        BY DEF FileOK
    <2> QED BY <2>1, FS_Interval
<1>2. ASSUME NEW i \in Slots(f)
      PROVE  /\ f.tensors[i].offset \in Nat /\ Span(f, i) \in Nat
             /\ IsFiniteSet(BytesOfTensor(f)[i])
             /\ Cardinality(BytesOfTensor(f)[i]) = Span(f, i)
    <2>1. f.tensors[i].offset \in Nat /\ Span(f, i) \in Int /\ Span(f, i) >= 0
        BY SpanEnds DEF FileOK, Written
    <2> DEFINE a == f.tensors[i].offset
               n == Span(f, i)
    <2>2. BytesOfTensor(f)[i] = a .. (a + n - 1)
        BY DEF BytesOfTensor
    <2>3. a \in Nat /\ n \in Nat
        BY <2>1
    <2> HIDE DEF a, n
    <2>4. IsFiniteSet(a .. (a + n - 1)) /\ Cardinality(a .. (a + n - 1)) = n
        BY <2>3, FS_Interval
    <2> QED BY <2>2, <2>3, <2>4 DEF a, n
<1>3. ASSUME NEW i \in Slots(f), NEW j \in Slots(f), i # j
      PROVE  BytesOfTensor(f)[i] \cap BytesOfTensor(f)[j] = {}
    <2>1. \/ f.tensors[i].offset + Span(f, i) <= f.tensors[j].offset
          \/ f.tensors[j].offset + Span(f, j) <= f.tensors[i].offset
        BY <1>3, AfterTotal, SpanEnds
    <2>2. /\ f.tensors[i].offset \in Nat /\ Span(f, i) \in Nat
          /\ f.tensors[j].offset \in Nat /\ Span(f, j) \in Nat
        BY <1>2
    <2> QED BY <2>1, <2>2 DEF BytesOfTensor
<1> QED BY <1>1, <1>2, <1>3 DEF PartsApart

\* The sum of spans is a number of bytes.
LEMMA SpansSize ==
    ASSUME NEW f, FileOK(f), Written(f), NEW set \in SUBSET Slots(f)
    PROVE  /\ IsFiniteSet(BytesOfSlots(f, set)) /\ Spans(f, set) \in Nat
           /\ Spans(f, set) = Cardinality(BytesOfSlots(f, set))
<1>1. IsFiniteSet(set)
    BY TensorBytes, FS_Subset
<1>2. PICK h : /\ Sums(h, [i \in set |-> Span(f, i)], SUBSET set)
               /\ Spans(f, set) = h[set]
    BY <1>1, SpansAreSums
<1>3. PartsApart(BytesOfTensor(f), set)
    BY TensorBytes DEF PartsApart
<1>4. \A i \in set : [k \in set |-> Span(f, k)][i] = Cardinality(BytesOfTensor(f)[i])
    BY TensorBytes
<1>5. /\ IsFiniteSet(Whole(BytesOfTensor(f), set))
      /\ h[set] = Cardinality(Whole(BytesOfTensor(f), set))
    <2> DEFINE g == [k \in set |-> Span(f, k)]
    <2>1. Sums(h, g, SUBSET set) /\ \A i \in set : g[i] = Cardinality(BytesOfTensor(f)[i])
        BY <1>2, <1>4
    <2> HIDE DEF g
    <2>2. PartsApart(BytesOfTensor(f), set)
        BY <1>3
    <2> DEFINE F == BytesOfTensor(f)
    <2>3. Sums(h, g, SUBSET set) /\ PartsApart(F, set) /\ \A i \in set : g[i] = Cardinality(F[i])
        BY <2>1, <2>2
    <2> HIDE DEF F
    <2>4. IsFiniteSet(Whole(F, set)) /\ h[set] = Cardinality(Whole(F, set))
        BY <1>1, <2>3, UnionSize
    <2> QED BY <2>4 DEF F
<1> QED BY <1>2, <1>5, FS_CardinalityType DEF BytesOfSlots

\* Sets of tensors that share none add up; tensors of no bytes together have none each.
LEMMA SpansAdd ==
    ASSUME NEW f, FileOK(f), Written(f), NEW A \in SUBSET Slots(f), NEW B \in SUBSET Slots(f),
           A \cap B = {}
    PROVE  Spans(f, A \cup B) = Spans(f, A) + Spans(f, B)
<1> DEFINE X == BytesOfSlots(f, A)
           Y == BytesOfSlots(f, B)
<1>1. A \cup B \in SUBSET Slots(f)
    OBVIOUS
<1>2. /\ IsFiniteSet(X) /\ Spans(f, A) = Cardinality(X)
      /\ IsFiniteSet(Y) /\ Spans(f, B) = Cardinality(Y)
    BY SpansSize
<1>3. Spans(f, A \cup B) = Cardinality(BytesOfSlots(f, A \cup B))
    BY <1>1, SpansSize
<1>4. BytesOfSlots(f, A \cup B) = X \cup Y
    BY DEF BytesOfSlots, Whole
<1>5. X \cap Y = {}
    <2> DEFINE F == BytesOfTensor(f)
    <2>1. \A i, j \in Slots(f) : i # j => F[i] \cap F[j] = {}
        BY TensorBytes DEF PartsApart
    <2>2. X = UNION {F[i] : i \in A} /\ Y = UNION {F[i] : i \in B}
        BY DEF BytesOfSlots, Whole
    <2> HIDE DEF F, X, Y
    <2> QED BY <2>1, <2>2
<1> HIDE DEF X, Y
<1>6. Cardinality(X \cup Y) = Cardinality(X) + Cardinality(Y) - Cardinality(X \cap Y)
    BY <1>2, FS_Union
<1>7. Cardinality(X \cap Y) = 0 /\ Cardinality(X) \in Nat /\ Cardinality(Y) \in Nat
    BY <1>2, <1>5, FS_EmptySet, FS_CardinalityType
<1>8. Cardinality(X \cup Y) = Cardinality(X) + Cardinality(Y)
    BY <1>6, <1>7
<1> QED BY <1>2, <1>3, <1>4, <1>8

LEMMA SpansOfOne ==
    ASSUME NEW f, FileOK(f), Written(f), NEW i \in Slots(f)
    PROVE  Spans(f, {i}) = Span(f, i)
<1>1. BytesOfSlots(f, {i}) = BytesOfTensor(f)[i]
    BY DEF BytesOfSlots, Whole
<1> QED BY <1>1, SpansSize, TensorBytes

LEMMA NoSpans ==
    ASSUME NEW f, FileOK(f), Written(f), NEW A \in SUBSET Slots(f), Spans(f, A) = 0, NEW i \in A
    PROVE  Span(f, i) = 0
<1>1. BytesOfSlots(f, A) = {}
    BY SpansSize, FS_EmptySet
<1>2. BytesOfTensor(f)[i] = {}
    BY <1>1 DEF BytesOfSlots, Whole
<1>3. Span(f, i) = Cardinality({})
    BY <1>2, TensorBytes
<1> QED BY <1>3, FS_EmptySet

\* The data's start and length; a name leads to the tensor that has it.
LEMMA DataIs ==
    ASSUME NEW f, FileOK(f)
    PROVE  DataStartOf(f) \in Nat /\ DataBytes(f) \in Int /\ f.size \in Nat
           /\ f.size = DataStartOf(f) + DataBytes(f)
<1>1. f.header \in Nat /\ f.align \in Nat \ {0} /\ f.size \in Nat
    BY DEF FileOK
<1>2. (-f.header) % f.align \in Nat
    BY <1>1
<1>3. DataStartOf(f) \in Nat
    BY <1>1, <1>2 DEF DataStartOf
<1> QED BY <1>1, <1>3 DEF DataBytes

LEMMA SlotOfName ==
    ASSUME NEW f, FileOK(f), Written(f), NEW i \in Slots(f)
    PROVE  Slot(f, Name(f, i)) = i
<1>1. i \in Named(f, Name(f, i))
    BY DEF Named
<1>2. Slot(f, Name(f, i)) \in Named(f, Name(f, i))
    BY <1>1, SlotIsNamed
<1> QED BY <1>2 DEF Named, Written

\* Tensors lie inside the data.
LEMMA TensorEnds ==
    ASSUME NEW f, FileOK(f), Written(f), NEW i \in Slots(f)
    PROVE  f.tensors[i].offset + Span(f, i) <= DataBytes(f)
<1> DEFINE S == {f.tensors[j].offset : j \in Slots(f)}
           off(j) == f.tensors[j].offset
<1>1. PICK n \in Nat : Slots(f) = 1 .. n
    BY DEF FileOK
<1>2. \A j \in Slots(f) : off(j) \in Nat /\ Span(f, j) \in Nat /\ j \in Nat
    BY <1>1, TensorBytes
<1>3. DataBytes(f) \in Int
    BY DataIs
\* The last tensor of the order.
<1>4. \E last \in Slots(f) : After(f, last) = {} /\ off(i) + Span(f, i) <= off(last) + Span(f, last)
    <2>1. CASE After(f, i) = {}
        BY <1>2, <2>1
    <2>2. CASE After(f, i) # {}
        <3> DEFINE Later(j) == After(f, j)
                   N == {Cardinality(Later(j)) : j \in Later(i)}
        <3>1. \A j \in Slots(f) : IsFiniteSet(Later(j)) /\ Cardinality(Later(j)) \in Nat
            BY TensorBytes, FS_Subset, FS_CardinalityType DEF After
        <3>2. Later(i) \in SUBSET Slots(f)
            BY DEF After
        <3>3. Min(N) \in N /\ \A x \in N : Min(N) <= x
            <4>1. N \in SUBSET Nat /\ N # {}
                BY <2>2, <3>1, <3>2
            <4> HIDE DEF N
            <4> QED BY <4>1, LeastNat
        <3>4. PICK j \in Later(i) : Min(N) = Cardinality(Later(j))
            BY <3>3
        <3>5. Later(j) = {}
            <4> SUFFICES ASSUME NEW k \in Later(j) PROVE FALSE
                OBVIOUS
            <4>1. j \in Slots(f) /\ k \in Slots(f)
                BY <3>2 DEF After
            <4>2. k \in Later(i) /\ k \notin Later(k) /\ Later(k) \in SUBSET Later(j)
                BY <1>2, <4>1 DEF After
            <4>3. Cardinality(Later(k)) <= Cardinality(Later(j))
                  /\ Cardinality(Later(k)) # Cardinality(Later(j))
                <5> HIDE DEF Later
                <5>1. /\ Cardinality(Later(k)) <= Cardinality(Later(j))
                      /\ Cardinality(Later(j)) = Cardinality(Later(k)) => Later(j) = Later(k)
                    BY <3>1, <4>1, <4>2, FS_Subset
                <5> QED BY <4>2, <5>1
            <4>4. Cardinality(Later(j)) <= Cardinality(Later(k))
                BY <3>3, <3>4, <4>2
            <4> HIDE DEF Later, N
            <4> QED BY <3>1, <4>1, <4>3, <4>4
        <3>6. off(i) + Span(f, i) <= off(j)
            BY <3>4, SpanEnds
        <3>7. j \in Slots(f)
            BY <3>2, <3>4
        <3> HIDE DEF Later
        <3>8. off(i) + Span(f, i) <= off(j) + Span(f, j)
            BY <1>2, <3>6, <3>7
        <3>9. After(f, j) = {}
            BY <3>5 DEF Later
        <3> QED BY <3>7, <3>8, <3>9
    <2> QED BY <2>1, <2>2
<1>5. PICK last \in Slots(f) :
          After(f, last) = {} /\ off(i) + Span(f, i) <= off(last) + Span(f, last)
    BY <1>4
<1>6. Span(f, last) = DataBytes(f) - off(last)
    BY <1>5 DEF Span
<1>7. off(last) + Span(f, last) = DataBytes(f)
    BY <1>2, <1>3, <1>6
<1> QED BY <1>5, <1>7

\* Every byte of the data is a tensor's: the last one that does not start after it.
LEMMA ByteHasTensor ==
    ASSUME NEW f, FileOK(f), Written(f), NEW x \in Nat, x < DataBytes(f)
    PROVE  \E i \in Slots(f) : f.tensors[i].offset <= x /\ x < f.tensors[i].offset + Span(f, i)
<1> DEFINE off(j) == f.tensors[j].offset
           Before == {j \in Slots(f) : off(j) <= x}
           O == {off(j) : j \in Before}
<1>1. PICK n \in Nat : Slots(f) = 1 .. n
    BY DEF FileOK
<1>2. \A j \in Slots(f) : off(j) \in Nat /\ Span(f, j) \in Nat /\ j \in Nat /\ j <= n
    BY <1>1, TensorBytes
<1>3. PICK top \in O : \A o \in O : o <= top
    <2>1. O \in SUBSET Nat /\ \A o \in O : o <= x
        BY <1>2
    <2>2. O # {}
        <3>1. PICK j \in Slots(f) : off(j) = 0
            BY DEF Written
        <3>2. j \in Before
            BY <3>1
        <3> QED BY <3>2
    <2> HIDE DEF O
    <2> QED BY <2>1, <2>2, GreatestNat
<1> DEFINE I == {j \in Before : off(j) = top}
<1>4. PICK i \in I : \A j \in I : j <= i
    <2>1. I \in SUBSET Nat /\ \A j \in I : j <= n
        BY <1>2
    <2>2. I # {}
        BY <1>3
    <2> HIDE DEF I
    <2> QED BY <2>1, <2>2, GreatestNat
<1>5. i \in Slots(f) /\ off(i) <= x /\ off(i) = top
    BY <1>4
<1>6. \A j \in After(f, i) : x < off(j)
    <2> SUFFICES ASSUME NEW j \in After(f, i), ~(x < off(j)) PROVE FALSE
        OBVIOUS
    <2>1. j \in Slots(f) /\ (off(j) > off(i) \/ (off(j) = off(i) /\ j > i))
        BY DEF After
    <2>2. j \in Before /\ off(j) <= top
        <3>1. off(j) <= x
            BY <1>2, <2>1
        <3>2. j \in Before
            BY <2>1, <3>1
        <3> QED BY <1>3, <3>2
    <2>3. off(j) = off(i) /\ j > i
        BY <1>2, <1>5, <2>1, <2>2
    <2>4. j \in I
        BY <1>5, <2>2, <2>3
    <2>5. j <= i
        BY <1>4, <2>4
    <2> QED BY <1>2, <1>5, <2>1, <2>3, <2>5
<1>7. x < off(i) + Span(f, i)
    <2>1. CASE After(f, i) = {}
        <3>1. Span(f, i) = DataBytes(f) - off(i)
            BY <2>1 DEF Span
        <3>2. DataBytes(f) \in Int
            BY DataIs
        <3> QED BY <1>2, <1>5, <3>1, <3>2
    <2>2. CASE After(f, i) # {}
        <3> DEFINE S == {off(j) : j \in After(f, i)}
        <3>1. S \in SUBSET Nat /\ S # {}
            BY <1>2, <2>2 DEF After
        <3>2. Min(S) \in S
            <4> HIDE DEF S
            <4> QED BY <3>1, LeastNat
        <3>3. x < Min(S) /\ Min(S) \in Nat
            BY <1>6, <3>1, <3>2
        <3>4. Span(f, i) = Min(S) - off(i)
            BY <2>2 DEF Span
        <3> HIDE DEF S
        <3> QED BY <1>2, <1>5, <3>3, <3>4
    <2> QED BY <2>1, <2>2
<1> QED BY <1>5, <1>7

LEMMA AllSpans ==
    ASSUME NEW f, FileOK(f), Written(f)
    PROVE  Spans(f, Slots(f)) = DataBytes(f) /\ DataBytes(f) \in Nat
<1>1. DataBytes(f) \in Nat
    <2>1. PICK i \in Slots(f) : f.tensors[i].offset = 0
        BY DEF Written
    <2>2. f.tensors[i].offset + Span(f, i) <= DataBytes(f) /\ DataBytes(f) \in Int
          /\ Span(f, i) \in Nat
        BY TensorEnds, DataIs, TensorBytes
    <2> QED BY <2>1, <2>2
<1>2. BytesOfSlots(f, Slots(f)) = 0 .. (DataBytes(f) - 1)
    <2>1. ASSUME NEW i \in Slots(f), NEW x \in BytesOfTensor(f)[i]
          PROVE  x \in 0 .. (DataBytes(f) - 1)
        <3>1. f.tensors[i].offset \in Nat /\ Span(f, i) \in Nat
              /\ f.tensors[i].offset + Span(f, i) <= DataBytes(f)
            BY TensorBytes, TensorEnds
        <3>2. x \in f.tensors[i].offset .. (f.tensors[i].offset + Span(f, i) - 1)
            BY <2>1 DEF BytesOfTensor
        <3> QED BY <1>1, <3>1, <3>2
    <2>2. ASSUME NEW x \in 0 .. (DataBytes(f) - 1)
          PROVE  \E i \in Slots(f) : x \in BytesOfTensor(f)[i]
        <3>1. x \in Nat /\ x < DataBytes(f)
            BY <1>1
        <3>2. PICK i \in Slots(f) :
                  f.tensors[i].offset <= x /\ x < f.tensors[i].offset + Span(f, i)
            BY <3>1, ByteHasTensor
        <3>3. f.tensors[i].offset \in Nat /\ Span(f, i) \in Nat
            BY TensorBytes
        <3>4. x \in f.tensors[i].offset .. (f.tensors[i].offset + Span(f, i) - 1)
            BY <3>1, <3>2, <3>3
        <3> QED BY <3>4 DEF BytesOfTensor
    <2> QED BY <2>1, <2>2 DEF BytesOfSlots, Whole
<1>3. Cardinality(0 .. (DataBytes(f) - 1)) = DataBytes(f)
    BY <1>1, FS_Interval
<1> QED BY <1>1, <1>2, <1>3, SpansSize

\* The totals: the third reader's, and the layers' from the first block's.
LEMMA TotalsAgree ==
    ASSUME NEW f, FileOK(f), Written(f), TrunkAccepted(f)
    PROVE  /\ ReportedNonExpert(f) + Spans(f, {i \in Trunk(f) : f.tensors[i].exps}) = NonExpertBytes
           /\ Receipt(f).perLayer = Spans(f, Trunk(f) \ Glob(f))
<1> DEFINE exps == {i \in Slots(f) : f.tensors[i].exps}
           trunkExps == {i \in Trunk(f) : f.tensors[i].exps}
           plain == Trunk(f) \ trunkExps
           layers == Trunk(f) \ Glob(f)
           perLayer == L * Spans(f, {i \in Trunk(f) : f.tensors[i].block = 0})
<1>1. /\ exps \in SUBSET Slots(f) /\ trunkExps \in SUBSET Slots(f) /\ plain \in SUBSET Slots(f)
      /\ Trunk(f) \in SUBSET Slots(f) /\ Glob(f) \in SUBSET Slots(f) /\ layers \in SUBSET Slots(f)
    BY DEF Trunk, Glob
<1>2. /\ Slots(f) = exps \cup plain /\ exps \cap plain = {}
      /\ Trunk(f) = trunkExps \cup plain /\ trunkExps \cap plain = {}
      /\ Trunk(f) = Glob(f) \cup layers /\ Glob(f) \cap layers = {}
    BY DEF Trunk, Glob, FileOK
<1>3. /\ Spans(f, Trunk(f)) = NonExpertBytes
      /\ Spans(f, Trunk(f)) + DataStartOf(f) = ResidentAlways
      /\ Spans(f, Glob(f)) + perLayer + DataStartOf(f) = ResidentAlways
    BY DEF TrunkAccepted, Reconciled
<1>4. Receipt(f).perLayer = perLayer
    BY DEF Receipt
<1>5. perLayer \in Nat
    <2> DEFINE one == {i \in Trunk(f) : f.tensors[i].block = 0}
    <2>1. one \in SUBSET Slots(f)
        BY <1>1
    <2>2. Spans(f, one) \in Nat
        <3> HIDE DEF one
        <3> QED BY <2>1, SpansSize
    <2>3. L \in Nat
        BY ManifestAssumption
    <2> QED BY <2>2, <2>3
<1>6. ReportedNonExpert(f) = DataBytes(f) - Spans(f, exps)
    BY DEF ReportedNonExpert
<1> HIDE DEF exps, trunkExps, plain, layers, perLayer
<1>7. /\ Spans(f, exps \cup plain) = Spans(f, exps) + Spans(f, plain)
      /\ Spans(f, trunkExps \cup plain) = Spans(f, trunkExps) + Spans(f, plain)
      /\ Spans(f, Glob(f) \cup layers) = Spans(f, Glob(f)) + Spans(f, layers)
    BY <1>1, <1>2, SpansAdd
<1>8. /\ Spans(f, exps) \in Nat /\ Spans(f, plain) \in Nat /\ Spans(f, trunkExps) \in Nat
      /\ Spans(f, Glob(f)) \in Nat /\ Spans(f, layers) \in Nat
    BY <1>1, SpansSize
<1>9. DataBytes(f) = Spans(f, exps) + Spans(f, plain)
    BY <1>2, <1>7, AllSpans
<1>10. Spans(f, Trunk(f)) = Spans(f, trunkExps) + Spans(f, plain)
    BY <1>2, <1>7
<1>11. Spans(f, Trunk(f)) = Spans(f, Glob(f)) + Spans(f, layers)
    BY <1>2, <1>7
<1>12. DataStartOf(f) \in Nat
    BY DataIs
<1>13. ReportedNonExpert(f) + Spans(f, trunkExps) = NonExpertBytes
    BY <1>3, <1>6, <1>8, <1>9, <1>10
<1>14. perLayer = Spans(f, layers)
    BY <1>3, <1>5, <1>8, <1>11, <1>12
<1> QED BY <1>4, <1>13, <1>14 DEF trunkExps, layers

\* The tensors that the trunk manifest has rows for.
RowSlots(f) ==
    PerLayerSlots(f)
        \cup {Global(f, OutputNorm), Global(f, TokenEmbd), Global(f, Output)}

LEMMA GlobalNames ==
    ASSUME NEW f, FileOK(f), TrunkAccepted(f), NEW name \in {TokenEmbd, Output, OutputNorm}
    PROVE  /\ Global(f, name) \in Slots(f) /\ Global(f, name) \in Glob(f)
           /\ Name(f, Global(f, name)) = <<-1, name>>
<1>1. Named(f, <<-1, name>>) # {}
    BY DEF TrunkAccepted
<1>2. Global(f, name) \in Named(f, <<-1, name>>)
    BY <1>1, SlotIsNamed DEF Global
<1>3. Global(f, name) \in Slots(f) /\ Name(f, Global(f, name)) = <<-1, name>>
    BY <1>2 DEF Named
<1>4. f.tensors[Global(f, name)].block = -1
    BY <1>3 DEF Name
<1> QED BY <1>3, <1>4 DEF Glob, Trunk, IsExpert

LEMMA PerLayerInTrunk ==
    ASSUME NEW f, FileOK(f), TrunkAccepted(f), NEW i \in PerLayerSlots(f)
    PROVE  i \in Trunk(f) \ Glob(f)
<1>1. PICK name \in Blocks \X PerLayerSuffixes(f) : i = Slot(f, name)
    BY DEF PerLayerSlots
<1>2. Named(f, name) # {}
    BY <1>1 DEF TrunkAccepted
<1>3. i \in Slots(f) /\ Name(f, i) = name
    BY <1>1, <1>2, SlotIsNamed DEF Named
<1>4. f.tensors[i].block = name[1] /\ f.tensors[i].suffix = name[2]
    BY <1>3 DEF Name
<1>5. name[1] # -1 /\ name[2] \in PerLayerSuffixes(f)
    BY <1>1 DEF Blocks
<1>6. name[2] \notin ExpertSuffixes
    <2>1. PICK j \in Trunk(f) \ Glob(f) : name[2] = f.tensors[j].suffix
        BY <1>5 DEF PerLayerSuffixes
    <2>2. f.tensors[j].block # -1 /\ ~IsExpert(f, j)
        BY <2>1 DEF Glob, Trunk
    <2> QED BY <2>1, <2>2 DEF IsExpert
<1> QED BY <1>3, <1>4, <1>5, <1>6 DEF Trunk, Glob, IsExpert

\* A tensor of embedding rows has Vocab times those of one row.
LEMMA RowBytesIs ==
    ASSUME NEW f, FileOK(f), Written(f), TrunkAccepted(f)
    PROVE  /\ RowBytes(f) \in Nat /\ Vocab \in Nat \ {0}
           /\ Vocab * RowBytes(f) = Span(f, Global(f, TokenEmbd))
           /\ Span(f, Global(f, Output)) = Span(f, Global(f, TokenEmbd))
<1> DEFINE n == Span(f, Global(f, TokenEmbd))
<1>1. n \in Nat
    BY GlobalNames, TensorBytes
<1>2. n % Vocab = 0 /\ Span(f, Global(f, Output)) = n
    BY DEF TrunkAccepted
<1>3. Vocab \in Nat \ {0}
    BY ManifestAssumption
<1>4. RowBytes(f) = n \div Vocab
    BY DEF RowBytes
<1> HIDE DEF n
<1>5. n \div Vocab \in Nat /\ Vocab * (n \div Vocab) = n
    BY <1>1, <1>2, <1>3
<1> QED BY <1>2, <1>3, <1>4, <1>5 DEF n

\* What the last assertion is for: a tensor of the trunk without a row is empty.
LEMMA RestIsEmpty ==
    ASSUME NEW f, FileOK(f), Written(f), TrunkAccepted(f), NEW i \in Trunk(f) \ RowSlots(f)
    PROVE  Span(f, i) = 0
<1> DEFINE norm == Global(f, OutputNorm)
           embd == Global(f, TokenEmbd)
           out  == Global(f, Output)
           P == PerLayerSlots(f)
           T == Trunk(f)
           rest == T \ RowSlots(f)
<1>1. /\ T \in SUBSET Slots(f) /\ P \in SUBSET T /\ rest \in SUBSET Slots(f)
      /\ norm \in T /\ embd \in T /\ out \in T
      /\ norm \notin P /\ embd \notin P /\ out \notin P
    BY PerLayerInTrunk, GlobalNames DEF Trunk, Glob
<1>2. norm # embd /\ norm # out /\ embd # out
    <2>1. Name(f, norm) = <<-1, OutputNorm>> /\ Name(f, embd) = <<-1, TokenEmbd>>
          /\ Name(f, out) = <<-1, Output>>
        BY GlobalNames
    <2> QED BY <2>1, ManifestAssumption
<1>3. RowSlots(f) = P \cup {norm, embd, out}
    BY DEF RowSlots
<1>4. Spans(f, P) + Span(f, norm) + 2 * Vocab * RowBytes(f) = Spans(f, T)
    BY DEF TrunkAccepted, Covered
<1>5. 2 * Vocab * RowBytes(f) = Span(f, embd) + Span(f, out)
    <2>1. \A v, r \in Nat : 2 * v * r = v * r + v * r
        OBVIOUS
    <2> QED BY <2>1, RowBytesIs
<1> HIDE DEF norm, embd, out, P, T
<1>6. Spans(f, P \cup {norm}) = Spans(f, P) + Span(f, norm)
    <2>1. /\ {norm} \in SUBSET Slots(f) /\ P \in SUBSET Slots(f) /\ P \cap {norm} = {}
          /\ norm \in Slots(f)
        BY <1>1
    <2>2. Spans(f, {norm}) = Span(f, norm)
        BY <2>1, SpansOfOne
    <2> QED BY <2>1, <2>2, SpansAdd
<1>7. Spans(f, P \cup {norm} \cup {embd}) = Spans(f, P \cup {norm}) + Span(f, embd)
    <2>1. /\ {embd} \in SUBSET Slots(f) /\ P \cup {norm} \in SUBSET Slots(f)
          /\ (P \cup {norm}) \cap {embd} = {} /\ embd \in Slots(f)
        BY <1>1, <1>2
    <2>2. Spans(f, {embd}) = Span(f, embd)
        BY <2>1, SpansOfOne
    <2> QED BY <2>1, <2>2, SpansAdd
<1>8. Spans(f, P \cup {norm} \cup {embd} \cup {out})
        = Spans(f, P \cup {norm} \cup {embd}) + Span(f, out)
    <2>1. /\ {out} \in SUBSET Slots(f) /\ P \cup {norm} \cup {embd} \in SUBSET Slots(f)
          /\ (P \cup {norm} \cup {embd}) \cap {out} = {} /\ out \in Slots(f)
        BY <1>1, <1>2
    <2>2. Spans(f, {out}) = Span(f, out)
        BY <2>1, SpansOfOne
    <2> QED BY <2>1, <2>2, SpansAdd
<1>9. /\ RowSlots(f) = P \cup {norm} \cup {embd} \cup {out}
      /\ RowSlots(f) \in SUBSET Slots(f) /\ T = RowSlots(f) \cup rest /\ RowSlots(f) \cap rest = {}
    BY <1>1, <1>3
<1>10. Spans(f, T) = Spans(f, RowSlots(f)) + Spans(f, rest)
    <2> HIDE DEF rest
    <2>1. Spans(f, RowSlots(f) \cup rest) = Spans(f, RowSlots(f)) + Spans(f, rest)
        BY <1>1, <1>9, SpansAdd
    <2> QED BY <1>9, <2>1
<1>11. /\ Spans(f, P) \in Nat /\ Span(f, norm) \in Nat /\ Span(f, embd) \in Nat
       /\ Span(f, out) \in Nat /\ Spans(f, rest) \in Nat
    <2>1. P \in SUBSET Slots(f) /\ norm \in Slots(f) /\ embd \in Slots(f) /\ out \in Slots(f)
        BY <1>1
    <2> HIDE DEF rest
    <2> QED BY <1>1, <2>1, SpansSize, TensorBytes
<1>12. Spans(f, rest) = 0
    <2> HIDE DEF rest
    <2> QED BY <1>4, <1>5, <1>6, <1>7, <1>8, <1>9, <1>10, <1>11
<1>13. i \in rest
    BY DEF T
<1> HIDE DEF rest
<1> QED BY <1>1, <1>12, <1>13, NoSpans

\* Embedding and output projection are not one tensor: one of them would be empty,
\* and they have the same length.
LEMMA NotTied ==
    ASSUME NEW f, FileOK(f), Written(f), TrunkAccepted(f)
    PROVE  ~Receipt(f).tied
<1> DEFINE embd == Global(f, TokenEmbd)
           out  == Global(f, Output)
<1>1. embd \in Slots(f) /\ out \in Slots(f)
    BY GlobalNames
<1>2. embd # out
    <2>1. Name(f, embd) = <<-1, TokenEmbd>> /\ Name(f, out) = <<-1, Output>>
        BY GlobalNames
    <2> QED BY <2>1, ManifestAssumption
<1>3. Span(f, out) = Span(f, embd) /\ Span(f, embd) > 0
    BY RowBytesIs DEF Written
<1>4. \/ f.tensors[embd].offset + Span(f, embd) <= f.tensors[out].offset
      \/ f.tensors[out].offset + Span(f, out) <= f.tensors[embd].offset
    BY <1>1, <1>2, AfterTotal, SpanEnds
<1>5. /\ f.tensors[embd].offset \in Nat /\ f.tensors[out].offset \in Nat
      /\ Span(f, embd) \in Nat
    BY <1>1, TensorBytes
<1>6. Receipt(f).tied = (f.tensors[embd].offset = f.tensors[out].offset)
    BY DEF Receipt
<1> HIDE DEF embd, out
<1>7. f.tensors[embd].offset # f.tensors[out].offset
    BY <1>3, <1>4, <1>5
<1> QED BY <1>6, <1>7

\* A tensor with rows is cut into so many units of so many bytes.
UnitCount(f, i) ==
    IF IsExpert(f, i) THEN E
    ELSE IF i = Global(f, TokenEmbd) THEN Vocab \div EB
    ELSE IF i = Global(f, Output) THEN HT ELSE 1

UnitLen(f, i) ==
    IF IsExpert(f, i) THEN Span(f, i) \div E
    ELSE IF i = Global(f, TokenEmbd) THEN EB * RowBytes(f)
    ELSE IF i = Global(f, Output) THEN (Vocab \div HT) * RowBytes(f) ELSE Span(f, i)

UnitsOf(f, i) == Units(f, i, UnitCount(f, i), UnitLen(f, i))

ExpertSlots(f) == {Slot(f, name) : name \in ExpertNames}
Manifested(f) == ExpertSlots(f) \cup RowSlots(f)

\* A divisor's blocks and the quotient make up the whole.
LEMMA Blockwise ==
    ASSUME NEW v \in Nat \ {0}, NEW b \in Nat \ {0}, v % b = 0, NEW r \in Nat
    PROVE  /\ v \div b \in Nat \ {0} /\ (v \div b) * (b * r) = v * r
           /\ b * ((v \div b) * r) = v * r
<1> DEFINE q == v \div b
<1>1. q \in Nat /\ b * q = v
    OBVIOUS
<1> HIDE DEF q
<1>2. q # 0
    BY <1>1
<1>3. q * (b * r) = (b * q) * r /\ b * (q * r) = (b * q) * r
    BY <1>1
<1> QED BY <1>1, <1>2, <1>3 DEF q

\* The globals have rows of three shapes, and a layer's tensors one row.
LEMMA TrunkShapes ==
    ASSUME NEW f, FileOK(f), Written(f), TrunkAccepted(f)
    PROVE  /\ Global(f, TokenEmbd) # Global(f, Output)
           /\ \A i \in RowSlots(f) : i \in Slots(f) /\ ~IsExpert(f, i)
           /\ \A i \in PerLayerSlots(f) \cup {Global(f, OutputNorm)} :
                  i # Global(f, TokenEmbd) /\ i # Global(f, Output)
<1> DEFINE norm == Global(f, OutputNorm)
           embd == Global(f, TokenEmbd)
           out  == Global(f, Output)
<1>1. /\ norm \in Glob(f) /\ embd \in Glob(f) /\ out \in Glob(f)
      /\ Name(f, norm) = <<-1, OutputNorm>> /\ Name(f, embd) = <<-1, TokenEmbd>>
      /\ Name(f, out) = <<-1, Output>>
    BY GlobalNames
<1>2. norm # embd /\ norm # out /\ embd # out
    <2> HIDE DEF norm, embd, out
    <2> QED BY <1>1, ManifestAssumption
<1>3. \A i \in PerLayerSlots(f) : i \in Trunk(f) \ Glob(f)
    BY PerLayerInTrunk
<1>4. \A i \in RowSlots(f) : i \in Trunk(f)
    BY <1>1, <1>3 DEF RowSlots, Glob
<1>5. \A i \in RowSlots(f) : i \in Slots(f) /\ ~IsExpert(f, i)
    BY <1>4 DEF Trunk
<1> HIDE DEF norm, embd, out
<1>6. \A i \in PerLayerSlots(f) \cup {norm} : i # embd /\ i # out
    BY <1>1, <1>2, <1>3
<1> QED BY <1>2, <1>5, <1>6 DEF norm, embd, out

\* An expert tensor's rows are its shares.
LEMMA ExpertShapes ==
    ASSUME NEW f, FileOK(f), ExpertsAccepted(f), NEW name \in ExpertNames
    PROVE  LET i == Slot(f, name)
           IN  /\ i \in Slots(f) /\ IsExpert(f, i) /\ UnitCount(f, i) = E
               /\ UnitLen(f, i) = Share(f, name) /\ Share(f, name) \in Nat
               /\ E * Share(f, name) = Span(f, i)
<1> DEFINE i == Slot(f, name)
<1>1. /\ i \in Slots(f) /\ Name(f, i) = name /\ Share(f, name) \in Nat
      /\ E * Share(f, name) = Span(f, i)
    BY AcceptedTensor
<1>2. IsExpert(f, i)
    <2>1. f.tensors[i].block = name[1] /\ f.tensors[i].suffix = name[2]
        BY <1>1 DEF Name
    <2>2. name[1] # -1 /\ name[2] \in ExpertSuffixes
        BY DEF ExpertNames, Blocks
    <2> QED BY <2>1, <2>2 DEF IsExpert
<1>3. UnitCount(f, i) = E /\ UnitLen(f, i) = Share(f, name)
    BY <1>2 DEF UnitCount, UnitLen, Share
<1> QED BY <1>1, <1>2, <1>3

\* The units of a tensor fill it.
LEMMA UnitsFill ==
    ASSUME NEW f, FileOK(f), Written(f), ExpertsAccepted(f), TrunkAccepted(f),
           NEW i \in Manifested(f)
    PROVE  /\ i \in Slots(f) /\ UnitCount(f, i) \in Nat \ {0} /\ UnitLen(f, i) \in Nat
           /\ UnitCount(f, i) * UnitLen(f, i) = Span(f, i)
<1>1. CASE i \in ExpertSlots(f)
    <2>1. PICK name \in ExpertNames : i = Slot(f, name)
        BY <1>1 DEF ExpertSlots
    <2>2. /\ i \in Slots(f) /\ UnitCount(f, i) = E /\ UnitLen(f, i) = Share(f, name)
          /\ Share(f, name) \in Nat /\ E * Share(f, name) = Span(f, i)
        BY <2>1, ExpertShapes
    <2>3. E \in Nat \ {0}
        BY ManifestAssumption
    <2> QED BY <2>2, <2>3
<1>2. CASE i \in RowSlots(f)
    <2>1. /\ i \in Slots(f) /\ ~IsExpert(f, i) /\ Span(f, i) \in Nat
          /\ Global(f, TokenEmbd) # Global(f, Output)
        BY <1>2, TrunkShapes, TensorBytes
    <2>2. /\ RowBytes(f) \in Nat /\ Vocab \in Nat \ {0}
          /\ Vocab * RowBytes(f) = Span(f, Global(f, TokenEmbd))
          /\ Span(f, Global(f, Output)) = Span(f, Global(f, TokenEmbd))
        BY RowBytesIs
    <2>3. EB \in Nat \ {0} /\ HT \in Nat \ {0} /\ Vocab % EB = 0 /\ Vocab % HT = 0
        BY ManifestAssumption
    <2>4. CASE i = Global(f, TokenEmbd)
        <3>1. UnitCount(f, i) = Vocab \div EB /\ UnitLen(f, i) = EB * RowBytes(f)
            BY <2>1, <2>4 DEF UnitCount, UnitLen
        <3>2. /\ Vocab \div EB \in Nat \ {0}
              /\ (Vocab \div EB) * (EB * RowBytes(f)) = Vocab * RowBytes(f)
            BY <2>2, <2>3, Blockwise
        <3>3. EB * RowBytes(f) \in Nat
            BY <2>2, <2>3
        <3> QED BY <2>1, <2>2, <2>4, <3>1, <3>2, <3>3
    <2>5. CASE i = Global(f, Output)
        <3>1. UnitCount(f, i) = HT /\ UnitLen(f, i) = (Vocab \div HT) * RowBytes(f)
            BY <2>1, <2>5 DEF UnitCount, UnitLen
        <3>2. /\ Vocab \div HT \in Nat \ {0}
              /\ HT * ((Vocab \div HT) * RowBytes(f)) = Vocab * RowBytes(f)
            BY <2>2, <2>3, Blockwise
        <3>3. (Vocab \div HT) * RowBytes(f) \in Nat
            BY <2>2, <3>2
        <3> QED BY <2>1, <2>2, <2>3, <2>5, <3>1, <3>2, <3>3
    <2>6. CASE i # Global(f, TokenEmbd) /\ i # Global(f, Output)
        <3>1. UnitCount(f, i) = 1 /\ UnitLen(f, i) = Span(f, i)
            BY <2>1, <2>6 DEF UnitCount, UnitLen
        <3> QED BY <2>1, <3>1
    <2> QED BY <2>4, <2>5, <2>6
<1> QED BY <1>1, <1>2 DEF Manifested

\* The rows of both manifests are the units of the tensors.
AllRows(f) == {[lo |-> r.lo, len |-> r.len] : r \in ExpertRows(f)} \cup TrunkRows(f)

LEMMA ExpertRowsAreUnits ==
    ASSUME NEW f, FileOK(f), ExpertsAccepted(f)
    PROVE  {[lo |-> r.lo, len |-> r.len] : r \in ExpertRows(f)}
              = UNION {UnitsOf(f, i) : i \in ExpertSlots(f)}
<1> DEFINE R == {[lo |-> r.lo, len |-> r.len] : r \in ExpertRows(f)}
           Row(name, e) == [lo |-> AbsOffset(f, Slot(f, name)) + e * Share(f, name),
                            len |-> Share(f, name)]
<1>1. R = {Row(name, e) : name \in ExpertNames, e \in 0 .. (E - 1)}
    <2>1. ASSUME NEW x \in R PROVE \E name \in ExpertNames, e \in 0 .. (E - 1) : x = Row(name, e)
        <3>1. PICK r \in ExpertRows(f) : x = [lo |-> r.lo, len |-> r.len]
            OBVIOUS
        <3>2. PICK name \in ExpertNames, e \in 0 .. (E - 1) :
                  r.len = Share(f, name) /\ r.lo = AbsOffset(f, Slot(f, name)) + e * Share(f, name)
            BY DEF ExpertRows
        <3> QED BY <3>1, <3>2
    <2>2. ASSUME NEW name \in ExpertNames, NEW e \in 0 .. (E - 1) PROVE Row(name, e) \in R
        <3> DEFINE r == [block |-> name[1], suffix |-> name[2], expert |-> e,
                         len |-> Share(f, name),
                         lo |-> AbsOffset(f, Slot(f, name)) + e * Share(f, name)]
        <3>1. r \in ExpertRows(f)
            BY DEF ExpertRows
        <3>2. Row(name, e) = [lo |-> r.lo, len |-> r.len]
            OBVIOUS
        <3> HIDE DEF r, Row
        <3> QED BY <3>1, <3>2
    <2> HIDE DEF R, Row
    <2> QED BY <2>1, <2>2
<1>2. \A name \in ExpertNames :
          UnitsOf(f, Slot(f, name)) = {Row(name, e) : e \in 0 .. (E - 1)}
    <2> TAKE name \in ExpertNames
    <2>1. UnitCount(f, Slot(f, name)) = E /\ UnitLen(f, Slot(f, name)) = Share(f, name)
        BY ExpertShapes
    <2> QED BY <2>1 DEF UnitsOf, Units
<1> HIDE DEF R, Row
<1>3. UNION {UnitsOf(f, i) : i \in ExpertSlots(f)}
        = UNION {UnitsOf(f, Slot(f, name)) : name \in ExpertNames}
    BY DEF ExpertSlots
<1>4. UNION {UnitsOf(f, Slot(f, name)) : name \in ExpertNames} = R
    <2>1. ASSUME NEW name \in ExpertNames, NEW x \in UnitsOf(f, Slot(f, name)) PROVE x \in R
        BY <1>1, <1>2
    <2>2. ASSUME NEW x \in R PROVE \E name \in ExpertNames : x \in UnitsOf(f, Slot(f, name))
        BY <1>1, <1>2
    <2> QED BY <2>1, <2>2
<1> QED BY <1>3, <1>4 DEF R

LEMMA TrunkRowsAreUnits ==
    ASSUME NEW f, FileOK(f), Written(f), TrunkAccepted(f)
    PROVE  TrunkRows(f) = UNION {UnitsOf(f, i) : i \in RowSlots(f)}
<1> DEFINE norm == Global(f, OutputNorm)
           embd == Global(f, TokenEmbd)
           out  == Global(f, Output)
           whole == PerLayerSlots(f) \cup {norm}
<1>1. /\ embd # out /\ \A i \in RowSlots(f) : ~IsExpert(f, i)
      /\ \A i \in whole : i # embd /\ i # out
    BY TrunkShapes
<1>2. whole \in SUBSET RowSlots(f) /\ embd \in RowSlots(f) /\ out \in RowSlots(f)
      /\ RowSlots(f) = whole \cup {embd} \cup {out}
    BY DEF RowSlots
<1>3. \A i \in whole : UnitsOf(f, i) = Units(f, i, 1, Span(f, i))
    <2> TAKE i \in whole
    <2>1. ~IsExpert(f, i) /\ i # embd /\ i # out
        BY <1>1, <1>2
    <2>2. UnitCount(f, i) = 1 /\ UnitLen(f, i) = Span(f, i)
        BY <2>1 DEF UnitCount, UnitLen
    <2> QED BY <2>2 DEF UnitsOf
<1>4. UnitsOf(f, embd) = Units(f, embd, Vocab \div EB, EB * RowBytes(f))
    BY <1>1, <1>2 DEF UnitsOf, UnitCount, UnitLen
<1>5. UnitsOf(f, out) = Units(f, out, HT, (Vocab \div HT) * RowBytes(f))
    BY <1>1, <1>2 DEF UnitsOf, UnitCount, UnitLen
<1>6. TrunkRows(f) = (UNION {Units(f, i, 1, Span(f, i)) : i \in whole})
                        \cup Units(f, embd, Vocab \div EB, EB * RowBytes(f))
                        \cup Units(f, out, HT, (Vocab \div HT) * RowBytes(f))
    BY DEF TrunkRows
<1> HIDE DEF norm, embd, out, whole
<1>7. UNION {Units(f, i, 1, Span(f, i)) : i \in whole} = UNION {UnitsOf(f, i) : i \in whole}
    BY <1>3
<1>8. TrunkRows(f) = (UNION {UnitsOf(f, i) : i \in whole}) \cup UnitsOf(f, embd) \cup UnitsOf(f, out)
    BY <1>4, <1>5, <1>6, <1>7
<1> QED BY <1>2, <1>8

LEMMA RowsAreUnits ==
    ASSUME NEW f, FileOK(f), Written(f), ExpertsAccepted(f), TrunkAccepted(f)
    PROVE  AllRows(f) = UNION {UnitsOf(f, i) : i \in Manifested(f)}
<1>1. AllRows(f) = (UNION {UnitsOf(f, i) : i \in ExpertSlots(f)})
                      \cup (UNION {UnitsOf(f, i) : i \in RowSlots(f)})
    BY ExpertRowsAreUnits, TrunkRowsAreUnits DEF AllRows
<1> QED BY <1>1 DEF Manifested


\* Where the units of n times len bytes lie, and that they leave none out.
LEMMA UnitPlaces ==
    ASSUME NEW n \in Nat, NEW len \in Nat, NEW k \in 0 .. (n - 1)
    PROVE  /\ k * len \in Nat /\ k * len + len <= n * len
           /\ \A m \in 0 .. (n - 1) : k < m => k * len + len <= m * len
<1>1. k \in Nat /\ k + 1 <= n
    OBVIOUS
<1>2. \A m \in Nat : len * m = m * len /\ len * (m + 1) = m * len + len
    OBVIOUS
<1>3. len * (k + 1) <= len * n
    BY <1>1, Monotone
<1>4. ASSUME NEW m \in 0 .. (n - 1), k < m PROVE len * (k + 1) <= len * m
    BY <1>1, <1>4, Monotone
<1>5. k * len \in Nat
    BY <1>1
<1> QED BY <1>1, <1>2, <1>3, <1>4, <1>5

LEMMA UnitOfByte ==
    ASSUME NEW n \in Nat, NEW len \in Nat, NEW x \in Nat, x < n * len
    PROVE  \E k \in 0 .. (n - 1) : k * len <= x /\ x < k * len + len
<1>1. len # 0
    <2>1. len = 0 => n * len = 0
        OBVIOUS
    <2> QED BY <2>1
<1> DEFINE k == x \div len
<1>2. k \in Int /\ len * k <= x /\ x < len * k + len
    BY <1>1, Quotient
<1>3. k \in Nat
    BY <1>1
<1> HIDE DEF k
<1>4. k < n
    <2> SUFFICES ASSUME n <= k PROVE FALSE
        BY <1>3
    <2>1. len * n <= len * k
        BY <1>2, Monotone
    <2>2. len * n = n * len /\ len * k \in Nat /\ n * len \in Nat
        BY <1>3
    <2> QED BY <1>2, <2>1, <2>2
<1>5. len * k = k * len
    BY <1>3
<1> QED BY <1>2, <1>3, <1>4, <1>5

\* A row lies in its tensor, and a tensor in the data.
LEMMA RowInTensor ==
    ASSUME NEW f, FileOK(f), Written(f), ExpertsAccepted(f), TrunkAccepted(f),
           NEW i \in Manifested(f), NEW r \in UnitsOf(f, i)
    PROVE  /\ i \in Slots(f) /\ r.lo \in Nat /\ r.len \in Nat
           /\ AbsOffset(f, i) <= r.lo /\ r.lo + r.len <= AbsOffset(f, i) + Span(f, i)
<1> DEFINE n == UnitCount(f, i)
           len == UnitLen(f, i)
           at == AbsOffset(f, i)
<1>1. i \in Slots(f) /\ n \in Nat /\ len \in Nat /\ n * len = Span(f, i)
    BY UnitsFill
<1>2. at \in Nat
    BY <1>1, TensorBytes, DataIs DEF AbsOffset
<1>3. PICK k \in 0 .. (n - 1) : r = [lo |-> at + k * len, len |-> len]
    BY DEF UnitsOf, Units
<1>4. k * len \in Nat /\ k * len + len <= n * len
    BY <1>1, UnitPlaces
<1>5. r.lo = at + k * len /\ r.len = len
    BY <1>3
<1> HIDE DEF n, len, at
<1>6. /\ r.lo \in Nat /\ r.len \in Nat
      /\ at <= r.lo /\ r.lo + r.len <= at + n * len
    BY <1>1, <1>2, <1>4, <1>5
<1> QED BY <1>1, <1>6 DEF at

LEMMA TensorInData ==
    ASSUME NEW f, FileOK(f), Written(f), NEW i \in Slots(f)
    PROVE  /\ AbsOffset(f, i) \in Nat /\ Span(f, i) \in Nat /\ DataStartOf(f) \in Nat
           /\ DataStartOf(f) <= AbsOffset(f, i) /\ AbsOffset(f, i) + Span(f, i) <= f.size
           /\ f.size \in Nat
<1>1. /\ f.tensors[i].offset \in Nat /\ Span(f, i) \in Nat
      /\ f.tensors[i].offset + Span(f, i) <= DataBytes(f)
    BY TensorBytes, TensorEnds
<1>2. DataStartOf(f) \in Nat /\ DataBytes(f) \in Int /\ f.size \in Nat
      /\ f.size = DataStartOf(f) + DataBytes(f)
    BY DataIs
<1> QED BY <1>1, <1>2 DEF AbsOffset

\* No byte has two rows.
LEMMA RowsApart ==
    ASSUME NEW f, FileOK(f), Written(f), ExpertsAccepted(f), TrunkAccepted(f),
           NEW r \in AllRows(f), NEW s \in AllRows(f), r # s
    PROVE  Bytes(r) \cap Bytes(s) = {}
<1>1. PICK i \in Manifested(f) : r \in UnitsOf(f, i)
    BY RowsAreUnits
<1>2. PICK j \in Manifested(f) : s \in UnitsOf(f, j)
    BY RowsAreUnits
<1>3. /\ i \in Slots(f) /\ r.lo \in Nat /\ r.len \in Nat
      /\ AbsOffset(f, i) <= r.lo /\ r.lo + r.len <= AbsOffset(f, i) + Span(f, i)
    BY <1>1, RowInTensor
<1>4. /\ j \in Slots(f) /\ s.lo \in Nat /\ s.len \in Nat
      /\ AbsOffset(f, j) <= s.lo /\ s.lo + s.len <= AbsOffset(f, j) + Span(f, j)
    BY <1>2, RowInTensor
<1>5. r.lo + r.len <= s.lo \/ s.lo + s.len <= r.lo
    <2>1. CASE i = j
        <3> DEFINE n == UnitCount(f, i)
                   len == UnitLen(f, i)
                   at == AbsOffset(f, i)
        <3>1. n \in Nat /\ len \in Nat
            BY <1>1, UnitsFill
        <3>2. at \in Nat
            BY <1>3, TensorInData
        <3>3. PICK k \in 0 .. (n - 1) : r = [lo |-> at + k * len, len |-> len]
            BY <1>1 DEF UnitsOf, Units
        <3>4. PICK m \in 0 .. (n - 1) : s = [lo |-> at + m * len, len |-> len]
            BY <1>2, <2>1 DEF UnitsOf, Units
        <3> HIDE DEF n, len, at
        <3>5. k # m
            BY <3>3, <3>4
        <3>6. k < m \/ m < k
            BY <3>1, <3>5
        <3>7. k * len + len <= m * len \/ m * len + len <= k * len
            BY <3>1, <3>6, UnitPlaces
        <3>8. k * len \in Nat /\ m * len \in Nat
            BY <3>1, UnitPlaces
        <3>9. r.lo = at + k * len /\ r.len = len /\ s.lo = at + m * len /\ s.len = len
            BY <3>3, <3>4
        <3> QED BY <3>1, <3>2, <3>7, <3>8, <3>9
    <2>2. CASE i # j
        <3>1. \/ f.tensors[i].offset + Span(f, i) <= f.tensors[j].offset
              \/ f.tensors[j].offset + Span(f, j) <= f.tensors[i].offset
            BY <1>3, <1>4, <2>2, AfterTotal, SpanEnds
        <3>2. /\ f.tensors[i].offset \in Nat /\ Span(f, i) \in Nat
              /\ f.tensors[j].offset \in Nat /\ Span(f, j) \in Nat /\ DataStartOf(f) \in Nat
            BY <1>3, <1>4, TensorBytes, DataIs
        <3> QED BY <1>3, <1>4, <3>1, <3>2 DEF AbsOffset
    <2> QED BY <2>1, <2>2
<1> QED BY <1>3, <1>4, <1>5 DEF Bytes

LEMMA RowInData ==
    ASSUME NEW f, FileOK(f), Written(f), ExpertsAccepted(f), TrunkAccepted(f),
           NEW r \in AllRows(f), NEW x \in Bytes(r)
    PROVE  x \in DataStartOf(f) .. (f.size - 1)
<1>1. PICK i \in Manifested(f) : r \in UnitsOf(f, i)
    BY RowsAreUnits
<1>2. /\ i \in Slots(f) /\ r.lo \in Nat /\ r.len \in Nat
      /\ AbsOffset(f, i) <= r.lo /\ r.lo + r.len <= AbsOffset(f, i) + Span(f, i)
    BY <1>1, RowInTensor
<1>3. /\ AbsOffset(f, i) \in Nat /\ Span(f, i) \in Nat /\ DataStartOf(f) \in Nat
      /\ DataStartOf(f) <= AbsOffset(f, i) /\ AbsOffset(f, i) + Span(f, i) <= f.size
      /\ f.size \in Nat
    BY <1>2, TensorInData
<1> QED BY <1>2, <1>3 DEF Bytes

\* Expert tensors of a block beyond block_count: they have no rows.
Strays(f) == {i \in Slots(f) : IsExpert(f, i) /\ f.tensors[i].block \notin Blocks}

\* Every byte of the data has a row, or is a stray's.
LEMMA ByteHasRow ==
    ASSUME NEW f, FileOK(f), Written(f), ExpertsAccepted(f), TrunkAccepted(f),
           NEW x \in DataStartOf(f) .. (f.size - 1)
    PROVE  \/ \E r \in AllRows(f) : x \in Bytes(r)
           \/ \E i \in Strays(f) : x \in AbsOffset(f, i) .. (AbsOffset(f, i) + Span(f, i) - 1)
<1> DEFINE y == x - DataStartOf(f)
<1>1. y \in Nat /\ y < DataBytes(f) /\ x = DataStartOf(f) + y /\ DataStartOf(f) \in Nat
    BY DataIs
<1> HIDE DEF y
<1>2. PICK i \in Slots(f) : f.tensors[i].offset <= y /\ y < f.tensors[i].offset + Span(f, i)
    BY <1>1, ByteHasTensor
<1>3. f.tensors[i].offset \in Nat /\ Span(f, i) \in Nat /\ AbsOffset(f, i) \in Nat
    BY TensorBytes, TensorInData
<1>4. AbsOffset(f, i) = DataStartOf(f) + f.tensors[i].offset
    BY DEF AbsOffset
<1>5. AbsOffset(f, i) <= x /\ x < AbsOffset(f, i) + Span(f, i)
    BY <1>1, <1>2, <1>3, <1>4
<1>6. i \in Strays(f) \/ i \in Manifested(f)
    <2> SUFFICES ASSUME i \notin Strays(f) PROVE i \in Manifested(f)
        OBVIOUS
    <2>1. CASE IsExpert(f, i)
        <3>1. Name(f, i) \in ExpertNames
            BY <2>1 DEF Strays, IsExpert, Name, ExpertNames
        <3>2. Slot(f, Name(f, i)) = i
            BY SlotOfName
        <3> QED BY <3>1, <3>2 DEF Manifested, ExpertSlots
    <2>2. CASE ~IsExpert(f, i)
        <3>1. i \in Trunk(f)
            BY <2>2 DEF Trunk
        <3>2. Span(f, i) # 0
            BY <1>3, <1>5
        <3>3. i \in RowSlots(f)
            BY <3>1, <3>2, RestIsEmpty
        <3> QED BY <3>3 DEF Manifested
    <2> QED BY <2>1, <2>2
<1>7. CASE i \in Strays(f)
    <2>1. x \in Int
        BY <1>1
    <2> QED BY <1>3, <1>5, <1>7, <2>1
<1>8. CASE i \in Manifested(f)
    <2> DEFINE n == UnitCount(f, i)
               len == UnitLen(f, i)
               at == AbsOffset(f, i)
               Unit(k) == [lo |-> at + k * len, len |-> len]
               z == x - at
    <2>1. n \in Nat /\ len \in Nat /\ n * len = Span(f, i)
        BY <1>8, UnitsFill
    <2>2. z \in Nat /\ z < n * len /\ x = at + z /\ at \in Nat
        BY <1>1, <1>3, <1>5, <2>1
    <2>3. PICK k \in 0 .. (n - 1) : k * len <= z /\ z < k * len + len
        <3> HIDE DEF n, len, z
        <3> QED BY <2>1, <2>2, UnitOfByte
    <2>4. Unit(k) \in UnitsOf(f, i)
        BY DEF UnitsOf, Units
    <2>5. Unit(k) \in AllRows(f)
        <3> HIDE DEF Unit
        <3> QED BY <1>8, <2>4, RowsAreUnits
    <2>6. x \in Bytes(Unit(k))
        <3>1. k * len \in Nat
            BY <2>1, UnitPlaces
        <3>2. Bytes(Unit(k)) = (at + k * len) .. (at + k * len + len - 1)
            BY DEF Bytes
        <3> HIDE DEF n, len, at, Unit, z
        <3> QED BY <2>1, <2>2, <2>3, <3>1, <3>2
    <2> QED BY <2>5, <2>6
<1> QED BY <1>6, <1>7, <1>8

\* What the manifests say of a file that was written by the rules.
LEMMA Accounts ==
    ASSUME NEW f, FileOK(f), Written(f)
    PROVE  Accounted(f)
<1> DEFINE Tensor(i) == [lo |-> AbsOffset(f, i), len |-> Span(f, i)]
           data == DataStartOf(f) .. (f.size - 1)
<1> SUFFICES ASSUME ExpertsAccepted(f), TrunkAccepted(f)
    PROVE  /\ \A r, s \in AllRows(f) : r # s => Bytes(r) \cap Bytes(s) = {}
           /\ UNION {Bytes(r) : r \in AllRows(f)} \subseteq data
           /\ data \subseteq UNION {Bytes(r) : r \in AllRows(f) \cup {Tensor(i) : i \in Strays(f)}}
           /\ ReportedNonExpert(f)
                + Spans(f, {i \in Trunk(f) : f.tensors[i].exps}) = NonExpertBytes
           /\ Receipt(f).perLayer = Spans(f, Trunk(f) \ Glob(f))
           /\ ~Receipt(f).tied
    BY DEF Accounted, AllRows, Strays
<1>1. \A r, s \in AllRows(f) : r # s => Bytes(r) \cap Bytes(s) = {}
    BY RowsApart
<1>2. UNION {Bytes(r) : r \in AllRows(f)} \subseteq data
    BY RowInData
<1>3. ASSUME NEW x \in data
      PROVE  \E r \in AllRows(f) \cup {Tensor(i) : i \in Strays(f)} : x \in Bytes(r)
    <2>1. CASE \E r \in AllRows(f) : x \in Bytes(r)
        BY <2>1
    <2>2. CASE \E i \in Strays(f) : x \in AbsOffset(f, i) .. (AbsOffset(f, i) + Span(f, i) - 1)
        <3>1. PICK i \in Strays(f) : x \in AbsOffset(f, i) .. (AbsOffset(f, i) + Span(f, i) - 1)
            BY <2>2
        <3>2. x \in Bytes(Tensor(i))
            BY <3>1 DEF Bytes
        <3> HIDE DEF Tensor
        <3> QED BY <3>2
    <2> QED BY <2>1, <2>2, ByteHasRow
<1>4. data \subseteq UNION {Bytes(r) : r \in AllRows(f) \cup {Tensor(i) : i \in Strays(f)}}
    BY <1>3
<1> HIDE DEF Tensor, data
<1> QED BY <1>1, <1>2, <1>4, TotalsAgree, NotTied

\* When both manifests of a file are made, every row lies in the data, no byte has
\* two rows, and one without a row belongs to an expert tensor beyond block_count;
\* and the totals that the three readers report are one.
THEOREM FilesAccounted == Written(file) /\ AllocSpec => []FileAccounted
<1>1. Written(file) /\ [AllocNext]_<<file, allocVars>> => Written(file)'
    <2> SUFFICES ASSUME Written(file), [AllocNext]_<<file, allocVars>> PROVE file' = file
        BY DEF Written
    <2> QED BY DEF AllocNext, Load, RouteCall
<1>2. IInv /\ Written(file) => FileAccounted
    BY Accounts DEF IInv, FileAccounted
<1> QED BY <1>1, <1>2, PageInvariant, PTL DEF AllocSpec

----------------------------------------------------------------------------
(* The bar in bytes.  A trunk page that lies inside the data and that no   *)
(* end of a slice is strictly inside of has no byte of a slice: such pages *)
(* have no more bytes than the data have besides the slices.               *)

\* What the load leaves behind of the file it read.
LaidOut(base) ==
    /\ trunk = {TensorAt(file, base, i) : i \in Trunk(file)}
    /\ slices = [s \in Slices |-> SliceAt(file, base, s)]

Loaded == turn >= 0 => ExpertsAccepted(file) /\ \E base \in Nat : LaidOut(base)

\* The tensors stay where the load put them.
LEMMA LoadedInvariant == AllocSpec => []Loaded
<1>1. AllocInit => Loaded
    BY DEF AllocInit, Loaded
<1>2. Loaded /\ [AllocNext]_<<file, allocVars>> => Loaded'
    <2> SUFFICES ASSUME Loaded, [AllocNext]_<<file, allocVars>> PROVE Loaded'
        OBVIOUS
    <2>1. CASE Load
        <3>1. PICK base \in Bases :
                /\ trunk' = {TensorAt(file, base, i) : i \in Trunk(file)}
                /\ slices' = [s \in Slices |-> SliceAt(file, base, s)]
            BY <2>1 DEF Load, SliceAt, TensorAt
        <3>2. base \in Nat /\ file' = file /\ ExpertsAccepted(file)
            BY <2>1, PageAssumption DEF Load, Bases
        <3>3. LaidOut(base)'
            BY <3>1, <3>2 DEF LaidOut
        <3> QED BY <3>2, <3>3 DEF Loaded
    <2>2. CASE \E routed \in SUBSET Experts : RouteCall(routed)
        BY <2>2 DEF RouteCall, Loaded, LaidOut
    <2>3. CASE UNCHANGED <<file, allocVars>>
        BY <2>3 DEF allocVars, Loaded, LaidOut
    <2> QED BY <2>1, <2>2, <2>3 DEF AllocNext
<1> QED BY <1>1, <1>2, PTL DEF AllocSpec

\* The bytes of a page, and of each slice.
PageBytes(p) == (PAGE * p) .. (PAGE * p + PAGE - 1)
SliceBytes == [s \in Slices |-> slices[s][1] .. (slices[s][1] + slices[s][2] - 1)]

\* A page and an offset into it are a byte, and no other page's.
LEMMA PagesOfBytes ==
    ASSUME NEW P \in SUBSET Int, NEW T, IsFiniteSet(P), IsFiniteSet(T),
           \A p \in P : PageBytes(p) \subseteq T
    PROVE  PAGE * Cardinality(P) <= Cardinality(T)
<1> DEFINE I == 0 .. (PAGE - 1)
           f == [x \in P \X I |-> PAGE * x[1] + x[2]]
<1>1. PAGE \in Nat \ {0}
    BY PageAssumption
<1>2. IsFiniteSet(I) /\ Cardinality(I) = PAGE
    <2>1. 0 \in Int /\ PAGE - 1 \in Int
        BY <1>1
    <2> QED BY <1>1, <2>1, FS_Interval
<1>3. IsFiniteSet(P \X I) /\ Cardinality(P \X I) = Cardinality(P) * PAGE
    <2> HIDE DEF I
    <2> QED BY <1>2, FS_Product
<1>4. ASSUME NEW x \in P \X I PROVE f[x] \in T
    <2>1. x[1] \in P /\ x[2] \in I /\ x[1] \in Int
        OBVIOUS
    <2> DEFINE a == PAGE * x[1]
    <2>2. a \in Int
        BY <1>1, <2>1
    <2>3. a + x[2] \in a .. (a + PAGE - 1)
        <3> HIDE DEF a
        <3> QED BY <1>1, <2>1, <2>2
    <2>4. a + x[2] \in PageBytes(x[1])
        BY <2>3 DEF PageBytes
    <2>5. f[x] = a + x[2]
        OBVIOUS
    <2> HIDE DEF f, a
    <2> QED BY <2>1, <2>4, <2>5
<1>5. ASSUME NEW x \in P \X I, NEW y \in P \X I, f[x] = f[y] PROVE x = y
    <2>1. /\ x[1] \in Int /\ x[2] \in 0 .. (PAGE - 1) /\ x = <<x[1], x[2]>>
          /\ y[1] \in Int /\ y[2] \in 0 .. (PAGE - 1) /\ y = <<y[1], y[2]>>
        <3>1. x[1] \in P /\ x[2] \in I /\ x = <<x[1], x[2]>>
            OBVIOUS
        <3>2. y[1] \in P /\ y[2] \in I /\ y = <<y[1], y[2]>>
            OBVIOUS
        <3>3. P \subseteq Int
            OBVIOUS
        <3> QED BY <3>1, <3>2, <3>3
    <2>2. PAGE * x[1] + x[2] = PAGE * y[1] + y[2]
        BY <1>5
    <2>3. ASSUME NEW m \in Int, NEW k \in 0 .. (PAGE - 1)
          PROVE  (PAGE * m + k) \div PAGE = m /\ (PAGE * m + k) % PAGE = k
        BY <1>1
    <2>4. x[1] = y[1] /\ x[2] = y[2]
        <3>1. (PAGE * x[1] + x[2]) \div PAGE = x[1] /\ (PAGE * x[1] + x[2]) % PAGE = x[2]
            BY <2>1, <2>3
        <3>2. (PAGE * y[1] + y[2]) \div PAGE = y[1] /\ (PAGE * y[1] + y[2]) % PAGE = y[2]
            BY <2>1, <2>3
        <3> QED BY <2>2, <3>1, <3>2
    <2> QED BY <2>1, <2>4
<1>6. f \in Injection(P \X I, T)
    <2>1. f \in [P \X I -> T]
        BY <1>4
    <2> HIDE DEF f, I
    <2> QED BY <1>5, <2>1 DEF Injection, IsInjective
<1>7. Cardinality(P \X I) <= Cardinality(T)
    <2> HIDE DEF f, I
    <2> QED BY <1>6, FS_Injection
<1>8. Cardinality(P) * PAGE = PAGE * Cardinality(P)
    <2>1. Cardinality(P) \in Nat
        BY FS_CardinalityType
    <2> QED BY <1>1, <2>1
<1> QED BY <1>3, <1>7, <1>8

\* The slices' bytes lie in the data, and are as many as BytesOf says.
LEMMA SliceBytesSize ==
    ASSUME FileOK(file), Written(file), ExpertsAccepted(file), LayoutOK, TensorsOK,
           NEW base \in Nat, LaidOut(base)
    PROVE  /\ IsFiniteSet(Whole(SliceBytes, Slices)) /\ BytesOf(Slices) \in Nat
           /\ BytesOf(Slices) = Cardinality(Whole(SliceBytes, Slices))
           /\ Whole(SliceBytes, Slices) \subseteq base .. (base + DataBytes(file) - 1)
<1>1. IsFiniteSet(Slices)
    <2>1. IsFiniteSet(Blocks) /\ IsFiniteSet(ExpertSuffixes)
        BY FiniteSlices
    <2>2. IsFiniteSet(Experts)
        BY ManifestAssumption, FS_Interval DEF Experts
    <2>3. IsFiniteSet(ExpertSuffixes \X Experts)
        BY <2>1, <2>2, FS_Product
    <2>4. IsFiniteSet(Blocks \X (ExpertSuffixes \X Experts))
        BY <2>1, <2>3, FS_Product
    <2> DEFINE g == [x \in Blocks \X (ExpertSuffixes \X Experts) |-> <<x[1], x[2][1], x[2][2]>>]
    <2>5. Slices \subseteq {g[x] : x \in Blocks \X (ExpertSuffixes \X Experts)}
        <3> SUFFICES ASSUME NEW l \in Blocks, NEW x \in ExpertSuffixes, NEW e \in Experts
                     PROVE  \E y \in Blocks \X (ExpertSuffixes \X Experts) : <<l, x, e>> = g[y]
            BY DEF Slices
        <3>1. <<l, <<x, e>>>> \in Blocks \X (ExpertSuffixes \X Experts)
            OBVIOUS
        <3>2. g[<<l, <<x, e>>>>] = <<l, x, e>>
            BY <3>1
        <3> HIDE DEF g
        <3> QED BY <3>1, <3>2
    <2>6. g = [x \in Blocks \X (ExpertSuffixes \X Experts) |-> g[x]]
        OBVIOUS
    <2> HIDE DEF g
    <2>7. IsFiniteSet({g[x] : x \in Blocks \X (ExpertSuffixes \X Experts)})
        BY <2>4, <2>6, ImageBound
    <2> QED BY <2>5, <2>7, FS_Subset
<1>2. PICK h : /\ Sums(h, [s \in Slices |-> slices[s][2]], SUBSET Slices)
               /\ BytesOf(Slices) = h[Slices]
    BY <1>1, BytesAreSums
<1>3. ASSUME NEW s \in Slices PROVE slices[s][1] \in Int /\ slices[s][2] \in Nat
    <2>1. s = <<s[1], s[2], s[3]>> /\ s[1] \in Blocks /\ s[2] \in ExpertSuffixes /\ s[3] \in Experts
        BY DEF Slices
    <2> DEFINE len == slices[<<s[1], s[2], 0>>][2]
               at == slices[<<s[1], s[2], 0>>][1] + s[3] * len
    <2>2. slices[s] = <<at, len>> /\ len \in Nat
        BY <2>1 DEF TensorsOK, RowsOK
    <2>3. slices[s][2] = len
        BY <2>2
    <2>4. slices[s][1] \in Int
        BY DEF LayoutOK, IsRange
    <2> QED BY <2>2, <2>3, <2>4
<1>4. ASSUME NEW s \in Slices
      PROVE  IsFiniteSet(SliceBytes[s]) /\ slices[s][2] = Cardinality(SliceBytes[s])
    <2> DEFINE a == slices[s][1]
               n == slices[s][2]
    <2>1. a \in Int /\ n \in Nat /\ SliceBytes[s] = a .. (a + n - 1)
        BY <1>3 DEF SliceBytes
    <2> HIDE DEF a, n
    <2>2. a + n - 1 \in Int
        BY <2>1
    <2>3. IsFiniteSet(a .. (a + n - 1))
          /\ Cardinality(a .. (a + n - 1)) = IF a > a + n - 1 THEN 0 ELSE (a + n - 1) - a + 1
        BY <2>1, <2>2, FS_Interval
    <2>4. Cardinality(a .. (a + n - 1)) = n
        BY <2>1, <2>3
    <2> QED BY <2>1, <2>3, <2>4 DEF n
<1>5. ASSUME NEW s \in Slices, NEW r \in Slices, s # r
      PROVE  SliceBytes[s] \cap SliceBytes[r] = {}
    <2>1. Apart(slices[s], slices[r])
        BY <1>5 DEF LayoutOK
    <2>2. /\ slices[s][1] \in Int /\ slices[s][2] \in Nat
          /\ slices[r][1] \in Int /\ slices[r][2] \in Nat
        BY <1>3
    <2> QED BY <2>1, <2>2 DEF Apart, SliceBytes
<1>6. /\ IsFiniteSet(Whole(SliceBytes, Slices))
      /\ BytesOf(Slices) = Cardinality(Whole(SliceBytes, Slices))
    <2> DEFINE g == [s \in Slices |-> slices[s][2]]
               F == SliceBytes
    <2>1. PartsApart(F, Slices) /\ \A s \in Slices : g[s] = Cardinality(F[s])
        BY <1>4, <1>5 DEF PartsApart
    <2>2. Sums(h, g, SUBSET Slices)
        BY <1>2
    <2> HIDE DEF g, F
    <2>3. IsFiniteSet(Whole(F, Slices)) /\ h[Slices] = Cardinality(Whole(F, Slices))
        BY <1>1, <2>1, <2>2, UnionSize
    <2> QED BY <1>2, <2>3 DEF F
<1>7. ASSUME NEW s \in Slices PROVE SliceBytes[s] \subseteq base .. (base + DataBytes(file) - 1)
    <2> DEFINE i == Slot(file, <<s[1], s[2]>>)
               o == file.tensors[i].offset
               n == Span(file, i)
               a == slices[s][1]
               m == slices[s][2]
               d == DataBytes(file)
    <2>1. slices[s] = SliceAt(file, base, s)
        BY DEF LaidOut
    <2>2. i \in Slots(file) /\ base + o <= a /\ a + m <= base + o + n
        BY <2>1, SliceInTensor
    <2>3. o \in Nat /\ n \in Nat /\ o + n <= d /\ d \in Int
        BY <2>2, TensorBytes, TensorEnds, DataIs
    <2>4. SliceBytes[s] = a .. (a + m - 1) /\ a \in Int /\ m \in Nat
        BY <1>3 DEF SliceBytes
    <2> HIDE DEF i, o, n, a, m, d
    <2>5. base <= a /\ a + m <= base + d
        BY <2>2, <2>3, <2>4
    <2>6. a .. (a + m - 1) \subseteq base .. (base + d - 1)
        BY <2>3, <2>4, <2>5
    <2> QED BY <2>4, <2>6 DEF d
<1>8. Whole(SliceBytes, Slices) \subseteq base .. (base + DataBytes(file) - 1)
    BY <1>7 DEF Whole
<1> QED BY <1>6, <1>8, FS_CardinalityType

\* A plain trunk page has no byte of a slice, and all its bytes are the data's
\* unless an end of the data lies in it.
LEMMA PlainPage ==
    ASSUME FileOK(file), Written(file), ExpertsAccepted(file), LayoutOK, TensorsOK,
           NEW base \in Nat, LaidOut(base), NEW p \in PlainTrunk,
           p # Floor(base), p # Floor(base + DataBytes(file))
    PROVE  /\ p \in Int
           /\ PageBytes(p) \subseteq (base .. (base + DataBytes(file) - 1)) \ Whole(SliceBytes, Slices)
<1> DEFINE d == DataBytes(file)
           a == PAGE * p
<1>1. PICK k \in Trunk(file) : p \in Outward(base + file.tensors[k].offset, Span(file, k))
    <2>1. PICK t \in trunk : p \in Outward(t[1], t[2])
        BY DEF PlainTrunk, TrunkPages
    <2>2. PICK k \in Trunk(file) : t = TensorAt(file, base, k)
        BY DEF LaidOut
    <2> QED BY <2>1, <2>2 DEF TensorAt
<1>2. k \in Slots(file) /\ TensorAt(file, base, k) \in trunk
    BY DEF Trunk, LaidOut
<1> DEFINE o == file.tensors[k].offset
           n == Span(file, k)
<1>3. o \in Nat /\ n \in Nat /\ o + n <= d /\ d \in Int
    BY <1>2, TensorBytes, TensorEnds, DataIs
<1>4. PAGE \in Nat \ {0}
    BY PageAssumption
<1>5. p \in Int /\ base + o < a + PAGE /\ a < base + o + n
    <2>1. base + o \in Int /\ n \in Int
        BY <1>3
    <2> HIDE DEF o, n
    <2> QED BY <1>1, <2>1, OutwardPage DEF o, n
<1>6. a \in Int /\ PAGE * (p + 1) = a + PAGE
    BY <1>4, <1>5
<1> HIDE DEF o, n, d
<1>7. base < a + PAGE /\ a < base + d /\ d \in Nat
    BY <1>3, <1>4, <1>5, <1>6
<1>8. base <= a
    <2> SUFFICES ASSUME a < base PROVE FALSE
        BY <1>6
    <2>1. PAGE * p < base /\ base < PAGE * (p + 1)
        BY <1>6, <1>7
    <2> QED BY <1>5, <2>1, PageOf
<1>9. a + PAGE <= base + d
    <2> SUFFICES ASSUME base + d < a + PAGE PROVE FALSE
        BY <1>4, <1>6, <1>7
    <2>1. PAGE * p < base + d /\ base + d < PAGE * (p + 1) /\ base + d \in Nat
        BY <1>6, <1>7
    <2>2. Floor(base + d) = p
        BY <1>5, <2>1, PageOf
    <2> QED BY <2>2 DEF d
<1>10. PageBytes(p) \subseteq base .. (base + d - 1)
    <2>1. PageBytes(p) = a .. (a + PAGE - 1)
        BY DEF PageBytes
    <2> HIDE DEF a
    <2>2. a .. (a + PAGE - 1) \subseteq base .. (base + d - 1)
        BY <1>4, <1>6, <1>7, <1>8, <1>9
    <2> QED BY <2>1, <2>2
<1>11. ASSUME NEW s \in Slices, NEW b \in PageBytes(p), b \in SliceBytes[s] PROVE FALSE
    <2> DEFINE lo == slices[s][1]
               len == slices[s][2]
    <2>1. IsRange(slices[s]) /\ IsRange(TensorAt(file, base, k))
          /\ Apart(slices[s], TensorAt(file, base, k))
        BY <1>2 DEF LayoutOK
    <2>2. lo \in Int /\ len \in Int
        BY <2>1 DEF IsRange
    <2>3. b \in a .. (a + PAGE - 1) /\ b \in lo .. (lo + len - 1)
        BY <1>11 DEF PageBytes, SliceBytes
    <2> HIDE DEF lo, len
    <2>4. lo < a + PAGE /\ a < lo + len
        <3> HIDE DEF a
        <3> QED BY <1>4, <1>6, <2>2, <2>3
    <2>5. p \in Outward(lo, len)
        BY <1>5, <2>2, <2>4, TouchedPage
    <2>6. CASE p \in Inward(lo, len)
        <3>1. Inward(slices[s][1], slices[s][2])
                 \cap Outward(TensorAt(file, base, k)[1], TensorAt(file, base, k)[2]) = {}
            BY <2>1, InwardMissesNeighbour DEF IsRange
        <3>2. p \in Outward(TensorAt(file, base, k)[1], TensorAt(file, base, k)[2])
            BY <1>1 DEF TensorAt
        <3> QED BY <2>6, <3>1, <3>2 DEF lo, len
    <2>7. CASE p \notin Inward(lo, len)
        <3>1. \E e \in {lo, lo + len} : PAGE * p < e /\ e < PAGE * (p + 1)
            BY <2>2, <2>5, <2>7, EdgeOfRange
        <3>2. s = <<s[1], s[2], s[3]>> /\ s[1] \in Blocks /\ s[2] \in ExpertSuffixes /\ s[3] \in Experts
            BY DEF Slices
        <3>3. p \in EdgesOf(s[1], s[2])
            BY <1>5, <3>1, <3>2 DEF EdgesOf, lo, len
        <3>4. p \in Edges
            BY <3>2, <3>3 DEF Edges
        <3> QED BY <3>4 DEF PlainTrunk
    <2> QED BY <2>6, <2>7
<1>12. PageBytes(p) \cap Whole(SliceBytes, Slices) = {}
    BY <1>11 DEF Whole
<1> QED BY <1>5, <1>10, <1>12 DEF d

\* The plain pages of the trunk have the bytes of the data besides the slices, and
\* a page at each end of the data.
LEMMA PlainTrunkBytes ==
    ASSUME FileOK(file), Written(file), ExpertsAccepted(file), LayoutOK, TensorsOK,
           NEW base \in Nat, LaidOut(base), IsFiniteSet(PlainTrunk)
    PROVE  /\ Cardinality(PlainTrunk) \in Nat /\ BufTrunk \in Int
           /\ PAGE * Cardinality(PlainTrunk) <= BufTrunk + 2 * PAGE
<1> DEFINE d == DataBytes(file)
           W == Whole(SliceBytes, Slices)
           D == base .. (base + d - 1)
           T == D \ W
           Ends == {Floor(base), Floor(base + d)}
           P == PlainTrunk \ Ends
<1>1. PAGE \in Nat \ {0}
    BY PageAssumption
<1>2. d \in Nat
    <2>1. PICK i \in Slots(file) : file.tensors[i].offset = 0
        BY DEF Written
    <2>2. 0 + Span(file, i) <= d /\ Span(file, i) \in Nat /\ d \in Int
        BY <2>1, TensorBytes, TensorEnds, DataIs
    <2> QED BY <2>2
<1>3. IsFiniteSet(W) /\ BytesOf(Slices) \in Nat /\ BytesOf(Slices) = Cardinality(W) /\ W \subseteq D
    BY SliceBytesSize
<1> HIDE DEF W, d
<1>4. IsFiniteSet(D) /\ Cardinality(D) = d
    <2>1. base \in Int /\ base + d - 1 \in Int
        BY <1>2
    <2>2. IsFiniteSet(base .. (base + d - 1))
          /\ Cardinality(base .. (base + d - 1))
                = IF base > base + d - 1 THEN 0 ELSE (base + d - 1) - base + 1
        BY <2>1, FS_Interval
    <2> QED BY <1>2, <2>1, <2>2
<1> HIDE DEF D
<1>5. IsFiniteSet(T) /\ Cardinality(T) = d - BytesOf(Slices)
    <2>1. D \cap W = W
        BY <1>3
    <2> HIDE DEF T
    <2>2. IsFiniteSet(D \ W) /\ Cardinality(D \ W) = Cardinality(D) - Cardinality(D \cap W)
        BY <1>3, <1>4, FS_Difference
    <2>3. Cardinality(D \ W) = d - BytesOf(Slices)
        BY <1>3, <1>4, <2>1, <2>2
    <2> QED BY <2>2, <2>3 DEF T
<1>6. IsFiniteSet(P) /\ P \in SUBSET Int /\ \A p \in P : PageBytes(p) \subseteq T
    <2>1. IsFiniteSet(P)
        BY FS_Subset
    <2>2. ASSUME NEW p \in P PROVE p \in Int /\ PageBytes(p) \subseteq T
        BY PlainPage DEF T, D, W, d
    <2> HIDE DEF P, T
    <2> QED BY <2>1, <2>2
<1>7. PAGE * Cardinality(P) <= Cardinality(T)
    <2> HIDE DEF P, T
    <2> QED BY <1>5, <1>6, PagesOfBytes
<1>8. IsFiniteSet(Ends) /\ Cardinality(Ends) \in Nat /\ Cardinality(Ends) <= 2
    <2> DEFINE u == Floor(base)
               v == Floor(base + d)
    <2>1. IsFiniteSet({u}) /\ Cardinality({u}) = 1 /\ IsFiniteSet({v}) /\ Cardinality({v}) = 1
        BY FS_Singleton
    <2>2. Ends = {u} \cup {v}
        OBVIOUS
    <2> HIDE DEF u, v
    <2> QED BY <2>1, <2>2, AtMostBoth
<1>9. Cardinality(PlainTrunk) \in Nat /\ Cardinality(P) \in Nat
      /\ Cardinality(PlainTrunk) <= Cardinality(P) + 2
    <2>1. PlainTrunk \in SUBSET (P \cup Ends)
        OBVIOUS
    <2> HIDE DEF P, Ends
    <2>2. /\ IsFiniteSet(P \cup Ends) /\ Cardinality(P) \in Nat /\ Cardinality(P \cup Ends) \in Nat
          /\ Cardinality(P \cup Ends) <= Cardinality(P) + Cardinality(Ends)
        BY <1>6, <1>8, AtMostBoth
    <2>3. Cardinality(PlainTrunk) <= Cardinality(P \cup Ends) /\ Cardinality(PlainTrunk) \in Nat
        BY <2>1, <2>2, FS_Subset, FS_CardinalityType
    <2> QED BY <1>8, <2>2, <2>3
<1> DEFINE m == Cardinality(P)
           q == Cardinality(PlainTrunk)
<1>10. m \in Nat /\ q \in Nat /\ q <= m + 2
    BY <1>9
<1>11. BufTrunk = d - BytesOf(Slices) /\ PAGE * m <= BufTrunk /\ BufTrunk \in Int
    <2>1. BufTrunk = d - BytesOf(Slices)
        BY DEF BufTrunk, d
    <2> HIDE DEF T, P
    <2> QED BY <1>2, <1>3, <1>5, <1>7, <2>1
<1> HIDE DEF m, q, P, Ends
<1>12. PAGE * q <= PAGE * (m + 2) /\ PAGE * (m + 2) = PAGE * m + 2 * PAGE
    BY <1>1, <1>10, Monotone
<1>13. PAGE * q \in Int /\ PAGE * m \in Int
    BY <1>1, <1>10
<1>14. PAGE * q <= BufTrunk + 2 * PAGE
    BY <1>1, <1>11, <1>12, <1>13
<1> QED BY <1>10, <1>11, <1>14 DEF q

\* The peak of what was ever committed is within the bar, for every file that a
\* writer of the format wrote and whose tensors are aligned.
THEOREM PeakStaysWithinBar == Written(file) /\ Aligned(file) /\ AllocSpec => []PeakWithinBar
<1>1. Written(file) /\ [AllocNext]_<<file, allocVars>> => Written(file)'
    <2> SUFFICES ASSUME Written(file), [AllocNext]_<<file, allocVars>> PROVE file' = file
        BY DEF Written
    <2> QED BY DEF AllocNext, Load, RouteCall
<1>2. IInv /\ CountsOK /\ PeakBase /\ PeakOK /\ Loaded /\ Written(file) => PeakWithinBar
    <2> SUFFICES ASSUME IInv, CountsOK, PeakBase, PeakOK, Loaded, Written(file),
                        turn >= 0, CensusReads
                 PROVE  peak <= P2aBar + 2 * PAGE * (Cardinality(ExpertNames) + 1)
        BY DEF PeakWithinBar
    <2>1. PICK base \in Nat : LaidOut(base)
        BY DEF Loaded
    <2>2. /\ FileOK(file) /\ ExpertsAccepted(file) /\ LayoutOK /\ TensorsOK
          /\ PlainTrunk \in SUBSET committed /\ IsFiniteSet(committed)
        BY DEF IInv, Loaded, PeakBase, NeighbourKept, PlainTrunk
    <2>3. IsFiniteSet(PlainTrunk)
        BY <2>2, FS_Subset
    <2> DEFINE pages == PAGE * Cardinality(PlainTrunk)
               edges == PAGE * EdgeCensus
               n == Cardinality(ExpertNames)
    <2>4. /\ Cardinality(PlainTrunk) \in Nat /\ BufTrunk \in Int
          /\ pages <= BufTrunk + 2 * PAGE
        BY <2>1, <2>2, <2>3, PlainTrunkBytes
    <2>5. PAGE \in Nat /\ pages \in Int /\ peak_lease \in Nat
        BY <2>4, PageAssumption DEF PeakBase
    <2>6. n \in Nat
        <3>1. Cardinality(ExpertNames) = L * Cardinality(ExpertSuffixes) /\ L \in Nat
              /\ Cardinality(ExpertSuffixes) \in Nat
            BY FiniteSlices, ManifestAssumption
        <3> QED BY <3>1
    <2>7. edges \in Int /\ BytesOf(Residents) \in Nat
        <3>1. PAGE % ALIGN = 0
            BY DEF PeakBase, Aligned
        <3>2. EdgeCensus \in Nat
            BY <2>2, <3>1, EdgesBound
        <3>3. Residents \in SUBSET Slices /\ IsFiniteSet(Residents)
            BY FiniteResidents, ResidentSlices DEF IInv
        <3> QED BY <2>2, <2>5, <3>2, <3>3, InsideBytes
    <2>8. peak <= pages + BytesOf(Residents) + peak_lease + edges + 2 * PAGE * n
        BY DEF PeakOK, PeakInPages, Bar, PageBar
    <2>9. P2aBar = BufTrunk + BytesOf(Residents) + peak_lease + edges
        BY DEF P2aBar
    <2>10. 2 * PAGE * (n + 1) = 2 * PAGE * n + 2 * PAGE /\ 2 * PAGE * n \in Nat
        BY <2>5, <2>6
    <2>11. peak \in Int
        BY DEF PeakOK
    <2> HIDE DEF pages, edges, n
    <2>12. peak <= P2aBar + 2 * PAGE * (n + 1)
        BY <2>4, <2>5, <2>7, <2>8, <2>9, <2>10, <2>11
    <2> QED BY <2>12 DEF n
<1> QED
    BY <1>1, <1>2, PageInvariant, CountsInvariant, LoadedInvariant, PeakStaysInPages, PTL
       DEF AllocSpec

=============================================================================
