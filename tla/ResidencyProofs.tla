-------------------------- MODULE ResidencyProofs --------------------------
(***************************************************************************)
(* Lemmas about the operators of ResidencyPolicy, for every number of      *)
(* experts and every K: the ranking the policies read residency off always *)
(* yields exactly K experts, and the counters stay counters.  They rest on *)
(* lemmas about numbers, finite sets and sums over them that the proofs    *)
(* about the replay and about the engine's run cite as well.               *)
(***************************************************************************)
EXTENDS ResidencyPolicy, SequenceTheorems, FiniteSetTheorems, WellFoundedInduction, TLAPS

----------------------------------------------------------------------------
(* Numbers, sizes and sums.                                                *)

\* Multiplication by a natural number is monotone.
LEMMA Monotone ==
    ASSUME NEW a \in Int, NEW b \in Int, NEW c \in Nat, a <= b
    PROVE  c * a <= c * b
OBVIOUS

\* What the quotient says of the dividend.
LEMMA Quotient ==
    ASSUME NEW a \in Int, NEW d \in Nat \ {0}
    PROVE  a \div d \in Int /\ d * (a \div d) <= a /\ a < d * (a \div d) + d
OBVIOUS

\* A set of natural numbers has a least element.
LEMMA LeastNat ==
    ASSUME NEW S \in SUBSET Nat, S # {}
    PROVE  Min(S) \in S /\ \A x \in S : Min(S) <= x
<1> DEFINE R == {ss \in Nat \X Nat : ss[1] < ss[2]}
<1>1. IsWellFoundedOn(R, Nat)
    BY NatLessThanWellFounded DEF OpToRel
<1>2. \A x, y \in Nat : y < x => <<y, x>> \in R
    OBVIOUS
<1>3. PICK x \in S : \A y \in S : ~ (<<y, x>> \in R)
    <2> HIDE DEF R
    <2> QED BY <1>1, WFMin
<1>4. ASSUME NEW y \in S PROVE x <= y
    <2>1. x \in Nat /\ y \in Nat
        OBVIOUS
    <2>2. ~ (y < x)
        <3> HIDE DEF R
        <3> QED BY <2>1, <1>2, <1>3
    <2> QED BY <2>1, <2>2
<1> QED
    BY <1>4 DEF Min

\* Multiplication distributes over addition.
LEMMA Distribute == \A a, x, y \in Nat : a * (x + y) = a * x + a * y
OBVIOUS

\* C holds one image under f of each element of B.
Images(f, B, C) ==
    /\ f = [x \in B |-> f[x]]
    /\ C = {f[x] : x \in B}
    /\ \A x, y \in B : f[x] = f[y] => x = y

\* A set and the images of another outside it have the elements of both.
LEMMA WithImages ==
    ASSUME NEW A, NEW B, IsFiniteSet(A), IsFiniteSet(B),
           NEW f, NEW C, Images(f, B, C), A \cap C = {}
    PROVE  /\ IsFiniteSet(A \cup C)
           /\ Cardinality(A \cup C) = Cardinality(A) + Cardinality(B)
<1>1. f \in Bijection(B, C)
    <2>1. f \in [B -> C]
        BY DEF Images
    <2>2. /\ \A y \in C : \E x \in B : f[x] = y
          /\ \A x, y \in B : f[x] = f[y] => x = y
        BY DEF Images
    <2> QED BY <2>1, <2>2 DEF Bijection, Injection, Surjection, IsInjective
<1>2. IsFiniteSet(C) /\ Cardinality(C) = Cardinality(B)
    <2>1. ExistsBijection(B, C)
        BY <1>1 DEF ExistsBijection
    <2> QED BY <2>1, FS_Bijection
<1>4. /\ IsFiniteSet(A \cup C)
      /\ Cardinality(A \cup C) = Cardinality(A) + Cardinality(C) - Cardinality(A \cap C)
    BY <1>2, FS_Union
<1>5. Cardinality(A \cap C) = 0 /\ Cardinality(A) \in Nat /\ Cardinality(C) \in Nat
    BY <1>2, FS_EmptySet, FS_CardinalityType
<1> QED BY <1>2, <1>4, <1>5

\* A set of natural numbers up to n has a greatest element.
LEMMA GreatestNat ==
    ASSUME NEW S \in SUBSET Nat, S # {}, NEW n \in Nat, \A x \in S : x <= n
    PROVE  Max(S) \in S /\ \A x \in S : x <= Max(S)
<1> DEFINE D == {n - x : x \in S}
<1>1. D \in SUBSET Nat /\ D # {}
    <2>1. ASSUME NEW x \in S PROVE n - x \in Nat
        BY x <= n, x \in Nat
    <2>2. D # {}
        OBVIOUS
    <2> QED BY <2>1, <2>2
<1>2. Min(D) \in D /\ \A y \in D : Min(D) <= y
    <2> HIDE DEF D
    <2> QED BY <1>1, LeastNat
<1>3. PICK m \in S : Min(D) = n - m
    BY <1>2
<1>4. ASSUME NEW x \in S PROVE m >= x
    <2>1. n - m <= n - x
        BY <1>2, <1>3
    <2> QED BY <2>1
<1> QED BY <1>4 DEF Max

\* The greater of two numbers.
LEMMA MaxOfTwo ==
    ASSUME NEW a \in Nat, NEW b \in Nat
    PROVE  Max({a, b}) \in {a, b} /\ a <= Max({a, b}) /\ b <= Max({a, b})
<1> DEFINE S == {a, b}
<1>1. S \in SUBSET Nat /\ S # {} /\ a + b \in Nat /\ \A x \in S : x <= a + b
    OBVIOUS
<1> HIDE DEF S
<1>2. Max(S) \in S /\ \A x \in S : x <= Max(S)
    BY <1>1, GreatestNat
<1> QED BY <1>2 DEF S

\* Two sets together have at most as many elements as both.
LEMMA AtMostBoth ==
    ASSUME NEW A, NEW B, IsFiniteSet(A), IsFiniteSet(B)
    PROVE  /\ IsFiniteSet(A \cup B) /\ Cardinality(A) \in Nat /\ Cardinality(B) \in Nat
           /\ Cardinality(A \cup B) \in Nat
           /\ Cardinality(A \cup B) <= Cardinality(A) + Cardinality(B)
<1>1. /\ IsFiniteSet(A \cup B) /\ IsFiniteSet(A \cap B)
      /\ Cardinality(A \cup B) = Cardinality(A) + Cardinality(B) - Cardinality(A \cap B)
    BY FS_Union, FS_Intersection
<1>2. Cardinality(A) \in Nat /\ Cardinality(B) \in Nat /\ Cardinality(A \cap B) \in Nat
      /\ Cardinality(A \cup B) \in Nat
    BY <1>1, FS_CardinalityType
<1> QED BY <1>1, <1>2

\* A function has no more values than arguments.
LEMMA ImageBound ==
    ASSUME NEW I, IsFiniteSet(I), NEW f, f = [x \in I |-> f[x]]
    PROVE  IsFiniteSet({f[x] : x \in I}) /\ Cardinality({f[x] : x \in I}) <= Cardinality(I)
<1> DEFINE V == {f[x] : x \in I}
<1>1. f \in [I -> V]
    OBVIOUS
<1>2. f \in Surjection(I, V)
    BY <1>1 DEF Surjection
<1> HIDE DEF V
<1>3. IsFiniteSet(V) /\ Cardinality(V) <= Cardinality(I)
    BY <1>2, FS_Surjection
<1> QED BY <1>3 DEF V

\* Two sums of the same numbers.
LEMMA SameTotal ==
    ASSUME NEW f, NEW S, f = [x \in S |-> f[x]], NEW g, g = [x \in S |-> g[x]],
           \A x \in S : f[x] = g[x]
    PROVE  Total(f) = Total(g)
<1>1. f = g
    OBVIOUS
<1> QED BY <1>1

\* The middle that a binary search takes lies above the lower end.
LEMMA Midpoint ==
    ASSUME NEW a \in Int, NEW b \in Int, a < b
    PROVE  /\ (a + b + 1) \div 2 \in Int /\ a < (a + b + 1) \div 2 /\ (a + b + 1) \div 2 <= b
OBVIOUS

\* An item added to a sequence of the values of f.
LEMMA OneMoreSet ==
    ASSUME NEW n \in Nat, NEW f, NEW s, s = [i \in 1 .. n |-> f[i]], NEW x, x = f[n + 1]
    PROVE  Append(s, x) = [i \in 1 .. n + 1 |-> f[i]]
<1>1. s \in Seq({f[i] : i \in 1 .. n}) /\ Len(s) = n
    OBVIOUS
<1>2. Append(s, x) = [i \in 1 .. n + 1 |-> IF i <= n THEN s[i] ELSE x]
    BY <1>1
<1>3. \A i \in 1 .. n + 1 : (IF i <= n THEN s[i] ELSE x) = f[i]
    <2> SUFFICES ASSUME NEW i \in 1 .. n + 1 PROVE (IF i <= n THEN s[i] ELSE x) = f[i]
        OBVIOUS
    <2>1. CASE i <= n
        BY <2>1
    <2>2. CASE ~(i <= n)
        <3>1. i = n + 1
            BY <2>2
        <3> QED BY <2>2, <3>1
    <2> QED BY <2>1, <2>2
<1> QED BY <1>2, <1>3

\* What is left of a sequence from its item a.
LEMMA TailOfSeq ==
    ASSUME NEW S, NEW s \in Seq(S), NEW a \in 1 .. Len(s)
    PROVE  /\ Len(SubSeq(s, a, Len(s))) = Len(s) - a + 1
           /\ \A i \in 1 .. Len(s) - a + 1 : SubSeq(s, a, Len(s))[i] = s[a + i - 1]
OBVIOUS

\* The stretches between neighbouring members of C.
Between(C) ==
    {p \in C \X C : p[1] < p[2] /\ \A c \in C : c <= p[1] \/ c >= p[2]}

\* Stretches that cover what lies between two ends, and do not overlap.
Tiling(P, lo, hi) ==
    /\ IsFiniteSet(P)
    /\ \A p \in P : /\ p = <<p[1], p[2]>> /\ p[1] \in Nat /\ p[2] \in Nat
                    /\ lo <= p[1] /\ p[1] < p[2] /\ p[2] <= hi
    /\ \A i \in lo + 1 .. hi : \E p \in P : i \in p[1] + 1 .. p[2]
    /\ \A p, q \in P : \A i \in Int :
          i \in p[1] + 1 .. p[2] /\ i \in q[1] + 1 .. q[2] => p = q

LEMMA StretchesCover ==
    ASSUME NEW lo \in Nat, NEW hi \in Nat, NEW C \in SUBSET (lo .. hi), lo \in C, hi \in C
    PROVE  Tiling(Between(C), lo, hi)
<1>1. IsFiniteSet(C) /\ C \in SUBSET Nat
    <2>1. lo \in Int /\ hi \in Int
        OBVIOUS
    <2>2. IsFiniteSet(lo .. hi)
        BY <2>1, FS_Interval
    <2>3. lo .. hi \in SUBSET Nat
        OBVIOUS
    <2> QED BY <2>2, <2>3, FS_Subset
<1>2. IsFiniteSet(Between(C))
    <2>1. IsFiniteSet(C \X C)
        BY <1>1, FS_Product
    <2>2. Between(C) \in SUBSET (C \X C)
        BY DEF Between
    <2> QED BY <2>1, <2>2, FS_Subset
<1>3. ASSUME NEW p \in Between(C)
      PROVE  /\ p = <<p[1], p[2]>> /\ p[1] \in C /\ p[2] \in C /\ p[1] < p[2]
             /\ p[1] \in Nat /\ p[2] \in Nat /\ lo <= p[1] /\ p[2] <= hi
             /\ \A c \in C : c <= p[1] \/ c >= p[2]
    <2>1. /\ p = <<p[1], p[2]>> /\ p[1] \in C /\ p[2] \in C /\ p[1] < p[2]
          /\ \A c \in C : c <= p[1] \/ c >= p[2]
        BY DEF Between
    <2>2. \A c \in C : c \in Nat /\ lo <= c /\ c <= hi
        OBVIOUS
    <2> QED BY <2>1, <2>2
<1>4. ASSUME NEW i \in lo + 1 .. hi PROVE \E p \in Between(C) : i \in p[1] + 1 .. p[2]
    <2> DEFINE A == {c \in C : c < i}
               B == {c \in C : c >= i}
               a == Max(A)
               b == Min(B)
    <2>1. a \in A /\ \A c \in A : c <= a
        <3>1. lo < i /\ \A c \in C : c <= hi
            BY <1>1
        <3>2. A \in SUBSET Nat /\ lo \in A /\ \A c \in A : c <= hi
            BY <1>1, <3>1
        <3> HIDE DEF A
        <3> QED BY <3>2, GreatestNat
    <2>2. b \in B /\ \A c \in B : b <= c
        <3>1. hi >= i
            OBVIOUS
        <3>2. B \in SUBSET Nat /\ hi \in B
            BY <1>1, <3>1
        <3> HIDE DEF B
        <3> QED BY <3>2, LeastNat
    <2> HIDE DEF a, b
    <2>3. a \in C /\ b \in C /\ a \in Nat /\ b \in Nat /\ a < i /\ b >= i
        BY <1>1, <2>1, <2>2
    <2>4. \A c \in C : c <= a \/ c >= b
        <3> SUFFICES ASSUME NEW c \in C PROVE c <= a \/ c >= b
            OBVIOUS
        <3>1. c \in Nat
            BY <1>1
        <3>2. CASE c < i
            BY <2>1, <3>2
        <3>3. CASE ~(c < i)
            <4>1. c \in B
                BY <3>1, <3>3
            <4>2. b <= c
                BY <2>2, <4>1
            <4> QED BY <2>3, <3>1, <4>2
        <3> QED BY <3>2, <3>3
    <2> HIDE DEF A, B
    <2>5. a < b
        BY <2>3
    <2>6. <<a, b>> \in Between(C)
        BY <2>3, <2>4, <2>5 DEF Between
    <2>7. i \in a + 1 .. b
        BY <2>3
    <2>8. i \in <<a, b>>[1] + 1 .. <<a, b>>[2]
        BY <2>7
    <2> QED BY <2>6, <2>8
<1>5. ASSUME NEW p \in Between(C), NEW q \in Between(C), NEW i \in Int,
             i \in p[1] + 1 .. p[2], i \in q[1] + 1 .. q[2]
      PROVE  p = q
    <2>1. /\ p = <<p[1], p[2]>> /\ p[1] \in C /\ p[2] \in C /\ p[1] \in Nat /\ p[2] \in Nat
          /\ \A c \in C : c <= p[1] \/ c >= p[2]
        BY <1>3
    <2>2. /\ q = <<q[1], q[2]>> /\ q[1] \in C /\ q[2] \in C /\ q[1] \in Nat /\ q[2] \in Nat
          /\ \A c \in C : c <= q[1] \/ c >= q[2]
        BY <1>3
    <2>3. p[1] < i /\ i <= p[2] /\ q[1] < i /\ i <= q[2]
        BY <1>5, <2>1, <2>2
    <2>4. (q[1] <= p[1] \/ q[1] >= p[2]) /\ (q[2] <= p[1] \/ q[2] >= p[2])
        BY <2>1, <2>2
    <2>5. (p[1] <= q[1] \/ p[1] >= q[2]) /\ (p[2] <= q[1] \/ p[2] >= q[2])
        BY <2>1, <2>2
    <2>6. p[1] = q[1] /\ p[2] = q[2]
        BY <2>1, <2>2, <2>3, <2>4, <2>5
    <2> QED BY <2>1, <2>2, <2>6
<1> DEFINE P == Between(C)
<1>6. /\ IsFiniteSet(P)
      /\ \A p \in P : /\ p = <<p[1], p[2]>> /\ p[1] \in Nat /\ p[2] \in Nat
                      /\ lo <= p[1] /\ p[1] < p[2] /\ p[2] <= hi
      /\ \A i \in lo + 1 .. hi : \E p \in P : i \in p[1] + 1 .. p[2]
      /\ \A p, q \in P : \A i \in Int :
            i \in p[1] + 1 .. p[2] /\ i \in q[1] + 1 .. q[2] => p = q
    BY <1>2, <1>3, <1>4, <1>5
<1> HIDE DEF P
<1> QED BY <1>6 DEF Tiling, P

----------------------------------------------------------------------------
(* A sum over a finite set is the size of a union of parts.                *)

Pick(s) == CHOOSE x \in s : TRUE

\* A family of subsets of S with the empty set and with every subset that has
\* the rest of it in the family contains S.
LEMMA EveryRest ==
    ASSUME NEW S, IsFiniteSet(S), NEW F, {} \in F,
           \A T \in SUBSET S : T # {} /\ T \ {Pick(T)} \in F => T \in F
    PROVE  S \in F
<1> DEFINE Bad == {n \in Nat : \E T \in SUBSET S : Cardinality(T) = n /\ T \notin F}
<1>1. \A T \in SUBSET S : IsFiniteSet(T) /\ Cardinality(T) \in Nat
    BY FS_Subset, FS_CardinalityType
<1>2. Bad = {}
    <2> SUFFICES ASSUME Bad # {} PROVE FALSE
        OBVIOUS
    <2>1. PICK m \in Bad : \A y \in Bad : m <= y
        <3>1. Bad \in SUBSET Nat
            OBVIOUS
        <3> HIDE DEF Bad
        <3> QED BY <3>1, LeastNat
    <2>2. PICK T \in SUBSET S : Cardinality(T) = m /\ T \notin F
        OBVIOUS
    <2>3. T # {} /\ Pick(T) \in T
        <3>1. T # {}
            <4> HIDE DEF Bad
            <4> QED BY <2>2
        <3>2. \E x \in T : TRUE
            BY <3>1
        <3> QED BY <3>1, <3>2 DEF Pick
    <2>4. T \ {Pick(T)} \in SUBSET S /\ Cardinality(T \ {Pick(T)}) = m - 1 /\ m - 1 \in Nat
        <3>1. IsFiniteSet(T) /\ T \ {Pick(T)} \in SUBSET S
            BY <1>1
        <3>2. Cardinality(T) \in Nat /\ Cardinality(T \ {Pick(T)}) = Cardinality(T) - 1
            BY <1>1, <2>3, <3>1, FS_RemoveElement
        <3>3. Cardinality(T \ {Pick(T)}) \in Nat
            BY <1>1, <3>1
        <3> QED BY <2>2, <3>1, <3>2, <3>3
    <2>5. m - 1 \notin Bad /\ m \in Nat
        <3> HIDE DEF Bad
        <3> QED BY <2>1, <2>2, <2>4, <1>1
    <2>6. T \ {Pick(T)} \in F
        BY <2>4, <2>5
    <2> QED BY <2>2, <2>3, <2>6
<1> QED BY <1>1, <1>2

\* A set of as many finite parts as there are members of S, no two of which overlap.
Parts(F, S) ==
    /\ \A x \in S : IsFiniteSet(F[x])
    /\ \A x, y \in S : x # y => F[x] \cap F[y] = {}
Whole(F, S) == UNION {F[x] : x \in S}
Sizes(F, S) == [x \in S |-> Cardinality(F[x])]

\* The recursion that MapThenSumSet computes a sum with, over every subset of S.
Sums(h, g, S) ==
    h = [s \in SUBSET S |-> IF s = {} THEN 0 ELSE g[Pick(s)] + h[s \ {Pick(s)}]]

\* Its unfolding, as a part is added.
LEMMA WholeOfRest ==
    ASSUME NEW S, NEW F, Parts(F, S), NEW T \in SUBSET S, T # {},
           IsFiniteSet(Whole(F, T \ {Pick(T)}))
    PROVE  /\ Pick(T) \in T /\ IsFiniteSet(Whole(F, T))
           /\ Cardinality(Whole(F, T)) =
                 Cardinality(F[Pick(T)]) + Cardinality(Whole(F, T \ {Pick(T)}))
<1> DEFINE x == Pick(T)
           A == F[x]
           B == Whole(F, T \ {x})
<1>1. x \in T /\ x \in S
    BY DEF Pick
<1>2. Whole(F, T) = A \cup B /\ A \cap B = {}
    BY <1>1 DEF Whole, Parts
<1>3. IsFiniteSet(A) /\ IsFiniteSet(B)
    BY <1>1 DEF Parts
<1> HIDE DEF A, B, x
<1>4. /\ IsFiniteSet(A \cup B)
      /\ Cardinality(A \cup B) = Cardinality(A) + Cardinality(B) - Cardinality(A \cap B)
    BY <1>3, FS_Union
<1>5. Cardinality(A \cap B) = 0 /\ Cardinality(A) \in Nat /\ Cardinality(B) \in Nat
    BY <1>2, <1>3, FS_EmptySet, FS_CardinalityType
<1>6. Cardinality(Whole(F, T)) = Cardinality(A) + Cardinality(B) /\ IsFiniteSet(Whole(F, T))
    BY <1>2, <1>4, <1>5
<1> QED BY <1>1, <1>6 DEF A, B, x

LEMMA PartsAddUp ==
    ASSUME NEW S, IsFiniteSet(S), NEW F, Parts(F, S)
    PROVE  IsFiniteSet(Whole(F, S)) /\ Total(Sizes(F, S)) = Cardinality(Whole(F, S))
<1> DEFINE g == Sizes(F, S)
           W(T) == Whole(F, T)
           k == [T \in SUBSET S |-> Cardinality(W(T))]
<1>1. W({}) = {}
    BY DEF Whole
<1>2. \A T \in SUBSET S : IsFiniteSet(W(T))
    <2> SUFFICES ASSUME NEW U \in SUBSET S PROVE IsFiniteSet(W(U))
        OBVIOUS
    <2> DEFINE Family == {T \in SUBSET U : IsFiniteSet(W(T))}
    <2>1. {} \in Family
        BY <1>1, FS_EmptySet
    <2>2. ASSUME NEW T \in SUBSET U, T # {}, T \ {Pick(T)} \in Family PROVE T \in Family
        <3>1. T \in SUBSET S /\ IsFiniteSet(Whole(F, T \ {Pick(T)}))
            BY <2>2
        <3>2. IsFiniteSet(Whole(F, T))
            BY <2>2, <3>1, WholeOfRest
        <3> QED BY <3>2
    <2>3. IsFiniteSet(U)
        BY FS_Subset
    <2>4. U \in Family
        <3> HIDE DEF Family
        <3> QED BY <2>1, <2>2, <2>3, EveryRest
    <2> QED BY <2>4
<1>3. ASSUME NEW T \in SUBSET S, T # {}
      PROVE  /\ Pick(T) \in T /\ T \ {Pick(T)} \in SUBSET S
             /\ k[T] = g[Pick(T)] + k[T \ {Pick(T)}]
    <2>1. T \ {Pick(T)} \in SUBSET S
        OBVIOUS
    <2>2. IsFiniteSet(Whole(F, T \ {Pick(T)}))
        BY <1>2, <2>1
    <2>3. /\ Pick(T) \in T
          /\ Cardinality(W(T)) = Cardinality(F[Pick(T)]) + Cardinality(W(T \ {Pick(T)}))
        BY <1>3, <2>2, WholeOfRest
    <2>4. g[Pick(T)] = Cardinality(F[Pick(T)])
        BY <2>3 DEF Sizes
    <2> HIDE DEF W, g
    <2> QED BY <2>1, <2>3, <2>4
<1>4. k[{}] = 0
    BY <1>1, FS_EmptySet
<1>5. Sums(k, g, S)
    <2>1. k = [T \in SUBSET S |-> k[T]]
        OBVIOUS
    <2> HIDE DEF k, g
    <2>2. [T \in SUBSET S |-> k[T]]
            = [T \in SUBSET S |-> IF T = {} THEN 0 ELSE g[Pick(T)] + k[T \ {Pick(T)}]]
        BY <1>3, <1>4
    <2> QED BY <2>1, <2>2 DEF Sums
<1>6. ASSUME NEW h, Sums(h, g, S) PROVE h[S] = k[S]
    <2> DEFINE Family == {T \in SUBSET S : h[T] = k[T]}
    <2> HIDE DEF k, g
    <2>1. {} \in Family
        BY <1>4, <1>6 DEF Sums
    <2>2. ASSUME NEW T \in SUBSET S, T # {}, T \ {Pick(T)} \in Family PROVE T \in Family
        <3>1. h[T] = g[Pick(T)] + h[T \ {Pick(T)}]
            BY <1>6, <2>2 DEF Sums
        <3>2. k[T] = g[Pick(T)] + k[T \ {Pick(T)}]
            BY <1>3, <2>2
        <3> QED BY <2>2, <3>1, <3>2
    <2>3. S \in Family
        <3> HIDE DEF Family
        <3> QED BY <2>1, <2>2, EveryRest
    <2> QED BY <2>3
<1>7. Total(g) = (CHOOSE h : Sums(h, g, S))[S]
    <2>1. DOMAIN g = S
        BY DEF Sizes
    <2> HIDE DEF g
    <2> QED BY <2>1 DEF Total, MapThenSumSet, MapThenFoldSet, Sums, Pick
<1>8. Sums(CHOOSE h : Sums(h, g, S), g, S)
    <2> HIDE DEF k, g
    <2> QED BY <1>5
<1>9. Total(g) = k[S]
    <2> HIDE DEF k, g
    <2> QED BY <1>6, <1>7, <1>8
<1> HIDE DEF g
<1> QED BY <1>2, <1>9 DEF g

\* A pair of x with each member of a set.
LEMMA PairedSize ==
    ASSUME NEW x, NEW A, IsFiniteSet(A)
    PROVE  IsFiniteSet({x} \X A) /\ Cardinality({x} \X A) = Cardinality(A)
<1>1. IsFiniteSet({x}) /\ Cardinality({x}) = 1
    BY FS_Singleton
<1>2. /\ IsFiniteSet({x} \X A)
      /\ Cardinality({x} \X A) = Cardinality({x}) * Cardinality(A)
    BY <1>1, FS_Product
<1>3. Cardinality(A) \in Nat
    BY FS_CardinalityType
<1> QED BY <1>1, <1>2, <1>3

\* Natural numbers as sizes.
Stacks(f, S) == [x \in S |-> {x} \X (0 .. f[x] - 1)]

LEMMA TotalOfStacks ==
    ASSUME NEW S, IsFiniteSet(S), NEW f \in [S -> Nat]
    PROVE  /\ IsFiniteSet(Whole(Stacks(f, S), S))
           /\ Total(f) = Cardinality(Whole(Stacks(f, S), S))
<1> DEFINE F == Stacks(f, S)
<1>1. ASSUME NEW x \in S PROVE IsFiniteSet(F[x]) /\ Cardinality(F[x]) = f[x]
    <2>1. F[x] = {x} \X (0 .. f[x] - 1) /\ f[x] \in Nat
        BY DEF Stacks
    <2>2. IsFiniteSet(0 .. f[x] - 1) /\ Cardinality(0 .. f[x] - 1) = f[x]
        <3> DEFINE n == f[x]
                   b == n - 1
        <3>1. n \in Nat /\ 0 \in Int /\ b \in Int /\ (0 > b => n = 0) /\ (0 <= b => b - 0 + 1 = n)
            BY <2>1
        <3> HIDE DEF b
        <3>2. IsFiniteSet(0 .. b) /\ Cardinality(0 .. b) = IF 0 > b THEN 0 ELSE b - 0 + 1
            BY <3>1, FS_Interval
        <3>3. (IF 0 > b THEN 0 ELSE b - 0 + 1) = n
            <4> HIDE DEF n
            <4>1. CASE 0 > b
                BY <3>1, <4>1
            <4>2. CASE ~(0 > b)
                BY <3>1, <4>2
            <4> QED BY <4>1, <4>2
        <3> HIDE DEF n
        <3>4. IsFiniteSet(0 .. b) /\ Cardinality(0 .. b) = n
            BY <3>2, <3>3
        <3> QED BY <3>4 DEF b, n
    <2> DEFINE A == 0 .. f[x] - 1
    <2>3. F[x] = {x} \X A /\ IsFiniteSet(A) /\ Cardinality(A) = f[x]
        BY <2>1, <2>2
    <2> HIDE DEF F, A
    <2>4. IsFiniteSet({x} \X A) /\ Cardinality({x} \X A) = Cardinality(A)
        BY <2>3, PairedSize
    <2> QED BY <2>3, <2>4
<1>2. Parts(F, S)
    <2>1. \A x, y \in S : x # y => F[x] \cap F[y] = {}
        BY DEF Stacks
    <2> HIDE DEF F
    <2> QED BY <1>1, <2>1 DEF Parts
<1>3. Sizes(F, S) = f
    <2>1. f = [x \in S |-> f[x]]
        OBVIOUS
    <2> HIDE DEF F
    <2> QED BY <1>1, <2>1 DEF Sizes
<1> HIDE DEF F
<1>4. IsFiniteSet(Whole(F, S)) /\ Total(Sizes(F, S)) = Cardinality(Whole(F, S))
    BY <1>2, PartsAddUp
<1> QED BY <1>3, <1>4 DEF F

\* A sum of natural numbers is one, and is raised by as much as one of them.
LEMMA RaisedTotal ==
    ASSUME NEW S, IsFiniteSet(S), NEW i \in S, NEW d \in Nat,
           NEW g \in [S -> Nat], NEW r \in [S -> Nat],
           r[i] = g[i] + d, \A x \in S \ {i} : r[x] = g[x]
    PROVE  Total(g) \in Nat /\ Total(r) = Total(g) + d
<1> DEFINE A == Whole(Stacks(g, S), S)
           n == g[i]
           B == 0 .. d - 1
           C == {i} \X (n .. n + d - 1)
           up == [b \in B |-> <<i, n + b>>]
<1>1. IsFiniteSet(A) /\ Total(g) = Cardinality(A)
    BY TotalOfStacks
<1>2. IsFiniteSet(B) /\ Cardinality(B) = d
    <2> DEFINE b == d - 1
    <2>1. b \in Int /\ 0 \in Int /\ (0 > b => d = 0) /\ (0 <= b => b - 0 + 1 = d)
        OBVIOUS
    <2> HIDE DEF b
    <2>2. IsFiniteSet(0 .. b) /\ Cardinality(0 .. b) = IF 0 > b THEN 0 ELSE b - 0 + 1
        BY <2>1, FS_Interval
    <2> QED BY <2>1, <2>2 DEF b
<1>3. Images(up, B, C)
    <2>1. n \in Nat
        OBVIOUS
    <2> HIDE DEF n
    <2>2. \A b \in B : up[b] = <<i, n + b>>
        OBVIOUS
    <2>3. C = {<<i, n + b>> : b \in B}
        <3>1. ASSUME NEW c \in C PROVE c \in {<<i, n + b>> : b \in B}
            <4>1. c = <<i, c[2]>> /\ c[2] \in n .. n + d - 1
                OBVIOUS
            <4>2. c[2] - n \in B /\ n + (c[2] - n) = c[2]
                BY <2>1, <4>1
            <4> QED BY <4>1, <4>2
        <3>2. ASSUME NEW b \in B PROVE <<i, n + b>> \in C
            BY <2>1, n + b \in n .. n + d - 1
        <3> QED BY <3>1, <3>2
    <2>4. C = {up[b] : b \in B}
        BY <2>2, <2>3
    <2>5. \A a, b \in B : <<i, n + a>> = <<i, n + b>> => a = b
        BY <2>1
    <2> QED BY <2>2, <2>4, <2>5 DEF Images
<1>4. Whole(Stacks(r, S), S) = A \cup C
    <2>1. n \in Nat /\ r[i] = n + d
        OBVIOUS
    <2>2. 0 .. r[i] - 1 = (0 .. n - 1) \cup (n .. n + d - 1)
        <3> HIDE DEF n
        <3> QED BY <2>1
    <2>3. Stacks(r, S)[i] = Stacks(g, S)[i] \cup C
        BY <2>2 DEF Stacks
    <2>4. \A x \in S \ {i} : Stacks(r, S)[x] = Stacks(g, S)[x]
        BY DEF Stacks
    <2> HIDE DEF C, n
    <2> QED BY <2>3, <2>4 DEF Whole
<1>5. A \cap C = {}
    <2>1. \A x \in S : \A p \in Stacks(g, S)[x] : p[1] = x /\ p[2] <= g[x] - 1
        BY DEF Stacks
    <2>2. \A p \in A : p[1] = i => p[2] <= n - 1
        BY <2>1 DEF Whole
    <2>3. \A p \in C : p[1] = i /\ p[2] >= n /\ p[2] \in Int /\ n \in Int
        OBVIOUS
    <2> HIDE DEF A, C, n
    <2>4. ASSUME NEW p \in A, p \in C PROVE FALSE
        BY <2>2, <2>3, <2>4
    <2> QED BY <2>4
<1> HIDE DEF A, B, C, up
<1>6. Cardinality(A \cup C) = Cardinality(A) + Cardinality(B)
    BY <1>1, <1>2, <1>3, <1>5, WithImages
<1>7. Total(r) = Cardinality(A \cup C)
    BY <1>4, TotalOfStacks
<1> QED BY <1>1, <1>2, <1>6, <1>7, FS_CardinalityType

LEMMA TotalOfZeros ==
    ASSUME NEW S, IsFiniteSet(S), NEW f \in [S -> Nat], \A x \in S : f[x] = 0
    PROVE  Total(f) = 0
<1>1. Whole(Stacks(f, S), S) = {}
    BY DEF Whole, Stacks
<1> QED BY <1>1, TotalOfStacks, FS_EmptySet

(* Every set of experts is finite, and its size is a natural number.       *)
LEMMA ExpertSetsFinite ==
    /\ IsFiniteSet(Experts)
    /\ Cardinality(Experts) = E
    /\ \A S \in SUBSET Experts : IsFiniteSet(S) /\ Cardinality(S) \in Nat /\ Cardinality(S) <= E
<1>1. IsFiniteSet(Experts) /\ Cardinality(Experts) = E
    BY FS_Interval, PolicyAssumption DEF Experts
<1>2. ASSUME NEW S \in SUBSET Experts
      PROVE  IsFiniteSet(S) /\ Cardinality(S) \in Nat /\ Cardinality(S) <= E
    BY <1>1, FS_Subset, FS_CardinalityType
<1>3. QED BY <1>1, <1>2

(* Two sets of the same size differ by as many experts on either side.     *)
LEMMA EqualSizeDifference ==
    ASSUME NEW A \in SUBSET Experts, NEW B \in SUBSET Experts, Cardinality(A) = Cardinality(B)
    PROVE  Cardinality(SymmetricDifference(A, B)) = 2 * Cardinality(B \ A)
<1>1. /\ IsFiniteSet(A) /\ IsFiniteSet(B) /\ IsFiniteSet(A \ B) /\ IsFiniteSet(B \ A)
      /\ Cardinality(A) \in Nat /\ Cardinality(B) \in Nat
      /\ Cardinality(A \ B) \in Nat /\ Cardinality(B \ A) \in Nat
      /\ Cardinality(A \cap B) \in Nat
    <2>1. A \ B \in SUBSET Experts /\ B \ A \in SUBSET Experts /\ A \cap B \in SUBSET Experts
        OBVIOUS
    <2>2. QED BY <2>1, ExpertSetsFinite
<1>2. Cardinality(A \ B) = Cardinality(A) - Cardinality(A \cap B)
    BY <1>1, FS_Difference
<1>3. Cardinality(B \ A) = Cardinality(B) - Cardinality(A \cap B)
    <2>1. Cardinality(B \ A) = Cardinality(B) - Cardinality(B \cap A)
        BY <1>1, FS_Difference
    <2>2. B \cap A = A \cap B
        OBVIOUS
    <2>3. QED BY <2>1, <2>2
<1>4. Cardinality((A \ B) \cup (B \ A)) =
        Cardinality(A \ B) + Cardinality(B \ A) - Cardinality((A \ B) \cap (B \ A))
    BY <1>1, FS_Union
<1>5. Cardinality((A \ B) \cap (B \ A)) = 0
    <2>1. (A \ B) \cap (B \ A) = {}
        OBVIOUS
    <2>2. QED BY <2>1, FS_EmptySet
<1>6. Cardinality((A \ B) \cup (B \ A)) = 2 * Cardinality(B \ A)
    BY <1>1, <1>2, <1>3, <1>4, <1>5
<1>7. QED BY <1>6 DEF SymmetricDifference

(* The cold-start set has K experts.                                       *)
LEMMA ColdSetSize == ColdSet \in SUBSET Experts /\ Cardinality(ColdSet) = K
<1>1. ColdSet \in SUBSET Experts
    BY PolicyAssumption DEF ColdSet, Experts
<1>2. Cardinality(ColdSet) = K
    BY FS_Interval, PolicyAssumption DEF ColdSet
<1>3. QED BY <1>1, <1>2

(* The sort key of top_k orders any two experts, one way only.             *)
LEMMA BeforeIsTotalOrder ==
    ASSUME NEW counts \in [Experts -> Nat]
    PROVE  /\ \A a \in Experts : ~ Before(counts, a, a)
           /\ \A a, b \in Experts : a # b => Before(counts, a, b) \/ Before(counts, b, a)
           /\ \A a, b, c \in Experts :
                 Before(counts, a, b) /\ Before(counts, b, c) => Before(counts, a, c)
<1>1. \A a \in Experts : a \in Int /\ counts[a] \in Int
    BY PolicyAssumption DEF Experts
<1>2. QED BY <1>1 DEF Before

(* An expert's rank is its position in that order, 0 for the first.        *)
LEMMA RankIsInjective ==
    ASSUME NEW counts \in [Experts -> Nat]
    PROVE  [e \in Experts |-> Rank(counts, e)] \in Injection(Experts, 0 .. (E - 1))
<1> DEFINE Ahead(e) == {f \in Experts : Before(counts, f, e)}
<1>1. ASSUME NEW e \in Experts
      PROVE  /\ IsFiniteSet(Ahead(e)) /\ Cardinality(Ahead(e)) \in Nat
             /\ Cardinality(Ahead(e)) < E
    <2>1. Ahead(e) \in SUBSET (Experts \ {e})
        BY BeforeIsTotalOrder
    <2>2. IsFiniteSet(Experts \ {e}) /\ Cardinality(Experts \ {e}) = E - 1
        BY ExpertSetsFinite, FS_RemoveElement
    <2>3. IsFiniteSet(Ahead(e)) /\ Cardinality(Ahead(e)) <= E - 1
        BY <2>1, <2>2, FS_Subset
    <2>4. Cardinality(Ahead(e)) \in Nat
        BY <2>3, FS_CardinalityType
    <2>5. QED BY <2>3, <2>4, PolicyAssumption
<1>2. ASSUME NEW a \in Experts, NEW b \in Experts, Before(counts, a, b)
      PROVE  Cardinality(Ahead(a)) < Cardinality(Ahead(b))
    <2>1. a \notin Ahead(a)
        BY BeforeIsTotalOrder
    <2>2. Ahead(a) \cup {a} \in SUBSET Ahead(b)
        BY <1>2, BeforeIsTotalOrder
    <2>3. Cardinality(Ahead(a) \cup {a}) = Cardinality(Ahead(a)) + 1
        BY <1>1, <2>1, FS_AddElement
    <2>4. Cardinality(Ahead(a) \cup {a}) <= Cardinality(Ahead(b))
        BY <1>1, <2>2, FS_Subset
    <2>5. Cardinality(Ahead(a)) \in Nat /\ Cardinality(Ahead(b)) \in Nat
        BY <1>1
    <2>6. QED BY <2>3, <2>4, <2>5
<1>3. [e \in Experts |-> Rank(counts, e)] \in [Experts -> 0 .. (E - 1)]
    BY <1>1, PolicyAssumption DEF Rank
<1>4. ASSUME NEW a \in Experts, NEW b \in Experts, Rank(counts, a) = Rank(counts, b)
      PROVE  a = b
    <2>1. Cardinality(Ahead(a)) = Cardinality(Ahead(b))
        BY <1>4 DEF Rank
    <2>2. Cardinality(Ahead(a)) \in Nat /\ Cardinality(Ahead(b)) \in Nat
        BY <1>1
    <2>3. ~ (Cardinality(Ahead(a)) < Cardinality(Ahead(b)))
          /\ ~ (Cardinality(Ahead(b)) < Cardinality(Ahead(a)))
        BY <2>1, <2>2
    <2>4. ~ Before(counts, a, b) /\ ~ Before(counts, b, a)
        BY <1>2, <2>3, Zenon
    <2>5. QED BY <2>4, BeforeIsTotalOrder
<1>5. QED BY <1>3, <1>4 DEF Injection, IsInjective

(* top_k returns exactly K experts, whatever the counters are.             *)
THEOREM TopKSize ==
    ASSUME NEW counts \in [Experts -> Nat]
    PROVE  TopK(counts) \in SUBSET Experts /\ Cardinality(TopK(counts)) = K
<1> DEFINE rank == [e \in Experts |-> Rank(counts, e)]
           top  == [e \in TopK(counts) |-> rank[e]]
<1>1. rank \in Injection(Experts, 0 .. (E - 1))
    BY RankIsInjective
<1>2. IsFiniteSet(0 .. (E - 1)) /\ Cardinality(0 .. (E - 1)) = E
    BY FS_Interval, PolicyAssumption
<1>3. rank \in Surjection(Experts, 0 .. (E - 1))
    <2> HIDE DEF rank
    <2>1. QED BY <1>1, <1>2, ExpertSetsFinite, FS_Injection
<1>4. TopK(counts) \in SUBSET Experts
    BY DEF TopK
<1>5. \A e \in Experts : rank[e] \in 0 .. (E - 1) /\ (e \in TopK(counts) <=> rank[e] < K)
    BY <1>1 DEF TopK, Injection
<1>6. top \in [TopK(counts) -> 0 .. (K - 1)]
    BY <1>4, <1>5, PolicyAssumption
<1>7. \A a, b \in TopK(counts) : top[a] = top[b] => a = b
    BY <1>1, <1>4 DEF Injection, IsInjective
<1>8. \A r \in 0 .. (K - 1) : \E e \in TopK(counts) : top[e] = r
    <2> SUFFICES ASSUME NEW r \in 0 .. (K - 1) PROVE \E e \in TopK(counts) : top[e] = r
        OBVIOUS
    <2>1. r \in 0 .. (E - 1) /\ r < K
        BY PolicyAssumption
    <2>2. PICK e \in Experts : rank[e] = r
        BY <1>3, <2>1 DEF Surjection
    <2>3. QED BY <1>5, <2>1, <2>2
<1>9. top \in Bijection(TopK(counts), 0 .. (K - 1))
    BY <1>6, <1>7, <1>8 DEF Bijection, Injection, Surjection, IsInjective
<1>10. ExistsBijection(TopK(counts), 0 .. (K - 1))
    BY <1>9 DEF ExistsBijection
<1>11. Cardinality(0 .. (K - 1)) = K
    BY FS_Interval, PolicyAssumption
<1>12. QED BY <1>4, <1>10, <1>11, ExpertSetsFinite, FS_Bijection

(* Counting a segment of the log and halving leave naturals.               *)
LEMMA CountersAreNaturals ==
    ASSUME NEW counts \in [Experts -> Nat], NEW n \in Nat, NEW seg \in [1 .. n -> Rows]
    PROVE  /\ NoCounts \in [Experts -> Nat]
           /\ Decay(counts) \in [Experts -> Nat]
           /\ Accumulate(counts, seg) \in [Experts -> Nat]
<1>1. ASSUME NEW e \in Experts PROVE PicksOf(seg, e) \in Nat
    <2>1. IsFiniteSet(1 .. n)
        BY FS_Interval
    <2>2. {i \in DOMAIN seg : e \in seg[i]} \in SUBSET (1 .. n)
        OBVIOUS
    <2>3. QED BY <2>1, <2>2, FS_Subset, FS_CardinalityType DEF PicksOf
<1>2. ASSUME NEW e \in Experts PROVE counts[e] + Add * PicksOf(seg, e) \in Nat
    BY <1>1, PolicyAssumption
<1>3. \A e \in Experts : counts[e] \div 2 \in Nat
    OBVIOUS
<1>4. QED BY <1>2, <1>3 DEF NoCounts, Decay, Accumulate

(* A segment's misses are a natural number.                                *)
LEMMA MissesAreNaturals ==
    ASSUME NEW n \in Nat, NEW seg \in [1 .. n -> Rows], NEW R
    PROVE  Misses(seg, R) \in Nat
<1>1. IsFiniteSet((1 .. n) \X Experts)
    <2>1. IsFiniteSet(1 .. n)
        BY FS_Interval
    <2>2. QED BY <2>1, ExpertSetsFinite, FS_Product
<1>2. {p \in (DOMAIN seg) \X Experts : p[2] \in seg[p[1]] \ R} \in SUBSET ((1 .. n) \X Experts)
    OBVIOUS
<1>3. QED BY <1>1, <1>2, FS_Subset, FS_CardinalityType DEF Misses

----------------------------------------------------------------------------
(* More of sums, by the sets whose sizes they are.                         *)

\* A sum of natural numbers is one.
LEMMA TotalIsNatural ==
    ASSUME NEW S, IsFiniteSet(S), NEW f \in [S -> Nat]
    PROVE  Total(f) \in Nat
<1>1. /\ IsFiniteSet(Whole(Stacks(f, S), S))
      /\ Total(f) = Cardinality(Whole(Stacks(f, S), S))
    BY TotalOfStacks
<1> QED BY <1>1, FS_CardinalityType

\* The members of some sets, each with the index of its set.
Pairs(S, D) == UNION {{i} \X D[i] : i \in S}

LEMMA PairsSize ==
    ASSUME NEW S, IsFiniteSet(S), NEW D, \A i \in S : IsFiniteSet(D[i])
    PROVE  /\ IsFiniteSet(Pairs(S, D)) /\ Cardinality(Pairs(S, D)) \in Nat
           /\ Total([i \in S |-> Cardinality(D[i])]) = Cardinality(Pairs(S, D))
           /\ \A q : q \in Pairs(S, D) <=> q = <<q[1], q[2]>> /\ q[1] \in S /\ q[2] \in D[q[1]]
<1> DEFINE F == [i \in S |-> {i} \X D[i]]
<1>1. ASSUME NEW i \in S
      PROVE  F[i] = {i} \X D[i] /\ IsFiniteSet(F[i]) /\ Cardinality(F[i]) = Cardinality(D[i])
    <2>1. F[i] = {i} \X D[i]
        OBVIOUS
    <2> HIDE DEF F
    <2>2. IsFiniteSet({i} \X D[i]) /\ Cardinality({i} \X D[i]) = Cardinality(D[i])
        BY PairedSize, Zenon
    <2> QED BY <2>1, <2>2
<1>2. Whole(F, S) = Pairs(S, D)
    BY DEF Whole, Pairs
<1> HIDE DEF F
<1>3. Sizes(F, S) = [i \in S |-> Cardinality(D[i])]
    BY <1>1 DEF Sizes
<1>4. Parts(F, S)
    <2>1. ASSUME NEW x \in S, NEW y \in S, x # y PROVE F[x] \cap F[y] = {}
        <3>1. F[x] = {x} \X D[x] /\ F[y] = {y} \X D[y]
            BY <1>1
        <3>2. \A A, B : ({x} \X A) \cap ({y} \X B) = {}
            BY <2>1
        <3> QED BY <3>1, <3>2
    <2> QED BY <1>1, <2>1 DEF Parts
<1>5. IsFiniteSet(Pairs(S, D)) /\ Total(Sizes(F, S)) = Cardinality(Pairs(S, D))
    BY <1>2, <1>4, PartsAddUp
<1>6. \A q : q \in Pairs(S, D) <=> q = <<q[1], q[2]>> /\ q[1] \in S /\ q[2] \in D[q[1]]
    <2> SUFFICES ASSUME NEW q
                 PROVE  q \in Pairs(S, D) <=> q = <<q[1], q[2]>> /\ q[1] \in S /\ q[2] \in D[q[1]]
        OBVIOUS
    <2>1. ASSUME NEW i, q \in {i} \X D[i] PROVE q = <<q[1], q[2]>> /\ q[1] = i /\ q[2] \in D[i]
        BY <2>1
    <2>2. ASSUME q = <<q[1], q[2]>>, q[2] \in D[q[1]] PROVE q \in {q[1]} \X D[q[1]]
        BY <2>2
    <2> QED BY <2>1, <2>2 DEF Pairs
<1> QED BY <1>3, <1>5, <1>6, FS_CardinalityType

\* A sum of one number.
LEMMA TotalOfOne ==
    ASSUME NEW a, NEW f, f = [x \in {a} |-> f[x]], f[a] \in Nat
    PROVE  Total(f) = f[a]
<1> DEFINE n == f[a]
           D == [x \in {a} |-> 0 .. n - 1]
<1>1. IsFiniteSet(0 .. n - 1) /\ Cardinality(0 .. n - 1) = n
    <2>1. 0 \in Int /\ n - 1 \in Int
        OBVIOUS
    <2> HIDE DEF n
    <2>2. IsFiniteSet(0 .. n - 1)
          /\ Cardinality(0 .. n - 1) = IF 0 > n - 1 THEN 0 ELSE (n - 1) - 0 + 1
        BY <2>1, FS_Interval
    <2> QED BY <2>2 DEF n
<1>2. D[a] = 0 .. n - 1 /\ \A i \in {a} : D[i] = 0 .. n - 1
    OBVIOUS
<1>3. Pairs({a}, D) = {a} \X (0 .. n - 1)
    BY <1>2 DEF Pairs
<1>4. [i \in {a} |-> Cardinality(D[i])] = f
    BY <1>1, <1>2
<1> HIDE DEF D, n
<1>5. IsFiniteSet({a})
    BY FS_Singleton
<1>6. Total([i \in {a} |-> Cardinality(D[i])]) = Cardinality(Pairs({a}, D))
    <2>1. \A i \in {a} : IsFiniteSet(D[i])
        BY <1>1, <1>2
    <2> QED BY <1>5, <2>1, PairsSize
<1>7. Cardinality({a} \X (0 .. n - 1)) = n
    BY <1>1, PairedSize
<1> QED BY <1>3, <1>4, <1>6, <1>7 DEF n

\* A member of the stacks is an index and a number below the one it has.
LEMMA StackMembers ==
    ASSUME NEW S, NEW f, NEW q
    PROVE  q \in Whole(Stacks(f, S), S)
             <=> q = <<q[1], q[2]>> /\ q[1] \in S /\ q[2] \in 0 .. f[q[1]] - 1
<1>1. q \in Whole(Stacks(f, S), S) <=> \E x \in S : q \in {x} \X (0 .. f[x] - 1)
    BY DEF Whole, Stacks
<1>2. ASSUME NEW x \in S
      PROVE  q \in {x} \X (0 .. f[x] - 1) <=> q = <<q[1], q[2]>> /\ q[1] = x /\ q[2] \in 0 .. f[x] - 1
    OBVIOUS
<1> QED BY <1>1, <1>2

\* A sum does not depend on the names of its indices.
LEMMA Reindexed ==
    ASSUME NEW S, NEW R, IsFiniteSet(S), IsFiniteSet(R), NEW f \in [S -> Nat], NEW g \in [R -> Nat],
           NEW h \in Bijection(S, R), \A x \in S : f[x] = g[h[x]]
    PROVE  Total(f) = Total(g)
<1> DEFINE A == Whole(Stacks(f, S), S)
           B == Whole(Stacks(g, R), R)
           m == [q \in A |-> <<h[q[1]], q[2]>>]
<1>1. IsFiniteSet(A) /\ Total(f) = Cardinality(A) /\ Total(g) = Cardinality(B)
    BY TotalOfStacks
<1>2. /\ \A q : q \in A <=> q = <<q[1], q[2]>> /\ q[1] \in S /\ q[2] \in 0 .. f[q[1]] - 1
      /\ \A q : q \in B <=> q = <<q[1], q[2]>> /\ q[1] \in R /\ q[2] \in 0 .. g[q[1]] - 1
    BY StackMembers
<1>3. /\ \A x \in S : h[x] \in R
      /\ \A x, y \in S : h[x] = h[y] => x = y
      /\ \A y \in R : \E x \in S : h[x] = y
    BY DEF Bijection, Injection, Surjection, IsInjective
<1> HIDE DEF A, B
<1>4. \A q \in A : m[q] = <<h[q[1]], q[2]>> /\ m[q] \in B
    <2> TAKE q \in A
    <2>1. q[1] \in S /\ q[2] \in 0 .. f[q[1]] - 1
        BY <1>2
    <2>2. <<h[q[1]], q[2]>> \in B
        BY <1>2, <1>3, <2>1
    <2> QED BY <2>2
<1>5. \A p, q \in A : m[p] = m[q] => p = q
    <2> TAKE p, q \in A
    <2> HAVE m[p] = m[q]
    <2>1. h[p[1]] = h[q[1]] /\ p[2] = q[2]
        BY <1>4
    <2>2. p[1] = q[1]
        BY <1>2, <1>3, <2>1
    <2>3. p = <<p[1], p[2]>> /\ q = <<q[1], q[2]>>
        BY <1>2
    <2> QED BY <2>1, <2>2, <2>3
<1>6. \A r \in B : \E q \in A : m[q] = r
    <2> TAKE r \in B
    <2>1. r = <<r[1], r[2]>> /\ r[1] \in R /\ r[2] \in 0 .. g[r[1]] - 1
        BY <1>2
    <2>2. PICK x \in S : h[x] = r[1]
        BY <1>3, <2>1
    <2>3. <<x, r[2]>> \in A
        BY <1>2, <2>1, <2>2
    <2>4. m[<<x, r[2]>>] = r
        BY <2>1, <2>2, <2>3
    <2> QED BY <2>3, <2>4
<1>7. m \in [A -> B]
    BY <1>4
<1> HIDE DEF m
<1>8. m \in Bijection(A, B)
    BY <1>5, <1>6, <1>7 DEF Bijection, Injection, Surjection, IsInjective
<1> QED BY <1>1, <1>8, FS_Bijection DEF ExistsBijection

\* A sum of smaller numbers is no greater.
LEMMA TotalAtMost ==
    ASSUME NEW S, IsFiniteSet(S), NEW f \in [S -> Nat], NEW g \in [S -> Nat],
           \A x \in S : f[x] <= g[x]
    PROVE  Total(f) \in Nat /\ Total(g) \in Nat /\ Total(f) <= Total(g)
<1> DEFINE A == Whole(Stacks(f, S), S)
           B == Whole(Stacks(g, S), S)
<1>1. IsFiniteSet(B) /\ Total(f) = Cardinality(A) /\ Total(g) = Cardinality(B)
    BY TotalOfStacks
<1>2. /\ \A q : q \in A <=> q = <<q[1], q[2]>> /\ q[1] \in S /\ q[2] \in 0 .. f[q[1]] - 1
      /\ \A q : q \in B <=> q = <<q[1], q[2]>> /\ q[1] \in S /\ q[2] \in 0 .. g[q[1]] - 1
    BY StackMembers
<1> HIDE DEF A, B
<1>3. \A x \in S : \A j \in 0 .. f[x] - 1 : j \in 0 .. g[x] - 1
    OBVIOUS
<1>4. A \in SUBSET B
    BY <1>2, <1>3
<1> QED BY <1>1, <1>4, FS_Subset, FS_CardinalityType

\* A sum of sums, one after the other.
LEMMA TotalOfSums ==
    ASSUME NEW S, IsFiniteSet(S), NEW f \in [S -> Nat], NEW g \in [S -> Nat]
    PROVE  Total([x \in S |-> f[x] + g[x]]) = Total(f) + Total(g)
<1> DEFINE s == [x \in S |-> f[x] + g[x]]
           A == Whole(Stacks(f, S), S)
           B == Whole(Stacks(g, S), S)
           D == Whole(Stacks(s, S), S)
           m == [q \in B |-> <<q[1], f[q[1]] + q[2]>>]
           C == {m[q] : q \in B}
<1>1. s \in [S -> Nat]
    OBVIOUS
<1>2. /\ IsFiniteSet(A) /\ IsFiniteSet(B) /\ Total(f) = Cardinality(A) /\ Total(g) = Cardinality(B)
      /\ Total(s) = Cardinality(D)
    BY <1>1, TotalOfStacks
<1>3. /\ \A q : q \in A <=> q = <<q[1], q[2]>> /\ q[1] \in S /\ q[2] \in 0 .. f[q[1]] - 1
      /\ \A q : q \in B <=> q = <<q[1], q[2]>> /\ q[1] \in S /\ q[2] \in 0 .. g[q[1]] - 1
      /\ \A q : q \in D <=> q = <<q[1], q[2]>> /\ q[1] \in S /\ q[2] \in 0 .. s[q[1]] - 1
    BY StackMembers
<1>4. \A x \in S : f[x] \in Nat /\ g[x] \in Nat /\ s[x] = f[x] + g[x]
    OBVIOUS
<1> HIDE DEF A, B, D, s
<1>5. \A q \in B : m[q] = <<q[1], f[q[1]] + q[2]>>
    OBVIOUS
<1>6. Images(m, B, C)
    <2>1. \A p, q \in B : m[p] = m[q] => p = q
        <3> TAKE p, q \in B
        <3> HAVE m[p] = m[q]
        <3>1. p[1] = q[1] /\ f[p[1]] + p[2] = f[q[1]] + q[2]
            BY <1>5
        <3>2. p[1] \in S /\ p[2] \in Int /\ q[2] \in Int /\ f[p[1]] \in Int
            BY <1>3, <1>4
        <3>3. p[2] = q[2]
            BY <3>1, <3>2
        <3>4. p = <<p[1], p[2]>> /\ q = <<q[1], q[2]>>
            BY <1>3
        <3> QED BY <3>1, <3>3, <3>4
    <2>2. m = [q \in B |-> m[q]]
        OBVIOUS
    <2> HIDE DEF m
    <2> QED BY <2>1, <2>2 DEF Images
<1>7. \A q \in C : q = <<q[1], q[2]>> /\ q[1] \in S /\ q[2] \in f[q[1]] .. s[q[1]] - 1
    <2> TAKE q \in C
    <2>1. PICK p \in B : q = <<p[1], f[p[1]] + p[2]>>
        BY <1>5
    <2>2. p[1] \in S /\ p[2] \in 0 .. g[p[1]] - 1
        BY <1>3
    <2>3. f[p[1]] + p[2] \in f[p[1]] .. s[p[1]] - 1
        BY <1>4, <2>2
    <2> QED BY <2>1, <2>2, <2>3
<1>8. \A q : q = <<q[1], q[2]>> /\ q[1] \in S /\ q[2] \in f[q[1]] .. s[q[1]] - 1 => q \in C
    <2> TAKE q
    <2> HAVE q = <<q[1], q[2]>> /\ q[1] \in S /\ q[2] \in f[q[1]] .. s[q[1]] - 1
    <2> DEFINE p == <<q[1], q[2] - f[q[1]]>>
    <2>1. q[2] - f[q[1]] \in 0 .. g[q[1]] - 1 /\ f[q[1]] + (q[2] - f[q[1]]) = q[2]
        BY <1>4
    <2>2. p \in B
        BY <1>3, <2>1
    <2>3. m[p] = q
        BY <1>5, <2>1, <2>2
    <2> QED BY <2>2, <2>3
<1> HIDE DEF C, m
<1>9. A \cap C = {}
    <2> SUFFICES ASSUME NEW q \in A, q \in C PROVE FALSE
        OBVIOUS
    <2>1. q[1] \in S /\ q[2] \in 0 .. f[q[1]] - 1 /\ q[2] \in f[q[1]] .. s[q[1]] - 1
        BY <1>3, <1>7
    <2> QED BY <1>4, <2>1
<1>10. D = A \cup C
    <2>1. ASSUME NEW q \in A PROVE q \in D
        <3>1. q = <<q[1], q[2]>> /\ q[1] \in S /\ q[2] \in 0 .. f[q[1]] - 1
            BY <1>3
        <3>2. q[2] \in 0 .. s[q[1]] - 1
            BY <1>4, <3>1
        <3> QED BY <1>3, <3>1, <3>2
    <2>2. ASSUME NEW q \in C PROVE q \in D
        <3>1. q = <<q[1], q[2]>> /\ q[1] \in S /\ q[2] \in f[q[1]] .. s[q[1]] - 1
            BY <1>7
        <3>2. q[2] \in 0 .. s[q[1]] - 1
            BY <1>4, <3>1
        <3> QED BY <1>3, <3>1, <3>2
    <2>3. ASSUME NEW q \in D, q \notin A PROVE q \in C
        <3>1. q = <<q[1], q[2]>> /\ q[1] \in S /\ q[2] \in 0 .. s[q[1]] - 1
            BY <1>3
        <3>2. q[2] \notin 0 .. f[q[1]] - 1
            BY <1>3, <2>3, <3>1
        <3>3. q[2] \in f[q[1]] .. s[q[1]] - 1
            BY <1>4, <3>1, <3>2
        <3> QED BY <1>8, <3>1, <3>3
    <2> QED BY <2>1, <2>2, <2>3
<1>11. Cardinality(A \cup C) = Cardinality(A) + Cardinality(B)
    BY <1>2, <1>6, <1>9, WithImages
<1> QED BY <1>2, <1>10, <1>11 DEF s

\* A sum of equal numbers.
LEMMA TotalOfSame ==
    ASSUME NEW S, IsFiniteSet(S), NEW n \in Nat
    PROVE  Total([x \in S |-> n]) = n * Cardinality(S)
<1> DEFINE f == [x \in S |-> n]
           B == Whole(Stacks(f, S), S)
<1>1. f \in [S -> Nat]
    OBVIOUS
<1>2. Total(f) = Cardinality(B)
    <2> HIDE DEF f
    <2> QED BY <1>1, TotalOfStacks
<1>3. \A q : q \in B <=> q = <<q[1], q[2]>> /\ q[1] \in S /\ q[2] \in 0 .. f[q[1]] - 1
    BY StackMembers
<1>4. \A x \in S : f[x] = n
    OBVIOUS
<1> HIDE DEF B, f
<1>5. B = S \X (0 .. n - 1)
    <2>1. \A q : q \in S \X (0 .. n - 1) <=> q = <<q[1], q[2]>> /\ q[1] \in S /\ q[2] \in 0 .. n - 1
        OBVIOUS
    <2> QED BY <1>3, <1>4, <2>1
<1>6. IsFiniteSet(0 .. n - 1) /\ Cardinality(0 .. n - 1) = n
    <2>1. 0 \in Int /\ n - 1 \in Int
        OBVIOUS
    <2> QED BY <2>1, FS_Interval
<1>7. Cardinality(S \X (0 .. n - 1)) = Cardinality(S) * Cardinality(0 .. n - 1)
    BY <1>6, FS_Product
<1>8. Cardinality(S) \in Nat
    BY FS_CardinalityType
<1>9. Total(f) = n * Cardinality(S)
    BY <1>2, <1>5, <1>6, <1>7, <1>8
<1> QED BY <1>9 DEF f

\* A sum by the values of h.
PartAt(f, S, h, y) == [x \in {z \in S : h[z] = y} |-> f[x]]

LEMMA TotalByPart ==
    ASSUME NEW S, NEW R, IsFiniteSet(S), IsFiniteSet(R), NEW f \in [S -> Nat], NEW h \in [S -> R]
    PROVE  /\ \A y \in R : Total(PartAt(f, S, h, y)) \in Nat
           /\ Total(f) = Total([y \in R |-> Total(PartAt(f, S, h, y))])
<1> DEFINE A == Whole(Stacks(f, S), S)
           part == [y \in R |-> PartAt(f, S, h, y)]
           D == [y \in R |-> {q \in A : h[q[1]] = y}]
           P == Pairs(R, D)
           m == [q \in A |-> <<h[q[1]], q>>]
<1>1. IsFiniteSet(A) /\ Total(f) = Cardinality(A)
    BY TotalOfStacks
<1>2. \A q : q \in A <=> q = <<q[1], q[2]>> /\ q[1] \in S /\ q[2] \in 0 .. f[q[1]] - 1
    BY StackMembers
<1>3. \A y \in R : D[y] = {q \in A : h[q[1]] = y}
    OBVIOUS
<1>4. \A q \in A : m[q] = <<h[q[1]], q>>
    OBVIOUS
<1>5. m = [q \in A |-> m[q]]
    OBVIOUS
<1>6. \A y \in R : part[y] = PartAt(f, S, h, y)
    OBVIOUS
<1> HIDE DEF A, part, D, m
<1>7. \A y \in R : D[y] \in SUBSET A /\ IsFiniteSet(D[y])
    BY <1>1, <1>3, FS_Subset
<1>8. ASSUME NEW y \in R PROVE Total(part[y]) = Cardinality(D[y]) /\ Total(part[y]) \in Nat
    <2> DEFINE Z == {z \in S : h[z] = y}
               g == [x \in Z |-> f[x]]
    <2>1. IsFiniteSet(Z)
        BY FS_Subset
    <2>2. g \in [Z -> Nat] /\ \A x \in Z : g[x] = f[x]
        OBVIOUS
    <2>3. part[y] = g
        BY <1>6 DEF PartAt
    <2>4. \A x : x \in Z <=> x \in S /\ h[x] = y
        OBVIOUS
    <2> HIDE DEF Z, g
    <2>5. Total(g) = Cardinality(Whole(Stacks(g, Z), Z))
        BY <2>1, <2>2, TotalOfStacks
    <2>6. \A q : q \in Whole(Stacks(g, Z), Z) <=> q = <<q[1], q[2]>> /\ q[1] \in Z /\ q[2] \in 0 .. g[q[1]] - 1
        BY StackMembers
    <2>7. Whole(Stacks(g, Z), Z) = D[y]
        <3>1. \A q : q \in D[y] <=> q \in A /\ h[q[1]] = y
            BY <1>3
        <3>2. \A q : q \in D[y] <=> q = <<q[1], q[2]>> /\ q[1] \in S /\ q[2] \in 0 .. f[q[1]] - 1 /\ h[q[1]] = y
            BY <1>2, <3>1
        <3>3. \A q : q \in Whole(Stacks(g, Z), Z) <=> q = <<q[1], q[2]>> /\ q[1] \in S /\ q[2] \in 0 .. f[q[1]] - 1 /\ h[q[1]] = y
            BY <2>2, <2>4, <2>6
        <3> QED BY <3>2, <3>3
    <2>8. Total(g) \in Nat
        BY <2>1, <2>2, TotalIsNatural
    <2> QED BY <2>3, <2>5, <2>7, <2>8
<1>9. /\ IsFiniteSet(P) /\ Total([y \in R |-> Cardinality(D[y])]) = Cardinality(P)
      /\ \A q : q \in P <=> q = <<q[1], q[2]>> /\ q[1] \in R /\ q[2] \in D[q[1]]
    BY <1>7, PairsSize
<1> HIDE DEF P
<1>10. m \in Bijection(A, P)
    <2>1. \A q \in A : m[q] \in P
        <3> TAKE q \in A
        <3>1. q[1] \in S /\ h[q[1]] \in R
            BY <1>2
        <3>2. q \in D[h[q[1]]]
            BY <1>3, <3>1
        <3> QED BY <1>4, <1>9, <3>1, <3>2
    <2>2. \A p, q \in A : m[p] = m[q] => p = q
        BY <1>4
    <2>3. \A r \in P : \E q \in A : m[q] = r
        <3> TAKE r \in P
        <3>1. r = <<r[1], r[2]>> /\ r[1] \in R /\ r[2] \in D[r[1]]
            BY <1>9
        <3>2. r[2] \in A /\ h[r[2][1]] = r[1]
            BY <1>3, <3>1
        <3> QED BY <1>4, <3>1, <3>2
    <2>4. m \in [A -> P]
        BY <1>5, <2>1
    <2> QED BY <2>2, <2>3, <2>4 DEF Bijection, Injection, Surjection, IsInjective
<1>11. Cardinality(A) = Cardinality(P)
    BY <1>1, <1>9, <1>10, FS_Bijection DEF ExistsBijection
<1>12. [y \in R |-> Cardinality(D[y])] = [y \in R |-> Total(part[y])]
    BY <1>8
<1>13. Total(f) = Total([y \in R |-> Total(part[y])])
    BY <1>1, <1>9, <1>11, <1>12
<1>14. [y \in R |-> Total(part[y])] = [y \in R |-> Total(PartAt(f, S, h, y))]
    BY <1>6
<1> QED BY <1>6, <1>8, <1>13, <1>14

\* A sum over pairs, one component after the other.
RowOf(f, R, x) == [y \in R |-> f[<<x, y>>]]
ColumnOf(f, S, y) == [x \in S |-> f[<<x, y>>]]
RowTotals(f, S, R) == [x \in S |-> Total(RowOf(f, R, x))]
ColumnTotals(f, S, R) == [y \in R |-> Total(ColumnOf(f, S, y))]

SumsOver(f, S, R) ==
    /\ \A x \in S : Total(RowOf(f, R, x)) \in Nat
    /\ \A y \in R : Total(ColumnOf(f, S, y)) \in Nat
    /\ Total(f) = Total(RowTotals(f, S, R))
    /\ Total(f) = Total(ColumnTotals(f, S, R))

LEMMA TotalOverPairs ==
    ASSUME NEW S, NEW R, IsFiniteSet(S), IsFiniteSet(R), NEW f \in [S \X R -> Nat]
    PROVE  SumsOver(f, S, R)
<1> DEFINE SR == S \X R
           h == [p \in SR |-> p[1]]
           k == [p \in SR |-> p[2]]
           H1(x) == PartAt(f, SR, h, x)
           K1(y) == PartAt(f, SR, k, y)
<1>1. IsFiniteSet(SR)
    BY FS_Product
<1>2. h \in [SR -> S] /\ k \in [SR -> R] /\ f \in [SR -> Nat]
    OBVIOUS
<1>3. \A p \in SR : h[p] = p[1] /\ k[p] = p[2] /\ p = <<p[1], p[2]>>
    OBVIOUS
<1>4. \A x \in S, y \in R : <<x, y>> \in SR
    OBVIOUS
<1> HIDE DEF SR, h, k
<1>5. /\ \A x \in S : Total(H1(x)) \in Nat
      /\ Total(f) = Total([x \in S |-> Total(H1(x))])
    BY <1>1, <1>2, TotalByPart
<1>6. /\ \A y \in R : Total(K1(y)) \in Nat
      /\ Total(f) = Total([y \in R |-> Total(K1(y))])
    <2>1. f \in [SR -> Nat] /\ k \in [SR -> R] /\ IsFiniteSet(R)
        BY <1>2
    <2>2. Total(f) = Total([y \in R |-> Total(PartAt(f, SR, k, y))])
        BY <1>1, <2>1, TotalByPart
    <2>3. \A y \in R : Total(PartAt(f, SR, k, y)) \in Nat
        BY <1>1, <2>1, TotalByPart
    <2> QED BY <2>2, <2>3
<1>7. ASSUME NEW x \in S PROVE Total(H1(x)) = Total(RowOf(f, R, x))
    <2> DEFINE Z == {z \in SR : h[z] = x}
               g == [p \in Z |-> f[p]]
               u == [y \in R |-> f[<<x, y>>]]
               b == [y \in R |-> <<x, y>>]
    <2>1. IsFiniteSet(Z)
        BY <1>1, FS_Subset
    <2>2. g \in [Z -> Nat] /\ u \in [R -> Nat]
        BY <1>2, <1>4
    <2>3. b \in Bijection(R, Z)
        <3>1. \A y \in R : b[y] = <<x, y>> /\ b[y] \in Z
            BY <1>3, <1>4
        <3>2. b \in [R -> Z]
            BY <3>1
        <3>3. \A p \in Z : p = <<x, p[2]>> /\ p[2] \in R
            BY <1>2, <1>3
        <3> HIDE DEF b, Z
        <3>4. \A y, z \in R : b[y] = b[z] => y = z
            BY <3>1
        <3>5. \A p \in Z : \E y \in R : b[y] = p
            BY <3>1, <3>3
        <3> QED BY <3>2, <3>4, <3>5 DEF Bijection, Injection, Surjection, IsInjective
    <2>4. \A y \in R : u[y] = g[b[y]]
        BY <1>3, <1>4
    <2> HIDE DEF Z, g, u, b
    <2>5. Total(u) = Total(g)
        BY <2>1, <2>2, <2>3, <2>4, Reindexed
    <2> QED BY <2>5 DEF Z, g, u, PartAt, RowOf
<1>8. ASSUME NEW y \in R PROVE Total(K1(y)) = Total(ColumnOf(f, S, y))
    <2> DEFINE Z == {z \in SR : k[z] = y}
               g == [p \in Z |-> f[p]]
               u == [x \in S |-> f[<<x, y>>]]
               b == [x \in S |-> <<x, y>>]
    <2>1. IsFiniteSet(Z)
        BY <1>1, FS_Subset
    <2>2. g \in [Z -> Nat] /\ u \in [S -> Nat]
        BY <1>2, <1>4
    <2>3. b \in Bijection(S, Z)
        <3>1. \A x \in S : b[x] = <<x, y>> /\ b[x] \in Z
            BY <1>3, <1>4
        <3>2. b \in [S -> Z]
            BY <3>1
        <3>3. \A p \in Z : p = <<p[1], y>> /\ p[1] \in S
            BY <1>2, <1>3
        <3> HIDE DEF b, Z
        <3>4. \A x, z \in S : b[x] = b[z] => x = z
            BY <3>1
        <3>5. \A p \in Z : \E x \in S : b[x] = p
            BY <3>1, <3>3
        <3> QED BY <3>2, <3>4, <3>5 DEF Bijection, Injection, Surjection, IsInjective
    <2>4. \A x \in S : u[x] = g[b[x]]
        BY <1>3, <1>4
    <2> HIDE DEF Z, g, u, b
    <2>5. Total(u) = Total(g)
        BY <2>1, <2>2, <2>3, <2>4, Reindexed
    <2> QED BY <2>5 DEF Z, g, u, PartAt, ColumnOf
<1> HIDE DEF H1, K1
<1>9. [x \in S |-> Total(H1(x))] = RowTotals(f, S, R)
    BY <1>7 DEF RowTotals
<1>10. [y \in R |-> Total(K1(y))] = ColumnTotals(f, S, R)
    BY <1>8 DEF ColumnTotals
<1> QED BY <1>5, <1>6, <1>7, <1>8, <1>9, <1>10 DEF SumsOver

----------------------------------------------------------------------------
(* The simulators of the decay policy, sim_residency.py's and the tracer's *)
(* (k), as walks of a state over the windows of a log.                     *)

Sim == <<"sim", 0>>
Trace(maxToken) == <<"trace", maxToken>>
Kinds == {"sim", "trace"} \X Nat

Start(k) ==
    IF k[1] = "sim" THEN [counters |-> NoCounts, resident |-> ColdSet, misses |-> 0, churn |-> 0]
    ELSE [counters |-> NoCounts, misses |-> 0, lines |-> {}]

CountersAt(s, w) == IF w > 1 THEN Decay(s.counters) ELSE s.counters
ResidentIn(s, w) == IF w > 1 THEN TopK(CountersAt(s, w)) ELSE ColdSet

\* The line the tracer writes for a window.
Traced(w, R, maxToken) == IF Boundary(w) < maxToken THEN {<<Boundary(w), R>>} ELSE {}

Step(k, s, w, seg) ==
    IF k[1] = "sim"
    THEN [counters |-> Accumulate(CountersAt(s, w), seg),
          resident |-> ResidentIn(s, w),
          misses   |-> s.misses + Misses(seg, ResidentIn(s, w)),
          churn    |-> s.churn + Cardinality(SymmetricDifference(s.resident, ResidentIn(s, w)))]
    ELSE [counters |-> Accumulate(CountersAt(s, w), seg),
          misses   |-> s.misses + Misses(seg, ResidentIn(s, w)),
          lines    |-> s.lines \cup Traced(w, ResidentIn(s, w), k[2])]

IsWalk(k, f, ids, n) ==
    f = [w \in 0 .. n |-> IF w = 0 THEN Start(k) ELSE Step(k, f[w - 1], w, Window(ids, w))]

\* A walk over any number of windows exists.
LEMMA WalksExist ==
    ASSUME NEW k, NEW ids, NEW n \in Nat
    PROVE  \E f : IsWalk(k, f, ids, n)
<1> DEFINE None == {m \in Nat : ~ \E f : IsWalk(k, f, ids, m)}
<1>1. None = {}
    <2> SUFFICES ASSUME None # {} PROVE FALSE
        OBVIOUS
    <2>1. PICK m \in None : \A x \in None : m <= x
        <3>1. None \in SUBSET Nat
            OBVIOUS
        <3> HIDE DEF None
        <3> QED BY <3>1, LeastNat
    <2>2. m \in Nat /\ ~ \E f : IsWalk(k, f, ids, m)
        OBVIOUS
    <2>3. m # 0
        <3> DEFINE f == [w \in 0 .. 0 |-> Start(k)]
        <3>1. f = [w \in 0 .. 0 |-> IF w = 0 THEN Start(k) ELSE Step(k, f[w - 1], w, Window(ids, w))]
            OBVIOUS
        <3> HIDE DEF f
        <3>2. IsWalk(k, f, ids, 0)
            BY <3>1 DEF IsWalk
        <3> QED BY <2>2, <3>2
    <2>4. m - 1 \in Nat /\ m - 1 \notin None
        <3> HIDE DEF None
        <3> QED BY <2>1, <2>2, <2>3
    <2>5. PICK f : IsWalk(k, f, ids, m - 1)
        BY <2>4
    <2> DEFINE g == [w \in 0 .. m |-> IF w = m THEN Step(k, f[m - 1], m, Window(ids, m)) ELSE f[w]]
    <2>6. ASSUME NEW w \in 0 .. m
          PROVE  g[w] = IF w = 0 THEN Start(k) ELSE Step(k, g[w - 1], w, Window(ids, w))
        <3>1. CASE w = m
            <4>1. m - 1 \in 0 .. m /\ m - 1 # m /\ w # 0
                BY <2>2, <2>3, <2>4, <3>1
            <4>2. g[m - 1] = f[m - 1] /\ g[m] = Step(k, f[m - 1], m, Window(ids, m))
                BY <2>2, <4>1
            <4> HIDE DEF g
            <4> QED BY <3>1, <4>1, <4>2
        <3>2. CASE w # m
            <4>1. w \in 0 .. m - 1 /\ (w # 0 => w - 1 \in 0 .. m /\ w - 1 # m)
                BY <2>2, <3>2
            <4>2. g[w] = f[w] /\ (w # 0 => g[w - 1] = f[w - 1])
                BY <3>2, <4>1
            <4>3. f[w] = IF w = 0 THEN Start(k) ELSE Step(k, f[w - 1], w, Window(ids, w))
                BY <2>5, <4>1 DEF IsWalk
            <4> HIDE DEF g
            <4> QED BY <4>2, <4>3
        <3> QED BY <3>1, <3>2
    <2>7. IsWalk(k, g, ids, m)
        <3>1. g = [w \in 0 .. m |-> g[w]]
            OBVIOUS
        <3> HIDE DEF g
        <3>2. [w \in 0 .. m |-> g[w]]
                = [w \in 0 .. m |-> IF w = 0 THEN Start(k) ELSE Step(k, g[w - 1], w, Window(ids, w))]
            BY <2>6
        <3> QED BY <3>1, <3>2 DEF IsWalk
    <2> HIDE DEF g
    <2> QED BY <2>2, <2>7
<1> QED BY <1>1

\* Walks over logs that begin with the same windows are the same there.
SameWindows(ids, jds, j) == \A w \in 1 .. j : Window(ids, w) = Window(jds, w)

LEMMA WalksAgree ==
    ASSUME NEW k, NEW ids, NEW jds, NEW n \in Nat, NEW m \in Nat,
           NEW f, NEW g, IsWalk(k, f, ids, n), IsWalk(k, g, jds, m),
           NEW j \in Nat, j <= n, j <= m, SameWindows(ids, jds, j)
    PROVE  f[j] = g[j]
<1> DEFINE Off == {w \in 0 .. j : f[w] # g[w]}
<1>1. Off = {}
    <2> SUFFICES ASSUME Off # {} PROVE FALSE
        OBVIOUS
    <2>1. PICK u \in Off : \A x \in Off : u <= x
        <3>1. Off \in SUBSET Nat
            OBVIOUS
        <3> HIDE DEF Off
        <3> QED BY <3>1, LeastNat
    <2>2. u \in 0 .. j /\ f[u] # g[u] /\ u \in 0 .. n /\ u \in 0 .. m
        OBVIOUS
    <2>3. u # 0
        BY <2>2 DEF IsWalk
    <2>4. u - 1 \in 0 .. j /\ u - 1 \notin Off
        <3> HIDE DEF Off
        <3> QED BY <2>1, <2>2, <2>3
    <2>5. f[u - 1] = g[u - 1] /\ Window(ids, u) = Window(jds, u)
        BY <2>2, <2>3, <2>4 DEF SameWindows
    <2>6. f[u] = Step(k, f[u - 1], u, Window(ids, u)) /\ g[u] = Step(k, g[u - 1], u, Window(jds, u))
        BY <2>2, <2>3 DEF IsWalk
    <2> QED BY <2>2, <2>5, <2>6
<1> QED BY <1>1

\* What a simulator is left with after the windows of a log.
Done(k, ids) == (CHOOSE f : IsWalk(k, f, ids, Windows(ids)))[Windows(ids)]

\* Any walk leads there.
LEMMA WalkEnds ==
    ASSUME NEW k, NEW ids, NEW f, Windows(ids) \in Nat, IsWalk(k, f, ids, Windows(ids))
    PROVE  Done(k, ids) = f[Windows(ids)]
<1>1. IsWalk(k, CHOOSE g : IsWalk(k, g, ids, Windows(ids)), ids, Windows(ids))
    OBVIOUS
<1> DEFINE g == CHOOSE g : IsWalk(k, g, ids, Windows(ids))
           n == Windows(ids)
<1>2. Done(k, ids) = g[n]
    BY DEF Done
<1>3. n <= n /\ n \in Nat /\ SameWindows(ids, ids, n)
    BY DEF SameWindows
<1> HIDE DEF g, n
<1>4. IsWalk(k, g, ids, n) /\ IsWalk(k, f, ids, n)
    BY <1>1 DEF g, n
<1>5. g[n] = f[n]
    BY <1>3, <1>4, WalksAgree
<1> QED BY <1>2, <1>5 DEF n

\* The simulators are these walks.
LEMMA SimIsWalk ==
    ASSUME NEW ids, Windows(ids) \in Nat
    PROVE  SimP2(ids) = Done(Sim, ids)
<1> DEFINE n == Windows(ids)
           P(walk) == walk = [w \in 0 .. n |->
                IF w = 0
                THEN [counters |-> NoCounts, resident |-> ColdSet, misses |-> 0, churn |-> 0]
                ELSE [counters |-> Accumulate(CountersAt(walk[w - 1], w), Window(ids, w)),
                      resident |-> ResidentIn(walk[w - 1], w),
                      misses   |-> walk[w - 1].misses
                                     + Misses(Window(ids, w), ResidentIn(walk[w - 1], w)),
                      churn    |-> walk[w - 1].churn
                                     + Cardinality(SymmetricDifference(walk[w - 1].resident,
                                                                       ResidentIn(walk[w - 1], w)))]]
<1>1. ASSUME NEW f PROVE P(f) <=> IsWalk(Sim, f, ids, n)
    <2>1. Sim[1] = "sim"
        BY DEF Sim
    <2>2. \A s, w, seg : Step(Sim, s, w, seg) =
             [counters |-> Accumulate(CountersAt(s, w), seg),
              resident |-> ResidentIn(s, w),
              misses   |-> s.misses + Misses(seg, ResidentIn(s, w)),
              churn    |-> s.churn + Cardinality(SymmetricDifference(s.resident, ResidentIn(s, w)))]
        BY <2>1 DEF Step
    <2>3. Start(Sim) = [counters |-> NoCounts, resident |-> ColdSet, misses |-> 0, churn |-> 0]
        BY <2>1 DEF Start
    <2> QED BY <2>2, <2>3 DEF IsWalk
<1>2. P(CHOOSE f : P(f))
    <2>1. \E f : IsWalk(Sim, f, ids, n)
        BY WalksExist
    <2> HIDE DEF P
    <2> QED BY <1>1, <2>1
<1>3. SimP2(ids) = (CHOOSE f : P(f))[n]
    BY DEF SimP2, CountersAt, ResidentIn
<1> HIDE DEF P
<1>4. IsWalk(Sim, CHOOSE f : P(f), ids, n)
    BY <1>1, <1>2
<1> QED BY <1>3, <1>4, WalkEnds

\* The tracer's schedule is this walk.
LEMMA TraceIsWalk ==
    ASSUME NEW ids, NEW maxToken, Windows(ids) \in Nat
    PROVE  TraceP2(ids, maxToken) = Done(Trace(maxToken), ids)
<1> DEFINE n == Windows(ids)
           k == Trace(maxToken)
           Served(s, w) ==
                [counters |-> Accumulate(CountersAt(s, w), Window(ids, w)),
                 misses   |-> s.misses + Misses(Window(ids, w), ResidentIn(s, w)),
                 lines    |-> s.lines \cup Traced(w, ResidentIn(s, w), maxToken)]
           P(walk) == walk = [w \in 0 .. n |->
                IF w = 0 THEN [counters |-> NoCounts, misses |-> 0, lines |-> {}]
                ELSE Served(walk[w - 1], w)]
<1>1. ASSUME NEW f PROVE P(f) <=> IsWalk(k, f, ids, n)
    <2>1. k[1] # "sim" /\ k[2] = maxToken
        BY DEF Trace
    <2>2. \A s, w : Step(k, s, w, Window(ids, w)) = Served(s, w)
        BY <2>1 DEF Step
    <2>3. Start(k) = [counters |-> NoCounts, misses |-> 0, lines |-> {}]
        BY <2>1 DEF Start
    <2> HIDE DEF k, Served
    <2> QED BY <2>2, <2>3 DEF IsWalk
<1>2. P(CHOOSE f : P(f))
    <2>1. \E f : IsWalk(k, f, ids, n)
        BY WalksExist
    <2> HIDE DEF P
    <2> QED BY <1>1, <2>1
<1>3. TraceP2(ids, maxToken) = (CHOOSE f : P(f))[n]
    BY DEF TraceP2, CountersAt, ResidentIn, Traced
<1> HIDE DEF P
<1>4. IsWalk(k, CHOOSE f : P(f), ids, n)
    BY <1>1, <1>2
<1> QED BY <1>3, <1>4, WalkEnds

----------------------------------------------------------------------------
(* How a log grows: by a segment that crosses no recompute boundary.       *)

\* A quotient is known by its bounds.
LEMMA QuotientIs ==
    ASSUME NEW a \in Int, NEW d \in Nat \ {0}, NEW q \in Int, d * q <= a, a < d * q + d
    PROVE  a \div d = q
<1> DEFINE p == a \div d
<1>1. p \in Int /\ d * p <= a /\ a < d * p + d
    BY Quotient
<1> HIDE DEF p
<1>2. ASSUME NEW x \in Int, NEW y \in Int, x < y PROVE d * x + d <= d * y
    <2>1. d * (x + 1) <= d * y
        BY <1>2, Monotone
    <2>2. d * (x + 1) = d * x + d
        OBVIOUS
    <2> QED BY <2>1, <2>2
<1>3. d * p \in Int /\ d * q \in Int
    BY <1>1
<1>4. ~(p < q) /\ ~(q < p)
    <2>1. ASSUME p < q PROVE FALSE
        <3>1. d * p + d <= d * q
            BY <1>1, <1>2, <2>1
        <3> QED BY <1>1, <1>3, <3>1
    <2>2. ASSUME q < p PROVE FALSE
        <3>1. d * q + d <= d * p
            BY <1>1, <1>2, <2>2
        <3> QED BY <1>1, <1>3, <3>1
    <2> QED BY <2>1, <2>2
<1>5. p = q
    BY <1>1, <1>4
<1> QED BY <1>5 DEF p

\* The number of windows of a log.
LEMMA WindowCount ==
    ASSUME NEW ids, Len(ids) \in Nat, NEW n \in Nat,
           H * n < Len(ids) + H, Len(ids) <= H * n
    PROVE  Windows(ids) = n
<1> DEFINE a == Len(ids) + H - 1
<1>1. H \in Nat \ {0} /\ H * n \in Int
    BY PolicyAssumption
<1>2. a \in Int /\ H * n <= a /\ a < H * n + H
    BY <1>1
<1>3. a \div H = n
    <2> HIDE DEF a
    <2> QED BY <1>1, <1>2, QuotientIs
<1> QED BY <1>3 DEF Windows

\* The whole windows of a log, and the rest.
LEMMA WholeWindows ==
    ASSUME NEW n \in Nat
    PROVE  /\ n \div H \in Nat /\ n % H \in 0 .. (H - 1)
           /\ H * (n \div H) \in Nat
           /\ n = H * (n \div H) + (n % H)
BY PolicyAssumption

\* A segment grows a log by rows of its own.
LEMMA Extended ==
    ASSUME NEW ids \in Seq(Rows), NEW n \in Nat, NEW seg \in [1 .. n -> Rows]
    PROVE  /\ seg \in Seq(Rows) /\ Len(seg) = n /\ Len(ids) \in Nat
           /\ ids \o seg \in Seq(Rows) /\ Len(ids \o seg) = Len(ids) + n
           /\ \A i \in 1 .. Len(ids) + n :
                 (ids \o seg)[i] = IF i <= Len(ids) THEN ids[i] ELSE seg[i - Len(ids)]
<1>1. seg \in Seq(Rows) /\ Len(seg) = n /\ Len(ids) \in Nat
    OBVIOUS
<1>2. /\ ids \o seg \in Seq(Rows) /\ Len(ids \o seg) = Len(ids) + Len(seg)
      /\ \A i \in 1 .. Len(ids) + Len(seg) :
            (ids \o seg)[i] = IF i <= Len(ids) THEN ids[i] ELSE seg[i - Len(ids)]
    BY <1>1, ConcatProperties, Zenon
<1> QED BY <1>1, <1>2

\* The rows of a log from one on.
LEMMA PieceOfLog ==
    ASSUME NEW ids \in Seq(Rows), NEW a \in Nat, NEW b \in Nat, b <= Len(ids)
    PROVE  /\ SubSeq(ids, a + 1, b) \in Seq(Rows)
           /\ Len(SubSeq(ids, a + 1, b)) = IF a < b THEN b - a ELSE 0
           /\ \A i \in 1 .. b - a : SubSeq(ids, a + 1, b)[i] = ids[a + i]
<1>1. \A i \in (a + 1) .. b : ids[i] \in Rows
    BY DOMAIN ids = 1 .. Len(ids), Len(ids) \in Nat
<1>2. a + 1 \in Int /\ b \in Int
    OBVIOUS
<1>3. /\ SubSeq(ids, a + 1, b) \in Seq(Rows)
      /\ Len(SubSeq(ids, a + 1, b)) = IF a + 1 <= b THEN b - (a + 1) + 1 ELSE 0
      /\ \A i \in 1 .. b - (a + 1) + 1 : SubSeq(ids, a + 1, b)[i] = ids[(a + 1) + i - 1]
    BY <1>1, <1>2, SubSeqProperties
<1>4. b - (a + 1) + 1 = b - a /\ (a + 1 <= b <=> a < b)
    OBVIOUS
<1>5. \A i \in 1 .. b - a : (a + 1) + i - 1 = a + i
    OBVIOUS
<1>6. \A i \in 1 .. b - a : SubSeq(ids, a + 1, b)[i] = ids[a + i]
    BY <1>3, <1>4, <1>5
<1> QED BY <1>3, <1>4, <1>6

\* Rows of the log before the segment, and from before it to the end.
LEMMA PieceBefore ==
    ASSUME NEW ids \in Seq(Rows), NEW n \in Nat, NEW seg \in [1 .. n -> Rows],
           NEW a \in Nat, NEW b \in Nat, b <= Len(ids)
    PROVE  SubSeq(ids \o seg, a + 1, b) = SubSeq(ids, a + 1, b)
<1> DEFINE x == SubSeq(ids \o seg, a + 1, b)
           y == SubSeq(ids, a + 1, b)
           m == Len(ids)
           both == ids \o seg
<1>1. /\ both \in Seq(Rows) /\ Len(both) = m + n /\ m \in Nat
      /\ \A i \in 1 .. m + n : both[i] = IF i <= m THEN ids[i] ELSE seg[i - m]
    BY Extended
<1>2. b <= Len(both)
    <2> HIDE DEF both
    <2> QED BY <1>1
<1>3. /\ x \in Seq(Rows) /\ Len(x) = (IF a < b THEN b - a ELSE 0)
      /\ \A i \in 1 .. b - a : x[i] = both[a + i]
    <2> HIDE DEF both
    <2>1. /\ SubSeq(both, a + 1, b) \in Seq(Rows)
          /\ Len(SubSeq(both, a + 1, b)) = IF a < b THEN b - a ELSE 0
          /\ \A i \in 1 .. b - a : SubSeq(both, a + 1, b)[i] = both[a + i]
        BY <1>1, <1>2, PieceOfLog
    <2> QED BY <2>1 DEF both
<1>4. /\ y \in Seq(Rows) /\ Len(y) = (IF a < b THEN b - a ELSE 0)
      /\ \A i \in 1 .. b - a : y[i] = ids[a + i]
    BY PieceOfLog
<1>5. b <= m
    OBVIOUS
<1> HIDE DEF x, y, m, both
<1>6. ASSUME NEW i \in 1 .. Len(x) PROVE x[i] = y[i]
    <2>1. i \in 1 .. b - a /\ a + i \in 1 .. m + n /\ a + i <= m
        BY <1>1, <1>3, <1>5
    <2>2. both[a + i] = ids[a + i]
        BY <1>1, <2>1
    <2> QED BY <1>3, <1>4, <2>1, <2>2
<1>7. x = y
    BY <1>3, <1>4, <1>6, SeqEqual
<1> QED BY <1>7 DEF x, y

LEMMA PieceAcross ==
    ASSUME NEW ids \in Seq(Rows), NEW n \in Nat, NEW seg \in [1 .. n -> Rows],
           NEW a \in Nat, a <= Len(ids)
    PROVE  SubSeq(ids \o seg, a + 1, Len(ids) + n) = SubSeq(ids, a + 1, Len(ids)) \o seg
<1> DEFINE m == Len(ids)
           x == SubSeq(ids \o seg, a + 1, m + n)
           z == SubSeq(ids, a + 1, m)
           y == z \o seg
           both == ids \o seg
<1>1. /\ both \in Seq(Rows) /\ Len(both) = m + n /\ m \in Nat
      /\ \A i \in 1 .. m + n : both[i] = IF i <= m THEN ids[i] ELSE seg[i - m]
    BY Extended
<1>2. /\ z \in Seq(Rows) /\ Len(z) = (IF a < m THEN m - a ELSE 0)
      /\ \A i \in 1 .. m - a : z[i] = ids[a + i]
    BY <1>1, PieceOfLog
<1>3. a <= m
    OBVIOUS
<1>4. /\ y \in Seq(Rows) /\ Len(y) = Len(z) + n
      /\ \A i \in 1 .. Len(z) + n : y[i] = IF i <= Len(z) THEN z[i] ELSE seg[i - Len(z)]
    <2>0. z \in Seq(Rows)
        BY <1>2
    <2> HIDE DEF z
    <2>1. /\ z \o seg \in Seq(Rows) /\ Len(z \o seg) = Len(z) + n
          /\ \A i \in 1 .. Len(z) + n :
                (z \o seg)[i] = IF i <= Len(z) THEN z[i] ELSE seg[i - Len(z)]
        <3> DEFINE c == z \o seg
                   p == Len(z) + n
        <3>1. /\ c \in Seq(Rows) /\ Len(c) = p
              /\ \A i \in 1 .. p : c[i] = IF i <= Len(z) THEN z[i] ELSE seg[i - Len(z)]
            BY <2>0, Extended
        <3> QED BY <3>1
    <2> QED BY <2>1
<1>5. /\ x \in Seq(Rows) /\ Len(x) = (IF a < m + n THEN m + n - a ELSE 0)
      /\ \A i \in 1 .. m + n - a : x[i] = both[a + i]
    <2> HIDE DEF both, m
    <2>1. m + n \in Nat /\ m + n <= Len(both)
        BY <1>1
    <2>2. /\ SubSeq(both, a + 1, m + n) \in Seq(Rows)
          /\ Len(SubSeq(both, a + 1, m + n)) = IF a < m + n THEN m + n - a ELSE 0
          /\ \A i \in 1 .. m + n - a : SubSeq(both, a + 1, m + n)[i] = both[a + i]
        BY <1>1, <2>1, PieceOfLog
    <2> QED BY <2>2 DEF both
<1> HIDE DEF x, y, z, m, both
<1>6. Len(z) = m - a /\ Len(y) = m + n - a /\ Len(x) = m + n - a
    BY <1>1, <1>2, <1>3, <1>4, <1>5
<1>7. ASSUME NEW i \in 1 .. Len(x) PROVE x[i] = y[i]
    <2>1. i \in 1 .. m + n - a /\ a + i \in 1 .. m + n /\ i \in 1 .. Len(z) + n
        BY <1>1, <1>3, <1>6
    <2>2. x[i] = both[a + i] /\ both[a + i] = IF a + i <= m THEN ids[a + i] ELSE seg[(a + i) - m]
        BY <1>1, <1>5, <2>1
    <2>3. y[i] = IF i <= Len(z) THEN z[i] ELSE seg[i - Len(z)]
        BY <1>4, <2>1
    <2>4. (i <= Len(z) <=> a + i <= m) /\ i - Len(z) = (a + i) - m
        BY <1>1, <1>3, <1>6, <2>1
    <2>5. a + i <= m => z[i] = ids[a + i]
        BY <1>1, <1>2, <1>3, <2>1
    <2> QED BY <2>2, <2>3, <2>4, <2>5
<1>8. x = y
    BY <1>4, <1>5, <1>6, <1>7, SeqEqual
<1> QED BY <1>8 DEF x, y, z, m

\* The windows of a log and of the log grown inside its last window: the whole
\* windows stay, the last one takes the segment.
LastRows(ids) == SubSeq(ids, H * (Len(ids) \div H) + 1, Len(ids))
WholeOf(ids) == Len(ids) \div H

LEMMA GrownWindows ==
    ASSUME NEW ids \in Seq(Rows), NEW n \in Nat \ {0}, NEW seg \in [1 .. n -> Rows],
           (Len(ids) % H) + n <= H, NEW q, q = Len(ids) \div H
    PROVE  /\ q \in Nat /\ H * q = Len(ids) - (Len(ids) % H)
           /\ Windows(ids) = (IF Len(ids) % H = 0 THEN q ELSE q + 1)
           /\ Windows(ids \o seg) = q + 1
           /\ Boundary(q + 1) = H * q
           /\ \A w \in 1 .. q : Window(ids \o seg, w) = Window(ids, w)
           /\ Window(ids \o seg, q + 1) = LastRows(ids) \o seg
           /\ Len(ids) % H # 0 => Window(ids, q + 1) = LastRows(ids)
           /\ Len(ids) % H = 0 => Window(ids \o seg, q + 1) = seg
           /\ LastRows(ids) \in Seq(Rows)
<1> DEFINE m == Len(ids)
           r == m % H
           both == ids \o seg
<1>1. /\ both \in Seq(Rows) /\ Len(both) = m + n /\ m \in Nat /\ seg \in Seq(Rows)
    BY Extended
<1>2. /\ q \in Nat /\ r \in 0 .. (H - 1) /\ H * q \in Nat /\ m = H * q + r /\ H \in Nat \ {0}
      /\ r + n <= H
    BY <1>1, WholeWindows, PolicyAssumption
<1>3. H * (q + 1) = H * q + H
    BY <1>2
<1>4. Windows(ids) = (IF r = 0 THEN q ELSE q + 1)
    <2> HIDE DEF m, r
    <2>1. CASE r = 0
        <3>1. H * q < m + H /\ m <= H * q
            BY <1>2, <2>1
        <3> QED BY <1>1, <1>2, <2>1, <3>1, WindowCount DEF m
    <2>2. CASE r # 0
        <3>1. H * (q + 1) < m + H /\ m <= H * (q + 1) /\ q + 1 \in Nat
            BY <1>2, <1>3, <2>2
        <3>2. Windows(ids) = q + 1
            BY <1>1, <3>1, WindowCount DEF m
        <3> QED BY <2>2, <3>2
    <2> QED BY <2>1, <2>2
<1>5. Windows(both) = q + 1
    <2> HIDE DEF m, r, both
    <2>1. H * (q + 1) < Len(both) + H /\ Len(both) <= H * (q + 1) /\ q + 1 \in Nat
          /\ Len(both) \in Nat
        BY <1>1, <1>2, <1>3
    <2> QED BY <2>1, WindowCount
<1>6. /\ ((q + 1) - 1) * H = H * q /\ (q + 1) * H = H * q + H
    BY <1>2
<1>7. Boundary(q + 1) = H * q
    BY <1>6 DEF Boundary
<1>8. ASSUME NEW w \in 1 .. q PROVE Window(both, w) = Window(ids, w)
    <2> DEFINE a == (w - 1) * H
               b == w * H
    <2>1. a \in Nat /\ b \in Nat /\ b <= m
        <3>1. H * w <= H * q /\ w * H = H * w
            <4>1. w \in Int /\ q \in Int /\ H \in Nat /\ w <= q
                BY <1>2
            <4>2. H * w <= H * q
                BY <4>1, Monotone
            <4>3. \A u, v \in Int : u * v = v * u
                OBVIOUS
            <4> QED BY <4>1, <4>2, <4>3
        <3>2. (w - 1) * H \in Nat /\ w * H \in Nat
            <4>1. w - 1 \in Nat /\ w \in Nat /\ H \in Nat
                BY <1>2
            <4>2. \A u, v \in Nat : u * v \in Nat
                OBVIOUS
            <4> QED BY <4>1, <4>2
        <3> HIDE DEF m, r
        <3> QED BY <1>1, <1>2, <3>1, <3>2
    <2> HIDE DEF a, b
    <2>2. Lower(Len(both), b) = b /\ Lower(m, b) = b
        <3> HIDE DEF both, m
        <3>1. b <= Len(both)
            BY <1>1, <2>1
        <3>2. Lower(Len(both), b) = b
            BY <1>1, <2>1, <3>1 DEF Lower
        <3> QED BY <1>1, <2>1, <3>2 DEF Lower
    <2>3. SubSeq(both, a + 1, b) = SubSeq(ids, a + 1, b)
        <3>1. b <= Len(ids) /\ n \in Nat
            BY <2>1
        <3> QED BY <2>1, <3>1, PieceBefore
    <2>4. Window(both, w) = SubSeq(both, a + 1, Lower(Len(both), b))
          /\ Window(ids, w) = SubSeq(ids, a + 1, Lower(m, b))
        BY DEF Window, a, b
    <2> HIDE DEF both, m
    <2> QED BY <2>2, <2>3, <2>4
<1>9. LastRows(ids) = SubSeq(ids, H * q + 1, m)
    BY DEF LastRows
<1>10. Window(both, q + 1) = LastRows(ids) \o seg
    <2>1. Window(both, q + 1) = SubSeq(both, ((q + 1) - 1) * H + 1, Lower(Len(both), (q + 1) * H))
        BY DEF Window
    <2>2. Lower(Len(both), H * q + H) = m + n
        <3> HIDE DEF both, m, r
        <3> QED BY <1>1, <1>2 DEF Lower
    <2>3. SubSeq(both, H * q + 1, m + n) = SubSeq(ids, H * q + 1, m) \o seg
        <3>1. H * q \in Nat /\ n \in Nat
            BY <1>2
        <3>2. H * q <= Len(ids)
            <4> HIDE DEF r, both
            <4> QED BY <1>1, <1>2 DEF m
        <3> QED BY <3>1, <3>2, PieceAcross
    <2> HIDE DEF both, m
    <2> QED BY <1>6, <1>9, <2>1, <2>2, <2>3
<1>11. ASSUME r # 0 PROVE Window(ids, q + 1) = LastRows(ids)
    <2>1. Window(ids, q + 1) = SubSeq(ids, ((q + 1) - 1) * H + 1, Lower(m, (q + 1) * H))
        BY DEF Window
    <2>2. Lower(m, H * q + H) = m
        <3> HIDE DEF m, r
        <3> QED BY <1>1, <1>2 DEF Lower
    <2> HIDE DEF m, r
    <2> QED BY <1>6, <1>9, <2>1, <2>2
<1>12. ASSUME r = 0 PROVE LastRows(ids) \o seg = seg
    <2>1. H * q = m
        <3> HIDE DEF m, r
        <3> QED BY <1>1, <1>2, <1>12
    <2>2. LastRows(ids) = <<>>
        <3>1. m < m + 1 /\ m \in Int /\ m + 1 \in Int
            BY <1>1
        <3>2. SubSeq(ids, m + 1, m) = <<>>
            <4> HIDE DEF m
            <4> QED BY <3>1, SubSeqEmpty
        <3> QED BY <1>9, <2>1, <3>2
    <2>3. <<>> \o seg = seg
        BY <1>1, ConcatEmptySeq
    <2> QED BY <2>2, <2>3
<1>13. LastRows(ids) \in Seq(Rows)
    <2>1. H * q \in Nat /\ m \in Nat /\ m <= Len(ids)
        BY <1>1, <1>2
    <2> QED BY <1>9, <2>1, PieceOfLog
<1>14. H * q = m - r
    <2> HIDE DEF m, r
    <2> QED BY <1>1, <1>2
<1>15. Len(ids) % H = 0 => Window(both, q + 1) = seg
    BY <1>10, <1>12
<1>16. Len(ids) % H # 0 => Window(ids, q + 1) = LastRows(ids)
    BY <1>11
<1> QED BY <1>2, <1>4, <1>5, <1>7, <1>8, <1>10, <1>13, <1>14, <1>15, <1>16

\* Hence the walk over the grown log is one step from where the whole windows
\* left it, and the walk over the log stopped there or made that step without
\* the segment.
GrownFrom(k, ids, seg, s) ==
    /\ Done(k, ids \o seg) = Step(k, s, WholeOf(ids) + 1, LastRows(ids) \o seg)
    /\ Len(ids) % H = 0 => Done(k, ids) = s /\ LastRows(ids) \o seg = seg
    /\ Len(ids) % H # 0 => Done(k, ids) = Step(k, s, WholeOf(ids) + 1, LastRows(ids))

LEMMA GrownWalk ==
    ASSUME NEW k, NEW ids \in Seq(Rows), NEW n \in Nat \ {0}, NEW seg \in [1 .. n -> Rows],
           (Len(ids) % H) + n <= H
    PROVE  \E f : /\ IsWalk(k, f, ids, Windows(ids))
                  /\ GrownFrom(k, ids, seg, f[WholeOf(ids)])
<1> DEFINE both == ids \o seg
           r == Len(ids) % H
           m == Windows(ids)
           q == WholeOf(ids)
<1>1. /\ q \in Nat /\ m = (IF r = 0 THEN q ELSE q + 1)
      /\ Windows(both) = q + 1
      /\ \A w \in 1 .. q : Window(both, w) = Window(ids, w)
      /\ Window(both, q + 1) = LastRows(ids) \o seg
      /\ r # 0 => Window(ids, q + 1) = LastRows(ids)
      /\ r = 0 => Window(both, q + 1) = seg
    BY GrownWindows DEF WholeOf
<1> HIDE DEF both, r, m, q
<1>2. m \in Nat /\ q + 1 \in Nat /\ q <= m /\ q <= q + 1 /\ q \in 0 .. m
      /\ (q + 1) - 1 = q /\ q + 1 # 0 /\ q + 1 \in 0 .. q + 1 /\ (r # 0 => m = q + 1)
      /\ (r = 0 => m = q)
    BY <1>1
<1>3. PICK f : IsWalk(k, f, ids, m)
    BY <1>2, WalksExist
<1>4. PICK g : IsWalk(k, g, both, q + 1)
    BY <1>2, WalksExist
<1>5. f[q] = g[q]
    <2> DEFINE p == q + 1
    <2>1. SameWindows(ids, both, q)
        BY <1>1 DEF SameWindows
    <2>2. /\ q \in Nat /\ m \in Nat /\ p \in Nat /\ q <= m /\ q <= p
          /\ IsWalk(k, f, ids, m) /\ IsWalk(k, g, both, p)
        BY <1>1, <1>2, <1>3, <1>4
    <2> HIDE DEF p
    <2> QED BY <2>1, <2>2, WalksAgree
<1>6. Done(k, both) = g[q + 1] /\ Done(k, ids) = f[m]
    <2>1. Windows(both) \in Nat /\ IsWalk(k, g, both, Windows(both))
        BY <1>1, <1>2, <1>4
    <2>2. Done(k, both) = g[Windows(both)]
        BY <2>1, WalkEnds
    <2>3. Windows(ids) \in Nat /\ IsWalk(k, f, ids, Windows(ids))
        BY <1>2, <1>3 DEF m
    <2>4. Done(k, ids) = f[Windows(ids)]
        BY <2>3, WalkEnds
    <2> QED BY <1>1, <2>2, <2>4 DEF m
<1>7. g[q + 1] = Step(k, g[q], q + 1, Window(both, q + 1))
    BY <1>2, <1>4 DEF IsWalk
<1>8. r # 0 => f[q + 1] = Step(k, f[q], q + 1, Window(ids, q + 1))
    BY <1>2, <1>3 DEF IsWalk
<1>9. Done(k, both) = Step(k, f[q], q + 1, LastRows(ids) \o seg)
    BY <1>1, <1>5, <1>6, <1>7
<1>10. r = 0 => Done(k, ids) = f[q] /\ LastRows(ids) \o seg = seg
    BY <1>1, <1>2, <1>6
<1>11. r # 0 => Done(k, ids) = Step(k, f[q], q + 1, LastRows(ids))
    BY <1>1, <1>2, <1>6, <1>8
<1>12. GrownFrom(k, ids, seg, f[q])
    BY <1>9, <1>10, <1>11 DEF GrownFrom, both, r, q
<1> QED BY <1>3, <1>12 DEF m, q

----------------------------------------------------------------------------
(* Counting a segment and then another is counting both.                   *)

\* Picks of an expert.
LEMMA PicksOfBoth ==
    ASSUME NEW a \in Seq(Rows), NEW n \in Nat, NEW b \in [1 .. n -> Rows], NEW e
    PROVE  /\ PicksOf(a, e) \in Nat /\ PicksOf(b, e) \in Nat
           /\ PicksOf(a \o b, e) = PicksOf(a, e) + PicksOf(b, e)
<1> DEFINE m == Len(a)
           both == a \o b
           A == {i \in 1 .. m : e \in a[i]}
           B == {i \in 1 .. n : e \in b[i]}
           f == [i \in B |-> m + i]
           C == {f[i] : i \in B}
<1>1. /\ both \in Seq(Rows) /\ Len(both) = m + n /\ m \in Nat
      /\ \A i \in 1 .. m + n : both[i] = IF i <= m THEN a[i] ELSE b[i - m]
    BY Extended
<1>2. IsFiniteSet(A) /\ IsFiniteSet(B)
    <2>1. IsFiniteSet(1 .. m) /\ IsFiniteSet(1 .. n)
        BY <1>1, FS_Interval
    <2>2. A \in SUBSET (1 .. m) /\ B \in SUBSET (1 .. n)
        OBVIOUS
    <2> HIDE DEF A, B
    <2> QED BY <2>1, <2>2, FS_Subset
<1>3. Cardinality(A \cup C) = Cardinality(A) + Cardinality(B)
    <2>1. \A i \in B : f[i] \notin A
        <3> HIDE DEF m
        <3> QED BY <1>1
    <2>2. \A i, j \in B : f[i] = f[j] => i = j
        <3> HIDE DEF m
        <3> QED BY <1>1
    <2>3. f = [i \in B |-> f[i]] /\ C = {f[i] : i \in B}
        OBVIOUS
    <2> HIDE DEF A, B, f, C
    <2>4. Images(f, B, C)
        BY <2>2, <2>3 DEF Images
    <2>5. A \cap C = {}
        BY <2>1, <2>3
    <2> QED BY <1>2, <2>4, <2>5, WithImages
<1>4. {i \in 1 .. m + n : e \in both[i]} = A \cup C
    <2> HIDE DEF both, m
    <2>1. ASSUME NEW i \in 1 .. m + n, e \in both[i] PROVE i \in A \cup C
        <3>1. CASE i <= m
            BY <1>1, <2>1, <3>1
        <3>2. CASE ~(i <= m)
            <4>1. i - m \in B /\ i = m + (i - m)
                BY <1>1, <2>1, <3>2
            <4>2. i = f[i - m]
                BY <4>1
            <4> QED BY <4>1, <4>2
        <3> QED BY <3>1, <3>2
    <2>2. ASSUME NEW i \in A PROVE i \in 1 .. m + n /\ e \in both[i]
        <3>1. i \in 1 .. m + n /\ i <= m
            BY <1>1
        <3> QED BY <1>1, <3>1
    <2>3. ASSUME NEW i \in B PROVE f[i] \in 1 .. m + n /\ e \in both[f[i]]
        <3>1. f[i] = m + i /\ m + i \in 1 .. m + n /\ ~(m + i <= m) /\ (m + i) - m = i
            BY <1>1
        <3> QED BY <1>1, <3>1
    <2> HIDE DEF A, B, f
    <2> QED BY <2>1, <2>2, <2>3
<1>5. DOMAIN both = 1 .. m + n /\ DOMAIN a = 1 .. m /\ DOMAIN b = 1 .. n
    BY <1>1
<1>6. PicksOf(both, e) = Cardinality(A \cup C)
    <2> HIDE DEF A, C, both, m
    <2> QED BY <1>4, <1>5 DEF PicksOf
<1>7. PicksOf(a, e) = Cardinality(A) /\ PicksOf(b, e) = Cardinality(B)
    <2> HIDE DEF m
    <2> QED BY <1>5 DEF PicksOf
<1>8. Cardinality(A) \in Nat /\ Cardinality(B) \in Nat
    BY <1>2, FS_CardinalityType
<1> QED BY <1>3, <1>6, <1>7, <1>8

\* Misses of a resident set.
LEMMA MissesOfBoth ==
    ASSUME NEW a \in Seq(Rows), NEW n \in Nat, NEW b \in [1 .. n -> Rows], NEW R
    PROVE  /\ Misses(a, R) \in Nat /\ Misses(b, R) \in Nat
           /\ Misses(a \o b, R) = Misses(a, R) + Misses(b, R)
<1> DEFINE m == Len(a)
           both == a \o b
           A == {p \in (1 .. m) \X Experts : p[2] \in a[p[1]] \ R}
           B == {p \in (1 .. n) \X Experts : p[2] \in b[p[1]] \ R}
           f == [p \in B |-> <<m + p[1], p[2]>>]
           C == {f[p] : p \in B}
<1>1. /\ both \in Seq(Rows) /\ Len(both) = m + n /\ m \in Nat
      /\ \A i \in 1 .. m + n : both[i] = IF i <= m THEN a[i] ELSE b[i - m]
    BY Extended
<1>2. IsFiniteSet(A) /\ IsFiniteSet(B)
    <2>1. IsFiniteSet((1 .. m) \X Experts) /\ IsFiniteSet((1 .. n) \X Experts)
        <3>1. IsFiniteSet(1 .. m) /\ IsFiniteSet(1 .. n)
            BY <1>1, FS_Interval
        <3> QED BY <3>1, ExpertSetsFinite, FS_Product
    <2>2. A \in SUBSET ((1 .. m) \X Experts) /\ B \in SUBSET ((1 .. n) \X Experts)
        OBVIOUS
    <2> HIDE DEF A, B
    <2> QED BY <2>1, <2>2, FS_Subset
<1>3. Cardinality(A \cup C) = Cardinality(A) + Cardinality(B)
    <2>1. \A p \in B : f[p] \notin A
        <3>1. ASSUME NEW p \in B PROVE f[p] \notin A
            <4>1. f[p] = <<m + p[1], p[2]>> /\ p[1] \in 1 .. n
                OBVIOUS
            <4>2. m + p[1] \notin 1 .. m
                <5> HIDE DEF m
                <5> QED BY <1>1, <4>1
            <4> QED BY <4>1, <4>2
        <3> QED BY <3>1
    <2>2. \A p, q \in B : f[p] = f[q] => p = q
        <3>1. ASSUME NEW p \in B, NEW q \in B, f[p] = f[q] PROVE p = q
            <4>1. /\ p[1] \in 1 .. n /\ q[1] \in 1 .. n
                  /\ p = <<p[1], p[2]>> /\ q = <<q[1], q[2]>>
                OBVIOUS
            <4>2. m + p[1] = m + q[1] /\ p[2] = q[2]
                BY <3>1
            <4>3. p[1] = q[1]
                <5> HIDE DEF m
                <5> QED BY <1>1, <4>1, <4>2
            <4> QED BY <4>1, <4>2, <4>3
        <3> QED BY <3>1
    <2>3. f = [p \in B |-> f[p]] /\ C = {f[p] : p \in B}
        OBVIOUS
    <2> HIDE DEF A, B, f, C
    <2>4. Images(f, B, C)
        BY <2>2, <2>3 DEF Images
    <2>5. A \cap C = {}
        BY <2>1, <2>3
    <2> QED BY <1>2, <2>4, <2>5, WithImages
<1>4. {p \in (1 .. m + n) \X Experts : p[2] \in both[p[1]] \ R} = A \cup C
    <2> HIDE DEF both, m
    <2>1. ASSUME NEW i \in 1 .. m + n, NEW e \in Experts, e \in both[i] \ R
          PROVE  <<i, e>> \in A \cup C
        <3>1. CASE i <= m
            <4>1. i \in 1 .. m /\ e \in a[i] \ R
                BY <1>1, <2>1, <3>1
            <4> QED BY <4>1
        <3>2. CASE ~(i <= m)
            <4>1. i - m \in 1 .. n /\ e \in b[i - m] \ R /\ i = m + (i - m)
                BY <1>1, <2>1, <3>2
            <4> DEFINE j == i - m
            <4> HIDE DEF j
            <4>2. j \in 1 .. n /\ e \in b[j] \ R /\ i = m + j
                BY <4>1 DEF j
            <4>3. <<j, e>> \in B
                BY <4>2
            <4>4. f[<<j, e>>] = <<i, e>>
                BY <4>2, <4>3
            <4> QED BY <4>3, <4>4
        <3> QED BY <3>1, <3>2
    <2>2. ASSUME NEW p \in A PROVE p \in (1 .. m + n) \X Experts /\ p[2] \in both[p[1]] \ R
        <3>1. p[1] \in 1 .. m /\ p[2] \in Experts /\ p[2] \in a[p[1]] \ R /\ p = <<p[1], p[2]>>
            OBVIOUS
        <3>2. p[1] \in 1 .. m + n /\ both[p[1]] = a[p[1]]
            BY <1>1, <3>1
        <3> QED BY <3>1, <3>2
    <2>3. ASSUME NEW p \in B
          PROVE  f[p] \in (1 .. m + n) \X Experts /\ f[p][2] \in both[f[p][1]] \ R
        <3>1. /\ f[p] = <<m + p[1], p[2]>> /\ p[1] \in 1 .. n /\ p[2] \in Experts
              /\ p[2] \in b[p[1]] \ R
            OBVIOUS
        <3>2. m + p[1] \in 1 .. m + n /\ ~(m + p[1] <= m) /\ (m + p[1]) - m = p[1]
            BY <1>1, <3>1
        <3>3. both[m + p[1]] = b[p[1]]
            BY <1>1, <3>2
        <3> QED BY <3>1, <3>2, <3>3
    <2>4. ASSUME NEW p \in (1 .. m + n) \X Experts, p[2] \in both[p[1]] \ R PROVE p \in A \cup C
        <3>1. p[1] \in 1 .. m + n /\ p[2] \in Experts /\ p = <<p[1], p[2]>>
            OBVIOUS
        <3>2. <<p[1], p[2]>> \in A \cup C
            BY <2>1, <2>4, <3>1
        <3> QED BY <3>1, <3>2
    <2> HIDE DEF A, B, f
    <2> QED BY <2>2, <2>3, <2>4
<1>5. DOMAIN both = 1 .. m + n /\ DOMAIN a = 1 .. m /\ DOMAIN b = 1 .. n
    BY <1>1
<1>6. Misses(both, R) = Cardinality(A \cup C)
    <2> HIDE DEF A, C, both, m
    <2> QED BY <1>4, <1>5 DEF Misses
<1>7. Misses(a, R) = Cardinality(A) /\ Misses(b, R) = Cardinality(B)
    <2> HIDE DEF m
    <2> QED BY <1>5 DEF Misses
<1>8. Cardinality(A) \in Nat /\ Cardinality(B) \in Nat
    BY <1>2, FS_CardinalityType
<1> QED BY <1>3, <1>6, <1>7, <1>8

\* Counters.
LEMMA AccumulateBoth ==
    ASSUME NEW counts \in [Experts -> Nat],
           NEW a \in Seq(Rows), NEW n \in Nat, NEW b \in [1 .. n -> Rows]
    PROVE  Accumulate(counts, a \o b) = Accumulate(Accumulate(counts, a), b)
<1>1. ASSUME NEW e \in Experts
      PROVE  counts[e] + Add * PicksOf(a \o b, e)
                = (counts[e] + Add * PicksOf(a, e)) + Add * PicksOf(b, e)
    <2> DEFINE x == PicksOf(a, e)
               y == PicksOf(b, e)
    <2>1. x \in Nat /\ y \in Nat /\ PicksOf(a \o b, e) = x + y
        BY PicksOfBoth
    <2> HIDE DEF x, y
    <2>2. Add \in Nat /\ counts[e] \in Nat
        BY PolicyAssumption
    <2>3. Add * (x + y) = Add * x + Add * y /\ Add * x \in Nat /\ Add * y \in Nat
        BY <2>1, <2>2, Distribute
    <2>4. counts[e] + Add * (x + y) = (counts[e] + Add * x) + Add * y
        BY <2>2, <2>3
    <2> QED BY <2>1, <2>4 DEF x, y
<1>2. Accumulate(Accumulate(counts, a), b)
        = [e \in Experts |-> (counts[e] + Add * PicksOf(a, e)) + Add * PicksOf(b, e)]
    BY DEF Accumulate
<1>3. Accumulate(counts, a \o b) = [e \in Experts |-> counts[e] + Add * PicksOf(a \o b, e)]
    BY DEF Accumulate
<1> QED BY <1>1, <1>2, <1>3

----------------------------------------------------------------------------
(* The simulators, one segment at a time.                                  *)

\* What a simulator carries from window to window.
Typed(k, s) ==
    /\ s.counters \in [Experts -> Nat]
    /\ s.misses \in Nat
    /\ k[1] = "sim" => s.resident \in SUBSET Experts /\ s.churn \in Nat

\* The counters and the residency a window is served with.
LEMMA ServedWith ==
    ASSUME NEW s, s.counters \in [Experts -> Nat], NEW w
    PROVE  CountersAt(s, w) \in [Experts -> Nat] /\ ResidentIn(s, w) \in SUBSET Experts
<1>1. Decay(s.counters) \in [Experts -> Nat]
    BY DEF Decay
<1>2. CountersAt(s, w) \in [Experts -> Nat]
    BY <1>1 DEF CountersAt
<1>3. TopK(CountersAt(s, w)) \in SUBSET Experts
    BY <1>2, TopKSize
<1> QED BY <1>2, <1>3, ColdSetSize DEF ResidentIn

LEMMA StepTyped ==
    ASSUME NEW k, NEW s, Typed(k, s), NEW w, NEW seg \in Seq(Rows)
    PROVE  Typed(k, Step(k, s, w, seg))
<1> DEFINE c == CountersAt(s, w)
           R == ResidentIn(s, w)
<1>1. c \in [Experts -> Nat] /\ R \in SUBSET Experts
    BY ServedWith DEF Typed
<1> HIDE DEF c, R
<1>2. Accumulate(c, seg) \in [Experts -> Nat] /\ Misses(seg, R) \in Nat
    <2>1. Len(seg) \in Nat /\ seg \in [1 .. Len(seg) -> Rows]
        OBVIOUS
    <2> DEFINE n == Len(seg)
    <2> HIDE DEF n
    <2>2. n \in Nat /\ seg \in [1 .. n -> Rows]
        BY <2>1 DEF n
    <2> QED BY <1>1, <2>2, CountersAreNaturals, MissesAreNaturals
<1>3. s.misses + Misses(seg, R) \in Nat
    BY <1>2 DEF Typed
<1>4. CASE k[1] = "sim"
    <2>1. Cardinality(SymmetricDifference(s.resident, R)) \in Nat
        <3>1. SymmetricDifference(s.resident, R) \in SUBSET Experts
            BY <1>1, <1>4 DEF Typed, SymmetricDifference
        <3> QED BY <3>1, ExpertSetsFinite
    <2>2. s.churn + Cardinality(SymmetricDifference(s.resident, R)) \in Nat
        BY <1>4, <2>1 DEF Typed
    <2>3. Step(k, s, w, seg) =
            [counters |-> Accumulate(c, seg), resident |-> R, misses |-> s.misses + Misses(seg, R),
             churn |-> s.churn + Cardinality(SymmetricDifference(s.resident, R))]
        BY <1>4 DEF Step, c, R
    <2> QED BY <1>1, <1>2, <1>3, <2>2, <2>3 DEF Typed
<1>5. CASE k[1] # "sim"
    <2>1. Step(k, s, w, seg) =
            [counters |-> Accumulate(c, seg), misses |-> s.misses + Misses(seg, R),
             lines |-> s.lines \cup Traced(w, R, k[2])]
        BY <1>5 DEF Step, c, R
    <2> QED BY <1>2, <1>3, <1>5, <2>1 DEF Typed
<1> QED BY <1>4, <1>5

LEMMA StartTyped == \A k : Typed(k, Start(k))
<1>1. NoCounts \in [Experts -> Nat] /\ ColdSet \in SUBSET Experts
    BY ColdSetSize DEF NoCounts
<1>2. ASSUME NEW k PROVE Typed(k, Start(k))
    <2>1. CASE k[1] = "sim"
        BY <1>1, <2>1 DEF Typed, Start
    <2>2. CASE k[1] # "sim"
        BY <1>1, <2>2 DEF Typed, Start
    <2> QED BY <2>1, <2>2
<1> QED BY <1>2

LEMMA WindowOfLog ==
    ASSUME NEW ids \in Seq(Rows), NEW w \in Nat \ {0}
    PROVE  Window(ids, w) \in Seq(Rows)
<1> DEFINE a == (w - 1) * H
           b == w * H
<1>1. a \in Nat /\ b \in Nat
    BY PolicyAssumption
<1> HIDE DEF a, b
<1>2. Lower(Len(ids), b) \in Nat /\ Lower(Len(ids), b) <= Len(ids)
    <2>1. Len(ids) \in Nat
        OBVIOUS
    <2> QED BY <1>1, <2>1 DEF Lower
<1>3. SubSeq(ids, a + 1, Lower(Len(ids), b)) \in Seq(Rows)
    BY <1>1, <1>2, PieceOfLog
<1> QED BY <1>3 DEF Window, a, b

LEMMA WalkTyped ==
    ASSUME NEW k, NEW ids \in Seq(Rows), NEW n \in Nat, NEW f, IsWalk(k, f, ids, n)
    PROVE  \A w \in 0 .. n : Typed(k, f[w])
<1> DEFINE Off == {w \in 0 .. n : ~Typed(k, f[w])}
<1>1. Off = {}
    <2> SUFFICES ASSUME Off # {} PROVE FALSE
        OBVIOUS
    <2>1. PICK u \in Off : \A x \in Off : u <= x
        <3>1. Off \in SUBSET Nat
            OBVIOUS
        <3> HIDE DEF Off
        <3> QED BY <3>1, LeastNat
    <2>2. u \in 0 .. n /\ ~Typed(k, f[u])
        OBVIOUS
    <2>3. u # 0
        <3>1. ASSUME u = 0 PROVE f[u] = Start(k)
            BY <2>2, <3>1 DEF IsWalk
        <3> QED BY <2>2, <3>1, StartTyped
    <2>4. u - 1 \in 0 .. n /\ u - 1 \notin Off /\ u \in Nat \ {0}
        <3> HIDE DEF Off
        <3> QED BY <2>1, <2>2, <2>3
    <2>5. Typed(k, f[u - 1])
        BY <2>4
    <2>6. f[u] = Step(k, f[u - 1], u, Window(ids, u))
        BY <2>2, <2>3 DEF IsWalk
    <2>7. Window(ids, u) \in Seq(Rows)
        BY <2>4, WindowOfLog
    <2>8. Typed(k, Step(k, f[u - 1], u, Window(ids, u)))
        BY <2>5, <2>7, StepTyped
    <2> QED BY <2>2, <2>6, <2>8
<1> QED BY <1>1

\* The walk over a grown log, with what it carries typed.
LEMMA GrownStep ==
    ASSUME NEW k, NEW ids \in Seq(Rows), NEW n \in Nat \ {0}, NEW seg \in [1 .. n -> Rows],
           (Len(ids) % H) + n <= H
    PROVE  \E s : Typed(k, s) /\ GrownFrom(k, ids, seg, s)
<1>1. Windows(ids) \in Nat /\ WholeOf(ids) \in 0 .. Windows(ids)
    <2> DEFINE q == WholeOf(ids)
    <2>1. q \in Nat /\ Windows(ids) = (IF Len(ids) % H = 0 THEN q ELSE q + 1)
        BY GrownWindows DEF WholeOf
    <2> HIDE DEF q
    <2>2. Windows(ids) \in Nat /\ q \in 0 .. Windows(ids)
        BY <2>1
    <2> QED BY <2>2 DEF q
<1>2. PICK f : IsWalk(k, f, ids, Windows(ids)) /\ GrownFrom(k, ids, seg, f[WholeOf(ids)])
    BY GrownWalk, Zenon
<1>3. \A w \in 0 .. Windows(ids) : Typed(k, f[w])
    BY <1>1, <1>2, WalkTyped
<1> QED BY <1>1, <1>2, <1>3

\* The fields of a step.
LEMMA SimFields ==
    ASSUME NEW s, NEW w, NEW seg
    PROVE  /\ Step(Sim, s, w, seg).counters = Accumulate(CountersAt(s, w), seg)
           /\ Step(Sim, s, w, seg).resident = ResidentIn(s, w)
           /\ Step(Sim, s, w, seg).misses = s.misses + Misses(seg, ResidentIn(s, w))
           /\ Step(Sim, s, w, seg).churn =
                s.churn + Cardinality(SymmetricDifference(s.resident, ResidentIn(s, w)))
<1> DEFINE c == Accumulate(CountersAt(s, w), seg)
           R == ResidentIn(s, w)
           m == s.misses + Misses(seg, R)
           d == s.churn + Cardinality(SymmetricDifference(s.resident, R))
<1>1. Step(Sim, s, w, seg) = [counters |-> c, resident |-> R, misses |-> m, churn |-> d]
    BY DEF Step, Sim
<1> HIDE DEF c, R, m, d
<1>2. /\ Step(Sim, s, w, seg).counters = c /\ Step(Sim, s, w, seg).resident = R
      /\ Step(Sim, s, w, seg).misses = m /\ Step(Sim, s, w, seg).churn = d
    BY <1>1
<1> QED BY <1>2 DEF c, R, m, d

LEMMA TraceFields ==
    ASSUME NEW s, NEW w, NEW seg, NEW maxToken
    PROVE  /\ Step(Trace(maxToken), s, w, seg).counters = Accumulate(CountersAt(s, w), seg)
           /\ Step(Trace(maxToken), s, w, seg).lines =
                s.lines \cup Traced(w, ResidentIn(s, w), maxToken)
<1> DEFINE c == Accumulate(CountersAt(s, w), seg)
           m == s.misses + Misses(seg, ResidentIn(s, w))
           x == s.lines \cup Traced(w, ResidentIn(s, w), maxToken)
<1>1. Step(Trace(maxToken), s, w, seg) = [counters |-> c, misses |-> m, lines |-> x]
    BY DEF Step, Trace
<1> HIDE DEF c, m, x
<1>2. Step(Trace(maxToken), s, w, seg).counters = c /\ Step(Trace(maxToken), s, w, seg).lines = x
    BY <1>1
<1> QED BY <1>2 DEF c, x

\* The counters and the resident set that a segment after the log is served
\* with, from the state s the log leaves.
GrownCounters(s, ids) ==
    IF Len(ids) % H = 0 /\ Len(ids) > 0 THEN Decay(s.counters) ELSE s.counters
BoundaryResident(s, ids) ==
    IF Len(ids) > 0 THEN TopK(GrownCounters(s, ids)) ELSE ColdSet

\* sim_residency.py over the grown log: one more segment served by the residency
\* in force, which changes, and is counted in churn, only at a boundary.
LEMMA SimGrows ==
    ASSUME NEW ids \in Seq(Rows), NEW n \in Nat \ {0}, NEW seg \in [1 .. n -> Rows],
           (Len(ids) % H) + n <= H, NEW s, s = SimP2(ids),
           NEW R, R = IF Len(ids) % H = 0 THEN BoundaryResident(s, ids) ELSE s.resident
    PROVE  /\ Typed(Sim, s)
           /\ SimP2(ids \o seg) =
                [counters |-> Accumulate(GrownCounters(s, ids), seg),
                 resident |-> R,
                 misses   |-> s.misses + Misses(seg, R),
                 churn    |-> s.churn + (IF Len(ids) % H = 0
                                         THEN Cardinality(SymmetricDifference(s.resident, R))
                                         ELSE 0)]
<1> DEFINE q == Len(ids) \div H
           b == LastRows(ids)
           both == ids \o seg
           r == Len(ids) % H
<1>1. /\ q \in Nat /\ H * q = Len(ids) - r /\ b \in Seq(Rows)
      /\ Windows(ids) = (IF r = 0 THEN q ELSE q + 1)
      /\ Windows(both) = q + 1 /\ Len(ids) \in Nat
    BY GrownWindows
<1>0. PICK s0 : Typed(Sim, s0) /\ GrownFrom(Sim, ids, seg, s0)
    BY GrownStep, Zenon
<1>2. /\ Typed(Sim, s0)
      /\ Done(Sim, both) = Step(Sim, s0, q + 1, b \o seg)
      /\ r = 0 => Done(Sim, ids) = s0 /\ b \o seg = seg
      /\ r # 0 => Done(Sim, ids) = Step(Sim, s0, q + 1, b)
    BY <1>0 DEF GrownFrom, WholeOf
<1>3. r = 0 => (q + 1 > 1 <=> Len(ids) > 0)
    <2>1. H \in Nat \ {0} /\ (r = 0 => H * q = Len(ids))
        BY <1>1, PolicyAssumption
    <2>2. q > 0 => H * q > 0
        BY <1>1, <2>1
    <2>3. q = 0 => H * q = 0
        BY <1>1, <2>1
    <2> HIDE DEF r, q
    <2> QED BY <1>1, <2>1, <2>2, <2>3
<1> HIDE DEF q, b, both, r
<1>4. Windows(ids) \in Nat /\ Windows(both) \in Nat
    BY <1>1
<1>5. s = Done(Sim, ids) /\ SimP2(both) = Done(Sim, both)
    BY <1>4, SimIsWalk
<1> DEFINE c0 == CountersAt(s0, q + 1)
           R0 == ResidentIn(s0, q + 1)
<1>6. \A x : Step(Sim, s0, q + 1, x) =
            [counters |-> Accumulate(c0, x), resident |-> R0, misses |-> s0.misses + Misses(x, R0),
             churn |-> s0.churn + Cardinality(SymmetricDifference(s0.resident, R0))]
    BY DEF Step, Sim
<1>10. ASSUME NEW x
       PROVE  LET z == Step(Sim, s0, q + 1, x)
              IN  /\ z.counters = Accumulate(c0, x) /\ z.resident = R0
                  /\ z.misses = s0.misses + Misses(x, R0)
                  /\ z.churn = s0.churn + Cardinality(SymmetricDifference(s0.resident, R0))
    BY SimFields
<1>7. c0 \in [Experts -> Nat] /\ R0 \in SUBSET Experts
    BY <1>2, ServedWith DEF Typed
<1>8. CASE r = 0
    <2>1. s = s0 /\ b \o seg = seg
        BY <1>2, <1>5, <1>8
    <2>2. c0 = GrownCounters(s, ids) /\ R0 = R
        <3>1. c0 = GrownCounters(s, ids)
            BY <1>3, <1>8, <2>1 DEF GrownCounters, CountersAt, r
        <3>2. R0 = BoundaryResident(s, ids)
            <4>1. R0 = IF q + 1 > 1 THEN TopK(c0) ELSE ColdSet
                BY DEF ResidentIn
            <4> HIDE DEF R0, c0
            <4> QED BY <1>3, <1>8, <3>1, <4>1 DEF BoundaryResident
        <3> HIDE DEF R0, c0
        <3> QED BY <1>8, <3>1, <3>2 DEF r
    <2> HIDE DEF c0, R0
    <2>3. SimP2(both) = Step(Sim, s0, q + 1, seg)
        BY <1>2, <1>5, <2>1
    <2> QED BY <1>2, <1>6, <1>8, <2>1, <2>2, <2>3 DEF r, both
<1>9. CASE r # 0
    <2> HIDE DEF c0, R0
    <2>1. s = Step(Sim, s0, q + 1, b) /\ SimP2(both) = Step(Sim, s0, q + 1, b \o seg)
        BY <1>2, <1>5, <1>9
    <2>2. Typed(Sim, s)
        BY <1>1, <1>2, <2>1, StepTyped
    <2>3. /\ s.counters = Accumulate(c0, b) /\ s.resident = R0
          /\ s.misses = s0.misses + Misses(b, R0)
          /\ s.churn = s0.churn + Cardinality(SymmetricDifference(s0.resident, R0))
        BY <1>10, <2>1
    <2>4. R = R0 /\ GrownCounters(s, ids) = s.counters
        BY <1>9, <2>3 DEF GrownCounters, r
    <2>5. Accumulate(c0, b \o seg) = Accumulate(s.counters, seg)
        BY <1>1, <1>7, <2>3, AccumulateBoth
    <2>6. s0.misses + Misses(b \o seg, R0) = s.misses + Misses(seg, R0)
        <3>1. /\ Misses(b, R0) \in Nat /\ Misses(seg, R0) \in Nat /\ s0.misses \in Nat
              /\ Misses(b \o seg, R0) = Misses(b, R0) + Misses(seg, R0)
            BY <1>1, <1>2, MissesOfBoth DEF Typed
        <3> QED BY <2>3, <3>1
    <2>7. s.churn + 0 = s.churn
        BY <2>2 DEF Typed, Sim
    <2>8. SimP2(both) = [counters |-> Accumulate(s.counters, seg), resident |-> R0,
                         misses |-> s.misses + Misses(seg, R0), churn |-> s.churn]
        BY <1>6, <2>1, <2>3, <2>5, <2>6
    <2> QED BY <1>9, <2>2, <2>4, <2>7, <2>8 DEF r, both
<1> QED BY <1>8, <1>9

\* sim_trace.py over the grown log: the same counters, and one more line when the
\* segment begins at a boundary below maxToken.
LEMMA TraceGrows ==
    ASSUME NEW ids \in Seq(Rows), NEW n \in Nat \ {0}, NEW seg \in [1 .. n -> Rows],
           (Len(ids) % H) + n <= H, NEW maxToken, NEW s, s = TraceP2(ids, maxToken)
    PROVE  LET grown == TraceP2(ids \o seg, maxToken)
           IN  /\ grown.counters = Accumulate(GrownCounters(s, ids), seg)
               /\ grown.lines = s.lines \cup
                    (IF Len(ids) % H = 0 /\ Len(ids) < maxToken
                     THEN {<<Len(ids), BoundaryResident(s, ids)>>} ELSE {})
<1> DEFINE q == Len(ids) \div H
           b == LastRows(ids)
           both == ids \o seg
           r == Len(ids) % H
           k == Trace(maxToken)
<1>1. /\ q \in Nat /\ H * q = Len(ids) - r /\ b \in Seq(Rows)
      /\ Windows(ids) = (IF r = 0 THEN q ELSE q + 1)
      /\ Windows(both) = q + 1 /\ Len(ids) \in Nat /\ Boundary(q + 1) = H * q
    BY GrownWindows
<1>0. PICK s0 : Typed(k, s0) /\ GrownFrom(k, ids, seg, s0)
    BY GrownStep, Zenon
<1>2. /\ Typed(k, s0)
      /\ Done(k, both) = Step(k, s0, q + 1, b \o seg)
      /\ r = 0 => Done(k, ids) = s0 /\ b \o seg = seg
      /\ r # 0 => Done(k, ids) = Step(k, s0, q + 1, b)
    BY <1>0 DEF GrownFrom, WholeOf
<1>3. r = 0 => (q + 1 > 1 <=> Len(ids) > 0) /\ Boundary(q + 1) = Len(ids)
    <2>1. H \in Nat \ {0} /\ (r = 0 => H * q = Len(ids))
        BY <1>1, PolicyAssumption
    <2>2. q > 0 => H * q > 0
        BY <1>1, <2>1
    <2>3. q = 0 => H * q = 0
        BY <1>1, <2>1
    <2> HIDE DEF r, q
    <2> QED BY <1>1, <2>1, <2>2, <2>3
<1> HIDE DEF q, b, both, r
<1>4. Windows(ids) \in Nat /\ Windows(both) \in Nat
    BY <1>1
<1>5. s = Done(k, ids) /\ TraceP2(both, maxToken) = Done(k, both)
    BY <1>4, TraceIsWalk
<1> DEFINE c0 == CountersAt(s0, q + 1)
           R0 == ResidentIn(s0, q + 1)
<1>6. \A x : Step(k, s0, q + 1, x) =
            [counters |-> Accumulate(c0, x), misses |-> s0.misses + Misses(x, R0),
             lines |-> s0.lines \cup Traced(q + 1, R0, maxToken)]
    BY DEF Step, Trace
<1>10. ASSUME NEW x
       PROVE  LET z == Step(k, s0, q + 1, x)
              IN  /\ z.counters = Accumulate(c0, x)
                  /\ z.lines = s0.lines \cup Traced(q + 1, R0, maxToken)
    BY TraceFields
<1>7. c0 \in [Experts -> Nat]
    BY <1>2, ServedWith DEF Typed
<1> HIDE DEF k
<1>8. CASE r = 0
    <2>1. s = s0 /\ b \o seg = seg
        BY <1>2, <1>5, <1>8
    <2>2. c0 = GrownCounters(s, ids)
        BY <1>3, <1>8, <2>1 DEF GrownCounters, CountersAt, r
    <2>3. R0 = BoundaryResident(s, ids)
        <3>1. R0 = IF q + 1 > 1 THEN TopK(c0) ELSE ColdSet
            BY DEF ResidentIn
        <3> HIDE DEF R0, c0
        <3> QED BY <1>3, <1>8, <2>2, <3>1 DEF BoundaryResident
    <2>4. Traced(q + 1, R0, maxToken) =
            IF Len(ids) % H = 0 /\ Len(ids) < maxToken
            THEN {<<Len(ids), BoundaryResident(s, ids)>>} ELSE {}
        <3> HIDE DEF R0, c0
        <3> QED BY <1>3, <1>8, <2>3 DEF Traced, r
    <2> HIDE DEF c0, R0
    <2>5. TraceP2(both, maxToken) = Step(k, s0, q + 1, seg)
        BY <1>2, <1>5, <2>1
    <2>6. /\ TraceP2(both, maxToken).counters = Accumulate(c0, seg)
          /\ TraceP2(both, maxToken).lines = s0.lines \cup Traced(q + 1, R0, maxToken)
        BY <1>10, <2>5
    <2> QED BY <2>1, <2>2, <2>4, <2>6 DEF both
<1>9. CASE r # 0
    <2> HIDE DEF c0, R0
    <2>1. s = Step(k, s0, q + 1, b) /\ TraceP2(both, maxToken) = Step(k, s0, q + 1, b \o seg)
        BY <1>2, <1>5, <1>9
    <2>2. s.counters = Accumulate(c0, b) /\ s.lines = s0.lines \cup Traced(q + 1, R0, maxToken)
        BY <1>10, <2>1
    <2>3. /\ TraceP2(both, maxToken).counters = Accumulate(c0, b \o seg)
          /\ TraceP2(both, maxToken).lines = s0.lines \cup Traced(q + 1, R0, maxToken)
        BY <1>10, <2>1
    <2>4. Accumulate(c0, b \o seg) = Accumulate(s.counters, seg)
        <3>1. c0 \in [Experts -> Nat] /\ b \in Seq(Rows) /\ n \in Nat
            BY <1>1, <1>7
        <3>2. Accumulate(c0, b \o seg) = Accumulate(Accumulate(c0, b), seg)
            BY <3>1, AccumulateBoth, Zenon
        <3> QED BY <2>2, <3>2
    <2>5. GrownCounters(s, ids) = s.counters
        BY <1>9 DEF GrownCounters, r
    <2> QED BY <1>9, <2>2, <2>3, <2>4, <2>5 DEF r, both
<1> QED BY <1>8, <1>9

\* Before the first segment.
LEMMA NothingRead ==
    ASSUME NEW maxToken
    PROVE  /\ SimP2(<<>>) = [counters |-> NoCounts, resident |-> ColdSet, misses |-> 0, churn |-> 0]
           /\ TraceP2(<<>>, maxToken) = [counters |-> NoCounts, misses |-> 0, lines |-> {}]
<1>1. Windows(<<>>) = 0
    <2>1. Len(<<>>) = 0 /\ Len(<<>>) \in Nat /\ H * 0 = 0 /\ H \in Nat \ {0}
        BY PolicyAssumption
    <2>2. H * 0 < Len(<<>>) + H /\ Len(<<>>) <= H * 0
        BY <2>1
    <2> QED BY <2>1, <2>2, WindowCount
<1>2. ASSUME NEW k PROVE Done(k, <<>>) = Start(k)
    <2>1. PICK f : IsWalk(k, f, <<>>, 0)
        BY WalksExist
    <2>2. f[0] = Start(k)
        BY <2>1 DEF IsWalk
    <2>3. Windows(<<>>) \in Nat /\ IsWalk(k, f, <<>>, Windows(<<>>))
        BY <1>1, <2>1
    <2>4. Done(k, <<>>) = f[Windows(<<>>)]
        BY <2>3, WalkEnds
    <2> QED BY <1>1, <2>2, <2>4
<1>3. SimP2(<<>>) = Start(Sim) /\ TraceP2(<<>>, maxToken) = Start(Trace(maxToken))
    BY <1>1, <1>2, SimIsWalk, TraceIsWalk
<1> QED BY <1>3 DEF Start, Sim, Trace

\* What a simulator is left with is typed.
LEMMA SimTyped ==
    ASSUME NEW ids \in Seq(Rows)
    PROVE  Typed(Sim, SimP2(ids))
<1>1. Windows(ids) \in Nat
    <2> DEFINE m == Len(ids)
               a == m + H - 1
    <2>1. m \in Nat /\ H \in Nat \ {0}
        BY PolicyAssumption
    <2> HIDE DEF m
    <2>2. a \in Nat
        BY <2>1
    <2> HIDE DEF a
    <2>3. a \div H \in Nat
        BY <2>1, <2>2
    <2> QED BY <2>3 DEF Windows, a, m
<1>2. PICK f : IsWalk(Sim, f, ids, Windows(ids))
    BY <1>1, WalksExist
<1>3. \A w \in 0 .. Windows(ids) : Typed(Sim, f[w])
    BY <1>1, <1>2, WalkTyped
<1>4. SimP2(ids) = f[Windows(ids)]
    BY <1>1, <1>2, SimIsWalk, WalkEnds
<1>5. Windows(ids) \in 0 .. Windows(ids)
    BY <1>1
<1> QED BY <1>3, <1>4, <1>5

=============================================================================
