---------------------------- MODULE DecodeProofs ----------------------------
(***************************************************************************)
(* The replay harness agrees with the simulators of research/ob2, and its  *)
(* two readings are no further apart than the churn they pass, for every   *)
(* route log, policy and micro-batch.  The engine's counters are those that *)
(* the gates derive from its log and that the predictors foretell.         *)
(*                                                                         *)
(* What is counted is the size of a set: misses are the pairs of a token   *)
(* and an expert it picks that is not in force, churn the pairs of a       *)
(* boundary and an expert that it changes.  The lemmas about sums and      *)
(* sizes are in ResidencyProofs.                                           *)
(***************************************************************************)
EXTENDS MCDecodeReplay, ResidencyProofs

----------------------------------------------------------------------------
(* The residency in force, as a function of the log and of the policy.     *)

Logs == [1 .. Budget -> Rows]
Kind(p) == p[1]

\* sched_p1_sliding's set for window w of the log, and P2's as its walk has it.
SlidingSet(log, W, w) ==
    IF w = 1 THEN ColdSet
    ELSE TopK(BinCount(SubSeq(log, 1 + (IF Boundary(w) > W THEN Boundary(w) - W ELSE 0),
                              Boundary(w))))
DecayWalk(log) == CHOOSE f : IsWalk(Sim, f, log, Windows(log))

InForce(log, p, w) ==
    IF Kind(p) = "P0" THEN p[2]
    ELSE IF Kind(p) = "P1" THEN SlidingSet(log, p[2], w)
    ELSE DecayWalk(log)[w].resident

\* The sets of a complete schedule, the one a token is served with, and that set.
Spans(p) == IF Kind(p) = "P0" THEN 1 ELSE (Budget + H - 1) \div H
SpanOf(p, tok) == IF Kind(p) = "P0" THEN 1 ELSE (tok \div H) + 1
SetAt(log, p, tok) == InForce(log, p, SpanOf(p, tok))

LEMMA LogIsSeq ==
    ASSUME NEW log \in Logs
    PROVE  /\ log \in Seq(Rows) /\ Len(log) = Budget /\ Budget \in Nat \ {0}
           /\ H \in Nat \ {0}
           /\ \A i \in 1 .. Budget : log[i] \in SUBSET Experts
<1>1. Budget \in Nat \ {0} /\ H \in Nat \ {0}
    BY ReplayAssumption, PolicyAssumption
<1>2. log \in Seq(Rows) /\ Len(log) = Budget
    BY <1>1 DEF Logs
<1>3. \A i \in 1 .. Budget : log[i] \in SUBSET Experts
    BY DEF Logs, Rows
<1> QED BY <1>1, <1>2, <1>3

LEMMA PolicyKinds ==
    ASSUME NEW p \in Policies
    PROVE  /\ Kind(p) \in {"P0", "P1", "P2"}
           /\ Kind(p) = "P0" => p[2] \in SUBSET Experts
           /\ Kind(p) = "P1" => p[2] \in Nat \ {0}
<1>1. /\ \A frozen \in {{}} \cup {S \in SUBSET Experts : Cardinality(S) = K} :
              frozen \in SUBSET Experts
      /\ \A W \in Slidings : W \in Nat \ {0}
    BY ReplayAssumption
<1>2. CASE \E frozen \in {{}} \cup {S \in SUBSET Experts : Cardinality(S) = K} :
               p = <<"P0", frozen>>
    BY <1>1, <1>2 DEF Kind
<1>3. CASE \E W \in Slidings : p = <<"P1", W>>
    BY <1>1, <1>3 DEF Kind
<1>4. CASE p = <<"P2">>
    BY <1>4 DEF Kind
<1> QED BY <1>2, <1>3, <1>4 DEF Policies

\* Where the windows of a log are.
LEMMA WindowEdges ==
    ASSUME NEW w \in Nat \ {0}
    PROVE  /\ Boundary(w) \in Nat /\ w * H \in Nat
           /\ w * H = Boundary(w) + H /\ Boundary(w) < w * H
           /\ Boundary(w + 1) = w * H
           /\ w = 1 => Boundary(w) = 0
           /\ w > 1 => Boundary(w) > 0 /\ Boundary(w) = (w - 1) * H /\ w - 1 \in Nat \ {0}
<1>1. H \in Nat \ {0}
    BY PolicyAssumption
<1>2. (w - 1) * H \in Nat /\ w * H = (w - 1) * H + H
    BY <1>1
<1>3. w > 1 => (w - 1) * H > 0
    <2>1. ASSUME w > 1 PROVE (w - 1) * H > 0
        BY <1>1, <2>1
    <2> QED BY <2>1
<1> QED BY <1>1, <1>2, <1>3 DEF Boundary

\* A token's window is the last one that begins at or before it.
LEMMA WindowOfToken ==
    ASSUME NEW tok \in Nat, NEW w \in Nat \ {0}
    PROVE  /\ (tok \div H) + 1 \in Nat \ {0}
           /\ Boundary(w) <= tok <=> w <= (tok \div H) + 1
           /\ tok < w * H <=> (tok \div H) + 1 <= w
<1> DEFINE q == tok \div H
<1>1. H \in Nat \ {0} /\ w \in Int /\ w - 1 \in Int
    BY PolicyAssumption
<1>2. q \in Nat /\ H * q <= tok /\ tok < H * q + H
    BY <1>1, Quotient
<1> HIDE DEF q
<1>3. (w - 1) * H = H * (w - 1) /\ w * H = H * w /\ H * w = H * (w - 1) + H
    BY <1>1
<1>4. H * w \in Int /\ H * (w - 1) \in Int /\ H * q \in Int /\ H * (q + 1) \in Int
      /\ H * (q + 1) = H * q + H
    BY <1>1, <1>2
<1>5. ASSUME w - 1 <= q PROVE H * (w - 1) <= tok
    <2>1. H * (w - 1) <= H * q
        BY <1>1, <1>2, <1>5, Monotone
    <2> QED BY <1>2, <1>4, <2>1
<1>6. ASSUME ~(w - 1 <= q) PROVE ~(H * (w - 1) <= tok)
    <2>1. q + 1 <= w - 1 /\ q + 1 \in Int
        BY <1>1, <1>2, <1>6
    <2>2. H * (q + 1) <= H * (w - 1)
        BY <1>1, <2>1, Monotone
    <2> QED BY <1>2, <1>4, <2>2
<1>7. ASSUME q + 1 <= w PROVE tok < H * w
    <2>1. H * (q + 1) <= H * w
        BY <1>1, <1>2, <1>7, Monotone
    <2> QED BY <1>2, <1>4, <2>1
<1>8. ASSUME ~(q + 1 <= w) PROVE ~(tok < H * w)
    <2>1. w <= q
        BY <1>1, <1>2, <1>8
    <2>2. H * w <= H * q
        BY <1>1, <1>2, <2>1, Monotone
    <2> QED BY <1>2, <1>4, <2>2
<1>9. Boundary(w) = H * (w - 1)
    BY <1>3 DEF Boundary
<1>10. (Boundary(w) <= tok <=> w <= q + 1) /\ (tok < w * H <=> q + 1 <= w)
    <2>1. w - 1 <= q <=> w <= q + 1
        BY <1>2
    <2> QED BY <1>3, <1>5, <1>6, <1>7, <1>8, <1>9, <2>1
<1> QED BY <1>2, <1>10 DEF q

\* The windows of the log up to a token.
Prefix(log, n) == SubSeq(log, 1, n)

LEMMA PrefixOfLog ==
    ASSUME NEW log \in Logs, NEW n \in 0 .. Budget
    PROVE  /\ Prefix(log, n) \in Seq(Rows) /\ Len(Prefix(log, n)) = n
           /\ \A i \in 1 .. n : Prefix(log, n)[i] = log[i]
<1>1. log \in Seq(Rows) /\ Len(log) = Budget
    BY LogIsSeq
<1>2. 0 \in Nat /\ n \in Nat /\ n <= Len(log) /\ 0 + 1 = 1 /\ n - 0 = n
    BY <1>1, ReplayAssumption
<1>3. /\ SubSeq(log, 0 + 1, n) \in Seq(Rows)
      /\ Len(SubSeq(log, 0 + 1, n)) = IF 0 < n THEN n - 0 ELSE 0
      /\ \A i \in 1 .. n - 0 : SubSeq(log, 0 + 1, n)[i] = log[0 + i]
    BY <1>1, <1>2, PieceOfLog
<1>4. \A i \in 1 .. n : 0 + i = i
    OBVIOUS
<1> QED BY <1>2, <1>3, <1>4 DEF Prefix

\* A piece of it is that piece of the log.
LEMMA PieceOfPrefix ==
    ASSUME NEW log \in Logs, NEW n \in 0 .. Budget, NEW a \in Nat, NEW b \in Nat, b <= n
    PROVE  SubSeq(Prefix(log, n), a + 1, b) = SubSeq(log, a + 1, b)
<1> DEFINE x == SubSeq(Prefix(log, n), a + 1, b)
           y == SubSeq(log, a + 1, b)
           q == Prefix(log, n)
<1>1. q \in Seq(Rows) /\ Len(q) = n /\ \A i \in 1 .. n : q[i] = log[i]
    BY PrefixOfLog
<1>2. log \in Seq(Rows) /\ Len(log) = Budget /\ Budget \in Nat
    BY LogIsSeq
<1>3. b <= Len(q) /\ b <= Len(log) /\ n \in Nat
    <2> HIDE DEF q
    <2> QED BY <1>1, <1>2
<1>4. /\ x \in Seq(Rows) /\ Len(x) = (IF a < b THEN b - a ELSE 0)
      /\ \A i \in 1 .. b - a : x[i] = q[a + i]
    <2> HIDE DEF q
    <2>1. /\ SubSeq(q, a + 1, b) \in Seq(Rows)
          /\ Len(SubSeq(q, a + 1, b)) = IF a < b THEN b - a ELSE 0
          /\ \A i \in 1 .. b - a : SubSeq(q, a + 1, b)[i] = q[a + i]
        BY <1>1, <1>3, PieceOfLog
    <2> QED BY <2>1 DEF q
<1>5. /\ y \in Seq(Rows) /\ Len(y) = (IF a < b THEN b - a ELSE 0)
      /\ \A i \in 1 .. b - a : y[i] = log[a + i]
    BY <1>2, <1>3, PieceOfLog
<1> HIDE DEF x, y, q
<1>6. ASSUME NEW i \in 1 .. Len(x) PROVE x[i] = y[i]
    <2>1. i \in 1 .. b - a /\ a + i \in 1 .. n
        BY <1>3, <1>4
    <2> QED BY <1>1, <1>4, <1>5, <2>1
<1>7. x = y
    BY <1>4, <1>5, <1>6, SeqEqual
<1> QED BY <1>7 DEF x, y

----------------------------------------------------------------------------
(* Misses as the size of a set.                                            *)

\* The picks of the tokens a .. b-1 that are not in R, by row; and that are not
\* in force at their token.
MissedWith(log, R, a, b) ==
    {q \in (a + 1 .. b) \X Experts : q[2] \in log[q[1]] /\ q[2] \notin R}
Missed(log, p, a, b) ==
    {q \in (a + 1 .. b) \X Experts :
        q[2] \in log[q[1]] /\ q[2] \notin SetAt(log, p, q[1] - 1)}

LEMMA MissedFinite ==
    ASSUME NEW log, NEW p, NEW R, NEW a \in Nat, NEW b \in Nat
    PROVE  /\ IsFiniteSet((a + 1 .. b) \X Experts)
           /\ IsFiniteSet(MissedWith(log, R, a, b)) /\ IsFiniteSet(Missed(log, p, a, b))
           /\ Cardinality(MissedWith(log, R, a, b)) \in Nat
           /\ Cardinality(Missed(log, p, a, b)) \in Nat
<1> DEFINE S == (a + 1 .. b) \X Experts
<1>1. IsFiniteSet(S)
    <2>1. a + 1 \in Int /\ b \in Int
        OBVIOUS
    <2>2. IsFiniteSet(a + 1 .. b)
        BY <2>1, FS_Interval
    <2> QED BY <2>2, ExpertSetsFinite, FS_Product
<1>2. MissedWith(log, R, a, b) \in SUBSET S /\ Missed(log, p, a, b) \in SUBSET S
    BY DEF MissedWith, Missed
<1>3. IsFiniteSet(MissedWith(log, R, a, b)) /\ IsFiniteSet(Missed(log, p, a, b))
    <2> HIDE DEF S
    <2> QED BY <1>1, <1>2, FS_Subset
<1> QED BY <1>1, <1>3, FS_CardinalityType

\* The misses of a piece of the log are counted there.
LEMMA PieceMisses ==
    ASSUME NEW log \in Logs, NEW R, NEW a \in Nat, NEW b \in Nat, a <= b, b <= Budget
    PROVE  Misses(SubSeq(log, a + 1, b), R) = Cardinality(MissedWith(log, R, a, b))
<1> DEFINE seg == SubSeq(log, a + 1, b)
           B == {q \in (DOMAIN seg) \X Experts : q[2] \in seg[q[1]] \ R}
           C == MissedWith(log, R, a, b)
           f == [q \in B |-> <<a + q[1], q[2]>>]
<1>1. /\ seg \in Seq(Rows) /\ Len(seg) = b - a
      /\ \A i \in 1 .. b - a : seg[i] = log[a + i]
    <2>1. log \in Seq(Rows) /\ Len(log) = Budget /\ b <= Len(log)
        BY LogIsSeq
    <2>2. /\ seg \in Seq(Rows) /\ Len(seg) = IF a < b THEN b - a ELSE 0
          /\ \A i \in 1 .. b - a : seg[i] = log[a + i]
        BY <2>1, PieceOfLog
    <2>3. (IF a < b THEN b - a ELSE 0) = b - a
        OBVIOUS
    <2> QED BY <2>2, <2>3
<1>2. DOMAIN seg = 1 .. b - a
    <2> HIDE DEF seg
    <2> QED BY <1>1
<1>3. \A q \in B : /\ q = <<q[1], q[2]>> /\ q[1] \in 1 .. b - a /\ q[2] \in Experts
                   /\ q[2] \in log[a + q[1]] /\ q[2] \notin R
    <2> HIDE DEF seg
    <2> QED BY <1>1, <1>2
<1>4. \A q \in C : /\ q = <<q[1], q[2]>> /\ q[1] \in a + 1 .. b /\ q[2] \in Experts
                   /\ q[2] \in log[q[1]] /\ q[2] \notin R
    BY DEF MissedWith
<1>5. C = {f[q] : q \in B}
    <2>1. ASSUME NEW q \in B PROVE f[q] \in C
        <3>1. f[q] = <<a + q[1], q[2]>>
            OBVIOUS
        <3> HIDE DEF B, f, C
        <3>2. a + q[1] \in a + 1 .. b
            BY <1>3
        <3>3. <<a + q[1], q[2]>> \in C
            BY <1>3, <3>2 DEF C, MissedWith
        <3> QED BY <3>1, <3>3
    <2>2. ASSUME NEW c \in C PROVE \E q \in B : f[q] = c
        <3> DEFINE q == <<c[1] - a, c[2]>>
        <3>1. c[1] - a \in 1 .. b - a /\ a + (c[1] - a) = c[1]
            <4> HIDE DEF C
            <4> QED BY <1>4
        <3>2. seg[c[1] - a] = log[c[1]]
            <4> HIDE DEF seg
            <4> QED BY <1>1, <3>1
        <3>3. q \in B
            <4> HIDE DEF seg, C
            <4> QED BY <1>2, <1>4, <3>1, <3>2
        <3>4. f[q] = <<a + q[1], q[2]>>
            <4> HIDE DEF B
            <4> QED BY <3>3
        <3>5. f[q] = c
            <4> HIDE DEF f, C
            <4> QED BY <1>4, <3>1, <3>4
        <3> QED BY <3>3, <3>5
    <2> HIDE DEF B, C, f
    <2> QED BY <2>1, <2>2
<1>6. \A x, y \in B : f[x] = f[y] => x = y
    <2>1. \A q \in B : f[q] = <<a + q[1], q[2]>>
        OBVIOUS
    <2> HIDE DEF B, f
    <2>2. ASSUME NEW x \in B, NEW y \in B, f[x] = f[y] PROVE x = y
        <3>1. a + x[1] = a + y[1] /\ x[2] = y[2]
            BY <2>1, <2>2
        <3>2. x[1] = y[1]
            BY <1>3, <3>1
        <3> QED BY <1>3, <3>1, <3>2
    <2> QED BY <2>2
<1>7. f = [q \in B |-> f[q]]
    OBVIOUS
<1>8. IsFiniteSet(B)
    <2>1. IsFiniteSet((1 .. b - a) \X Experts)
        <3>1. 1 \in Int /\ b - a \in Int
            OBVIOUS
        <3>2. IsFiniteSet(1 .. b - a)
            BY <3>1, FS_Interval
        <3> QED BY <3>2, ExpertSetsFinite, FS_Product
    <2>2. B \in SUBSET ((1 .. b - a) \X Experts)
        BY <1>2
    <2> HIDE DEF B
    <2> QED BY <2>1, <2>2, FS_Subset
<1>9. Misses(seg, R) = Cardinality(B)
    BY DEF Misses
<1> HIDE DEF B, C, f
<1>10. Images(f, B, C)
    BY <1>5, <1>6, <1>7 DEF Images
<1>11. Cardinality({} \cup C) = Cardinality({}) + Cardinality(B)
    BY <1>8, <1>10, FS_EmptySet, WithImages
<1>12. {} \cup C = C /\ Cardinality({}) = 0 /\ Cardinality(B) \in Nat
    BY <1>8, FS_EmptySet, FS_CardinalityType
<1> QED BY <1>9, <1>11, <1>12 DEF C

\* Tokens are added to what is counted.
LEMMA MissedGrows ==
    ASSUME NEW log, NEW p, NEW a \in Nat, NEW b \in Nat, NEW c \in Nat, a <= b, b <= c
    PROVE  Cardinality(Missed(log, p, a, c))
             = Cardinality(Missed(log, p, a, b)) + Cardinality(Missed(log, p, b, c))
<1> DEFINE A == Missed(log, p, a, b)
           B == Missed(log, p, b, c)
<1>1. IsFiniteSet(A) /\ IsFiniteSet(B) /\ Cardinality(A) \in Nat /\ Cardinality(B) \in Nat
    BY MissedFinite
<1>2. A \cup B = Missed(log, p, a, c)
    <2>1. \A i : i \in a + 1 .. c <=> i \in a + 1 .. b \/ i \in b + 1 .. c
        OBVIOUS
    <2> QED BY <2>1 DEF Missed
<1>3. A \cap B = {}
    <2>1. ASSUME NEW q \in A, q \in B PROVE FALSE
        <3>1. q[1] \in a + 1 .. b /\ q[1] \in b + 1 .. c
            BY <2>1 DEF Missed
        <3> QED BY <3>1
    <2> HIDE DEF A, B
    <2> QED BY <2>1
<1> HIDE DEF A, B
<1>4. Cardinality(A \cup B) = Cardinality(A) + Cardinality(B) - Cardinality(A \cap B)
    BY <1>1, FS_Union
<1>5. Cardinality(A \cap B) = 0
    BY <1>3, FS_EmptySet
<1>6. Cardinality(A \cup B) = Cardinality(A) + Cardinality(B)
    BY <1>1, <1>4, <1>5
<1> QED BY <1>2, <1>6 DEF A, B

\* Where one set is in force the two counts are the same.
LEMMA MissedWithOne ==
    ASSUME NEW log, NEW p, NEW R, NEW a \in Nat, NEW b \in Nat,
           \A tok \in a .. b - 1 : SetAt(log, p, tok) = R
    PROVE  Missed(log, p, a, b) = MissedWith(log, R, a, b)
<1>1. \A i \in a + 1 .. b : i - 1 \in a .. b - 1
    OBVIOUS
<1>2. \A i \in a + 1 .. b : SetAt(log, p, i - 1) = R
    BY <1>1
<1> QED BY <1>2 DEF Missed, MissedWith

----------------------------------------------------------------------------
(* The windows of a prefix of the log.                                     *)

SpansTo(n) == (n + H - 1) \div H

LEMMA WindowsUpTo ==
    ASSUME NEW n \in Nat
    PROVE  /\ SpansTo(n) \in Nat
           /\ \A w \in Nat \ {0} : w <= SpansTo(n) <=> Boundary(w) < n
           /\ n <= SpansTo(n) * H
<1> DEFINE a == n + H - 1
           m == a \div H
<1>1. H \in Nat \ {0} /\ a \in Nat
    BY PolicyAssumption
<1>2. m \in Nat /\ H * m <= a /\ a < H * m + H
    <2> HIDE DEF a
    <2>1. m \in Int /\ H * m <= a /\ a < H * m + H
        BY <1>1, Quotient
    <2> QED BY <1>1, <2>1
<1>3. H * m <= n + H - 1 /\ n <= H * m /\ H * m \in Int /\ m * H = H * m
    <2> HIDE DEF m
    <2> QED BY <1>1, <1>2 DEF a
<1> HIDE DEF m, a
<1>4. ASSUME NEW w \in Nat \ {0} PROVE w <= m <=> Boundary(w) < n
    <2>1. Boundary(w) = H * (w - 1) /\ H * w = H * (w - 1) + H /\ H * (w - 1) \in Int
        BY <1>1 DEF Boundary
    <2>2. ASSUME w <= m PROVE Boundary(w) < n
        <3>1. H * w <= H * m
            BY <1>1, <1>2, <2>2, Monotone
        <3> QED BY <1>1, <1>3, <2>1, <3>1
    <2>3. ASSUME ~(w <= m) PROVE ~(Boundary(w) < n)
        <3>1. m <= w - 1 /\ w - 1 \in Int
            BY <1>2, <2>3
        <3>2. H * m <= H * (w - 1)
            BY <1>1, <1>2, <3>1, Monotone
        <3> QED BY <1>3, <2>1, <3>2
    <2> QED BY <2>2, <2>3
<1>5. SpansTo(n) = m
    BY DEF SpansTo, m, a
<1> QED BY <1>2, <1>3, <1>4, <1>5

LEMMA SpansAreNaturals == \A p : Spans(p) \in Nat
BY ReplayAssumption, WindowsUpTo DEF Spans, SpansTo

LEMMA PrefixWindows ==
    ASSUME NEW log \in Logs, NEW n \in 0 .. Budget
    PROVE  /\ Windows(Prefix(log, n)) = SpansTo(n) /\ Windows(log) = SpansTo(Budget)
           /\ \A w \in Nat \ {0} :
                 /\ Window(Prefix(log, n), w) = SubSeq(log, Boundary(w) + 1, Lower(n, w * H))
                 /\ Window(log, w) = SubSeq(log, Boundary(w) + 1, Lower(Budget, w * H))
<1>1. Len(Prefix(log, n)) = n /\ Len(log) = Budget /\ n \in Nat
    BY PrefixOfLog, LogIsSeq
<1>2. ASSUME NEW w \in Nat \ {0}
      PROVE  Window(Prefix(log, n), w) = SubSeq(log, Boundary(w) + 1, Lower(n, w * H))
    <2> DEFINE a == Boundary(w)
               b == Lower(n, w * H)
    <2>1. a \in Nat /\ b \in Nat /\ b <= n
        <3>1. a \in Nat /\ w * H \in Nat
            BY WindowEdges
        <3> QED BY <1>1, <3>1 DEF Lower
    <2>2. Window(Prefix(log, n), w) = SubSeq(Prefix(log, n), a + 1, b)
        BY <1>1 DEF Window, Boundary
    <2> HIDE DEF a, b
    <2>3. SubSeq(Prefix(log, n), a + 1, b) = SubSeq(log, a + 1, b)
        BY <2>1, PieceOfPrefix
    <2> QED BY <2>2, <2>3 DEF a, b
<1> QED BY <1>1, <1>2 DEF Windows, SpansTo, Window, Boundary

----------------------------------------------------------------------------
(* Every set in force after the first boundary has K experts.              *)

LEMMA PicksAreNaturals ==
    ASSUME NEW seg \in Seq(Rows)
    PROVE  BinCount(seg) \in [Experts -> Nat]
<1>1. Len(seg) \in Nat /\ seg \in [1 .. Len(seg) -> Rows]
    OBVIOUS
<1>2. \A e : PicksOf(seg, e) \in Nat
    BY <1>1, PicksOfBoth
<1> QED BY <1>2 DEF BinCount

LEMMA SlidingSetSize ==
    ASSUME NEW log \in Logs, NEW W \in Nat, NEW w \in Nat \ {0}, Boundary(w) <= Budget
    PROVE  SlidingSet(log, W, w) \in SUBSET Experts /\ Cardinality(SlidingSet(log, W, w)) = K
<1> DEFINE b == Boundary(w)
           a == IF b > W THEN b - W ELSE 0
           seg == SubSeq(log, a + 1, b)
<1>1. b \in Nat /\ a \in Nat /\ b <= Len(log) /\ log \in Seq(Rows)
    <2>1. b \in Nat /\ Len(log) = Budget /\ log \in Seq(Rows)
        BY WindowEdges, LogIsSeq
    <2>2. b <= Len(log)
        BY <2>1
    <2> HIDE DEF b
    <2> QED BY <2>1, <2>2
<1>2. seg \in Seq(Rows)
    <2> HIDE DEF a, b
    <2> QED BY <1>1, PieceOfLog
<1>3. SubSeq(log, 1 + a, b) = seg
    <2> HIDE DEF b
    <2>1. 1 + a = a + 1
        BY <1>1
    <2> QED BY <2>1
<1>4. SlidingSet(log, W, w) = IF w = 1 THEN ColdSet ELSE TopK(BinCount(seg))
    BY <1>3 DEF SlidingSet
<1> HIDE DEF seg
<1>5. TopK(BinCount(seg)) \in SUBSET Experts /\ Cardinality(TopK(BinCount(seg))) = K
    BY <1>2, PicksAreNaturals, TopKSize
<1> QED BY <1>4, <1>5, ColdSetSize

LEMMA DecayWalkIs ==
    ASSUME NEW log \in Logs
    PROVE  /\ IsWalk(Sim, DecayWalk(log), log, SpansTo(Budget))
           /\ SpansTo(Budget) \in Nat
           /\ \A w \in 0 .. SpansTo(Budget) : Typed(Sim, DecayWalk(log)[w])
<1>1. SpansTo(Budget) \in Nat /\ Windows(log) = SpansTo(Budget) /\ log \in Seq(Rows)
    <2>1. Budget \in 0 .. Budget /\ Budget \in Nat
        BY ReplayAssumption
    <2> QED BY <2>1, WindowsUpTo, PrefixWindows, LogIsSeq
<1>2. \E f : IsWalk(Sim, f, log, SpansTo(Budget))
    BY <1>1, WalksExist
<1>3. IsWalk(Sim, DecayWalk(log), log, SpansTo(Budget))
    BY <1>1, <1>2 DEF DecayWalk
<1> QED BY <1>1, <1>3, WalkTyped

\* A walk's resident set, one window on.
WalkAt(f, log, w) ==
    /\ f[w].counters = Accumulate(CountersAt(f[w - 1], w), Window(log, w))
    /\ f[w].resident = ResidentIn(f[w - 1], w)
    /\ f[w].misses = f[w - 1].misses + Misses(Window(log, w), ResidentIn(f[w - 1], w))
    /\ f[w].churn = f[w - 1].churn
         + Cardinality(SymmetricDifference(f[w - 1].resident, ResidentIn(f[w - 1], w)))

LEMMA WalkStep ==
    ASSUME NEW log, NEW n, n \in Nat, NEW f, IsWalk(Sim, f, log, n), NEW w \in 1 .. n
    PROVE  WalkAt(f, log, w)
<1>1. w \in 0 .. n /\ w # 0
    OBVIOUS
<1>2. f[w] = Step(Sim, f[w - 1], w, Window(log, w))
    BY <1>1 DEF IsWalk
<1> QED BY <1>2, SimFields DEF WalkAt

LEMMA InForceSize ==
    ASSUME NEW log \in Logs, NEW p \in Policies, NEW w \in 1 .. Spans(p)
    PROVE  /\ InForce(log, p, w) \in SUBSET Experts
           /\ Kind(p) # "P0" => Cardinality(InForce(log, p, w)) = K
<1>1. Kind(p) \in {"P0", "P1", "P2"}
    BY PolicyKinds
<1>2. CASE Kind(p) = "P0"
    BY <1>2, PolicyKinds DEF InForce
<1>3. ASSUME Kind(p) # "P0"
      PROVE  Spans(p) = SpansTo(Budget) /\ w \in Nat \ {0} /\ Boundary(w) <= Budget
    <2>1. Spans(p) = SpansTo(Budget)
        BY <1>3 DEF Spans, SpansTo
    <2>2. Budget \in Nat /\ SpansTo(Budget) \in Nat
        BY ReplayAssumption, WindowsUpTo
    <2>3. w \in Nat \ {0} /\ w <= SpansTo(Budget)
        BY <2>1, <2>2
    <2>4. Boundary(w) < Budget /\ Boundary(w) \in Nat
        BY <2>2, <2>3, WindowsUpTo, WindowEdges
    <2> QED BY <2>1, <2>2, <2>3, <2>4
<1>4. CASE Kind(p) = "P1"
    <2>1. p[2] \in Nat
        BY <1>4, PolicyKinds
    <2>2. /\ SlidingSet(log, p[2], w) \in SUBSET Experts
          /\ Cardinality(SlidingSet(log, p[2], w)) = K
        BY <1>3, <1>4, <2>1, SlidingSetSize
    <2> QED BY <1>4, <2>2 DEF InForce
<1>5. CASE Kind(p) = "P2"
    <2> DEFINE f == DecayWalk(log)
               n == SpansTo(Budget)
    <2>1. IsWalk(Sim, f, log, n) /\ n \in Nat /\ w \in 1 .. n /\ w - 1 \in 0 .. n
        BY <1>3, <1>5, DecayWalkIs
    <2>2. Typed(Sim, f[w - 1])
        BY <2>1, DecayWalkIs
    <2> HIDE DEF f, n
    <2>3. f[w].resident = ResidentIn(f[w - 1], w)
        <3>1. WalkAt(f, log, w)
            BY <2>1, WalkStep
        <3> QED BY <3>1 DEF WalkAt
    <2>4. CountersAt(f[w - 1], w) \in [Experts -> Nat]
        BY <2>2, ServedWith DEF Typed
    <2>5. /\ ResidentIn(f[w - 1], w) \in SUBSET Experts
          /\ Cardinality(ResidentIn(f[w - 1], w)) = K
        BY <2>4, TopKSize, ColdSetSize DEF ResidentIn
    <2>6. InForce(log, p, w) = f[w].resident
        BY <1>5 DEF InForce, f
    <2> QED BY <2>3, <2>5, <2>6
<1> QED BY <1>1, <1>2, <1>4, <1>5

----------------------------------------------------------------------------
(* What a simulator counts over the windows of a prefix.                   *)

\* Boundaries up to the m-th, and an expert it changes.
Changed(log, p, m) ==
    {q \in (2 .. m) \X Experts :
        q[2] \in SymmetricDifference(InForce(log, p, q[1] - 1), InForce(log, p, q[1]))}

ChangeAt(log, p, w) ==
    IF w = 1 THEN 0
    ELSE Cardinality(SymmetricDifference(InForce(log, p, w - 1), InForce(log, p, w)))

\* A window more of misses.
LEMMA WindowMisses ==
    ASSUME NEW log \in Logs, NEW p \in Policies, Kind(p) # "P0", NEW n \in 0 .. Budget,
           NEW w \in 1 .. SpansTo(n)
    PROVE  Cardinality(Missed(log, p, 0, Lower(n, w * H)))
             = Cardinality(Missed(log, p, 0, Lower(n, (w - 1) * H)))
                 + Misses(Window(Prefix(log, n), w), InForce(log, p, w))
<1> DEFINE a == Boundary(w)
           b == Lower(n, w * H)
           R == InForce(log, p, w)
<1>1. n \in Nat /\ n <= Budget /\ w \in Nat \ {0} /\ SpansTo(n) \in Nat /\ Budget \in Nat
    BY WindowsUpTo, ReplayAssumption
<1>2. /\ a \in Nat /\ a < n /\ a < w * H /\ w * H \in Nat
    BY <1>1, WindowsUpTo, WindowEdges
<1>3. b \in Nat /\ a <= b /\ b <= n /\ b <= Budget /\ b <= w * H /\ Lower(n, (w - 1) * H) = a
    <2>1. (w - 1) * H = a
        BY DEF Boundary
    <2> HIDE DEF a
    <2>2. Lower(n, a) = a
        BY <1>1, <1>2 DEF Lower
    <2> QED BY <1>1, <1>2, <2>1, <2>2 DEF Lower
<1>4. Window(Prefix(log, n), w) = SubSeq(log, a + 1, b)
    BY <1>1, PrefixWindows
<1> HIDE DEF a, b, R
<1>5. ASSUME NEW tok \in a .. b - 1 PROVE SetAt(log, p, tok) = R
    <2>1. tok \in Nat /\ Boundary(w) <= tok /\ tok < w * H
        BY <1>2, <1>3 DEF a
    <2>2. w <= (tok \div H) + 1 /\ (tok \div H) + 1 <= w /\ (tok \div H) + 1 \in Nat
        BY <1>1, <2>1, WindowOfToken
    <2>3. (tok \div H) + 1 = w
        <3> DEFINE x == (tok \div H) + 1
        <3>1. w <= x /\ x <= w /\ x \in Nat
            BY <2>2
        <3> HIDE DEF x
        <3>2. x = w
            BY <1>1, <3>1
        <3> QED BY <3>2 DEF x
    <2> QED BY <2>3 DEF SetAt, SpanOf, R
<1>6. Missed(log, p, a, b) = MissedWith(log, R, a, b)
    BY <1>2, <1>3, <1>5, MissedWithOne
<1>7. Misses(SubSeq(log, a + 1, b), R) = Cardinality(MissedWith(log, R, a, b))
    BY <1>2, <1>3, PieceMisses
<1>8. Cardinality(Missed(log, p, 0, b))
        = Cardinality(Missed(log, p, 0, a)) + Cardinality(Missed(log, p, a, b))
    <2>1. 0 \in Nat /\ 0 <= a
        BY <1>2
    <2> QED BY <1>2, <1>3, <2>1, MissedGrows
<1> QED BY <1>3, <1>4, <1>6, <1>7, <1>8 DEF b, R

\* A boundary more of churn.
LEMMA BoundaryChurn ==
    ASSUME NEW log \in Logs, NEW p \in Policies, NEW w \in 1 .. Spans(p)
    PROVE  /\ IsFiniteSet(Changed(log, p, w)) /\ Cardinality(Changed(log, p, w)) \in Nat
           /\ Cardinality(Changed(log, p, w)) = Cardinality(Changed(log, p, w - 1)) + ChangeAt(log, p, w)
<1> DEFINE A == Changed(log, p, w - 1)
           D == SymmetricDifference(InForce(log, p, w - 1), InForce(log, p, w))
           B == {w} \X D
<1>1. ASSUME NEW m \in Int PROVE IsFiniteSet(Changed(log, p, m))
    <2>1. IsFiniteSet((2 .. m) \X Experts)
        <3>1. 2 \in Int
            OBVIOUS
        <3>2. IsFiniteSet(2 .. m)
            BY <3>1, FS_Interval
        <3> QED BY <3>2, ExpertSetsFinite, FS_Product
    <2>2. Changed(log, p, m) \in SUBSET ((2 .. m) \X Experts)
        BY DEF Changed
    <2> QED BY <2>1, <2>2, FS_Subset
<1>2. w \in Int /\ w - 1 \in Int /\ w >= 1
    OBVIOUS
<1>3. IsFiniteSet(Changed(log, p, w)) /\ IsFiniteSet(A)
      /\ Cardinality(Changed(log, p, w)) \in Nat /\ Cardinality(A) \in Nat
    BY <1>1, <1>2, FS_CardinalityType
<1>4. CASE w = 1
    <2>1. 2 .. w = {} /\ 2 .. w - 1 = {}
        BY <1>4
    <2>2. Changed(log, p, w) = {} /\ A = {}
        BY <2>1 DEF Changed
    <2> HIDE DEF A
    <2>3. Cardinality(Changed(log, p, w)) = 0 /\ Cardinality(A) = 0
        BY <2>2, FS_EmptySet
    <2> QED BY <1>3, <1>4, <2>3 DEF ChangeAt, A
<1>5. CASE w # 1
    <2>1. w - 1 \in 1 .. Spans(p) /\ w >= 2
        BY <1>2, <1>5, SpansAreNaturals
    <2>2. D \in SUBSET Experts
        <3>1. InForce(log, p, w - 1) \in SUBSET Experts
            BY <2>1, InForceSize
        <3>2. InForce(log, p, w) \in SUBSET Experts
            BY InForceSize
        <3> QED BY <3>1, <3>2 DEF SymmetricDifference
    <2>3. IsFiniteSet(B) /\ Cardinality(B) = Cardinality(D) /\ Cardinality(D) \in Nat
        <3> HIDE DEF D
        <3>1. IsFiniteSet(D) /\ Cardinality(D) \in Nat
            BY <2>2, ExpertSetsFinite
        <3> QED BY <3>1, PairedSize
    <2>4. Changed(log, p, w) = A \cup B
        <3>1. \A i : i \in 2 .. w <=> i \in 2 .. w - 1 \/ i = w
            BY <1>2, <2>1
        <3>2. ASSUME NEW q \in Changed(log, p, w) PROVE q \in A \cup B
            <4>1. /\ q = <<q[1], q[2]>> /\ q[1] \in 2 .. w /\ q[2] \in Experts
                  /\ q[2] \in SymmetricDifference(InForce(log, p, q[1] - 1), InForce(log, p, q[1]))
                BY DEF Changed
            <4>2. CASE q[1] = w
                BY <4>1, <4>2
            <4>3. CASE q[1] \in 2 .. w - 1
                BY <4>1, <4>3 DEF Changed
            <4> QED BY <3>1, <4>1, <4>2, <4>3
        <3>3. A \subseteq Changed(log, p, w)
            BY <3>1 DEF Changed
        <3>4. B \subseteq Changed(log, p, w)
            <4>1. w \in 2 .. w
                BY <1>2, <2>1
            <4> HIDE DEF D
            <4>2. ASSUME NEW e \in D PROVE <<w, e>> \in Changed(log, p, w)
                BY <2>2, <4>1 DEF Changed, D
            <4> QED BY <4>2
        <3> HIDE DEF A, B
        <3> QED BY <3>2, <3>3, <3>4
    <2>5. A \cap B = {}
        <3>1. \A q \in A : q[1] \in 2 .. w - 1
            BY DEF Changed
        <3>2. \A q \in B : q[1] = w
            OBVIOUS
        <3>3. w \notin 2 .. w - 1
            BY <1>2
        <3> HIDE DEF A, B
        <3> QED BY <3>1, <3>2, <3>3
    <2> HIDE DEF A, B
    <2>6. Cardinality(A \cup B) = Cardinality(A) + Cardinality(B) - Cardinality(A \cap B)
        BY <1>3, <2>3, FS_Union
    <2>7. Cardinality(A \cap B) = 0
        BY <2>5, FS_EmptySet
    <2>8. ChangeAt(log, p, w) = Cardinality(D)
        BY <1>5 DEF ChangeAt
    <2> HIDE DEF D
    <2>9. Cardinality(Changed(log, p, w)) = Cardinality(A) + ChangeAt(log, p, w)
        BY <1>3, <2>3, <2>4, <2>6, <2>7, <2>8
    <2> QED BY <1>3, <2>9 DEF A
<1> QED BY <1>4, <1>5

\* A walk that adds these counts up, window by window.
Counts(f, log, p, n) ==
    /\ f[0].misses = 0 /\ f[0].churn = 0
    /\ \A w \in 1 .. SpansTo(n) :
          /\ f[w].misses = f[w - 1].misses + Misses(Window(Prefix(log, n), w), InForce(log, p, w))
          /\ f[w].churn = f[w - 1].churn + ChangeAt(log, p, w)

Counted(log, p, n, w) ==
    [misses |-> Cardinality(Missed(log, p, 0, Lower(n, w * H))),
     churn  |-> Cardinality(Changed(log, p, w))]

LEMMA SpansWithin ==
    ASSUME NEW p, Kind(p) # "P0", NEW n \in 0 .. Budget
    PROVE  /\ SpansTo(n) \in Nat /\ Spans(p) = SpansTo(Budget) /\ Spans(p) \in Nat
           /\ \A w \in 1 .. SpansTo(n) : w \in 1 .. Spans(p)
<1>1. n \in Nat /\ Budget \in Nat /\ n <= Budget
    BY ReplayAssumption
<1>2. SpansTo(n) \in Nat /\ SpansTo(Budget) \in Nat
    BY <1>1, WindowsUpTo
<1>3. Spans(p) = SpansTo(Budget)
    BY DEF Spans, SpansTo
<1>4. ASSUME NEW w \in 1 .. SpansTo(n) PROVE w <= SpansTo(Budget)
    <2>1. w \in Nat \ {0} /\ w <= SpansTo(n)
        BY <1>2
    <2>2. Boundary(w) < n /\ Boundary(w) \in Nat
        BY <1>1, <2>1, WindowsUpTo, WindowEdges
    <2>3. Boundary(w) < Budget
        BY <1>1, <2>2
    <2> QED BY <1>1, <2>1, <2>3, WindowsUpTo
<1>5. \A w \in 1 .. SpansTo(n) : w \in 1 .. SpansTo(Budget)
    BY <1>2, <1>4
<1> QED BY <1>2, <1>3, <1>5

\* What is counted is one such walk, and every one ends with it.
LEMMA CountedAtStart ==
    ASSUME NEW log, NEW p, NEW n \in Nat
    PROVE  Counted(log, p, n, 0).misses = 0 /\ Counted(log, p, n, 0).churn = 0
<1>1. 0 * H = 0 /\ Lower(n, 0) = 0
    BY PolicyAssumption DEF Lower
<1>2. Missed(log, p, 0, 0) = {} /\ Changed(log, p, 0) = {}
    <2>1. 0 + 1 .. 0 = {} /\ 2 .. 0 = {}
        OBVIOUS
    <2> QED BY <2>1 DEF Missed, Changed
<1> QED BY <1>1, <1>2, FS_EmptySet DEF Counted

LEMMA CountedStep ==
    ASSUME NEW log \in Logs, NEW p \in Policies, Kind(p) # "P0", NEW n \in 0 .. Budget,
           NEW w \in 1 .. SpansTo(n)
    PROVE  /\ Counted(log, p, n, w).misses = Counted(log, p, n, w - 1).misses
                 + Misses(Window(Prefix(log, n), w), InForce(log, p, w))
           /\ Counted(log, p, n, w).churn = Counted(log, p, n, w - 1).churn + ChangeAt(log, p, w)
<1>1. w \in 1 .. Spans(p)
    BY SpansWithin
<1> QED BY <1>1, WindowMisses, BoundaryChurn DEF Counted

LEMMA CountsEnd ==
    ASSUME NEW log \in Logs, NEW p \in Policies, Kind(p) # "P0", NEW n \in 0 .. Budget,
           NEW f, Counts(f, log, p, n)
    PROVE  /\ f[SpansTo(n)].misses = Cardinality(Missed(log, p, 0, n))
           /\ f[SpansTo(n)].churn = Cardinality(Changed(log, p, SpansTo(n)))
<1> DEFINE m == SpansTo(n)
           c(w) == Counted(log, p, n, w)
           Off == {w \in 0 .. m : ~(f[w].misses = c(w).misses /\ f[w].churn = c(w).churn)}
<1>1. m \in Nat /\ n \in Nat
    BY SpansWithin
<1>2. Off = {}
    <2> SUFFICES ASSUME Off # {} PROVE FALSE
        OBVIOUS
    <2>1. PICK u \in Off : \A x \in Off : u <= x
        <3>1. Off \in SUBSET Nat
            OBVIOUS
        <3> HIDE DEF Off
        <3> QED BY <3>1, LeastNat
    <2>2. u \in 0 .. m /\ ~(f[u].misses = c(u).misses /\ f[u].churn = c(u).churn)
        OBVIOUS
    <2>3. u # 0
        BY <1>1, <2>2, CountedAtStart DEF Counts
    <2>4. u - 1 \in 0 .. m /\ u - 1 \notin Off /\ u \in 1 .. m
        <3> HIDE DEF Off, m
        <3> QED BY <1>1, <2>1, <2>2, <2>3
    <2>5. f[u - 1].misses = c(u - 1).misses /\ f[u - 1].churn = c(u - 1).churn
        BY <2>4
    <2>6. /\ f[u].misses = f[u - 1].misses + Misses(Window(Prefix(log, n), u), InForce(log, p, u))
          /\ f[u].churn = f[u - 1].churn + ChangeAt(log, p, u)
        BY <2>4 DEF Counts
    <2>7. /\ c(u).misses = c(u - 1).misses
               + Misses(Window(Prefix(log, n), u), InForce(log, p, u))
          /\ c(u).churn = c(u - 1).churn + ChangeAt(log, p, u)
        BY <2>4, CountedStep
    <2> HIDE DEF c, Off, m
    <2> QED BY <2>2, <2>5, <2>6, <2>7
<1>3. f[m].misses = c(m).misses /\ f[m].churn = c(m).churn
    <2>1. m \in 0 .. m /\ m \notin Off
        BY <1>1, <1>2
    <2> HIDE DEF c, m
    <2> QED BY <2>1
<1>4. Lower(n, m * H) = n
    BY <1>1, WindowsUpTo DEF Lower
<1> QED BY <1>3, <1>4 DEF Counted

----------------------------------------------------------------------------
(* The simulators count that.                                              *)

LEMMA SlidingInPrefix ==
    ASSUME NEW log \in Logs, NEW W \in Nat, NEW n \in 0 .. Budget, NEW w \in 1 .. SpansTo(n)
    PROVE  SlidingSet(Prefix(log, n), W, w) = SlidingSet(log, W, w)
<1> DEFINE b == Boundary(w)
           a == IF b > W THEN b - W ELSE 0
<1>1. n \in Nat /\ SpansTo(n) \in Nat
    BY WindowsUpTo
<1>2. w \in Nat \ {0} /\ w <= SpansTo(n)
    BY <1>1
<1>3. b \in Nat /\ b < n
    BY <1>1, <1>2, WindowsUpTo, WindowEdges
<1>4. a \in Nat /\ b <= n /\ 1 + a = a + 1
    <2> HIDE DEF b
    <2> QED BY <1>1, <1>3
<1>5. /\ SlidingSet(Prefix(log, n), W, w)
            = IF w = 1 THEN ColdSet ELSE TopK(BinCount(SubSeq(Prefix(log, n), 1 + a, b)))
      /\ SlidingSet(log, W, w) = IF w = 1 THEN ColdSet ELSE TopK(BinCount(SubSeq(log, 1 + a, b)))
    BY DEF SlidingSet
<1> HIDE DEF a, b
<1>6. SubSeq(Prefix(log, n), a + 1, b) = SubSeq(log, a + 1, b)
    BY <1>3, <1>4, PieceOfPrefix
<1>7. SubSeq(Prefix(log, n), 1 + a, b) = SubSeq(log, 1 + a, b)
    BY <1>4, <1>6
<1>8. BinCount(SubSeq(Prefix(log, n), 1 + a, b)) = BinCount(SubSeq(log, 1 + a, b))
    BY <1>7
<1> QED BY <1>5, <1>8

LEMMA SlidingCounts ==
    ASSUME NEW log \in Logs, NEW p \in Policies, Kind(p) = "P1", NEW n \in 0 .. Budget
    PROVE  /\ SimP1(Prefix(log, n), p[2]).misses = Cardinality(Missed(log, p, 0, n))
           /\ SimP1(Prefix(log, n), p[2]).churn = Cardinality(Changed(log, p, SpansTo(n)))
<1> DEFINE rows == Prefix(log, n)
           W == p[2]
           m == Windows(rows)
           R(w) == SlidingSet(rows, W, w)
           Next1(s, w) == [misses |-> s.misses + Misses(Window(rows, w), R(w)),
                           churn  |-> s.churn +
                                      IF w = 1 THEN 0
                                      ELSE Cardinality(SymmetricDifference(R(w - 1), R(w)))]
           P(f) == f = [w \in 0 .. m |-> IF w = 0 THEN [misses |-> 0, churn |-> 0]
                                         ELSE Next1(f[w - 1], w)]
           c == [w \in 0 .. m |-> Counted(log, p, n, w)]
<1>1. SimP1(rows, W) = (CHOOSE f : P(f))[m]
    BY DEF SimP1, SlidingSet
<1>2. m = SpansTo(n) /\ m \in Nat /\ n \in Nat /\ W \in Nat /\ Kind(p) # "P0"
    BY PrefixWindows, WindowsUpTo, PolicyKinds
<1>3. ASSUME NEW w \in 1 .. m
      PROVE  /\ R(w) = InForce(log, p, w)
             /\ w # 1 => R(w - 1) = InForce(log, p, w - 1)
    <2>1. w \in 1 .. SpansTo(n) /\ (w # 1 => w - 1 \in 1 .. SpansTo(n))
        <3> HIDE DEF m
        <3> QED BY <1>2
    <2>2. R(w) = SlidingSet(log, W, w)
        BY <1>2, <2>1, SlidingInPrefix
    <2>3. w # 1 => R(w - 1) = SlidingSet(log, W, w - 1)
        BY <1>2, <2>1, SlidingInPrefix
    <2> HIDE DEF R
    <2> QED BY <2>2, <2>3 DEF InForce
<1>4. ASSUME NEW w \in 1 .. m, NEW s
      PROVE  /\ Next1(s, w).misses = s.misses + Misses(Window(rows, w), InForce(log, p, w))
             /\ Next1(s, w).churn = s.churn + ChangeAt(log, p, w)
             /\ Next1(s, w) = [misses |-> s.misses + Misses(Window(rows, w), InForce(log, p, w)),
                               churn |-> s.churn + ChangeAt(log, p, w)]
    <2> HIDE DEF R
    <2> QED BY <1>3 DEF ChangeAt
<1>5. P(c)
    <2>1. ASSUME NEW w \in 0 .. m
          PROVE  c[w] = IF w = 0 THEN [misses |-> 0, churn |-> 0] ELSE Next1(c[w - 1], w)
        <3>0. c[w] = Counted(log, p, n, w)
              /\ Counted(log, p, n, w) = [misses |-> Counted(log, p, n, w).misses,
                                          churn |-> Counted(log, p, n, w).churn]
            BY DEF Counted
        <3>1. CASE w = 0
            BY <1>2, <3>0, <3>1, CountedAtStart
        <3>2. CASE w # 0
            <4>1. w \in 1 .. m /\ w - 1 \in 0 .. m /\ w \in 1 .. SpansTo(n)
                <5> HIDE DEF m
                <5> QED BY <1>2, <3>2
            <4>2. c[w - 1] = Counted(log, p, n, w - 1)
                BY <4>1
            <4> HIDE DEF c
            <4>3. Next1(c[w - 1], w)
                    = [misses |-> c[w - 1].misses + Misses(Window(rows, w), InForce(log, p, w)),
                       churn |-> c[w - 1].churn + ChangeAt(log, p, w)]
                BY <1>4, <4>1
            <4>4. /\ c[w].misses = c[w - 1].misses + Misses(Window(rows, w), InForce(log, p, w))
                  /\ c[w].churn = c[w - 1].churn + ChangeAt(log, p, w)
                BY <1>2, <3>0, <4>1, <4>2, CountedStep
            <4>5. c[w] = [misses |-> c[w].misses, churn |-> c[w].churn]
                BY <3>0
            <4> HIDE DEF Next1
            <4> QED BY <3>2, <4>3, <4>4, <4>5
        <3> QED BY <3>1, <3>2
    <2>2. c = [w \in 0 .. m |-> c[w]]
        OBVIOUS
    <2> HIDE DEF c, Next1, m
    <2> QED BY <2>1, <2>2
<1> DEFINE f == CHOOSE f : P(f)
<1>6. P(f)
    <2> HIDE DEF P, c
    <2> QED BY <1>5
<1> HIDE DEF f
<1>7. Counts(f, log, p, n)
    <2>1. f[0].misses = 0 /\ f[0].churn = 0
        <3>1. 0 \in 0 .. m
            BY <1>2
        <3>2. f[0] = [misses |-> 0, churn |-> 0]
            BY <1>6, <3>1
        <3> QED BY <3>2
    <2>2. ASSUME NEW w \in 1 .. m PROVE f[w] = Next1(f[w - 1], w)
        <3>1. w \in 0 .. m /\ w # 0
            BY <1>2
        <3> HIDE DEF Next1, m
        <3> QED BY <1>6, <3>1
    <2> HIDE DEF Next1, R
    <2>3. \A w \in 1 .. m :
             /\ f[w].misses = f[w - 1].misses + Misses(Window(rows, w), InForce(log, p, w))
             /\ f[w].churn = f[w - 1].churn + ChangeAt(log, p, w)
        BY <1>4, <2>2
    <2> HIDE DEF m
    <2> QED BY <1>2, <2>1, <2>3 DEF Counts
<1>8. /\ f[SpansTo(n)].misses = Cardinality(Missed(log, p, 0, n))
      /\ f[SpansTo(n)].churn = Cardinality(Changed(log, p, SpansTo(n)))
    BY <1>2, <1>7, CountsEnd
<1> HIDE DEF P, m
<1> QED BY <1>1, <1>2, <1>8 DEF f

LEMMA DecayInPrefix ==
    ASSUME NEW log \in Logs, NEW p \in Policies, Kind(p) = "P2", NEW n \in 0 .. Budget,
           NEW f, IsWalk(Sim, f, Prefix(log, n), SpansTo(n)), NEW w \in 1 .. SpansTo(n)
    PROVE  /\ f[w].resident = InForce(log, p, w)
           /\ ResidentIn(f[w - 1], w) = InForce(log, p, w)
<1> DEFINE m == SpansTo(n)
           b == SpansTo(Budget)
           g == DecayWalk(log)
           rows == Prefix(log, n)
<1>1. m \in Nat /\ b \in Nat /\ n \in Nat /\ n <= Budget /\ Budget \in Nat
    BY WindowsUpTo, ReplayAssumption
<1>2. w \in 1 .. b
    BY SpansWithin
<1>3. IsWalk(Sim, g, log, b) /\ IsWalk(Sim, f, rows, m)
    BY DecayWalkIs
<1>4. SameWindows(rows, log, w - 1)
    <2> SUFFICES ASSUME NEW v \in 1 .. w - 1 PROVE Window(rows, v) = Window(log, v)
        BY DEF SameWindows
    <2>1. v \in Nat \ {0} /\ v + 1 <= m /\ v + 1 \in Nat \ {0}
        <3> HIDE DEF m
        <3> QED BY <1>1 DEF m
    <2>2. Boundary(v + 1) < n /\ Boundary(v + 1) = v * H /\ v * H \in Nat
        BY <1>1, <2>1, WindowsUpTo, WindowEdges
    <2>3. Lower(n, v * H) = Lower(Budget, v * H)
        <3> DEFINE x == v * H
        <3>1. x \in Nat /\ x < n
            BY <2>2
        <3> HIDE DEF x
        <3>2. Lower(n, x) = Lower(Budget, x)
            BY <1>1, <3>1 DEF Lower
        <3> QED BY <3>2 DEF x
    <2>4. Window(rows, v) = SubSeq(log, Boundary(v) + 1, Lower(n, v * H))
        BY <2>1, PrefixWindows
    <2>5. Window(log, v) = SubSeq(log, Boundary(v) + 1, Lower(Budget, v * H))
        BY <2>1, PrefixWindows
    <2> QED BY <2>3, <2>4, <2>5
<1> HIDE DEF m, b, g, rows
<1>5. f[w - 1] = g[w - 1]
    <2> DEFINE j == w - 1
    <2>1. j \in Nat /\ j <= m /\ j <= b
        BY <1>1, <1>2 DEF m
    <2>2. SameWindows(rows, log, j)
        BY <1>4
    <2> HIDE DEF j
    <2>3. f[j] = g[j]
        BY <1>1, <1>3, <2>1, <2>2, WalksAgree
    <2> QED BY <2>3 DEF j
<1>6. f[w].resident = ResidentIn(f[w - 1], w)
    <2>1. w \in 1 .. m
        BY DEF m
    <2>2. WalkAt(f, rows, w)
        BY <1>1, <1>3, <2>1, WalkStep
    <2> QED BY <2>2 DEF WalkAt
<1>7. g[w].resident = ResidentIn(g[w - 1], w)
    <2>1. WalkAt(g, log, w)
        BY <1>1, <1>2, <1>3, WalkStep
    <2> QED BY <2>1 DEF WalkAt
<1>8. InForce(log, p, w) = g[w].resident
    BY DEF InForce, g
<1> QED BY <1>5, <1>6, <1>7, <1>8

LEMMA DecayCounts ==
    ASSUME NEW log \in Logs, NEW p \in Policies, Kind(p) = "P2", NEW n \in 0 .. Budget
    PROVE  /\ SimP2(Prefix(log, n)).misses = Cardinality(Missed(log, p, 0, n))
           /\ SimP2(Prefix(log, n)).churn = Cardinality(Changed(log, p, SpansTo(n)))
<1> DEFINE rows == Prefix(log, n)
           m == SpansTo(n)
<1>1. m \in Nat /\ n \in Nat /\ Windows(rows) = m /\ Kind(p) # "P0" /\ rows \in Seq(Rows)
    BY WindowsUpTo, PrefixWindows, PrefixOfLog
<1>2. PICK f : IsWalk(Sim, f, rows, m)
    BY <1>1, WalksExist
<1>3. SimP2(rows) = f[m]
    <2> HIDE DEF rows, m
    <2>1. Windows(rows) \in Nat /\ IsWalk(Sim, f, rows, Windows(rows))
        BY <1>1, <1>2
    <2>2. SimP2(rows) = Done(Sim, rows) /\ Done(Sim, rows) = f[Windows(rows)]
        BY <2>1, SimIsWalk, WalkEnds
    <2> QED BY <1>1, <2>2
<1>4. f[0].misses = 0 /\ f[0].churn = 0 /\ f[0].resident = ColdSet
    <2>1. 0 \in 0 .. m
        BY <1>1
    <2>2. f[0] = Start(Sim)
        BY <1>2, <2>1 DEF IsWalk
    <2> QED BY <2>2 DEF Start, Sim
<1>5. ASSUME NEW w \in 1 .. m
      PROVE  /\ f[w].misses = f[w - 1].misses + Misses(Window(rows, w), InForce(log, p, w))
             /\ f[w].churn = f[w - 1].churn + ChangeAt(log, p, w)
    <2>1. ResidentIn(f[w - 1], w) = InForce(log, p, w)
        BY <1>2, DecayInPrefix
    <2>2. /\ f[w].misses = f[w - 1].misses + Misses(Window(rows, w), ResidentIn(f[w - 1], w))
          /\ f[w].churn = f[w - 1].churn
                + Cardinality(SymmetricDifference(f[w - 1].resident, ResidentIn(f[w - 1], w)))
        <3>1. WalkAt(f, rows, w)
            BY <1>1, <1>2, WalkStep
        <3> QED BY <3>1 DEF WalkAt
    <2>3. CASE w = 1
        <3>1. InForce(log, p, w) = ColdSet
            BY <2>1, <2>3 DEF ResidentIn
        <3>2. f[w - 1].resident = ColdSet
            BY <1>4, <2>3
        <3>3. Cardinality(SymmetricDifference(ColdSet, ColdSet)) = 0
            <4>1. SymmetricDifference(ColdSet, ColdSet) = {}
                BY DEF SymmetricDifference
            <4> QED BY <4>1, FS_EmptySet
        <3> QED BY <2>1, <2>2, <2>3, <3>1, <3>2, <3>3 DEF ChangeAt
    <2>4. CASE w # 1
        <3>1. w - 1 \in 1 .. m
            BY <1>1, <2>4
        <3>2. f[w - 1].resident = InForce(log, p, w - 1)
            BY <1>2, <3>1, DecayInPrefix
        <3> QED BY <2>1, <2>2, <2>4, <3>2 DEF ChangeAt
    <2> QED BY <2>3, <2>4
<1>6. Counts(f, log, p, n)
    BY <1>4, <1>5 DEF Counts
<1>7. /\ f[m].misses = Cardinality(Missed(log, p, 0, n))
      /\ f[m].churn = Cardinality(Changed(log, p, m))
    BY <1>1, <1>6, CountsEnd
<1> QED BY <1>3, <1>7

LEMMA StaticCounts ==
    ASSUME NEW log \in Logs, NEW p \in Policies, Kind(p) = "P0", NEW n \in 0 .. Budget
    PROVE  /\ SimP0(Prefix(log, n), p[2]).misses = Cardinality(Missed(log, p, 0, n))
           /\ SimP0(Prefix(log, n), p[2]).churn = 0
<1>1. 0 \in Nat /\ n \in Nat /\ 0 <= n /\ n <= Budget /\ 0 + 1 = 1
    BY ReplayAssumption
<1>2. Misses(SubSeq(log, 0 + 1, n), p[2]) = Cardinality(MissedWith(log, p[2], 0, n))
    BY <1>1, PieceMisses
<1>3. \A tok \in 0 .. n - 1 : SetAt(log, p, tok) = p[2]
    BY DEF SetAt, InForce
<1>4. Missed(log, p, 0, n) = MissedWith(log, p[2], 0, n)
    BY <1>1, <1>3, MissedWithOne
<1> QED BY <1>1, <1>2, <1>4 DEF SimP0, Prefix

----------------------------------------------------------------------------
(* The schedule.                                                           *)

\* The token that n sets of a schedule reach.
Reach(p, n) ==
    IF n = 0 THEN 0 ELSE IF Kind(p) = "P0" THEN Budget ELSE Lower(Budget, n * H)

\* The schedule holds the first n sets in force, each from the token its window
\* begins at.
ScheduleIs(n) ==
    /\ bounds = [i \in 1 .. n |-> Boundary(i)]
    /\ sets = [i \in 1 .. n |-> InForce(ids, policy, i)]
    /\ Kind(policy) = "P2" => counters = DecayWalk(ids)[n].counters

\* What a schedule being made, and one being replayed, has to do with the tokens.
Making(n) ==
    /\ t = Reach(policy, n)
    /\ events = Zero /\ peak = Zero /\ pick_misses = Zero
Replayed(n) ==
    /\ n = Spans(policy) /\ ubatch \in Ubatches
    /\ t \in 0 .. Budget
    /\ t = Budget \/ \E a \in Nat : t = ubatch * a

SInv ==
    /\ ids \in Logs /\ policy \in Policies
    /\ phase \in {"schedule", "replay"}
    /\ \E n \in 0 .. Spans(policy) :
          /\ ScheduleIs(n)
          /\ phase = "schedule" => Making(n)
          /\ phase = "replay" => Replayed(n)

\* Where the next set begins, and when there is none.
LEMMA NextSpan ==
    ASSUME NEW p \in Policies, NEW n \in 0 .. Spans(p), Reach(p, n) < Budget
    PROVE  /\ Reach(p, n) = Boundary(n + 1) /\ n + 1 \in 1 .. Spans(p)
           /\ Kind(p) = "P0" => n = 0
           /\ Reach(p, n) = 0 <=> n = 0
           /\ Reach(p, n) > 0 <=> n + 1 > 1
           /\ Reach(p, n + 1) = IF Kind(p) = "P0" THEN Budget ELSE Lower(Budget, Reach(p, n) + H)
           /\ Lower(Budget, (n + 1) * H) = Lower(Budget, Reach(p, n) + H)
<1> DEFINE w == n + 1
           b == Boundary(w)
<1>1. Spans(p) \in Nat /\ Budget \in Nat \ {0} /\ w \in Nat \ {0} /\ w # 0
      /\ n \in Nat /\ n <= Spans(p) /\ H \in Nat \ {0}
    BY SpansAreNaturals, ReplayAssumption, PolicyAssumption
<1>2. b \in Nat /\ w * H = b + H /\ (w = 1 => b = 0) /\ (w > 1 => b > 0) /\ b = n * H
    <2>1. (n + 1) - 1 = n
        BY <1>1
    <2>2. b = n * H
        BY <2>1 DEF Boundary
    <2> QED BY <1>1, <2>2, WindowEdges
<1>3. Kind(p) = "P0" => n = 0
    <2>1. ASSUME Kind(p) = "P0", n # 0 PROVE FALSE
        <3>1. Reach(p, n) = Budget
            BY <2>1 DEF Reach
        <3> QED BY <1>1, <3>1
    <2> QED BY <2>1
<1>4. Reach(p, n) = b
    <2>1. CASE n = 0
        BY <1>2, <2>1 DEF Reach
    <2>2. CASE n # 0
        <3>1. Reach(p, n) = Lower(Budget, b)
            BY <1>2, <1>3, <2>2 DEF Reach
        <3> HIDE DEF b
        <3> QED BY <1>1, <1>2, <3>1 DEF Lower
    <2> QED BY <2>1, <2>2
<1>5. w \in 1 .. Spans(p)
    <2>1. CASE Kind(p) = "P0"
        BY <1>3, <2>1 DEF Spans
    <2>2. CASE Kind(p) # "P0"
        <3>1. Spans(p) = SpansTo(Budget)
            BY <2>2 DEF Spans, SpansTo
        <3>2. w <= SpansTo(Budget)
            BY <1>1, <1>4, WindowsUpTo
        <3> QED BY <1>1, <3>1, <3>2
    <2> QED BY <2>1, <2>2
<1>6. Reach(p, w) = IF Kind(p) = "P0" THEN Budget ELSE Lower(Budget, b + H)
    BY <1>1, <1>2 DEF Reach
<1>7. (b = 0 <=> n = 0) /\ (b > 0 <=> w > 1)
    <2> HIDE DEF b
    <2> QED BY <1>1, <1>2
<1> QED BY <1>2, <1>3, <1>4, <1>5, <1>6, <1>7

LEMMA LastSpan ==
    ASSUME NEW p \in Policies, NEW n \in 0 .. Spans(p), Reach(p, n) = Budget
    PROVE  n = Spans(p)
<1>1. Spans(p) \in Nat /\ Budget \in Nat \ {0} /\ n \in Nat /\ n <= Spans(p)
    BY SpansAreNaturals, ReplayAssumption
<1>2. n # 0
    BY <1>1 DEF Reach
<1>3. CASE Kind(p) = "P0"
    BY <1>1, <1>2, <1>3 DEF Spans
<1>4. CASE Kind(p) # "P0"
    <2>1. Spans(p) = SpansTo(Budget) /\ Lower(Budget, n * H) = Budget
        BY <1>2, <1>4 DEF Spans, SpansTo, Reach
    <2>2. Boundary(n + 1) = n * H /\ n * H \in Nat
        BY <1>1, <1>2, WindowEdges
    <2>3. ASSUME n < Spans(p) PROVE FALSE
        <3>1. n + 1 <= SpansTo(Budget) /\ n + 1 \in Nat \ {0}
            BY <1>1, <2>1, <2>3
        <3>2. n * H < Budget
            BY <1>1, <2>2, <3>1, WindowsUpTo
        <3>3. n * H = Budget
            <4> DEFINE x == n * H
            <4>1. x < Budget /\ x \in Nat /\ Lower(Budget, x) = Budget
                BY <2>1, <2>2, <3>2
            <4> HIDE DEF x
            <4>2. x = Budget
                BY <1>1, <4>1 DEF Lower
            <4> QED BY <4>2 DEF x
        <3> QED BY <1>1, <3>2, <3>3
    <2> QED BY <1>1, <2>3
<1> QED BY <1>3, <1>4

\* The set that sched_p1_sliding, and sched_p2_decay, puts there.
LEMMA SlidingNext ==
    ASSUME NEW log \in Logs, NEW p \in Policies, Kind(p) = "P1", NEW n \in 0 .. Spans(p),
           NEW b, b = Reach(p, n), b < Budget
    PROVE  InForce(log, p, n + 1) =
             LET lo == IF b > p[2] THEN b - p[2] ELSE 0
             IN  IF b = 0 THEN ColdSet ELSE TopK(BinCount(SubSeq(log, lo + 1, b)))
<1>1. b = Boundary(n + 1) /\ (b = 0 <=> n = 0) /\ n \in Nat /\ b \in Nat /\ p[2] \in Nat
    <2>1. n \in Nat /\ n + 1 \in Nat \ {0}
        BY SpansAreNaturals
    <2> QED BY <2>1, NextSpan, WindowEdges, PolicyKinds
<1>2. InForce(log, p, n + 1) = SlidingSet(log, p[2], n + 1)
    BY DEF InForce
<1> DEFINE lo == IF b > p[2] THEN b - p[2] ELSE 0
<1>3. SlidingSet(log, p[2], n + 1)
        = IF n + 1 = 1 THEN ColdSet ELSE TopK(BinCount(SubSeq(log, 1 + lo, b)))
    BY <1>1 DEF SlidingSet
<1>4. lo \in Nat
    BY <1>1
<1> HIDE DEF lo
<1>5. 1 + lo = lo + 1 /\ (n + 1 = 1 <=> b = 0)
    BY <1>1, <1>4
<1>6. InForce(log, p, n + 1) = IF b = 0 THEN ColdSet ELSE TopK(BinCount(SubSeq(log, lo + 1, b)))
    BY <1>2, <1>3, <1>5
<1> QED BY <1>6 DEF lo

LEMMA DecayNext ==
    ASSUME NEW log \in Logs, NEW p \in Policies, Kind(p) = "P2", NEW n \in 0 .. Spans(p),
           NEW b, b = Reach(p, n), b < Budget, NEW c, c = DecayWalk(log)[n].counters,
           NEW d, d = IF b > 0 THEN Decay(c) ELSE c
    PROVE  /\ InForce(log, p, n + 1) = IF b = 0 THEN ColdSet ELSE TopK(d)
           /\ DecayWalk(log)[n + 1].counters
                = Accumulate(d, SubSeq(log, b + 1, Lower(Budget, b + H)))
<1> DEFINE w == n + 1
           f == DecayWalk(log)
           m == SpansTo(Budget)
<1>1. /\ b = Boundary(w) /\ (b = 0 <=> n = 0) /\ (b > 0 <=> w > 1) /\ n \in Nat
      /\ Lower(Budget, w * H) = Lower(Budget, b + H) /\ w \in 1 .. m /\ b \in Nat
    <2>1. n \in Nat /\ w \in Nat \ {0}
        BY SpansAreNaturals
    <2>2. Spans(p) = m
        BY DEF Spans, SpansTo
    <2> QED BY <2>1, <2>2, NextSpan, WindowEdges
<1>2. IsWalk(Sim, f, log, m) /\ m \in Nat
    BY DecayWalkIs
<1> HIDE DEF f, m
<1>3. WalkAt(f, log, w)
    BY <1>1, <1>2, WalkStep
<1>4. f[w].counters = Accumulate(CountersAt(f[n], w), Window(log, w))
      /\ f[w].resident = ResidentIn(f[n], w)
    <2>1. w - 1 = n
        BY <1>1
    <2> QED BY <1>3, <2>1 DEF WalkAt
<1>5. CountersAt(f[n], w) = d
    BY <1>1 DEF CountersAt, f
<1>6. ResidentIn(f[n], w) = IF b = 0 THEN ColdSet ELSE TopK(d)
    <2>1. ResidentIn(f[n], w) = IF w > 1 THEN TopK(d) ELSE ColdSet
        BY <1>5 DEF ResidentIn
    <2>2. w > 1 <=> ~(b = 0)
        BY <1>1
    <2> HIDE DEF w
    <2> QED BY <2>1, <2>2
<1>7. Window(log, w) = SubSeq(log, b + 1, Lower(Budget, b + H))
    <2>1. w \in Nat \ {0} /\ Budget \in 0 .. Budget
        BY <1>1, ReplayAssumption
    <2> QED BY <1>1, <2>1, PrefixWindows
<1>8. InForce(log, p, w) = f[w].resident
    BY DEF InForce, f
<1> QED BY <1>4, <1>5, <1>6, <1>7, <1>8 DEF f

LEMMA InitSInv == Init => SInv
<1> SUFFICES ASSUME Init PROVE SInv
    OBVIOUS
<1>1. ids \in Logs /\ policy \in Policies /\ phase = "schedule"
    BY DEF Init, Logs
<1>2. 0 \in 0 .. Spans(policy)
    BY SpansAreNaturals
<1>3. 1 .. 0 = {}
    OBVIOUS
<1>4. bounds = [i \in 1 .. 0 |-> Boundary(i)] /\ sets = [i \in 1 .. 0 |-> InForce(ids, policy, i)]
    BY <1>3 DEF Init
<1>5. DecayWalk(ids)[0].counters = NoCounts
    <2>1. IsWalk(Sim, DecayWalk(ids), ids, SpansTo(Budget)) /\ 0 \in 0 .. SpansTo(Budget)
        BY <1>1, DecayWalkIs
    <2>2. DecayWalk(ids)[0] = Start(Sim)
        BY <2>1 DEF IsWalk
    <2> QED BY <2>2 DEF Start, Sim
<1>6. ScheduleIs(0)
    BY <1>4, <1>5 DEF ScheduleIs, Init
<1>7. Making(0)
    BY DEF Making, Reach, Init
<1> QED BY <1>1, <1>2, <1>6, <1>7 DEF SInv

\* One more set in force, from the token reached.
LEMMA SchedSInv ==
    ASSUME SInv, phase = "schedule", t < Budget, NEW n \in 0 .. Spans(policy),
           ScheduleIs(n), Making(n), NEW R, NEW next, Sched(R, next),
           R = InForce(ids, policy, n + 1), next = Reach(policy, n + 1),
           Kind(policy) = "P2" => counters' = DecayWalk(ids)[n + 1].counters
    PROVE  SInv'
<1> DEFINE m == n + 1
<1>1. /\ bounds' = Append(bounds, t) /\ sets' = Append(sets, R) /\ t' = next
      /\ phase' = phase /\ ubatch' = ubatch /\ ids' = ids /\ policy' = policy
      /\ events' = events /\ peak' = peak /\ pick_misses' = pick_misses
    BY DEF Sched, input, counts
<1>2. policy \in Policies /\ ids \in Logs /\ n \in Nat
    BY SpansAreNaturals DEF SInv
<1>3. t = Reach(policy, n) /\ t = Boundary(m) /\ m \in 1 .. Spans(policy) /\ m \in 0 .. Spans(policy)
    <2>1. t = Reach(policy, n)
        BY DEF Making
    <2>2. t = Boundary(m) /\ m \in 1 .. Spans(policy)
        BY <1>2, <2>1, NextSpan
    <2> QED BY <2>1, <2>2, SpansAreNaturals
<1>4. bounds' = [i \in 1 .. m |-> Boundary(i)]
    <2> DEFINE f == [i \in Nat |-> Boundary(i)]
    <2>1. bounds = [i \in 1 .. n |-> f[i]] /\ t = f[m]
        BY <1>2, <1>3 DEF ScheduleIs
    <2>2. [i \in 1 .. m |-> f[i]] = [i \in 1 .. m |-> Boundary(i)]
        BY <1>2
    <2> HIDE DEF f
    <2>3. Append(bounds, t) = [i \in 1 .. n + 1 |-> f[i]]
        BY <1>2, <2>1, OneMoreSet
    <2> QED BY <1>1, <2>2, <2>3
<1>5. sets' = [i \in 1 .. m |-> InForce(ids, policy, i)]
    <2> DEFINE f == [i \in Nat |-> InForce(ids, policy, i)]
    <2>1. sets = [i \in 1 .. n |-> f[i]] /\ R = f[m]
        BY <1>2 DEF ScheduleIs
    <2>2. [i \in 1 .. m |-> f[i]] = [i \in 1 .. m |-> InForce(ids, policy, i)]
        BY <1>2
    <2> HIDE DEF f
    <2>3. Append(sets, R) = [i \in 1 .. n + 1 |-> f[i]]
        BY <1>2, <2>1, OneMoreSet
    <2> QED BY <1>1, <2>2, <2>3
<1>6. ScheduleIs(m)'
    BY <1>1, <1>4, <1>5 DEF ScheduleIs
<1>7. Making(m)'
    BY <1>1 DEF Making
<1> HIDE DEF m
<1> QED BY <1>1, <1>2, <1>3, <1>6, <1>7 DEF SInv

LEMMA StaticSInv == SInv /\ SchedStatic => SInv'
<1> SUFFICES ASSUME SInv, SchedStatic PROVE SInv'
    OBVIOUS
<1>1. phase = "schedule" /\ t < Budget /\ Kind(policy) = "P0" /\ Sched(policy[2], Budget)
    BY DEF SchedStatic, Scheduling, Kind
<1>2. PICK n \in 0 .. Spans(policy) : ScheduleIs(n) /\ Making(n)
    BY <1>1 DEF SInv
<1>3. policy[2] = InForce(ids, policy, n + 1)
    BY <1>1 DEF InForce
<1>4. Budget = Reach(policy, n + 1)
    <2>1. policy \in Policies /\ Reach(policy, n) < Budget
        BY <1>1, <1>2 DEF SInv, Making
    <2> QED BY <1>1, <2>1, NextSpan
<1> QED BY <1>1, <1>2, <1>3, <1>4, SchedSInv

LEMMA SlidingSInv == SInv /\ SchedSliding => SInv'
<1> SUFFICES ASSUME SInv, SchedSliding PROVE SInv'
    OBVIOUS
<1> DEFINE lo == IF t > policy[2] THEN t - policy[2] ELSE 0
           R == IF t = 0 THEN ColdSet ELSE TopK(BinCount(SubSeq(ids, lo + 1, t)))
<1>1. /\ phase = "schedule" /\ t < Budget /\ Kind(policy) = "P1"
      /\ Sched(R, Lower(Budget, t + H))
    BY DEF SchedSliding, Scheduling, Kind
<1>2. PICK n \in 0 .. Spans(policy) : ScheduleIs(n) /\ Making(n)
    BY <1>1 DEF SInv
<1>3. policy \in Policies /\ ids \in Logs /\ t = Reach(policy, n) /\ Reach(policy, n) < Budget
    BY <1>1, <1>2 DEF SInv, Making
<1>4. R = InForce(ids, policy, n + 1)
    BY <1>1, <1>3, SlidingNext
<1>5. Lower(Budget, t + H) = Reach(policy, n + 1)
    BY <1>1, <1>3, NextSpan
<1> HIDE DEF R
<1> QED BY <1>1, <1>2, <1>4, <1>5, SchedSInv

LEMMA DecaySInv == SInv /\ SchedDecay => SInv'
<1> SUFFICES ASSUME SInv, SchedDecay PROVE SInv'
    OBVIOUS
<1> DEFINE R == IF t = 0 THEN ColdSet ELSE TopK(Decayed)
<1>1. /\ phase = "schedule" /\ t < Budget /\ Kind(policy) = "P2"
      /\ Sched(R, Lower(Budget, t + H))
      /\ counters' = Accumulate(Decayed, SubSeq(ids, t + 1, Lower(Budget, t + H)))
    BY DEF SchedDecay, Scheduling, Kind
<1>2. PICK n \in 0 .. Spans(policy) : ScheduleIs(n) /\ Making(n)
    BY <1>1 DEF SInv
<1>3. /\ policy \in Policies /\ ids \in Logs /\ t = Reach(policy, n) /\ Reach(policy, n) < Budget
      /\ counters = DecayWalk(ids)[n].counters /\ Decayed = IF t > 0 THEN Decay(counters) ELSE counters
    BY <1>1, <1>2 DEF SInv, Making, ScheduleIs, Decayed
<1>4. R = InForce(ids, policy, n + 1) /\ counters' = DecayWalk(ids)[n + 1].counters
    <2>1. /\ InForce(ids, policy, n + 1) = R
          /\ DecayWalk(ids)[n + 1].counters
                = Accumulate(Decayed, SubSeq(ids, t + 1, Lower(Budget, t + H)))
        BY <1>1, <1>3, DecayNext
    <2> QED BY <1>1, <2>1
<1>5. Lower(Budget, t + H) = Reach(policy, n + 1)
    BY <1>1, <1>3, NextSpan
<1> HIDE DEF R
<1> QED BY <1>1, <1>2, <1>4, <1>5, SchedSInv

LEMMA StartSInv == SInv /\ StartReplay => SInv'
<1> SUFFICES ASSUME SInv, StartReplay PROVE SInv'
    OBVIOUS
<1>1. /\ phase = "schedule" /\ t = Budget /\ phase' = "replay" /\ t' = 0 /\ ubatch' \in Ubatches
      /\ ids' = ids /\ policy' = policy /\ bounds' = bounds /\ sets' = sets /\ counters' = counters
    BY DEF StartReplay, input, schedule
<1>2. PICK n \in 0 .. Spans(policy) : ScheduleIs(n) /\ Making(n)
    BY <1>1 DEF SInv
<1>3. policy \in Policies /\ ids \in Logs /\ n = Spans(policy)
    BY <1>1, <1>2, LastSpan DEF SInv, Making
<1>4. ScheduleIs(n)'
    BY <1>1, <1>2 DEF ScheduleIs
<1>5. Replayed(n)'
    <2>1. ubatch' \in Nat /\ Budget \in Nat
        BY <1>1, ReplayAssumption
    <2>2. t' = ubatch' * 0 /\ t' \in 0 .. Budget
        <3>1. \A x \in Nat : x * 0 = 0
            OBVIOUS
        <3>2. ubatch' * 0 = 0
            BY <2>1, <3>1, Zenon
        <3>3. 0 \in 0 .. Budget
            BY <2>1
        <3> QED BY <1>1, <3>2, <3>3
    <2> QED BY <1>1, <1>3, <2>2 DEF Replayed
<1> QED BY <1>1, <1>2, <1>3, <1>4, <1>5 DEF SInv

\* The tokens of the call.
Hi == Lower(Budget, t + ubatch)

LEMMA CallSInv ==
    ASSUME SInv, RouteCall
    PROVE  /\ SInv' /\ Hi \in Nat /\ t \in Nat /\ t < Hi /\ Hi <= Budget /\ t' = Hi
           /\ ubatch \in Ubatches /\ ubatch \in Nat \ {0} /\ Hi <= t + ubatch
           /\ \E a \in Nat : t = ubatch * a
<1>1. /\ phase = "replay" /\ t < Budget /\ t' = Hi /\ phase' = phase /\ ubatch' = ubatch
      /\ ids' = ids /\ policy' = policy /\ bounds' = bounds /\ sets' = sets /\ counters' = counters
    BY DEF RouteCall, Hi, input, schedule
<1>2. PICK n \in 0 .. Spans(policy) : ScheduleIs(n) /\ Replayed(n)
    BY <1>1 DEF SInv
<1>3. ubatch \in Ubatches /\ ubatch \in Nat \ {0} /\ t \in Nat /\ Budget \in Nat
    BY <1>2, ReplayAssumption DEF Replayed
<1>4. PICK a \in Nat : t = ubatch * a
    BY <1>1, <1>2, <1>3 DEF Replayed
<1>5. Hi \in 0 .. Budget /\ t < Hi /\ Hi <= t + ubatch /\ (Hi = Budget \/ Hi = t + ubatch)
    BY <1>1, <1>3 DEF Hi, Lower
<1>6. t + ubatch = ubatch * (a + 1) /\ a + 1 \in Nat
    BY <1>3, <1>4
<1>7. ScheduleIs(n)' /\ Replayed(n)'
    BY <1>1, <1>2, <1>3, <1>5, <1>6 DEF ScheduleIs, Replayed
<1>8. SInv'
    BY <1>1, <1>2, <1>7 DEF SInv
<1> QED BY <1>1, <1>3, <1>4, <1>5, <1>8

----------------------------------------------------------------------------
(* The binary search.                                                      *)

\* What resident_at computes, and where a search between two ends must end.
Search(f, n, tok) ==
    f = [r \in (1 .. n) \X (1 .. n) |->
            LET mid == (r[1] + r[2] + 1) \div 2
            IN  IF r[1] >= r[2] THEN r[1]
                ELSE IF bounds[mid] <= tok THEN f[<<mid, r[2]>>]
                ELSE f[<<r[1], mid - 1>>]]

Clamped(x, r) == IF r[1] >= r[2] \/ x <= r[1] THEN r[1] ELSE IF x >= r[2] THEN r[2] ELSE x

LEMMA SearchExists ==
    ASSUME NEW n \in Nat \ {0}, NEW tok, NEW x \in 1 .. n,
           \A j \in 1 .. n : bounds[j] <= tok <=> j <= x
    PROVE  \E f : Search(f, n, tok)
<1> DEFINE S == (1 .. n) \X (1 .. n)
           f == [r \in S |-> Clamped(x, r)]
<1>1. ASSUME NEW r \in S
      PROVE  f[r] = LET mid == (r[1] + r[2] + 1) \div 2
                    IN  IF r[1] >= r[2] THEN r[1]
                        ELSE IF bounds[mid] <= tok THEN f[<<mid, r[2]>>]
                        ELSE f[<<r[1], mid - 1>>]
    <2> DEFINE a == r[1]
               b == r[2]
               mid == (a + b + 1) \div 2
    <2>1. a \in 1 .. n /\ b \in 1 .. n /\ x \in 1 .. n
        OBVIOUS
    <2>2. f[r] = IF a >= b \/ x <= a THEN a ELSE IF x >= b THEN b ELSE x
        BY DEF Clamped
    <2>3. CASE a >= b
        BY <2>2, <2>3
    <2>4. CASE ~(a >= b)
        <3>1. mid \in Int /\ a < mid /\ mid <= b
            <4> HIDE DEF a, b
            <4> QED BY <2>1, <2>4, Midpoint
        <3>2. mid \in 1 .. n /\ mid - 1 \in 1 .. n
            <4> HIDE DEF mid, a, b
            <4> QED BY <2>1, <3>1
        <3>3. bounds[mid] <= tok <=> mid <= x
            <4> HIDE DEF mid
            <4> QED BY <3>2
        <3>4. /\ f[<<mid, b>>] = IF mid >= b \/ x <= mid THEN mid ELSE IF x >= b THEN b ELSE x
              /\ f[<<a, mid - 1>>] = IF a >= mid - 1 \/ x <= a THEN a
                                     ELSE IF x >= mid - 1 THEN mid - 1 ELSE x
            <4> HIDE DEF mid
            <4>1. <<mid, b>> \in S /\ <<a, mid - 1>> \in S
                BY <2>1, <3>2
            <4> HIDE DEF a, b, S
            <4>2. f[<<mid, b>>] = Clamped(x, <<mid, b>>)
                  /\ f[<<a, mid - 1>>] = Clamped(x, <<a, mid - 1>>)
                BY <4>1
            <4> HIDE DEF f
            <4> QED BY <4>2 DEF Clamped
        <3>5. f[r] = IF bounds[mid] <= tok THEN f[<<mid, b>>] ELSE f[<<a, mid - 1>>]
            <4> HIDE DEF f, mid, a, b, S
            <4>1. CASE mid <= x
                BY <2>1, <2>2, <2>4, <3>1, <3>3, <3>4, <4>1
            <4>2. CASE ~(mid <= x)
                BY <2>1, <2>2, <2>4, <3>1, <3>3, <3>4, <4>2
            <4> QED BY <4>1, <4>2
        <3> HIDE DEF f, S
        <3> QED BY <2>4, <3>5
    <2> QED BY <2>3, <2>4
<1>2. f = [r \in S |-> f[r]]
    OBVIOUS
<1> HIDE DEF f
<1>3. [r \in S |-> f[r]]
        = [r \in S |-> LET mid == (r[1] + r[2] + 1) \div 2
                       IN  IF r[1] >= r[2] THEN r[1]
                           ELSE IF bounds[mid] <= tok THEN f[<<mid, r[2]>>]
                           ELSE f[<<r[1], mid - 1>>]]
    <2> HIDE DEF S
    <2> QED BY <1>1
<1> QED BY <1>2, <1>3 DEF Search

\* Every search between two ends around x finds x: the nearest ends between which
\* one did not would have a nearer half.
LEMMA SearchEnds ==
    ASSUME NEW n \in Nat \ {0}, NEW tok, NEW x \in 1 .. n,
           \A j \in 1 .. n : bounds[j] <= tok <=> j <= x,
           NEW f, Search(f, n, tok)
    PROVE  f[<<1, n>>] = x
<1> DEFINE Lost(a, b) == a \in 1 .. n /\ b \in 1 .. n /\ a <= x /\ x <= b /\ f[<<a, b>>] # x
           Gaps == {d \in Nat : \E a, b \in 1 .. n : Lost(a, b) /\ b - a = d}
<1>1. Gaps = {}
    <2> SUFFICES ASSUME Gaps # {} PROVE FALSE
        OBVIOUS
    <2>1. PICK d \in Gaps : \A y \in Gaps : d <= y
        <3>1. Gaps \in SUBSET Nat
            OBVIOUS
        <3> HIDE DEF Gaps
        <3> QED BY <3>1, LeastNat
    <2>2. PICK a \in 1 .. n, b \in 1 .. n : Lost(a, b) /\ b - a = d
        OBVIOUS
    <2>3. a <= x /\ x <= b /\ f[<<a, b>>] # x /\ d \in Nat /\ d = b - a
        BY <2>2
    <2>4. \A u, v \in 1 .. n : Lost(u, v) => d <= v - u
        <3> SUFFICES ASSUME NEW u \in 1 .. n, NEW v \in 1 .. n, Lost(u, v) PROVE d <= v - u
            OBVIOUS
        <3>1. v - u \in Nat
            OBVIOUS
        <3>2. v - u \in Gaps
            <4> HIDE DEF Lost
            <4> QED BY <3>1
        <3> HIDE DEF Gaps
        <3> QED BY <2>1, <3>2
    <2> DEFINE mid == (a + b + 1) \div 2
    <2>5. f[<<a, b>>] = IF a >= b THEN a
                        ELSE IF bounds[mid] <= tok THEN f[<<mid, b>>] ELSE f[<<a, mid - 1>>]
        <3>1. <<a, b>> \in (1 .. n) \X (1 .. n)
            OBVIOUS
        <3> QED BY <3>1 DEF Search
    <2>6. a < b
        <3>1. a >= b => a = x
            BY <2>3
        <3> HIDE DEF mid
        <3> QED BY <2>3, <2>5, <3>1
    <2>7. mid \in Int /\ a < mid /\ mid <= b
        BY <2>6, Midpoint
    <2> HIDE DEF mid, Gaps
    <2>8. mid \in 1 .. n /\ mid - 1 \in 1 .. n
        BY <2>7
    <2>9. CASE mid <= x
        <3>1. f[<<a, b>>] = f[<<mid, b>>]
            BY <2>5, <2>6, <2>8, <2>9
        <3>2. Lost(mid, b)
            BY <2>3, <2>8, <2>9, <3>1
        <3>3. d <= b - mid
            <4> HIDE DEF Lost
            <4> QED BY <2>4, <2>8, <3>2
        <3> QED BY <2>3, <2>7, <3>3
    <2>10. CASE ~(mid <= x)
        <3>1. f[<<a, b>>] = f[<<a, mid - 1>>]
            BY <2>5, <2>6, <2>8, <2>10
        <3>2. Lost(a, mid - 1)
            BY <2>3, <2>7, <2>8, <2>10, <3>1
        <3>3. d <= (mid - 1) - a
            <4> HIDE DEF Lost
            <4> QED BY <2>4, <2>8, <3>2
        <3> QED BY <2>3, <2>7, <3>3
    <2> QED BY <2>9, <2>10
<1>2. ASSUME f[<<1, n>>] # x PROVE FALSE
    <2>1. 1 \in 1 .. n /\ n \in 1 .. n /\ 1 <= x /\ x <= n
        OBVIOUS
    <2>2. Lost(1, n)
        BY <1>2, <2>1
    <2>3. n - 1 \in Gaps
        <3>1. n - 1 \in Nat
            OBVIOUS
        <3> HIDE DEF Lost
        <3> QED BY <2>1, <2>2, <3>1
    <2> HIDE DEF Gaps
    <2> QED BY <1>1, <2>3
<1> QED BY <1>2

LEMMA SearchFinds ==
    ASSUME NEW n \in Nat \ {0}, Len(bounds) = n, NEW tok, NEW x \in 1 .. n,
           \A j \in 1 .. n : bounds[j] <= tok <=> j <= x
    PROVE  ResidentAt(tok) = sets[x]
<1> DEFINE f == CHOOSE f : Search(f, n, tok)
<1>1. Search(f, n, tok)
    <2>1. \E g : Search(g, n, tok)
        BY SearchExists
    <2> QED BY <2>1
<1>2. ResidentAt(tok) = sets[f[<<1, n>>]]
    BY DEF ResidentAt, Search
<1> HIDE DEF f
<1> QED BY <1>1, <1>2, SearchEnds

\* For a token of the log it finds the set in force.
LEMMA ResidentIsForce ==
    ASSUME SInv, phase = "replay", NEW tok \in 0 .. Budget - 1
    PROVE  /\ SpanOf(policy, tok) \in 1 .. Spans(policy)
           /\ ResidentAt(tok) = sets[SpanOf(policy, tok)]
           /\ ResidentAt(tok) = SetAt(ids, policy, tok)
<1> DEFINE n == Spans(policy)
           x == SpanOf(policy, tok)
<1>1. policy \in Policies /\ ids \in Logs /\ ScheduleIs(n)
    BY DEF SInv, Replayed
<1>2. n \in Nat /\ tok \in Nat /\ Budget \in Nat \ {0} /\ tok < Budget
    BY SpansAreNaturals, ReplayAssumption
<1>3. x \in 1 .. n /\ \A j \in 1 .. n : Boundary(j) <= tok <=> j <= x
    <2>1. CASE Kind(policy) = "P0"
        <3>1. n = 1 /\ x = 1 /\ 1 .. n = {1} /\ Boundary(1) = 0
            BY <2>1, PolicyAssumption, WindowEdges DEF Spans, SpanOf
        <3> HIDE DEF n, x
        <3> QED BY <1>2, <3>1
    <2>2. CASE Kind(policy) # "P0"
        <3>1. x = (tok \div H) + 1 /\ n = SpansTo(Budget)
            BY <2>2 DEF SpanOf, Spans, SpansTo
        <3>2. x \in Nat \ {0}
            BY <1>2, <3>1, WindowOfToken
        <3> HIDE DEF x, n
        <3>3. Boundary(x) <= tok
            BY <1>2, <3>1, <3>2, WindowOfToken
        <3>4. Boundary(x) < Budget
            BY <1>2, <3>2, <3>3, WindowEdges
        <3>5. x <= n
            BY <1>2, <3>1, <3>2, <3>4, WindowsUpTo
        <3>6. ASSUME NEW j \in 1 .. n PROVE Boundary(j) <= tok <=> j <= x
            <4>1. j \in Nat \ {0}
                BY <1>2
            <4> QED BY <1>2, <3>1, <4>1, WindowOfToken
        <3> QED BY <1>2, <3>2, <3>5, <3>6
    <2> QED BY <2>1, <2>2
<1> HIDE DEF n, x
<1>4. Len(bounds) = n /\ n \in Nat \ {0} /\ \A j \in 1 .. n : bounds[j] = Boundary(j)
    BY <1>1, <1>2, <1>3 DEF ScheduleIs
<1>5. ResidentAt(tok) = sets[x]
    <2>1. \A j \in 1 .. n : bounds[j] <= tok <=> j <= x
        BY <1>3, <1>4
    <2> QED BY <1>3, <1>4, <2>1, SearchFinds
<1>6. sets[x] = InForce(ids, policy, x)
    BY <1>1, <1>3 DEF ScheduleIs
<1> QED BY <1>3, <1>5, <1>6 DEF SetAt, n, x

----------------------------------------------------------------------------
(* Where a call is cut.                                                    *)

\* What a schedule that is being replayed holds.
LEMMA InReplay ==
    ASSUME SInv, phase = "replay"
    PROVE  /\ policy \in Policies /\ ids \in Logs /\ Spans(policy) \in Nat \ {0}
           /\ Len(sets) = Spans(policy) /\ DOMAIN bounds = 1 .. Spans(policy)
           /\ \A i \in 1 .. Spans(policy) :
                 /\ bounds[i] = Boundary(i) /\ Boundary(i) \in Nat
                 /\ sets[i] = InForce(ids, policy, i) /\ sets[i] \in SUBSET Experts
           /\ ubatch \in Ubatches /\ ubatch \in Nat \ {0} /\ t \in 0 .. Budget /\ t \in Nat
           /\ Budget \in Nat \ {0}
<1> DEFINE n == Spans(policy)
<1>1. policy \in Policies /\ ids \in Logs /\ ScheduleIs(n) /\ ubatch \in Ubatches /\ t \in 0 .. Budget
    BY DEF SInv, Replayed
<1>2. Budget \in Nat \ {0} /\ ubatch \in Nat \ {0} /\ t \in Nat
    BY <1>1, ReplayAssumption
<1>3. n \in Nat \ {0}
    <2>1. 0 \in 0 .. Budget - 1
        BY <1>2
    <2>2. SpanOf(policy, 0) \in 1 .. n
        BY <2>1, ResidentIsForce
    <2>3. n \in Nat
        BY SpansAreNaturals
    <2> HIDE DEF n
    <2> QED BY <2>2, <2>3
<1> HIDE DEF n
<1>4. ASSUME NEW i \in 1 .. n
      PROVE  /\ bounds[i] = Boundary(i) /\ Boundary(i) \in Nat
             /\ sets[i] = InForce(ids, policy, i) /\ sets[i] \in SUBSET Experts
    <2>1. bounds[i] = Boundary(i) /\ sets[i] = InForce(ids, policy, i)
        BY <1>1 DEF ScheduleIs
    <2>2. Boundary(i) \in Nat
        <3>1. i \in Nat \ {0}
            BY <1>3
        <3> QED BY <3>1, WindowEdges
    <2>3. InForce(ids, policy, i) \in SUBSET Experts
        BY <1>1, InForceSize DEF n
    <2> QED BY <2>1, <2>2, <2>3
<1>5. Len(sets) = n /\ DOMAIN bounds = 1 .. n
    BY <1>1, <1>3 DEF ScheduleIs
<1> QED BY <1>1, <1>2, <1>3, <1>4, <1>5 DEF n

\* The boundaries inside a call, and what its pieces are for either reading.
LEMMA CallPieces ==
    ASSUME SInv, phase = "replay", NEW m, NEW lo \in Nat, NEW hi \in Nat, lo < hi
    PROVE  /\ Pieces(m, lo, hi) = Between(Cuts(m, lo, hi))
           /\ lo \in Cuts(m, lo, hi) /\ hi \in Cuts(m, lo, hi) /\ Cuts(m, lo, hi) \in SUBSET (lo .. hi)
           /\ m = "sub-window" =>
                 \A j \in 1 .. Spans(policy) :
                    lo < Boundary(j) /\ Boundary(j) < hi => Boundary(j) \in Cuts(m, lo, hi)
           /\ m # "sub-window" => Pieces(m, lo, hi) = {<<lo, hi>>}
<1>1. Pieces(m, lo, hi) = Between(Cuts(m, lo, hi))
    BY DEF Pieces, Between
<1>2. ToSet(bounds) = {Boundary(i) : i \in 1 .. Spans(policy)}
      /\ \A i \in 1 .. Spans(policy) : Boundary(i) \in Nat
    BY InReplay DEF ToSet
<1>3. lo \in Cuts(m, lo, hi) /\ hi \in Cuts(m, lo, hi)
    BY DEF Cuts
<1>4. Cuts(m, lo, hi) \in SUBSET (lo .. hi)
    <2>1. \A b \in ToSet(bounds) : b \in Nat
        BY <1>2
    <2> QED BY <2>1 DEF Cuts
<1>5. m = "sub-window" =>
         \A j \in 1 .. Spans(policy) :
            lo < Boundary(j) /\ Boundary(j) < hi => Boundary(j) \in Cuts(m, lo, hi)
    <2>1. \A j \in 1 .. Spans(policy) : Boundary(j) \in ToSet(bounds)
        BY <1>2
    <2> QED BY <2>1 DEF Cuts
<1>6. ASSUME m # "sub-window" PROVE Pieces(m, lo, hi) = {<<lo, hi>>}
    <2>1. Cuts(m, lo, hi) = {lo, hi}
        BY <1>6 DEF Cuts
    <2>2. <<lo, hi>> \in Between({lo, hi})
        BY DEF Between
    <2>3. ASSUME NEW p \in Between({lo, hi}) PROVE p = <<lo, hi>>
        BY DEF Between
    <2> QED BY <1>1, <2>1, <2>2, <2>3
<1> QED BY <1>1, <1>3, <1>4, <1>5, <1>6

LEMMA PiecesCover ==
    ASSUME SInv, phase = "replay", NEW m, NEW lo \in Nat, NEW hi \in Nat, lo < hi
    PROVE  Tiling(Pieces(m, lo, hi), lo, hi)
<1> DEFINE C == Cuts(m, lo, hi)
<1>1. Pieces(m, lo, hi) = Between(C) /\ lo \in C /\ hi \in C /\ C \in SUBSET (lo .. hi)
    BY CallPieces
<1> HIDE DEF C
<1> QED BY <1>1, StretchesCover

\* The set read at the first token of a stretch is in force all along it, unless
\* a boundary is inside.
LEMMA SameForce ==
    ASSUME SInv, phase = "replay", NEW a \in Nat, NEW b \in Nat, a < b, b <= Budget,
           \A j \in 1 .. Spans(policy) : ~(a < Boundary(j) /\ Boundary(j) < b)
    PROVE  \A tok \in a .. b - 1 : SetAt(ids, policy, tok) = ResidentAt(a)
<1> SUFFICES ASSUME NEW tok \in a .. b - 1 PROVE SetAt(ids, policy, tok) = ResidentAt(a)
    OBVIOUS
<1>1. Budget \in Nat /\ tok \in Nat /\ a <= tok /\ tok < b /\ tok \in 0 .. Budget - 1
      /\ a \in 0 .. Budget - 1
    BY ReplayAssumption
<1>2. ResidentAt(a) = SetAt(ids, policy, a)
    BY <1>1, ResidentIsForce
<1>3. SpanOf(policy, tok) = SpanOf(policy, a)
    <2>1. CASE Kind(policy) = "P0"
        BY <2>1 DEF SpanOf
    <2>2. CASE Kind(policy) # "P0"
        <3> DEFINE x == (tok \div H) + 1
                   y == (a \div H) + 1
        <3>1. SpanOf(policy, tok) = x /\ SpanOf(policy, a) = y
            BY <2>2 DEF SpanOf
        <3>2. x \in 1 .. Spans(policy)
            BY <1>1, <3>1, ResidentIsForce
        <3>3. x \in Nat \ {0} /\ y \in Nat \ {0}
            BY <1>1, WindowOfToken
        <3>4. /\ \A w \in Nat \ {0} : Boundary(w) <= tok <=> w <= x
              /\ \A w \in Nat \ {0} : Boundary(w) <= a <=> w <= y
            BY <1>1, WindowOfToken
        <3> HIDE DEF x, y
        <3>5. Boundary(x) <= tok /\ Boundary(x) \in Nat /\ Boundary(y) <= a /\ Boundary(y) \in Nat
            BY <3>3, <3>4, WindowEdges
        <3>6. Boundary(x) <= a
            <4>1. ~(a < Boundary(x) /\ Boundary(x) < b)
                BY <3>2
            <4> QED BY <1>1, <3>5, <4>1
        <3>7. x <= y /\ y <= x
            <4>1. Boundary(y) <= tok
                BY <1>1, <3>5
            <4> QED BY <3>3, <3>4, <3>6, <4>1
        <3> QED BY <3>1, <3>3, <3>7
    <2> QED BY <2>1, <2>2
<1> QED BY <1>2, <1>3 DEF SetAt

\* The readings that never take a set past its boundary: the one that cuts calls
\* at boundaries, and the other when micro-batches tile the window or there is
\* only one set.
Faithful(m) == m = "sub-window" \/ H % ubatch = 0 \/ Kind(policy) = "P0"

LEMMA PiecesInSpans ==
    ASSUME SInv, phase = "replay", NEW m, NEW lo \in Nat, NEW hi \in Nat, lo < hi, hi <= Budget,
           \/ m = "sub-window"
           \/ H % ubatch = 0 /\ hi <= lo + ubatch /\ \E a \in Nat : lo = ubatch * a
           \/ Kind(policy) = "P0",
           NEW p \in Pieces(m, lo, hi)
    PROVE  \A tok \in p[1] .. p[2] - 1 : SetAt(ids, policy, tok) = ResidentAt(p[1])
<1>1. /\ p[1] \in Nat /\ p[2] \in Nat /\ lo <= p[1] /\ p[1] < p[2] /\ p[2] <= hi
      /\ Budget \in Nat /\ p[2] <= Budget
    <2>1. /\ p[1] \in Nat /\ p[2] \in Nat /\ lo <= p[1] /\ p[1] < p[2] /\ p[2] <= hi
        BY PiecesCover DEF Tiling
    <2> QED BY <2>1, ReplayAssumption
<1>2. ASSUME NEW j \in 1 .. Spans(policy), p[1] < Boundary(j), Boundary(j) < p[2] PROVE FALSE
    <2>1. Boundary(j) \in Nat /\ j \in Nat \ {0} /\ ubatch \in Nat \ {0} /\ H \in Nat \ {0}
        BY InReplay, PolicyAssumption
    <2>2. lo < Boundary(j) /\ Boundary(j) < hi
        BY <1>1, <1>2, <2>1
    <2>3. CASE m = "sub-window"
        <3>1. Boundary(j) \in Cuts(m, lo, hi)
            BY <2>2, <2>3, CallPieces
        <3>2. Boundary(j) <= p[1] \/ Boundary(j) >= p[2]
            BY <3>1 DEF Pieces
        <3> QED BY <1>1, <1>2, <2>1, <3>2
    <2>4. CASE H % ubatch = 0 /\ hi <= lo + ubatch /\ \E a \in Nat : lo = ubatch * a
        <3>1. PICK a \in Nat : lo = ubatch * a
            BY <2>4
        <3> DEFINE c == H \div ubatch
                   d == c * (j - 1)
        <3>2. c \in Nat /\ H = ubatch * c
            BY <2>1, <2>4
        <3>3. d \in Int /\ Boundary(j) = ubatch * d
            <4> HIDE DEF c
            <4>1. c * (j - 1) \in Int /\ (j - 1) * (ubatch * c) = ubatch * (c * (j - 1))
                BY <2>1, <3>2
            <4> QED BY <3>2, <4>1 DEF Boundary
        <3> HIDE DEF d
        <3>4. /\ ubatch * (a + 1) = ubatch * a + ubatch /\ ubatch * a \in Int
              /\ ubatch * d \in Int /\ ubatch * (a + 1) \in Int
            BY <2>1, <3>1, <3>3
        <3>5. ubatch * a < ubatch * d /\ ubatch * d < ubatch * (a + 1)
            BY <2>1, <2>2, <2>4, <3>1, <3>3, <3>4
        <3>6. a < d
            <4>1. ASSUME d <= a PROVE ubatch * d <= ubatch * a
                BY <2>1, <3>3, <4>1, Monotone
            <4> QED BY <3>3, <3>4, <3>5, <4>1
        <3>7. d < a + 1
            <4> DEFINE x == ubatch * (a + 1)
                       y == ubatch * d
            <4>1. a + 1 <= d => x <= y
                <5>1. a + 1 \in Int
                    OBVIOUS
                <5> QED BY <2>1, <3>3, <5>1, Monotone
            <4>2. x \in Int /\ y \in Int /\ y < x
                BY <3>4, <3>5, Zenon
            <4> HIDE DEF x, y
            <4> QED BY <3>3, <4>1, <4>2
        <3> QED BY <3>3, <3>6, <3>7
    <2>5. CASE Kind(policy) = "P0"
        <3>1. j = 1 /\ Boundary(1) = 0
            <4>1. Spans(policy) = 1
                BY <2>5 DEF Spans
            <4>2. \A x \in 1 .. 1 : x = 1
                OBVIOUS
            <4> QED BY <2>1, <4>1, <4>2 DEF Boundary
        <3> QED BY <1>1, <1>2, <3>1
    <2> QED BY <2>3, <2>4, <2>5
<1> QED BY <1>1, <1>2, SameForce

----------------------------------------------------------------------------
(* What a call counts.                                                     *)

LEMMA PieceCounts ==
    ASSUME SInv, phase = "replay", NEW a \in Nat, NEW b \in Nat, a < b, b <= Budget
    PROVE  /\ ResidentAt(a) \in SUBSET Experts
           /\ Leased(a, b) \in SUBSET Experts /\ Leased(a, b) \cap ResidentAt(a) = {}
           /\ IsFiniteSet(Leased(a, b)) /\ Cardinality(Leased(a, b)) \in Nat
           /\ Misses(SubSeq(ids, a + 1, b), ResidentAt(a)) \in Nat
<1>1. policy \in Policies /\ ids \in Logs /\ Budget \in Nat /\ a \in 0 .. Budget - 1 /\ a <= b
    BY InReplay, ReplayAssumption
<1>2. ResidentAt(a) \in SUBSET Experts
    <2>1. SpanOf(policy, a) \in 1 .. Spans(policy) /\ ResidentAt(a) = sets[SpanOf(policy, a)]
        BY <1>1, ResidentIsForce
    <2> QED BY <2>1, InReplay
<1>3. Leased(a, b) \in SUBSET Experts /\ Leased(a, b) \cap ResidentAt(a) = {}
    <2>1. \A i \in a + 1 .. b : ids[i] \in SUBSET Experts
        <3>1. \A i \in a + 1 .. b : i \in 1 .. Budget
            BY <1>1
        <3>2. \A i \in 1 .. Budget : ids[i] \in SUBSET Experts
            BY <1>1, LogIsSeq
        <3> QED BY <3>1, <3>2
    <2>2. UNION {ids[i] : i \in a + 1 .. b} \in SUBSET Experts
        BY <2>1
    <2> QED BY <2>2 DEF Leased
<1>4. IsFiniteSet(Leased(a, b)) /\ Cardinality(Leased(a, b)) \in Nat
    BY <1>3, ExpertSetsFinite
<1>5. Misses(SubSeq(ids, a + 1, b), ResidentAt(a)) \in Nat
    <2> DEFINE R == ResidentAt(a)
    <2> HIDE DEF R
    <2>1. Misses(SubSeq(ids, a + 1, b), R) = Cardinality(MissedWith(ids, R, a, b))
        BY <1>1, PieceMisses
    <2>2. Cardinality(MissedWith(ids, R, a, b)) \in Nat
        BY MissedFinite
    <2> QED BY <2>1, <2>2 DEF R
<1> QED BY <1>2, <1>3, <1>4, <1>5

LEMMA CallCounts ==
    ASSUME SInv, phase = "replay", NEW m, NEW lo \in Nat, NEW hi \in Nat, lo < hi, hi <= Budget
    PROVE  CallEvents(m, lo, hi) \in Nat /\ CallMisses(m, lo, hi) \in Nat
<1> DEFINE P == Pieces(m, lo, hi)
           f == [p \in P |-> Cardinality(Leased(p[1], p[2]))]
           g == [p \in P |-> Misses(SubSeq(ids, p[1] + 1, p[2]), ResidentAt(p[1]))]
<1>1. IsFiniteSet(P)
      /\ \A p \in P : /\ p[1] \in Nat /\ p[2] \in Nat /\ p[1] < p[2] /\ p[2] <= Budget
    <2>1. IsFiniteSet(P)
          /\ \A p \in P : /\ p[1] \in Nat /\ p[2] \in Nat /\ p[1] < p[2] /\ p[2] <= hi
        BY PiecesCover DEF Tiling
    <2> QED BY <2>1, ReplayAssumption
<1>2. CallEvents(m, lo, hi) = Total(f) /\ CallMisses(m, lo, hi) = Total(g)
    BY DEF CallEvents, CallMisses
<1> HIDE DEF P
<1>3. f \in [P -> Nat] /\ g \in [P -> Nat]
    BY <1>1, PieceCounts
<1> HIDE DEF f, g
<1> QED BY <1>1, <1>2, <1>3, TotalIsNatural

\* A faithful reading misses the picks that are not in force.
LEMMA CallMissed ==
    ASSUME SInv, phase = "replay", NEW m, NEW lo \in Nat, NEW hi \in Nat, lo < hi, hi <= Budget,
           \/ m = "sub-window"
           \/ H % ubatch = 0 /\ hi <= lo + ubatch /\ \E a \in Nat : lo = ubatch * a
           \/ Kind(policy) = "P0"
    PROVE  CallMisses(m, lo, hi) = Cardinality(Missed(ids, policy, lo, hi))
<1> DEFINE P == Pieces(m, lo, hi)
           F == [p \in P |-> Missed(ids, policy, p[1], p[2])]
           M == Missed(ids, policy, lo, hi)
<1>1. /\ IsFiniteSet(P)
      /\ \A p \in P : /\ p[1] \in Nat /\ p[2] \in Nat /\ lo <= p[1] /\ p[1] < p[2]
                      /\ p[2] <= hi /\ p[2] <= Budget
      /\ \A i \in lo + 1 .. hi : \E p \in P : i \in p[1] + 1 .. p[2]
      /\ \A p, q \in P : \A i \in Int :
             i \in p[1] + 1 .. p[2] /\ i \in q[1] + 1 .. q[2] => p = q
    <2>1. Tiling(P, lo, hi)
        BY PiecesCover
    <2>2. Budget \in Nat
        BY ReplayAssumption
    <2> HIDE DEF P
    <2>3. \A p \in P : p[2] <= Budget
        BY <2>1, <2>2 DEF Tiling
    <2> QED BY <2>1, <2>3 DEF Tiling
<1>2. \A p \in P : Misses(SubSeq(ids, p[1] + 1, p[2]), ResidentAt(p[1]))
                      = Cardinality(Missed(ids, policy, p[1], p[2]))
    <2> SUFFICES ASSUME NEW p \in P
                 PROVE  Misses(SubSeq(ids, p[1] + 1, p[2]), ResidentAt(p[1]))
                           = Cardinality(Missed(ids, policy, p[1], p[2]))
        OBVIOUS
    <2> DEFINE a == p[1]
               b == p[2]
               R == ResidentAt(a)
    <2>1. \A tok \in a .. b - 1 : SetAt(ids, policy, tok) = R
        BY PiecesInSpans
    <2>2. a \in Nat /\ b \in Nat /\ a <= b /\ b <= Budget
        <3> HIDE DEF P
        <3> QED BY <1>1
    <2>3. ids \in Logs
        BY InReplay
    <2> HIDE DEF a, b, R
    <2>4. Misses(SubSeq(ids, a + 1, b), R) = Cardinality(MissedWith(ids, R, a, b))
        BY <2>2, <2>3, PieceMisses
    <2>5. Missed(ids, policy, a, b) = MissedWith(ids, R, a, b)
        BY <2>1, <2>2, MissedWithOne
    <2> QED BY <2>4, <2>5 DEF a, b, R
<1>3. CallMisses(m, lo, hi) = Total([p \in P |-> Misses(SubSeq(ids, p[1] + 1, p[2]), ResidentAt(p[1]))])
    BY DEF CallMisses
<1> HIDE DEF P
<1>4. Sizes(F, P) = [p \in P |-> Misses(SubSeq(ids, p[1] + 1, p[2]), ResidentAt(p[1]))]
    BY <1>2 DEF Sizes
<1>5. \A q \in M : q \in (lo + 1 .. hi) \X Experts
    BY DEF Missed
<1>6. \A p \in P : \A q : q \in Missed(ids, policy, p[1], p[2]) <=> q \in M /\ q[1] \in p[1] + 1 .. p[2]
    <2> SUFFICES ASSUME NEW p \in P, NEW q
                 PROVE  q \in Missed(ids, policy, p[1], p[2]) <=> q \in M /\ q[1] \in p[1] + 1 .. p[2]
        OBVIOUS
    <2>1. \A i \in p[1] + 1 .. p[2] : i \in lo + 1 .. hi
        BY <1>1
    <2>2. \A x, y : q \in Missed(ids, policy, x, y) <=>
             /\ q \in (x + 1 .. y) \X Experts
             /\ q[2] \in ids[q[1]] /\ q[2] \notin SetAt(ids, policy, q[1] - 1)
        BY DEF Missed
    <2>3. \A S : q \in S \X Experts <=> q = <<q[1], q[2]>> /\ q[1] \in S /\ q[2] \in Experts
        OBVIOUS
    <2> QED BY <2>1, <2>2, <2>3
<1>7. Whole(F, P) = M
    <2>1. ASSUME NEW q \in M PROVE q \in Whole(F, P)
        <3>1. q[1] \in lo + 1 .. hi
            <4> HIDE DEF M
            <4> QED BY <1>5, <2>1
        <3>2. PICK p \in P : q[1] \in p[1] + 1 .. p[2]
            BY <1>1, <3>1
        <3>3. q \in F[p]
            <4> HIDE DEF M
            <4> QED BY <1>6, <3>2
        <3> HIDE DEF F
        <3> QED BY <3>3 DEF Whole
    <2>2. ASSUME NEW p \in P PROVE F[p] \subseteq M
        <3> HIDE DEF M
        <3> QED BY <1>6
    <2> HIDE DEF F, M
    <2> QED BY <2>1, <2>2 DEF Whole
<1>8. Parts(F, P)
    <2>1. ASSUME NEW p \in P PROVE IsFiniteSet(F[p])
        BY <1>1, MissedFinite
    <2>2. ASSUME NEW p \in P, NEW q \in P, p # q PROVE F[p] \cap F[q] = {}
        <3>1. ASSUME NEW x \in F[p], x \in F[q] PROVE FALSE
            <4>1. x \in M /\ x[1] \in p[1] + 1 .. p[2] /\ x[1] \in q[1] + 1 .. q[2]
                <5> HIDE DEF M
                <5> QED BY <1>6, <3>1
            <4>2. x[1] \in Int
                BY <1>5, <4>1
            <4> QED BY <1>1, <2>2, <4>1, <4>2
        <3> HIDE DEF F
        <3> QED BY <3>1
    <2> HIDE DEF F
    <2> QED BY <2>1, <2>2 DEF Parts
<1> HIDE DEF F, M
<1>9. Total(Sizes(F, P)) = Cardinality(M)
    BY <1>1, <1>7, <1>8, PartsAddUp
<1> QED BY <1>3, <1>4, <1>9 DEF M

----------------------------------------------------------------------------
(* The churn that a call passes.                                           *)

\* A boundary before tok, and an expert it changes.
ChangedBefore(tok) ==
    {q \in (2 .. Len(sets)) \X Experts :
        bounds[q[1]] < tok /\ q[2] \in SymmetricDifference(sets[q[1] - 1], sets[q[1]])}

LEMMA SetsAreExperts ==
    ASSUME SInv
    PROVE  Len(sets) \in Nat /\ \A i \in 1 .. Len(sets) : sets[i] \in SUBSET Experts
<1>1. PICK n \in 0 .. Spans(policy) : ScheduleIs(n)
    BY DEF SInv
<1>2. policy \in Policies /\ ids \in Logs /\ n \in Nat /\ n <= Spans(policy) /\ Spans(policy) \in Nat
    BY SpansAreNaturals DEF SInv
<1>3. Len(sets) = n /\ \A i \in 1 .. n : sets[i] = InForce(ids, policy, i)
    BY <1>1, <1>2 DEF ScheduleIs
<1>4. ASSUME NEW i \in 1 .. n PROVE sets[i] \in SUBSET Experts
    <2>1. i \in 1 .. Spans(policy)
        BY <1>2
    <2>2. InForce(ids, policy, i) \in SUBSET Experts
        BY <1>2, <2>1, InForceSize
    <2> QED BY <1>3, <2>2
<1> QED BY <1>2, <1>3, <1>4

LEMMA ChurnIsSize ==
    ASSUME SInv, NEW tok
    PROVE  /\ IsFiniteSet(ChangedBefore(tok)) /\ Cardinality(ChangedBefore(tok)) \in Nat
           /\ ChurnBefore(tok) = Cardinality(ChangedBefore(tok))
<1> DEFINE n == Len(sets)
           S == {j \in 2 .. n : bounds[j] < tok}
           D == [i \in S |-> SymmetricDifference(sets[i - 1], sets[i])]
<1>1. n \in Nat /\ \A i \in 1 .. n : sets[i] \in SUBSET Experts
    BY SetsAreExperts
<1>2. IsFiniteSet(S) /\ S \in SUBSET (2 .. n)
    <2> HIDE DEF n
    <2>1. 2 \in Int /\ n \in Int
        BY <1>1
    <2>2. IsFiniteSet(2 .. n)
        BY <2>1, FS_Interval
    <2>3. S \in SUBSET (2 .. n)
        OBVIOUS
    <2> HIDE DEF S
    <2> QED BY <2>2, <2>3, FS_Subset
<1>3. \A i \in S : D[i] \in SUBSET Experts
    <2> SUFFICES ASSUME NEW i \in S PROVE SymmetricDifference(sets[i - 1], sets[i]) \in SUBSET Experts
        OBVIOUS
    <2>1. i \in 2 .. n
        BY <1>2
    <2> HIDE DEF n
    <2>2. i \in 1 .. n /\ i - 1 \in 1 .. n
        BY <1>1, <2>1
    <2> QED BY <1>1, <2>2 DEF SymmetricDifference
<1>4. ChangedBefore(tok) =
        {q \in (2 .. n) \X Experts :
            bounds[q[1]] < tok /\ q[2] \in SymmetricDifference(sets[q[1] - 1], sets[q[1]])}
    BY DEF ChangedBefore
<1>5. ChurnBefore(tok) = Total([i \in S |-> Cardinality(D[i])])
    <2>1. ChurnBefore(tok) = Total([i \in S |-> Cardinality(SymmetricDifference(sets[i - 1], sets[i]))])
        BY DEF ChurnBefore
    <2>2. [i \in S |-> Cardinality(SymmetricDifference(sets[i - 1], sets[i]))]
            = [i \in S |-> Cardinality(D[i])]
        OBVIOUS
    <2> QED BY <2>1, <2>2
<1>6. \A i : i \in S <=> i \in 2 .. n /\ bounds[i] < tok
    OBVIOUS
<1>7. \A i \in S : D[i] = SymmetricDifference(sets[i - 1], sets[i])
    OBVIOUS
<1> HIDE DEF n, D, S
<1>8. /\ IsFiniteSet(Pairs(S, D)) /\ Cardinality(Pairs(S, D)) \in Nat
      /\ Total([i \in S |-> Cardinality(D[i])]) = Cardinality(Pairs(S, D))
      /\ \A q : q \in Pairs(S, D) <=> q = <<q[1], q[2]>> /\ q[1] \in S /\ q[2] \in D[q[1]]
    <2>1. \A i \in S : IsFiniteSet(D[i])
        BY <1>3, ExpertSetsFinite
    <2> QED BY <1>2, <2>1, PairsSize
<1>9. ChangedBefore(tok) = Pairs(S, D)
    <2>1. \A q : q \in ChangedBefore(tok) <=>
             /\ q = <<q[1], q[2]>> /\ q[1] \in 2 .. n /\ q[2] \in Experts /\ bounds[q[1]] < tok
             /\ q[2] \in SymmetricDifference(sets[q[1] - 1], sets[q[1]])
        BY <1>4
    <2>2. \A q : q \in ChangedBefore(tok) <=> q = <<q[1], q[2]>> /\ q[1] \in S /\ q[2] \in D[q[1]]
        BY <1>3, <1>6, <1>7, <2>1
    <2> QED BY <1>8, <2>2
<1> QED BY <1>5, <1>8, <1>9

\* The whole schedule's churn is the simulator's.
LEMMA ChurnOfSchedule ==
    ASSUME SInv, phase = "replay"
    PROVE  ChurnBefore(Budget) = Cardinality(Changed(ids, policy, Spans(policy)))
<1> DEFINE n == Spans(policy)
<1>1. /\ n \in Nat \ {0} /\ Len(sets) = n /\ Budget \in Nat \ {0}
      /\ \A i \in 1 .. n : bounds[i] = Boundary(i) /\ sets[i] = InForce(ids, policy, i)
    BY InReplay
<1>2. \A i \in 2 .. n : Boundary(i) < Budget
    <2>1. CASE Kind(policy) = "P0"
        <3>1. n = 1
            BY <2>1 DEF Spans
        <3> HIDE DEF n
        <3> QED BY <3>1
    <2>2. CASE Kind(policy) # "P0"
        <3>1. n = SpansTo(Budget)
            BY <2>2 DEF Spans, SpansTo
        <3> HIDE DEF n
        <3>2. ASSUME NEW i \in 2 .. n PROVE Boundary(i) < Budget
            <4>1. i \in Nat \ {0} /\ i <= n
                BY <1>1
            <4> QED BY <1>1, <3>1, <4>1, WindowsUpTo
        <3> QED BY <3>2
    <2> QED BY <2>1, <2>2
<1> HIDE DEF n
<1>3. \A i \in 2 .. n : /\ bounds[i] < Budget
                        /\ sets[i] = InForce(ids, policy, i)
                        /\ sets[i - 1] = InForce(ids, policy, i - 1)
    <2>1. \A i \in 2 .. n : i \in 1 .. n /\ i - 1 \in 1 .. n
        BY <1>1
    <2>2. \A i \in 2 .. n : bounds[i] = Boundary(i)
        BY <1>1, <2>1
    <2> QED BY <1>1, <1>2, <2>1, <2>2
<1>4. ChangedBefore(Budget) = Changed(ids, policy, n)
    BY <1>1, <1>3 DEF ChangedBefore, Changed
<1> QED BY <1>4, ChurnIsSize DEF n

----------------------------------------------------------------------------
(* One call, in either reading.                                            *)

\* A call read at its first token leases what it routes to of the experts that
\* are not in force there.
LEMMA WindowStartCall ==
    ASSUME SInv, phase = "replay", NEW lo \in Nat, NEW hi \in Nat, lo < hi, hi <= Budget
    PROVE  /\ CallEvents("window-start", lo, hi) = Cardinality(Leased(lo, hi))
           /\ CallEvents("window-start", lo, hi) <= E - Cardinality(ResidentAt(lo))
<1> DEFINE m == "window-start"
           a == <<lo, hi>>
           f == [p \in {a} |-> Cardinality(Leased(p[1], p[2]))]
           A == Leased(lo, hi)
           R == ResidentAt(lo)
<1>1. Pieces(m, lo, hi) = {a}
    <2>1. m # "sub-window" => Pieces(m, lo, hi) = {<<lo, hi>>}
        <3> HIDE DEF m
        <3> QED BY CallPieces
    <2>2. m # "sub-window"
        OBVIOUS
    <2> HIDE DEF m
    <2> QED BY <2>1, <2>2
<1>2. CallEvents(m, lo, hi) = Total(f)
    <2>1. CallEvents(m, lo, hi) = Total([p \in Pieces(m, lo, hi) |-> Cardinality(Leased(p[1], p[2]))])
        BY DEF CallEvents
    <2>2. Total([p \in Pieces(m, lo, hi) |-> Cardinality(Leased(p[1], p[2]))]) = Total(f)
        <3> DEFINE S == Pieces(m, lo, hi)
        <3>1. S = {a}
            BY <1>1
        <3> HIDE DEF S
        <3>2. [p \in S |-> Cardinality(Leased(p[1], p[2]))] = f
            BY <3>1
        <3> HIDE DEF f
        <3>3. Total([p \in S |-> Cardinality(Leased(p[1], p[2]))]) = Total(f)
            BY <3>2
        <3> QED BY <3>3 DEF S
    <2> HIDE DEF f
    <2> QED BY <2>1, <2>2
<1>3. f[a] = Cardinality(A)
    OBVIOUS
<1>4. f = [p \in {a} |-> f[p]]
    OBVIOUS
<1>5. /\ A \in SUBSET Experts /\ R \in SUBSET Experts /\ A \cap R = {}
      /\ IsFiniteSet(A) /\ Cardinality(A) \in Nat
    BY PieceCounts
<1> HIDE DEF f, a, A, R
<1>6. Total(f) = Cardinality(A)
    BY <1>3, <1>4, <1>5, TotalOfOne
<1>7. Cardinality(A) <= E - Cardinality(R)
    <2>1. IsFiniteSet(R) /\ Cardinality(R) \in Nat
        BY <1>5, ExpertSetsFinite
    <2>2. Cardinality(A \cup R) = Cardinality(A) + Cardinality(R) - Cardinality(A \cap R)
        BY <1>5, <2>1, FS_Union
    <2>3. Cardinality(A \cap R) = 0
        BY <1>5, FS_EmptySet
    <2>4. A \cup R \in SUBSET Experts
        BY <1>5
    <2>5. Cardinality(A \cup R) <= E /\ Cardinality(A \cup R) \in Nat /\ E \in Nat
        BY <2>4, ExpertSetsFinite, PolicyAssumption
    <2> QED BY <1>5, <2>1, <2>2, <2>3, <2>5
<1> QED BY <1>2, <1>6, <1>7 DEF A, R

\* A call of one token misses what it leases, in either reading.
LEMMA DecodeCall ==
    ASSUME SInv, phase = "replay", NEW m, NEW lo \in Nat, NEW hi \in Nat, hi = lo + 1, hi <= Budget
    PROVE  CallEvents(m, lo, hi) = CallMisses(m, lo, hi)
<1> DEFINE P == Pieces(m, lo, hi)
           f == [p \in P |-> Cardinality(Leased(p[1], p[2]))]
           g == [p \in P |-> Misses(SubSeq(ids, p[1] + 1, p[2]), ResidentAt(p[1]))]
           A == Leased(lo, hi)
           R == ResidentAt(lo)
<1>1. CallEvents(m, lo, hi) = Total(f) /\ CallMisses(m, lo, hi) = Total(g)
    BY DEF CallEvents, CallMisses
<1>2. \A p \in P : p[1] = lo /\ p[2] = hi
    <2>1. Tiling(P, lo, hi)
        BY PiecesCover
    <2> HIDE DEF P
    <2>2. \A p \in P : p[1] \in Nat /\ p[2] \in Nat /\ lo <= p[1] /\ p[1] < p[2] /\ p[2] <= hi
        BY <2>1 DEF Tiling
    <2> QED BY <2>2
<1>3. Cardinality(A) = Misses(SubSeq(ids, lo + 1, hi), R)
    <2>1. IsFiniteSet(A) /\ A \in SUBSET Experts
        BY PieceCounts
    <2>2. lo + 1 .. hi = {hi}
        OBVIOUS
    <2>3. MissedWith(ids, R, lo, hi) = {hi} \X A
        <3>1. A = ids[hi] \ R
            BY <2>2 DEF Leased
        <3>2. MissedWith(ids, R, lo, hi) = {q \in {hi} \X Experts : q[2] \in ids[q[1]] /\ q[2] \notin R}
            BY <2>2 DEF MissedWith
        <3> HIDE DEF A, R
        <3>3. ASSUME NEW q PROVE q \in MissedWith(ids, R, lo, hi) <=> q \in {hi} \X A
            <4>1. q \in {hi} \X A <=> q = <<q[1], q[2]>> /\ q[1] = hi /\ q[2] \in A
                OBVIOUS
            <4>2. q \in {hi} \X Experts <=> q = <<q[1], q[2]>> /\ q[1] = hi /\ q[2] \in Experts
                OBVIOUS
            <4> QED BY <2>1, <3>1, <3>2, <4>1, <4>2
        <3> QED BY <3>3
    <2> HIDE DEF A, R
    <2>4. Cardinality(MissedWith(ids, R, lo, hi)) = Cardinality(A)
        BY <2>1, <2>3, PairedSize
    <2>5. Misses(SubSeq(ids, lo + 1, hi), R) = Cardinality(MissedWith(ids, R, lo, hi))
        BY InReplay, PieceMisses
    <2> QED BY <2>4, <2>5
<1>4. \A p \in P : Cardinality(Leased(p[1], p[2])) = Misses(SubSeq(ids, p[1] + 1, p[2]), ResidentAt(p[1]))
    <2> HIDE DEF P
    <2> QED BY <1>2, <1>3
<1>5. f = g
    <2> HIDE DEF P
    <2> QED BY <1>4
<1> HIDE DEF f, g
<1> QED BY <1>1, <1>5

\* An expert that is resident later in a call, and not at its beginning, came in
\* at a boundary of the call.
LEMMA CameIn ==
    ASSUME SInv, phase = "replay", NEW lo \in Nat, NEW tok \in Nat, lo <= tok, tok < Budget,
           NEW e, e \in ResidentAt(tok), e \notin ResidentAt(lo)
    PROVE  \E i \in 2 .. Len(sets) : /\ lo < bounds[i] /\ bounds[i] <= tok
                                     /\ e \in sets[i] \ sets[i - 1]
<1> DEFINE n == Spans(policy)
           x == (lo \div H) + 1
           y == (tok \div H) + 1
<1>1. /\ Len(sets) = n /\ n \in Nat \ {0} /\ Budget \in Nat
      /\ \A i \in 1 .. n : bounds[i] = Boundary(i) /\ Boundary(i) \in Nat
    BY InReplay
<1>2. lo \in 0 .. Budget - 1 /\ tok \in 0 .. Budget - 1
    BY <1>1
<1>3. /\ SpanOf(policy, lo) \in 1 .. n /\ ResidentAt(lo) = sets[SpanOf(policy, lo)]
      /\ SpanOf(policy, tok) \in 1 .. n /\ ResidentAt(tok) = sets[SpanOf(policy, tok)]
    BY <1>2, ResidentIsForce
<1>4. SpanOf(policy, lo) = x /\ SpanOf(policy, tok) = y
    <2>1. Kind(policy) # "P0"
        <3>1. ASSUME Kind(policy) = "P0" PROVE SpanOf(policy, lo) = SpanOf(policy, tok)
            BY <3>1 DEF SpanOf
        <3> HIDE DEF n
        <3> QED BY <1>3, <3>1
    <2> QED BY <2>1 DEF SpanOf
<1> HIDE DEF n
<1>5. x \in 1 .. n /\ y \in 1 .. n /\ e \in sets[y] /\ e \notin sets[x]
    BY <1>3, <1>4
<1>6. /\ \A w \in Nat \ {0} : Boundary(w) <= lo <=> w <= x
      /\ \A w \in Nat \ {0} : Boundary(w) <= tok <=> w <= y
    BY WindowOfToken
<1> HIDE DEF x, y
<1>7. x <= y
    <2>1. x \in Nat \ {0} /\ Boundary(x) \in Nat
        BY <1>1, <1>5
    <2>2. Boundary(x) <= lo
        BY <1>1, <1>5, <1>6, <2>1
    <2>3. Boundary(x) <= tok
        BY <2>1, <2>2
    <2> QED BY <1>6, <2>1, <2>3
<1> DEFINE S == {i \in x .. y : e \in sets[i]}
<1>8. PICK i \in S : \A j \in S : i <= j
    <2>1. x \in Nat /\ y \in Nat
        BY <1>1, <1>5
    <2>2. S \in SUBSET Nat /\ y \in S
        BY <1>5, <1>7, <2>1
    <2> HIDE DEF S
    <2> QED BY <2>2, LeastNat
<1>9. i \in x .. y /\ e \in sets[i] /\ \A j \in x .. y : e \in sets[j] => i <= j
    BY <1>8
<1> HIDE DEF S
<1>10. i # x /\ i \in Nat \ {0} /\ x < i /\ i <= y /\ i \in 2 .. n /\ i \in 1 .. n
       /\ i - 1 \in x .. y /\ ~(i <= i - 1)
    BY <1>1, <1>5, <1>9
<1>11. e \notin sets[i - 1]
    BY <1>9, <1>10
<1>12. lo < Boundary(i) /\ Boundary(i) <= tok
    <2>1. ~(Boundary(i) <= lo) /\ Boundary(i) <= tok /\ Boundary(i) \in Nat
        <3>1. ~(i <= x)
            BY <1>1, <1>5, <1>10
        <3> QED BY <1>1, <1>6, <1>10, <3>1
    <2> QED BY <2>1
<1> QED BY <1>1, <1>9, <1>10, <1>11, <1>12

\* What comes in, and what goes out, at the boundaries of a call.
Crossed(lo, hi) == {j \in 2 .. Len(sets) : lo <= bounds[j] /\ bounds[j] < hi}
CameInAt == [i \in 2 .. Len(sets) |-> sets[i] \ sets[i - 1]]
WentOutAt == [i \in 2 .. Len(sets) |-> sets[i - 1] \ sets[i]]

LEMMA CrossedChurn ==
    ASSUME SInv, phase = "replay", NEW lo \in Nat, NEW hi \in Nat, lo <= hi,
           NEW Y, Y = Pairs(Crossed(lo, hi), CameInAt)
    PROVE  /\ IsFiniteSet(Y) /\ Cardinality(Y) \in Nat
           /\ \A q : q \in Y <=> q = <<q[1], q[2]>> /\ q[1] \in Crossed(lo, hi)
                                                  /\ q[2] \in sets[q[1]] \ sets[q[1] - 1]
           /\ ChurnBefore(lo) \in Nat
           /\ ChurnBefore(hi) = ChurnBefore(lo) + 2 * Cardinality(Y)
<1> DEFINE n == Len(sets)
           S == Crossed(lo, hi)
           D == CameInAt
           G == WentOutAt
           Z == Pairs(S, G)
           A == ChangedBefore(lo)
           B == ChangedBefore(hi)
<1>1. /\ n = Spans(policy) /\ n \in Nat \ {0} /\ policy \in Policies /\ ids \in Logs
      /\ \A i \in 1 .. n : /\ bounds[i] = Boundary(i) /\ Boundary(i) \in Nat
                           /\ sets[i] = InForce(ids, policy, i) /\ sets[i] \in SUBSET Experts
    BY InReplay
<1> HIDE DEF n
<1>2. IsFiniteSet(S) /\ S \in SUBSET (2 .. n)
    <2>1. 2 \in Int /\ n \in Int
        BY <1>1
    <2>2. IsFiniteSet(2 .. n)
        BY <2>1, FS_Interval
    <2>3. S \in SUBSET (2 .. n)
        BY DEF Crossed, n
    <2> HIDE DEF S
    <2> QED BY <2>2, <2>3, FS_Subset
<1>3. \A i \in 2 .. n : i \in 1 .. n /\ i - 1 \in 1 .. n
    BY <1>1
<1>4. \A i \in 2 .. n : /\ D[i] = sets[i] \ sets[i - 1] /\ G[i] = sets[i - 1] \ sets[i]
                        /\ D[i] \in SUBSET Experts /\ G[i] \in SUBSET Experts
                        /\ SymmetricDifference(sets[i - 1], sets[i]) = D[i] \cup G[i]
    <2> SUFFICES ASSUME NEW i \in 2 .. n
                 PROVE  /\ D[i] = sets[i] \ sets[i - 1] /\ G[i] = sets[i - 1] \ sets[i]
                        /\ D[i] \in SUBSET Experts /\ G[i] \in SUBSET Experts
                        /\ SymmetricDifference(sets[i - 1], sets[i]) = D[i] \cup G[i]
        OBVIOUS
    <2>1. D[i] = sets[i] \ sets[i - 1] /\ G[i] = sets[i - 1] \ sets[i]
        BY DEF CameInAt, WentOutAt, n
    <2>2. sets[i] \in SUBSET Experts /\ sets[i - 1] \in SUBSET Experts
        BY <1>1, <1>3
    <2> HIDE DEF D, G
    <2> QED BY <2>1, <2>2 DEF SymmetricDifference
<1>5. \A i \in S : Cardinality(D[i]) = Cardinality(G[i])
    <2> SUFFICES ASSUME NEW i \in S PROVE Cardinality(D[i]) = Cardinality(G[i])
        OBVIOUS
    <2>1. i \in 2 .. n /\ i \in 1 .. n /\ i - 1 \in 1 .. n
        BY <1>2, <1>3
    <2>2. Kind(policy) # "P0"
        <3>1. ASSUME Kind(policy) = "P0" PROVE n = 1
            BY <1>1, <3>1 DEF Spans
        <3> QED BY <2>1, <3>1
    <2> DEFINE P == sets[i]
               Q == sets[i - 1]
    <2>3. P \in SUBSET Experts /\ Q \in SUBSET Experts
          /\ Cardinality(P) = K /\ Cardinality(Q) = K
        BY <1>1, <2>1, <2>2, InForceSize
    <2> HIDE DEF P, Q
    <2>4. /\ Cardinality(SymmetricDifference(P, Q)) = 2 * Cardinality(Q \ P)
          /\ Cardinality(SymmetricDifference(Q, P)) = 2 * Cardinality(P \ Q)
        BY <2>3, EqualSizeDifference
    <2>5. SymmetricDifference(P, Q) = SymmetricDifference(Q, P)
        BY DEF SymmetricDifference
    <2>6. Cardinality(Q \ P) \in Nat /\ Cardinality(P \ Q) \in Nat
        <3>1. Q \ P \in SUBSET Experts /\ P \ Q \in SUBSET Experts
            BY <2>3
        <3> QED BY <3>1, ExpertSetsFinite
    <2>7. Cardinality(P \ Q) = Cardinality(Q \ P)
        BY <2>4, <2>5, <2>6
    <2>8. D[i] = P \ Q /\ G[i] = Q \ P
        BY <1>4, <2>1 DEF P, Q
    <2> QED BY <2>7, <2>8
<1>6. \A q : q \in S <=> q \in 2 .. n /\ lo <= bounds[q] /\ bounds[q] < hi
    BY DEF Crossed, n
<1> HIDE DEF S, D, G
<1>7. /\ IsFiniteSet(Y) /\ Cardinality(Y) \in Nat
      /\ Total([i \in S |-> Cardinality(D[i])]) = Cardinality(Y)
      /\ \A q : q \in Y <=> q = <<q[1], q[2]>> /\ q[1] \in S /\ q[2] \in D[q[1]]
    <2>1. \A i \in S : IsFiniteSet(D[i])
        BY <1>2, <1>4, ExpertSetsFinite
    <2>2. Y = Pairs(S, D)
        BY DEF S, D
    <2> QED BY <1>2, <2>1, <2>2, PairsSize
<1>8. /\ IsFiniteSet(Z) /\ Cardinality(Z) \in Nat
      /\ Total([i \in S |-> Cardinality(G[i])]) = Cardinality(Z)
      /\ \A q : q \in Z <=> q = <<q[1], q[2]>> /\ q[1] \in S /\ q[2] \in G[q[1]]
    <2>1. \A i \in S : IsFiniteSet(G[i])
        BY <1>2, <1>4, ExpertSetsFinite
    <2> QED BY <1>2, <2>1, PairsSize
<1> HIDE DEF Z
<1>9. Cardinality(Y) = Cardinality(Z)
    <2>1. [i \in S |-> Cardinality(D[i])] = [i \in S |-> Cardinality(G[i])]
        BY <1>5
    <2> QED BY <1>7, <1>8, <2>1
<1>10. Y \cap Z = {}
    <2>1. ASSUME NEW q \in Y, q \in Z PROVE FALSE
        <3>1. q[1] \in 2 .. n /\ q[2] \in D[q[1]] /\ q[2] \in G[q[1]]
            BY <1>2, <1>7, <1>8, <2>1
        <3> QED BY <1>4, <3>1
    <2> QED BY <2>1
<1>11. /\ IsFiniteSet(A) /\ Cardinality(A) \in Nat /\ ChurnBefore(lo) = Cardinality(A)
       /\ IsFiniteSet(B) /\ Cardinality(B) \in Nat /\ ChurnBefore(hi) = Cardinality(B)
    BY ChurnIsSize
<1>12. \A q : \A tok \in Nat : q \in ChangedBefore(tok) <=>
           /\ q = <<q[1], q[2]>> /\ q[1] \in 2 .. n /\ bounds[q[1]] < tok
           /\ q[2] \in D[q[1]] \cup G[q[1]]
    <2> SUFFICES ASSUME NEW q, NEW tok \in Nat
                 PROVE  q \in ChangedBefore(tok) <=>
                           /\ q = <<q[1], q[2]>> /\ q[1] \in 2 .. n /\ bounds[q[1]] < tok
                           /\ q[2] \in D[q[1]] \cup G[q[1]]
        OBVIOUS
    <2>1. q \in ChangedBefore(tok) <=>
             /\ q = <<q[1], q[2]>> /\ q[1] \in 2 .. n /\ q[2] \in Experts /\ bounds[q[1]] < tok
             /\ q[2] \in SymmetricDifference(sets[q[1] - 1], sets[q[1]])
        BY DEF ChangedBefore, n
    <2> QED BY <1>4, <2>1
<1>13. \A i \in 2 .. n : bounds[i] \in Nat
    BY <1>1, <1>3
<1>14. B = A \cup (Y \cup Z) /\ A \cap (Y \cup Z) = {}
    <2>1. \A i \in 2 .. n : /\ bounds[i] < hi <=> bounds[i] < lo \/ i \in S
                            /\ ~(bounds[i] < lo /\ i \in S)
        BY <1>6, <1>13
    <2>2. \A q : q \in Y \cup Z <=> q = <<q[1], q[2]>> /\ q[1] \in S /\ q[2] \in D[q[1]] \cup G[q[1]]
        BY <1>7, <1>8
    <2>3. \A q : /\ q \in A <=> /\ q = <<q[1], q[2]>> /\ q[1] \in 2 .. n /\ bounds[q[1]] < lo
                                /\ q[2] \in D[q[1]] \cup G[q[1]]
                 /\ q \in B <=> /\ q = <<q[1], q[2]>> /\ q[1] \in 2 .. n /\ bounds[q[1]] < hi
                                /\ q[2] \in D[q[1]] \cup G[q[1]]
        BY <1>12
    <2> HIDE DEF A, B
    <2>4. \A q : q \in B <=> q \in A \/ q \in Y \cup Z
        BY <1>2, <2>1, <2>2, <2>3
    <2>5. \A q : ~(q \in A /\ q \in Y \cup Z)
        BY <2>1, <2>2, <2>3
    <2> QED BY <2>4, <2>5
<1> HIDE DEF A, B
<1>15. Cardinality(Y \cup Z) = 2 * Cardinality(Y) /\ IsFiniteSet(Y \cup Z)
    <2>1. IsFiniteSet(Y \cup Z)
          /\ Cardinality(Y \cup Z) = Cardinality(Y) + Cardinality(Z) - Cardinality(Y \cap Z)
        BY <1>7, <1>8, FS_Union
    <2>2. Cardinality(Y \cap Z) = 0
        BY <1>10, FS_EmptySet
    <2> QED BY <1>7, <1>8, <1>9, <2>1, <2>2
<1>16. Cardinality(B) = Cardinality(A) + 2 * Cardinality(Y)
    <2>1. Cardinality(A \cup (Y \cup Z))
            = Cardinality(A) + Cardinality(Y \cup Z) - Cardinality(A \cap (Y \cup Z))
        BY <1>11, <1>15, FS_Union
    <2>2. Cardinality(A \cap (Y \cup Z)) = 0
        BY <1>14, FS_EmptySet
    <2> QED BY <1>7, <1>11, <1>14, <1>15, <2>1, <2>2
<1>17. \A q : q \in Y <=> q = <<q[1], q[2]>> /\ q[1] \in S /\ q[2] \in sets[q[1]] \ sets[q[1] - 1]
    BY <1>2, <1>4, <1>7
<1> QED BY <1>7, <1>11, <1>16, <1>17 DEF S

\* The readings of a call differ by no more than the churn that it passes.
LEMMA CallDiffers ==
    ASSUME SInv, phase = "replay", NEW lo \in Nat, NEW hi \in Nat, lo < hi, hi <= Budget
    PROVE  2 * CallEvents("window-start", lo, hi) + ChurnBefore(lo)
             <= 2 * CallEvents("sub-window", lo, hi) + ChurnBefore(hi)
<1> DEFINE m == "sub-window"
           P == Pieces(m, lo, hi)
           D == [p \in P |-> Leased(p[1], p[2])]
           X == Pairs(P, D)
           Y == Pairs(Crossed(lo, hi), CameInAt)
           A == Leased(lo, hi)
           second == [z \in X \cup Y |-> z[2]]
<1>1. Tiling(P, lo, hi) /\ Budget \in Nat
    BY PiecesCover, ReplayAssumption
<1>2. CallEvents(m, lo, hi) = Total([p \in P |-> Cardinality(D[p])])
    <2>1. CallEvents(m, lo, hi) = Total([p \in P |-> Cardinality(Leased(p[1], p[2]))])
        BY DEF CallEvents
    <2>2. [p \in P |-> Cardinality(Leased(p[1], p[2]))] = [p \in P |-> Cardinality(D[p])]
        <3> HIDE DEF P
        <3> QED OBVIOUS
    <2> HIDE DEF P, D
    <2> QED BY <2>1, <2>2
<1> HIDE DEF P
<1>3. /\ IsFiniteSet(P)
      /\ \A p \in P : /\ p[1] \in Nat /\ p[2] \in Nat /\ lo <= p[1] /\ p[1] < p[2] /\ p[2] <= hi
                      /\ p[2] <= Budget /\ p[1] < Budget
      /\ \A i \in lo + 1 .. hi : \E p \in P : i \in p[1] + 1 .. p[2]
    <2>1. \A p \in P : /\ p[1] \in Nat /\ p[2] \in Nat /\ lo <= p[1] /\ p[1] < p[2] /\ p[2] <= hi
        BY <1>1 DEF Tiling
    <2>2. \A p \in P : p[2] <= Budget /\ p[1] < Budget
        BY <1>1, <2>1
    <2> QED BY <1>1, <2>1, <2>2 DEF Tiling
<1>4. \A p \in P : D[p] = Leased(p[1], p[2])
    OBVIOUS
<1> HIDE DEF D
<1>5. /\ IsFiniteSet(X) /\ Cardinality(X) \in Nat
      /\ Total([p \in P |-> Cardinality(D[p])]) = Cardinality(X)
      /\ \A q : q \in X <=> q = <<q[1], q[2]>> /\ q[1] \in P /\ q[2] \in D[q[1]]
    <2>1. \A p \in P : IsFiniteSet(D[p])
        BY <1>3, <1>4, PieceCounts
    <2> QED BY <1>3, <2>1, PairsSize
<1>6. /\ IsFiniteSet(Y) /\ Cardinality(Y) \in Nat
      /\ \A q : q \in Y <=> q = <<q[1], q[2]>> /\ q[1] \in Crossed(lo, hi)
                                             /\ q[2] \in sets[q[1]] \ sets[q[1] - 1]
      /\ ChurnBefore(lo) \in Nat
      /\ ChurnBefore(hi) = ChurnBefore(lo) + 2 * Cardinality(Y)
    <2>1. lo <= hi
        OBVIOUS
    <2> HIDE DEF Y
    <2>2. Y = Pairs(Crossed(lo, hi), CameInAt)
        BY DEF Y
    <2> QED BY <2>1, <2>2, CrossedChurn
<1> HIDE DEF X, Y
<1>7. A \subseteq {second[z] : z \in X \cup Y}
    <2> SUFFICES ASSUME NEW e \in A PROVE \E z \in X \cup Y : z[2] = e
        OBVIOUS
    <2>1. PICK i \in lo + 1 .. hi : e \in ids[i]
        BY DEF Leased
    <2>2. e \notin ResidentAt(lo)
        BY DEF Leased
    <2>3. PICK p \in P : i \in p[1] + 1 .. p[2]
        BY <1>3
    <2> DEFINE a == p[1]
    <2>4. a \in Nat /\ lo <= a /\ a < Budget /\ a < hi
        BY <1>3
    <2>5. CASE e \notin ResidentAt(a)
        <3>1. e \in Leased(p[1], p[2])
            BY <2>1, <2>3, <2>5 DEF Leased
        <3>2. <<p, e>> \in X
            BY <1>4, <1>5, <3>1
        <3> QED BY <3>2
    <2>6. CASE e \in ResidentAt(a)
        <3> HIDE DEF a
        <3>1. PICK j \in 2 .. Len(sets) : lo < bounds[j] /\ bounds[j] <= a /\ e \in sets[j] \ sets[j - 1]
            BY <2>2, <2>4, <2>6, CameIn
        <3>2. bounds[j] \in Nat
            <4>1. /\ Len(sets) = Spans(policy) /\ Spans(policy) \in Nat
                  /\ \A k \in 1 .. Spans(policy) : bounds[k] = Boundary(k) /\ Boundary(k) \in Nat
                BY InReplay
            <4>2. j \in 1 .. Spans(policy)
                BY <4>1
            <4> QED BY <4>1, <4>2
        <3>3. j \in Crossed(lo, hi)
            <4>1. lo <= bounds[j] /\ bounds[j] < hi
                BY <2>4, <3>1, <3>2
            <4> QED BY <4>1 DEF Crossed
        <3>4. <<j, e>> \in Y
            BY <1>6, <3>1, <3>3
        <3> QED BY <3>4
    <2> QED BY <2>5, <2>6
<1>8. second = [z \in X \cup Y |-> second[z]]
    OBVIOUS
<1> HIDE DEF second, A
<1>9. Cardinality(A) \in Nat /\ Cardinality(A) <= Cardinality(X) + Cardinality(Y)
    <2> DEFINE V == {second[z] : z \in X \cup Y}
    <2>1. /\ IsFiniteSet(X \cup Y) /\ Cardinality(X \cup Y) \in Nat
          /\ Cardinality(X \cup Y) <= Cardinality(X) + Cardinality(Y)
        BY <1>5, <1>6, AtMostBoth
    <2>2. IsFiniteSet(V) /\ Cardinality(V) <= Cardinality(X \cup Y)
        BY <1>8, <2>1, ImageBound
    <2> HIDE DEF V
    <2>3. IsFiniteSet(A) /\ Cardinality(A) <= Cardinality(V)
        <3>1. A \subseteq V
            BY <1>7 DEF V
        <3> QED BY <2>2, <3>1, FS_Subset
    <2>4. Cardinality(A) \in Nat /\ Cardinality(V) \in Nat
        BY <2>2, <2>3, FS_CardinalityType
    <2> QED BY <1>5, <1>6, <2>1, <2>2, <2>3, <2>4
<1>10. CallEvents("window-start", lo, hi) = Cardinality(A)
    BY WindowStartCall DEF A
<1>11. CallEvents(m, lo, hi) = Cardinality(X)
    BY <1>2, <1>5
<1> DEFINE ws == CallEvents("window-start", lo, hi)
           sw == CallEvents(m, lo, hi)
           x == Cardinality(X)
           y == Cardinality(Y)
<1>12. /\ ws \in Nat /\ ws <= x + y /\ sw = x /\ x \in Nat /\ y \in Nat
       /\ ChurnBefore(lo) \in Nat /\ ChurnBefore(hi) = ChurnBefore(lo) + 2 * y
    BY <1>5, <1>6, <1>9, <1>10, <1>11
<1> HIDE DEF ws, sw, x, y
<1>13. 2 * ws + ChurnBefore(lo) <= 2 * sw + ChurnBefore(hi)
    BY <1>12
<1> QED BY <1>13 DEF ws, sw

----------------------------------------------------------------------------
(* What the simulators say of the schedule and of the tokens replayed.     *)

LEMMA SimulatedCounts ==
    ASSUME SInv, phase = "replay", NEW n \in 0 .. Budget
    PROVE  /\ Simulated(SubSeq(ids, 1, n)).misses = Cardinality(Missed(ids, policy, 0, n))
           /\ n = Budget => Simulated(SubSeq(ids, 1, n)).churn = ChurnBefore(Budget)
<1> DEFINE rows == Prefix(ids, n)
           misses == Cardinality(Missed(ids, policy, 0, n))
<1>1. policy \in Policies /\ ids \in Logs
    BY InReplay
<1>2. ChurnBefore(Budget) = Cardinality(Changed(ids, policy, Spans(policy)))
    BY ChurnOfSchedule
<1>3. Kind(policy) # "P0" => Spans(policy) = SpansTo(Budget)
    BY DEF Spans, SpansTo
<1>4. CASE Kind(policy) = "P0"
    <2>1. Simulated(rows) = SimP0(rows, policy[2])
        BY <1>4 DEF Simulated, Kind
    <2>2. SimP0(rows, policy[2]).misses = misses /\ SimP0(rows, policy[2]).churn = 0
        BY <1>1, <1>4, StaticCounts
    <2>3. Changed(ids, policy, Spans(policy)) = {}
        <3>1. Spans(policy) = 1 /\ 2 .. 1 = {}
            BY <1>4 DEF Spans
        <3> QED BY <3>1 DEF Changed
    <2> QED BY <1>2, <2>1, <2>2, <2>3, FS_EmptySet DEF Prefix
<1>5. CASE Kind(policy) = "P1"
    <2>1. Simulated(rows) = SimP1(rows, policy[2])
        BY <1>5 DEF Simulated, Kind
    <2>2. /\ SimP1(rows, policy[2]).misses = misses
          /\ SimP1(rows, policy[2]).churn = Cardinality(Changed(ids, policy, SpansTo(n)))
        BY <1>1, <1>5, SlidingCounts
    <2> QED BY <1>2, <1>3, <1>5, <2>1, <2>2 DEF Prefix
<1>6. CASE Kind(policy) = "P2"
    <2>1. Simulated(rows) = SimP2(rows)
        BY <1>6 DEF Simulated, Kind
    <2>2. /\ SimP2(rows).misses = misses
          /\ SimP2(rows).churn = Cardinality(Changed(ids, policy, SpansTo(n)))
        BY <1>1, <1>6, DecayCounts
    <2> QED BY <1>2, <1>3, <1>6, <2>1, <2>2 DEF Prefix
<1> QED BY <1>1, <1>4, <1>5, <1>6, PolicyKinds

LEMMA WholeLog ==
    ASSUME NEW log \in Logs
    PROVE  SubSeq(log, 1, Budget) = log /\ Budget \in 0 .. Budget
<1>1. Budget \in 0 .. Budget /\ log \in Seq(Rows) /\ Len(log) = Budget
    BY LogIsSeq
<1>2. /\ Prefix(log, Budget) \in Seq(Rows) /\ Len(Prefix(log, Budget)) = Budget
      /\ \A i \in 1 .. Budget : Prefix(log, Budget)[i] = log[i]
    BY <1>1, PrefixOfLog
<1> HIDE DEF Logs
<1>3. Prefix(log, Budget) = log
    BY <1>1, <1>2
<1> QED BY <1>1, <1>3 DEF Prefix

----------------------------------------------------------------------------
(* The invariant.                                                          *)

CountsAreNaturals ==
    events \in [Modes -> Nat] /\ peak \in [Modes -> Nat] /\ pick_misses \in [Modes -> Nat]

\* A faithful reading has missed what was not in force.
MissesAreMissed ==
    \A m \in Modes : Faithful(m) => pick_misses[m] = Cardinality(Missed(ids, policy, 0, t))

CountInv ==
    /\ CountsAreNaturals
    /\ Replaying => MissesAreMissed /\ DecodeShape /\ PeakWithinNonResident
    /\ ReadingsDifferByChurn

ReplayInv == SInv /\ CountInv

\* The churn passed, and the smallest set of a schedule.
LEMMA ChurnNow == SInv => ChurnBefore(t) \in Nat
BY ChurnIsSize

LEMMA ChurnThen == SInv' => (ChurnBefore(t) \in Nat)'
BY ChurnNow, PTL

SmallestSet == Min({Cardinality(sets[i]) : i \in 1 .. Len(sets)})

LEMMA SmallestSetIs ==
    ASSUME SInv, phase = "replay"
    PROVE  /\ SmallestSet \in Nat /\ SmallestSet <= E /\ E \in Nat
           /\ \A i \in 1 .. Len(sets) : SmallestSet <= Cardinality(sets[i])
<1> DEFINE S == {Cardinality(sets[i]) : i \in 1 .. Len(sets)}
<1>1. Len(sets) \in Nat \ {0} /\ \A i \in 1 .. Len(sets) : sets[i] \in SUBSET Experts
    BY InReplay
<1>2. \A i \in 1 .. Len(sets) : Cardinality(sets[i]) \in Nat /\ Cardinality(sets[i]) <= E
    BY <1>1, ExpertSetsFinite
<1>3. S \in SUBSET Nat /\ S # {} /\ E \in Nat /\ \A x \in S : x <= E
    <2>1. 1 \in 1 .. Len(sets)
        BY <1>1
    <2> QED BY <1>2, <2>1, PolicyAssumption
<1>4. \A i \in 1 .. Len(sets) : Cardinality(sets[i]) \in S
    OBVIOUS
<1> HIDE DEF S
<1>5. Min(S) \in S /\ \A x \in S : Min(S) <= x
    BY <1>3, LeastNat
<1> QED BY <1>3, <1>4, <1>5 DEF SmallestSet, S

LEMMA SmallestNow == SInv /\ phase = "replay" => 0 <= E - SmallestSet
<1> SUFFICES ASSUME SInv, phase = "replay" PROVE 0 <= E - SmallestSet
    OBVIOUS
<1>1. SmallestSet \in Nat /\ SmallestSet <= E /\ E \in Nat
    BY SmallestSetIs
<1> HIDE DEF SmallestSet
<1> QED BY <1>1

LEMMA SmallestThen == SInv' /\ (phase = "replay")' => (0 <= E - SmallestSet)'
BY SmallestNow, PTL

\* While the schedule is made nothing is counted.
LEMMA NothingCounted ==
    ASSUME events = Zero, peak = Zero, pick_misses = Zero, ChurnBefore(t) \in Nat
    PROVE  CountsAreNaturals /\ DecodeShape /\ ReadingsDifferByChurn
<1>1. CountsAreNaturals
    BY DEF CountsAreNaturals, Zero
<1>2. DecodeShape
    BY DEF DecodeShape
<1>3. ReadingsDifferByChurn
    <2>1. events["window-start"] = 0 /\ events["sub-window"] = 0
        BY DEF Zero, Modes
    <2>2. 2 * events["window-start"] <= 2 * events["sub-window"] + ChurnBefore(t)
        BY <2>1
    <2> QED BY <2>2 DEF ReadingsDifferByChurn
<1> QED BY <1>1, <1>2, <1>3

LEMMA InitReplayInv == Init => ReplayInv
<1> SUFFICES ASSUME Init PROVE ReplayInv
    OBVIOUS
<1>1. SInv
    BY InitSInv
<1>2. events = Zero /\ peak = Zero /\ pick_misses = Zero /\ ~Replaying
    BY DEF Init, Replaying
<1>3. CountsAreNaturals /\ DecodeShape /\ ReadingsDifferByChurn
    BY <1>1, <1>2, ChurnNow, NothingCounted
<1> QED BY <1>1, <1>2, <1>3 DEF ReplayInv, CountInv

\* A set is added to the schedule.
LEMMA SchedReplayInv ==
    ASSUME SInv, SInv', phase = "schedule", NEW R, NEW next, Sched(R, next)
    PROVE  ReplayInv'
<1>1. events' = events /\ peak' = peak /\ pick_misses' = pick_misses /\ phase' = phase
    BY DEF Sched, counts
<1>2. events = Zero /\ peak = Zero /\ pick_misses = Zero
    BY DEF SInv, Making
<1>3. CountsAreNaturals'
    BY <1>1, <1>2 DEF CountsAreNaturals, Zero
<1>4. ~Replaying'
    BY <1>1 DEF Replaying
<1>5. ReadingsDifferByChurn'
    <2>1. (ChurnBefore(t) \in Nat)'
        BY ChurnThen
    <2> DEFINE c == ChurnBefore(t)'
    <2>2. c \in Nat
        BY <2>1
    <2>3. events'["window-start"] = 0 /\ events'["sub-window"] = 0
        BY <1>1, <1>2 DEF Zero, Modes
    <2> HIDE DEF c
    <2>4. 2 * events'["window-start"] <= 2 * events'["sub-window"] + c
        BY <2>2, <2>3
    <2> QED BY <2>4 DEF ReadingsDifferByChurn, c
<1> QED BY <1>3, <1>4, <1>5 DEF ReplayInv, CountInv

\* The schedule is complete, and its replay begins.
LEMMA StartReplayInv == SInv /\ StartReplay => ReplayInv'
<1> SUFFICES ASSUME SInv, StartReplay PROVE ReplayInv'
    OBVIOUS
<1>1. SInv'
    BY StartSInv
<1>2. /\ events' = events /\ peak' = peak /\ pick_misses' = pick_misses /\ t' = 0
      /\ phase = "schedule" /\ phase' = "replay" /\ ids' = ids /\ policy' = policy
    BY DEF StartReplay, counts, input
<1>3. events = Zero /\ peak = Zero /\ pick_misses = Zero
    BY <1>2 DEF SInv, Making
<1>4. CountsAreNaturals'
    BY <1>2, <1>3 DEF CountsAreNaturals, Zero
<1>5. DecodeShape'
    BY <1>2, <1>3 DEF DecodeShape
<1>6. MissesAreMissed'
    <2>1. Missed(ids, policy, 0, 0) = {}
        <3>1. 0 + 1 .. 0 = {}
            OBVIOUS
        <3> QED BY <3>1 DEF Missed
    <2>2. \A m \in Modes : pick_misses'[m] = 0
        BY <1>2, <1>3 DEF Zero
    <2>3. \A m \in Modes : pick_misses'[m] = Cardinality(Missed(ids', policy', 0, t'))
        BY <1>2, <2>1, <2>2, FS_EmptySet
    <2> QED BY <2>3 DEF MissesAreMissed
<1>7. PeakWithinNonResident'
    <2>1. (0 <= E - SmallestSet)'
        BY <1>1, <1>2, SmallestThen
    <2>2. peak'["window-start"] = 0
        BY <1>2, <1>3 DEF Zero, Modes
    <2> QED BY <2>1, <2>2 DEF PeakWithinNonResident, SmallestSet
<1>8. ReadingsDifferByChurn'
    <2>1. (ChurnBefore(t) \in Nat)'
        BY <1>1, ChurnThen
    <2> DEFINE c == ChurnBefore(t)'
    <2>2. c \in Nat
        BY <2>1
    <2>3. events'["window-start"] = 0 /\ events'["sub-window"] = 0
        BY <1>2, <1>3 DEF Zero, Modes
    <2> HIDE DEF c
    <2>4. 2 * events'["window-start"] <= 2 * events'["sub-window"] + c
        BY <2>2, <2>3
    <2> QED BY <2>4 DEF ReadingsDifferByChurn, c
<1> QED BY <1>1, <1>4, <1>5, <1>6, <1>7, <1>8 DEF ReplayInv, CountInv

\* A call is replayed.
LEMMA CallReplayInv == ReplayInv /\ RouteCall => ReplayInv'
<1> SUFFICES ASSUME ReplayInv, RouteCall PROVE ReplayInv'
    OBVIOUS
<1> DEFINE ev(m) == CallEvents(m, t, Hi)
           mi(m) == CallMisses(m, t, Hi)
<1>1. SInv /\ CountInv /\ phase = "replay"
    BY DEF ReplayInv, RouteCall
<1>2. /\ SInv' /\ Hi \in Nat /\ t \in Nat /\ t < Hi /\ Hi <= Budget /\ t' = Hi
      /\ ubatch \in Nat \ {0} /\ Hi <= t + ubatch /\ \E a \in Nat : t = ubatch * a
    BY <1>1, CallSInv
<1>3. /\ events' = [m \in Modes |-> events[m] + ev(m)]
      /\ peak' = [m \in Modes |-> Max({peak[m], ev(m)})]
      /\ pick_misses' = [m \in Modes |-> pick_misses[m] + mi(m)]
      /\ ids' = ids /\ policy' = policy /\ bounds' = bounds /\ sets' = sets
      /\ phase' = phase /\ ubatch' = ubatch
    BY DEF RouteCall, Hi, input, schedule
<1>4. CountsAreNaturals /\ MissesAreMissed /\ DecodeShape /\ PeakWithinNonResident /\ ReadingsDifferByChurn
    BY <1>1 DEF CountInv, Replaying
<1>5. \A m \in Modes : /\ ev(m) \in Nat /\ mi(m) \in Nat
                       /\ events[m] \in Nat /\ peak[m] \in Nat /\ pick_misses[m] \in Nat
    <2>1. \A m \in Modes : ev(m) \in Nat /\ mi(m) \in Nat
        BY <1>1, <1>2, CallCounts
    <2> HIDE DEF ev, mi
    <2> QED BY <1>4, <2>1 DEF CountsAreNaturals
<1>6. CountsAreNaturals'
    <2> HIDE DEF ev, mi
    <2>1. \A m \in Modes : Max({peak[m], ev(m)}) \in Nat
        <3>1. \A m \in Modes : Max({peak[m], ev(m)}) \in {peak[m], ev(m)}
            BY <1>5, MaxOfTwo
        <3> QED BY <1>5, <3>1
    <2> QED BY <1>3, <1>5, <2>1 DEF CountsAreNaturals
<1>7. MissesAreMissed'
    <2> SUFFICES ASSUME NEW m \in Modes, Faithful(m)
                 PROVE  pick_misses'[m] = Cardinality(Missed(ids, policy, 0, Hi))
        BY <1>2, <1>3 DEF MissesAreMissed, Faithful
    <2>1. mi(m) = Cardinality(Missed(ids, policy, t, Hi))
        BY <1>1, <1>2, CallMissed DEF Faithful
    <2>2. pick_misses[m] = Cardinality(Missed(ids, policy, 0, t))
        BY <1>4 DEF MissesAreMissed
    <2>3. Cardinality(Missed(ids, policy, 0, Hi))
            = Cardinality(Missed(ids, policy, 0, t)) + Cardinality(Missed(ids, policy, t, Hi))
        <3>1. 0 \in Nat /\ 0 <= t /\ t <= Hi
            BY <1>2
        <3> QED BY <1>2, <3>1, MissedGrows
    <2> HIDE DEF mi
    <2> QED BY <1>3, <2>1, <2>2, <2>3
<1>8. DecodeShape'
    <2> SUFFICES ASSUME ubatch = 1, NEW m \in Modes PROVE events'[m] = pick_misses'[m]
        BY <1>3 DEF DecodeShape
    <2>1. Hi = t + 1
        BY <1>2
    <2>2. ev(m) = mi(m)
        BY <1>1, <1>2, <2>1, DecodeCall
    <2>3. events[m] = pick_misses[m]
        BY <1>4 DEF DecodeShape
    <2> HIDE DEF ev, mi
    <2> QED BY <1>3, <2>2, <2>3
<1>9. PeakWithinNonResident'
    <2> DEFINE ws == "window-start"
               low == SmallestSet
               R == ResidentAt(t)
    <2>1. ws \in Modes
        BY DEF Modes
    <2>2. peak[ws] <= E - low
        BY <1>4 DEF PeakWithinNonResident, SmallestSet
    <2>3. ev(ws) <= E - Cardinality(R)
        BY <1>1, <1>2, WindowStartCall
    <2>4. low \in Nat /\ E \in Nat /\ \A i \in 1 .. Len(sets) : low <= Cardinality(sets[i])
        BY <1>1, SmallestSetIs
    <2>5. low <= Cardinality(R) /\ Cardinality(R) \in Nat
        <3>1. t \in 0 .. Budget - 1 /\ Len(sets) = Spans(policy)
            BY <1>1, <1>2, InReplay
        <3>2. SpanOf(policy, t) \in 1 .. Spans(policy) /\ R = sets[SpanOf(policy, t)]
            BY <1>1, <3>1, ResidentIsForce
        <3>3. R \in SUBSET Experts
            BY <1>1, <1>2, PieceCounts
        <3> QED BY <2>4, <3>1, <3>2, <3>3, ExpertSetsFinite
    <2> HIDE DEF low, R, ev
    <2>6. ev(ws) <= E - low /\ ev(ws) \in Nat /\ peak[ws] \in Nat
        BY <1>5, <2>1, <2>3, <2>4, <2>5
    <2>7. peak'[ws] = Max({peak[ws], ev(ws)})
        BY <1>3, <2>1
    <2>8. Max({peak[ws], ev(ws)}) \in {peak[ws], ev(ws)}
        BY <2>6, MaxOfTwo
    <2>9. peak'[ws] <= E - low
        BY <2>2, <2>6, <2>7, <2>8
    <2>10. low = Min({Cardinality(sets'[i]) : i \in 1 .. Len(sets')})
        BY <1>3 DEF low, SmallestSet
    <2> QED BY <2>9, <2>10 DEF PeakWithinNonResident
<1>10. ReadingsDifferByChurn'
    <2> DEFINE ws == "window-start"
               sw == "sub-window"
               c == ChurnBefore(t)
               d == ChurnBefore(Hi)
    <2>1. ws \in Modes /\ sw \in Modes
        BY DEF Modes
    <2>2. 2 * events[ws] <= 2 * events[sw] + c
        BY <1>4 DEF ReadingsDifferByChurn
    <2>3. 2 * ev(ws) + c <= 2 * ev(sw) + d
        BY <1>1, <1>2, CallDiffers
    <2>4. c \in Nat /\ d \in Nat
        BY <1>1, ChurnIsSize
    <2>5. ChurnBefore(t)' = d
        BY <1>2, <1>3 DEF ChurnBefore
    <2> HIDE DEF ev, c, d
    <2>6. events'[ws] = events[ws] + ev(ws) /\ events'[sw] = events[sw] + ev(sw)
        BY <1>3, <2>1
    <2>7. /\ events[ws] \in Nat /\ events[sw] \in Nat /\ ev(ws) \in Nat /\ ev(sw) \in Nat
        BY <1>5, <2>1
    <2>8. 2 * events'[ws] <= 2 * events'[sw] + d
        BY <2>2, <2>3, <2>4, <2>6, <2>7
    <2> QED BY <2>5, <2>8 DEF ReadingsDifferByChurn
<1> QED BY <1>2, <1>6, <1>7, <1>8, <1>9, <1>10 DEF ReplayInv, CountInv

LEMMA NextReplayInv == ReplayInv /\ [Next]_vars => ReplayInv'
<1> SUFFICES ASSUME ReplayInv, [Next]_vars PROVE ReplayInv'
    OBVIOUS
<1>0. SInv
    BY DEF ReplayInv
<1>1. CASE SchedStatic
    BY <1>0, <1>1, StaticSInv, SchedReplayInv DEF SchedStatic, Scheduling
<1>2. CASE SchedSliding
    <2>1. PICK R, next : Sched(R, next)
        BY <1>2 DEF SchedSliding
    <2> QED BY <1>0, <1>2, <2>1, SlidingSInv, SchedReplayInv DEF SchedSliding, Scheduling
<1>3. CASE SchedDecay
    <2>1. PICK R, next : Sched(R, next)
        BY <1>3 DEF SchedDecay
    <2> QED BY <1>0, <1>3, <2>1, DecaySInv, SchedReplayInv DEF SchedDecay, Scheduling
<1>4. CASE StartReplay
    BY <1>0, <1>4, StartReplayInv
<1>5. CASE RouteCall
    BY <1>5, CallReplayInv
<1>6. CASE UNCHANGED vars
    <2>1. /\ ids' = ids /\ policy' = policy /\ bounds' = bounds /\ sets' = sets /\ counters' = counters
          /\ phase' = phase /\ ubatch' = ubatch /\ t' = t
          /\ events' = events /\ peak' = peak /\ pick_misses' = pick_misses
        BY <1>6 DEF vars
    <2>2. SInv'
        BY <1>0, <2>1 DEF SInv, ScheduleIs, Making, Replayed
    <2>3. CountInv'
        BY <2>1 DEF ReplayInv, CountInv, CountsAreNaturals, Replaying, MissesAreMissed, Faithful,
                    DecodeShape, PeakWithinNonResident, ReadingsDifferByChurn, ChurnBefore
    <2> QED BY <2>2, <2>3 DEF ReplayInv
<1> QED BY <1>1, <1>2, <1>3, <1>4, <1>5, <1>6 DEF Next

LEMMA ReplayInvAlways == Spec => []ReplayInv
<1>1. Init => ReplayInv
    BY InitReplayInv
<1>2. ReplayInv /\ [Next]_vars => ReplayInv'
    BY NextReplayInv
<1> QED BY <1>1, <1>2, PTL DEF Spec

----------------------------------------------------------------------------
(* The properties.                                                         *)

LEMMA InvIsMatch ==
    ReplayInv => MatchesSimulator /\ ReadingsDifferByChurn
<1> SUFFICES ASSUME ReplayInv PROVE MatchesSimulator /\ ReadingsDifferByChurn
    OBVIOUS
<1>1. SInv /\ CountInv /\ ReadingsDifferByChurn
    BY DEF ReplayInv, CountInv
<1>2. ASSUME phase = "replay" PROVE MatchesSimulator
    <2>1. MissesAreMissed /\ DecodeShape /\ PeakWithinNonResident
        BY <1>1, <1>2 DEF CountInv, Replaying
    <2>2. ResidentAtIsInForce
        <3> SUFFICES ASSUME NEW tok \in 0 .. Budget - 1
                     PROVE  ResidentAt(tok) = sets[IF policy[1] = "P0" THEN 1 ELSE (tok \div H) + 1]
            BY DEF ResidentAtIsInForce
        <3>1. ResidentAt(tok) = sets[SpanOf(policy, tok)]
            BY <1>1, <1>2, ResidentIsForce
        <3> QED BY <3>1 DEF SpanOf, Kind
    <2>3. ChurnBefore(Budget) = Simulated(ids).churn
        <3>1. SubSeq(ids, 1, Budget) = ids /\ Budget \in 0 .. Budget
            BY <1>1, <1>2, InReplay, WholeLog
        <3>2. Simulated(SubSeq(ids, 1, Budget)).churn = ChurnBefore(Budget)
            BY <1>1, <1>2, <3>1, SimulatedCounts
        <3> QED BY <3>1, <3>2
    <2>4. ASSUME NEW m \in Modes, m = "sub-window" \/ H % ubatch = 0
          PROVE  pick_misses[m] = Simulated(SubSeq(ids, 1, t)).misses
        <3>1. pick_misses[m] = Cardinality(Missed(ids, policy, 0, t))
            BY <2>1, <2>4 DEF MissesAreMissed, Faithful
        <3>2. Simulated(SubSeq(ids, 1, t)).misses = Cardinality(Missed(ids, policy, 0, t))
            BY <1>1, <1>2, InReplay, SimulatedCounts
        <3> QED BY <3>1, <3>2
    <2> QED BY <2>1, <2>2, <2>3, <2>4 DEF MatchesSimulator
<1>3. MatchesSimulator
    BY <1>2 DEF MatchesSimulator, Replaying
<1> QED BY <1>1, <1>3

(* Separating the schedule from the accounting changes neither: for every  *)
(* log, policy, set of shapes and history length, the binary search finds  *)
(* the set of a token's window, the schedule churns as sim_residency.py    *)
(* does, and a reading that takes no set past its boundary misses exactly  *)
(* what the simulator does on the tokens replayed so far.                  *)
THEOREM SimulatorMatched == Spec => []MatchesSimulator
<1>1. ReplayInv => MatchesSimulator
    BY InvIsMatch
<1> QED BY <1>1, ReplayInvAlways, PTL

(* The window-start reading of a log leases at most the experts that came  *)
(* into residency at the boundaries passed on top of the sub-window        *)
(* reading: half of the churn, since the sets on either side have K each.  *)
THEOREM ReadingsWithinChurn == Spec => []ReadingsDifferByChurn
<1>1. ReplayInv => ReadingsDifferByChurn
    BY InvIsMatch
<1> QED BY <1>1, ReplayInvAlways, PTL

\* A step of the run that the harness's log is compared with leaves the harness alone.
LEMMA ComparedSteps == [MCNext]_<<vars, runVars>> => [Next]_vars
<1> SUFFICES ASSUME [MCNext]_<<vars, runVars>> PROVE [Next]_vars
    OBVIOUS
<1> QED BY DEF MCNext

(* Both hold as well when the engine is run on the log afterwards.         *)
THEOREM ComparedReplay == MCSpec => [](MatchesSimulator /\ ReadingsDifferByChurn)
<1>1. MCSpec => Spec
    <2>1. MCInit => Init
        BY DEF MCInit
    <2>2. [MCNext]_<<vars, runVars>> => [Next]_vars
        BY ComparedSteps
    <2> QED BY <2>1, <2>2, PTL DEF MCSpec, Spec
<1>2. ReplayInv => MatchesSimulator /\ ReadingsDifferByChurn
    BY InvIsMatch
<1> QED BY <1>1, <1>2, ReplayInvAlways, PTL

----------------------------------------------------------------------------
(* The engine's run on the log: what chunk_ns says of its calls.           *)

\* Where the last call began that has been timed up to its successor.
LastStart == IF chunks = <<>> THEN 0 ELSE chunks[Len(chunks)][2]

\* The first p entries are calls of the prompt, the others one token each; the
\* call before the first of those ends the prompt.
SplitAt(p) ==
    /\ p \in 0 .. Len(chunks)
    /\ \A i \in 1 .. p : chunks[i][1] < shape.n_prompt /\ chunks[i][2] <= shape.n_prompt
    /\ \A i \in p + 1 .. Len(chunks) :
          chunks[i][1] = shape.n_prompt + i - p - 1 /\ chunks[i][2] = shape.n_prompt + i - p
    /\ p < Len(chunks) => p >= 1 /\ chunks[p][2] = shape.n_prompt

ShapeOK ==
    \E n \in 1 .. T, ub \in Nat \ {0} : shape = [n_prompt |-> n, n_gen |-> T - n, ub |-> ub]

\* A call's tokens are first onwards: it is the call after the last timed one
\* until its first layer is done, and then the last timed one itself.
Underway ==
    /\ first \in 0 .. T /\ il \in Layers
    /\ il > 0 => first = LastStart
    /\ il = 0 => \/ first = 0 /\ chunks = <<>>
                 \/ first # 0 /\ first = CallEnd(LastStart)
    /\ stage = "running" => first < T
    /\ stage # "running" => first = T /\ il = 0

TimedInv ==
    /\ stage \in {"idle", "running", "done", "damaged"}
    /\ stage = "idle" => first = 0 /\ il = 0 /\ chunks = <<>>
    /\ stage # "idle" =>
          /\ ShapeOK /\ chunks \in Seq(Nat \X Nat) /\ Underway
          /\ \E p \in Nat : SplitAt(p)

LEMMA ShapeIs ==
    ASSUME ShapeOK
    PROVE  /\ shape.n_prompt \in 1 .. T /\ shape.n_prompt \in Nat \ {0} /\ shape.ub \in Nat \ {0}
           /\ shape.n_gen = T - shape.n_prompt /\ T \in Nat \ {0}
<1>1. PICK n \in 1 .. T, ub \in Nat \ {0} : shape = [n_prompt |-> n, n_gen |-> T - n, ub |-> ub]
    BY DEF ShapeOK
<1>2. shape.n_prompt = n /\ shape.n_gen = T - n /\ shape.ub = ub
    BY <1>1
<1>3. T \in Nat \ {0}
    BY LogAssumption
<1> QED BY <1>2, <1>3

\* A call is not empty and ends inside the log; in the prompt, inside the prompt.
LEMMA CallEnds ==
    ASSUME ShapeOK, NEW lo \in Nat, lo < T
    PROVE  /\ CallEnd(lo) \in Nat /\ lo < CallEnd(lo) /\ CallEnd(lo) <= T
           /\ lo < shape.n_prompt => CallEnd(lo) <= shape.n_prompt
           /\ lo >= shape.n_prompt => CallEnd(lo) = lo + 1
<1>1. /\ shape.n_prompt \in 1 .. T /\ shape.n_prompt \in Nat \ {0} /\ shape.ub \in Nat \ {0}
      /\ T \in Nat \ {0}
    BY ShapeIs
<1> DEFINE n == shape.n_prompt
           u == shape.ub
<1>2. CallEnd(lo) = IF lo < n THEN (IF lo + u <= n THEN lo + u ELSE n) ELSE lo + 1
    BY DEF CallEnd, Lower
<1>3. n \in 1 .. T /\ n \in Nat /\ u \in Nat \ {0} /\ T \in Nat
    BY <1>1
<1> HIDE DEF n, u
<1>4. /\ CallEnd(lo) \in Nat /\ lo < CallEnd(lo) /\ CallEnd(lo) <= T
      /\ lo < n => CallEnd(lo) <= n
      /\ lo >= n => CallEnd(lo) = lo + 1
    BY <1>2, <1>3
<1> QED BY <1>4 DEF n

\* One more entry: a call of the prompt, or the next token's.
LEMMA SplitGrows ==
    ASSUME ShapeOK, chunks \in Seq(Nat \X Nat), NEW p \in Nat, SplitAt(p),
           LastStart \in Nat, LastStart < T,
           chunks' = Append(chunks, <<LastStart, CallEnd(LastStart)>>), shape' = shape
    PROVE  \E q \in Nat : SplitAt(q)'
<1> DEFINE n == shape.n_prompt
           c == Len(chunks)
           b == LastStart
           hi == CallEnd(LastStart)
<1>1. /\ n \in Nat \ {0} /\ c \in Nat /\ b \in Nat /\ hi \in Nat
      /\ b < n => hi <= n
      /\ b >= n => hi = b + 1
    BY ShapeIs, CallEnds
<1>2. /\ Len(chunks') = c + 1 /\ chunks'[c + 1] = <<b, hi>>
      /\ \A i \in 1 .. c : chunks'[i] = chunks[i]
    <2>1. <<b, hi>> \in Nat \X Nat
        BY <1>1
    <2> HIDE DEF b, hi
    <2> QED BY <2>1 DEF b, hi
<1>3. chunks'[c + 1][1] = b /\ chunks'[c + 1][2] = hi
    BY <1>2
<1>4. /\ p \in 0 .. c
      /\ \A i \in 1 .. p : chunks[i][1] < n /\ chunks[i][2] <= n
      /\ \A i \in p + 1 .. c : chunks[i][1] = n + i - p - 1 /\ chunks[i][2] = n + i - p
      /\ p < c => p >= 1 /\ chunks[p][2] = n
    BY DEF SplitAt
<1>5. c = 0 => b = 0
    BY DEF LastStart
<1>6. c > 0 => b = chunks[c][2]
    BY DEF LastStart
<1>7. shape'.n_prompt = n
    OBVIOUS
<1> DEFINE Grown(q) ==
        /\ q \in 0 .. c + 1
        /\ \A i \in 1 .. q : chunks'[i][1] < n /\ chunks'[i][2] <= n
        /\ \A i \in q + 1 .. c + 1 : chunks'[i][1] = n + i - q - 1 /\ chunks'[i][2] = n + i - q
        /\ q < c + 1 => q >= 1 /\ chunks'[q][2] = n
<1>8. \A q \in Nat : Grown(q) => SplitAt(q)'
    BY <1>2, <1>7 DEF SplitAt
<1> HIDE DEF n, c, b, hi
<1>9. CASE b < n
    <2>1. p = c
        <3> SUFFICES ASSUME p # c PROVE FALSE
            OBVIOUS
        <3>1. c \in p + 1 .. c /\ c > 0
            BY <1>1, <1>4
        <3>2. chunks[c][2] = n + c - p
            BY <1>4, <3>1
        <3> QED BY <1>1, <1>4, <1>6, <1>9, <3>1, <3>2
    <2>2. \A i \in 1 .. c + 1 : chunks'[i][1] < n /\ chunks'[i][2] <= n
        <3> TAKE i \in 1 .. c + 1
        <3>1. CASE i = c + 1
            BY <1>1, <1>3, <1>9, <3>1
        <3>2. CASE i # c + 1
            <4>1. i \in 1 .. c /\ i \in 1 .. p
                BY <1>1, <2>1, <3>2
            <4> QED BY <1>2, <1>4, <4>1
        <3> QED BY <3>1, <3>2
    <2>3. Grown(c + 1)
        <3>1. c + 1 \in 0 .. c + 1 /\ ~(c + 1 < c + 1) /\ (c + 1) + 1 .. c + 1 = {}
            BY <1>1
        <3> QED BY <2>2, <3>1
    <2> HIDE DEF Grown
    <2> QED BY <1>1, <1>8, <2>3
<1>10. CASE ~(b < n)
    <2>1. c > 0 /\ b >= n /\ hi = b + 1
        BY <1>1, <1>5, <1>10
    <2>2. p = c => b = n /\ p >= 1 /\ chunks[p][2] = n
        <3> SUFFICES ASSUME p = c PROVE b = n
            BY <1>1, <1>6, <2>1
        <3>1. c \in 1 .. p
            BY <1>1, <2>1
        <3>2. chunks[c][2] <= n
            BY <1>4, <3>1
        <3> QED BY <1>1, <1>6, <2>1, <3>2
    <2>3. p >= 1 /\ chunks[p][2] = n /\ p \in 1 .. c
        BY <1>1, <1>4, <2>1, <2>2
    <2>4. b = n + c - p
        <3>1. CASE p = c
            BY <1>1, <2>2, <3>1
        <3>2. CASE p # c
            <4>1. c \in p + 1 .. c
                BY <1>1, <1>4, <3>2
            <4> QED BY <1>4, <1>6, <2>1, <4>1
        <3> QED BY <3>1, <3>2
    <2>5. \A i \in 1 .. p : chunks'[i][1] < n /\ chunks'[i][2] <= n
        <3> TAKE i \in 1 .. p
        <3>1. i \in 1 .. c
            BY <1>1, <1>4
        <3> QED BY <1>2, <1>4, <3>1
    <2>6. \A i \in p + 1 .. c + 1 : chunks'[i][1] = n + i - p - 1 /\ chunks'[i][2] = n + i - p
        <3> TAKE i \in p + 1 .. c + 1
        <3>1. CASE i = c + 1
            <4>1. b = n + i - p - 1 /\ hi = n + i - p
                BY <1>1, <2>1, <2>4, <3>1
            <4> QED BY <1>3, <3>1, <4>1
        <3>2. CASE i # c + 1
            <4>1. i \in 1 .. c /\ i \in p + 1 .. c
                BY <1>1, <1>4, <3>2
            <4> QED BY <1>2, <1>4, <4>1
        <3> QED BY <3>1, <3>2
    <2>7. chunks'[p][2] = n
        BY <1>2, <2>3
    <2>8. Grown(p)
        <3>1. p \in 0 .. c + 1
            BY <1>1, <2>3
        <3> QED BY <2>3, <2>5, <2>6, <2>7, <3>1
    <2> HIDE DEF Grown
    <2> QED BY <1>8, <2>8
<1> QED BY <1>9, <1>10

LEMMA LastStartIs ==
    ASSUME chunks \in Seq(Nat \X Nat)
    PROVE  LastStart \in Nat
<1>1. CASE chunks = <<>>
    BY <1>1 DEF LastStart
<1>2. CASE chunks # <<>>
    <2>1. chunks[Len(chunks)] \in Nat \X Nat
        BY <1>2
    <2> QED BY <1>2, <2>1 DEF LastStart
<1> QED BY <1>1, <1>2

LEMMA LaunchTimed ==
    ASSUME TimedInv, NEW routes, NEW held, NEW n \in 1 .. T, NEW u \in Nat \ {0},
           Launch(routes, held, n, u)
    PROVE  TimedInv'
<1>1. stage = "idle" /\ stage' = "running" /\ first = 0 /\ il = 0 /\ chunks = <<>>
      /\ UNCHANGED <<first, il, chunks>>
    BY DEF Launch, TimedInv
<1>2. shape' = [n_prompt |-> n, n_gen |-> T - n, ub |-> u]
    BY DEF Launch
<1>3. ShapeOK'
    BY <1>2 DEF ShapeOK
<1>4. 0 \in 0 .. T /\ 0 < T /\ 0 \in Layers
    BY LogAssumption DEF Layers
<1>5. first' = 0 /\ il' = 0 /\ chunks' = <<>> /\ stage' = "running"
    BY <1>1
<1>6. Underway'
    BY <1>4, <1>5 DEF Underway
<1>7. SplitAt(0)'
    BY <1>5 DEF SplitAt
<1>8. chunks' \in Seq(Nat \X Nat)
    BY <1>5
<1> QED BY <1>3, <1>5, <1>6, <1>7, <1>8 DEF TimedInv

LEMMA RunCallTimed == TimedInv /\ RunCall => TimedInv'
<1> SUFFICES ASSUME TimedInv, RunCall PROVE TimedInv'
    OBVIOUS
<1> DEFINE hi == CallEnd(first)
           b == LastStart
<1>1. /\ stage = "running" /\ shape' = shape
      /\ chunks' = IF il > 0 \/ first = 0 THEN chunks
                   ELSE Append(chunks, <<IF chunks = <<>> THEN 0 ELSE Last(chunks)[2], first>>)
      /\ il' = (il + 1) % L
      /\ first' = IF il = L - 1 THEN hi ELSE first
      /\ stage' = IF hi = T /\ il = L - 1 THEN "done" ELSE "running"
    BY DEF RunCall
<1>2. /\ ShapeOK /\ chunks \in Seq(Nat \X Nat) /\ Underway
      /\ \E p \in Nat : SplitAt(p)
    BY <1>1 DEF TimedInv
<1>3. /\ first \in 0 .. T /\ first < T /\ il \in Layers
      /\ il > 0 => first = b
      /\ il = 0 => \/ first = 0 /\ chunks = <<>>
                   \/ first # 0 /\ first = CallEnd(b)
    BY <1>1, <1>2 DEF Underway
<1>4. T \in Nat \ {0} /\ L \in Nat \ {0} /\ first \in Nat /\ il \in 0 .. L - 1
    BY <1>3, LogAssumption DEF Layers
<1>5. b \in Nat
    BY <1>2, LastStartIs
<1>6. /\ hi \in Nat /\ first < hi /\ hi <= T
    BY <1>2, <1>3, <1>4, CallEnds
<1>7. ShapeOK'
    BY <1>1, <1>2 DEF ShapeOK
<1>8. \A lo : CallEnd(lo)' = CallEnd(lo)
    BY <1>1 DEF CallEnd
<1>9. /\ chunks' \in Seq(Nat \X Nat) /\ LastStart' = first
      /\ \E p \in Nat : SplitAt(p)'
    <2>1. CASE il > 0 \/ first = 0
        <3>1. chunks' = chunks
            BY <1>1, <2>1
        <3>2. b = first
            <4>1. CASE il > 0
                BY <1>3, <4>1
            <4>2. CASE ~(il > 0)
                <5>1. il = 0 /\ first = 0
                    BY <1>4, <2>1, <4>2
                <5>2. chunks = <<>>
                    BY <1>3, <5>1
                <5> QED BY <5>1, <5>2 DEF LastStart
            <4> QED BY <4>1, <4>2
        <3>3. LastStart' = b
            BY <3>1 DEF LastStart
        <3>4. \A p : SplitAt(p) => SplitAt(p)'
            BY <1>1, <3>1 DEF SplitAt
        <3> QED BY <1>2, <3>1, <3>2, <3>3, <3>4
    <2>2. CASE ~(il > 0 \/ first = 0)
        <3>1. il = 0 /\ first = CallEnd(b)
            BY <1>3, <1>4, <2>2
        <3>2. chunks' = Append(chunks, <<b, first>>)
            BY <1>1, <2>2 DEF LastStart, Last
        <3>3. <<b, first>> \in Nat \X Nat
            BY <1>4, <1>5
        <3>4. /\ chunks' \in Seq(Nat \X Nat) /\ Len(chunks') = Len(chunks) + 1
              /\ chunks'[Len(chunks) + 1] = <<b, first>>
            <4> HIDE DEF b
            <4> QED BY <1>2, <3>2, <3>3
        <3>5. chunks' # <<>>
            BY <1>2, <3>4
        <3>6. LastStart' = first
            BY <3>4, <3>5 DEF LastStart
        <3>7. b < T
            <4>1. CASE b < T
                BY <4>1
            <4>2. CASE ~(b < T)
                <5>1. b >= shape.n_prompt /\ shape.n_prompt \in Nat /\ T \in Nat
                      /\ shape.n_prompt <= T
                    BY <1>2, <1>4, <1>5, <4>2, ShapeIs
                <5>2. ~(b < shape.n_prompt)
                    BY <1>5, <5>1
                <5>3. CallEnd(b) = b + 1
                    BY <5>2 DEF CallEnd
                <5> QED BY <1>3, <1>4, <1>5, <3>1, <4>2, <5>3
            <4> QED BY <4>1, <4>2
        <3>8. chunks' = Append(chunks, <<LastStart, CallEnd(LastStart)>>)
            BY <3>1, <3>2
        <3>9. \E p \in Nat : SplitAt(p)'
            <4>1. PICK p \in Nat : SplitAt(p)
                BY <1>2
            <4> QED BY <1>1, <1>2, <1>5, <3>7, <3>8, <4>1, SplitGrows
        <3> QED BY <3>4, <3>6, <3>9
    <2> QED BY <2>1, <2>2
<1>10. CallEnd(LastStart)' = hi
    BY <1>1, <1>9 DEF CallEnd
<1> HIDE DEF hi, b
<1>11. il' = IF il = L - 1 THEN 0 ELSE il + 1
    BY <1>1, <1>4
<1>12. Underway'
    <2>1. CASE il = L - 1
        <3>1. il' = 0 /\ first' = hi /\ hi # 0 /\ hi \in 0 .. T /\ 0 \in Layers
            BY <1>1, <1>4, <1>6, <1>11, <2>1 DEF Layers
        <3>2. stage' = IF hi = T THEN "done" ELSE "running"
            BY <1>1, <2>1
        <3>3. hi # T => hi < T
            BY <1>4, <1>6
        <3>4. first' = CallEnd(LastStart)'
            BY <1>10, <3>1
        <3> QED BY <3>1, <3>2, <3>3, <3>4 DEF Underway
    <2>2. CASE il # L - 1
        <3>1. il' = il + 1 /\ il' > 0 /\ il' \in Layers /\ first' = first /\ stage' = "running"
            BY <1>1, <1>4, <1>11, <2>2 DEF Layers
        <3>2. first' = LastStart'
            BY <1>9, <3>1
        <3>3. ~(il' = 0)
            BY <1>4, <3>1
        <3> QED BY <1>3, <3>1, <3>2, <3>3 DEF Underway
    <2> QED BY <2>1, <2>2
<1>13. stage' \in {"running", "done"}
    BY <1>1
<1> QED BY <1>7, <1>9, <1>12, <1>13 DEF TimedInv

LEMMA DamageTimed ==
    ASSUME TimedInv, NEW f, NEW i, Damage(f, i)
    PROVE  TimedInv'
<1>1. /\ stage = "done" /\ stage' = "damaged"
      /\ UNCHANGED <<shape, first, il, chunks>>
    BY DEF Damage
<1>2. ShapeOK /\ chunks \in Seq(Nat \X Nat) /\ Underway /\ \E p \in Nat : SplitAt(p)
    BY <1>1 DEF TimedInv
<1>3. ShapeOK' /\ chunks' \in Seq(Nat \X Nat)
    BY <1>1, <1>2 DEF ShapeOK
<1>4. Underway'
    BY <1>1, <1>2 DEF Underway, LastStart, CallEnd
<1>5. \A p : SplitAt(p) => SplitAt(p)'
    BY <1>1 DEF SplitAt
<1> QED BY <1>1, <1>2, <1>3, <1>4, <1>5 DEF TimedInv

LEMMA UnchangedTimed ==
    ASSUME TimedInv, UNCHANGED runVars
    PROVE  TimedInv'
<1>1. UNCHANGED <<stage, shape, first, il, chunks>>
    BY DEF runVars
<1>2. ShapeOK' = ShapeOK /\ Underway' = Underway
    BY <1>1 DEF ShapeOK, Underway, LastStart, CallEnd
<1>3. \A p : SplitAt(p)' = SplitAt(p)
    BY <1>1 DEF SplitAt
<1> QED BY <1>1, <1>2, <1>3 DEF TimedInv

LEMMA StepTimed == TimedInv /\ [RunNext]_runVars => TimedInv'
<1> SUFFICES ASSUME TimedInv, [RunNext]_runVars PROVE TimedInv'
    OBVIOUS
<1>1. CASE UNCHANGED runVars
    BY <1>1, UnchangedTimed
<1>2. CASE RunNext
    <2>1. ASSUME NEW routes \in [Layers -> [1 .. T -> Rankings]], NEW held \in EvenSets,
                 NEW n \in 1 .. T, NEW u \in Nat \ {0}, Launch(routes, held, n, u)
          PROVE  TimedInv'
        BY <2>1, LaunchTimed
    <2>2. ASSUME RunCall PROVE TimedInv'
        BY <2>2, RunCallTimed
    <2>3. ASSUME NEW f, NEW i, Damage(f, i) PROVE TimedInv'
        BY <2>3, DamageTimed
    <2> QED BY <1>2, <2>1, <2>2, <2>3 DEF RunNext
<1> QED BY <1>1, <1>2

\* What the readers of chunk_ns find when the run is over.
LEMMA TimedRead == TimedInv => ChunksRead
<1> SUFFICES ASSUME TimedInv, stage = "done", shape.n_gen > 0
             PROVE  LET a == AcceptChunk(chunks, shape.n_gen)
                        timed == DecodeCallsTimed(chunks, shape.n_gen)
                    IN  /\ a.pieces = Cardinality({i \in DOMAIN chunks : chunks[i][1] < shape.n_prompt})
                        /\ a.pieces <= 2 => Last(a.head)[2] = shape.n_prompt
                        /\ AcceptArith(chunks, K, Counters).first_decode[1] < shape.n_prompt
                        /\ timed[1][2] = shape.n_prompt /\ Last(timed)[2] = T - 1
    BY DEF ChunksRead, Intact
<1> DEFINE n == shape.n_prompt
           g == shape.n_gen
           c == Len(chunks)
           b == LastStart
<1>1. ShapeOK /\ chunks \in Seq(Nat \X Nat) /\ Underway
    BY DEF TimedInv
<1>2. PICK p \in Nat : SplitAt(p)
    BY DEF TimedInv
<1>3. n \in Nat \ {0} /\ T \in Nat \ {0} /\ g = T - n /\ n <= T /\ g \in Nat \ {0} /\ c \in Nat
    <2>1. n \in 1 .. T /\ n \in Nat \ {0} /\ g = T - n /\ T \in Nat \ {0} /\ g > 0
        BY <1>1, ShapeIs
    <2>2. c \in Nat
        BY <1>1
    <2> HIDE DEF n, g, c
    <2> QED BY <2>1, <2>2
<1>4. b \in Nat
    BY <1>1, LastStartIs
<1>5. first = T /\ il = 0 /\ first = CallEnd(b)
    <2>1. first = T /\ il = 0
        BY <1>1 DEF Underway
    <2> QED BY <1>1, <1>3, <2>1 DEF Underway
<1>6. b >= n /\ T = b + 1
    <2>1. CASE b < n
        <3>1. b < T
            BY <1>3, <1>4, <2>1
        <3>2. CallEnd(b) <= n
            BY <1>1, <1>4, <2>1, <3>1, CallEnds
        <3> HIDE DEF n, g, b
        <3> QED BY <1>3, <1>4, <1>5, <3>2
    <2>2. CASE ~(b < n)
        <3>1. CallEnd(b) = b + 1
            BY <2>2 DEF CallEnd
        <3> HIDE DEF n, g, b
        <3> QED BY <1>3, <1>4, <1>5, <2>2, <3>1
    <2> QED BY <2>1, <2>2
<1>7. /\ p \in 0 .. c
      /\ \A i \in 1 .. p : chunks[i][1] < n /\ chunks[i][2] <= n
      /\ \A i \in p + 1 .. c : chunks[i][1] = n + i - p - 1 /\ chunks[i][2] = n + i - p
      /\ p < c => p >= 1 /\ chunks[p][2] = n
    BY <1>2 DEF SplitAt
<1>8. c # 0 /\ b = chunks[c][2]
    <2>1. chunks # <<>>
        <3> SUFFICES ASSUME chunks = <<>> PROVE FALSE
            OBVIOUS
        <3>1. b = 0
            BY DEF LastStart
        <3> HIDE DEF b, n
        <3> QED BY <1>3, <1>6, <3>1
    <2> QED BY <1>1, <2>1 DEF LastStart
<1> HIDE DEF n, g, c, b
<1>9. p >= 1 /\ chunks[p][2] = n /\ p = c - g + 1 /\ g <= c
    <2>1. CASE p = c
        <3>1. c \in 1 .. p
            BY <1>3, <1>8, <2>1
        <3>2. chunks[c][2] <= n
            BY <1>7, <3>1
        <3>3. b = n /\ g = 1
            BY <1>3, <1>4, <1>6, <1>8, <3>2
        <3> QED BY <1>3, <1>8, <2>1, <3>3
    <2>2. CASE p # c
        <3>1. c \in p + 1 .. c /\ p < c
            BY <1>3, <1>7, <2>2
        <3>2. b = n + c - p
            BY <1>7, <1>8, <3>1
        <3> QED BY <1>3, <1>4, <1>6, <1>7, <3>1, <3>2
    <2> QED BY <2>1, <2>2
<1>10. Cardinality({i \in DOMAIN chunks : chunks[i][1] < n}) = p
    <2>1. DOMAIN chunks = 1 .. c
        BY <1>1 DEF c
    <2>2. {i \in DOMAIN chunks : chunks[i][1] < n} = 1 .. p
        <3>1. ASSUME NEW i \in 1 .. p PROVE i \in 1 .. c /\ chunks[i][1] < n
            BY <1>3, <1>7
        <3>2. ASSUME NEW i \in 1 .. c, i \notin 1 .. p PROVE ~(chunks[i][1] < n)
            <4>1. i \in p + 1 .. c
                BY <1>3, <1>7, <3>2
            <4>2. chunks[i][1] = n + i - p - 1
                BY <1>7, <4>1
            <4> QED BY <1>3, <1>7, <4>1, <4>2
        <3> QED BY <2>1, <3>1, <3>2
    <2>3. Cardinality(1 .. p) = p
        BY FS_Interval, <1>9
    <2> QED BY <2>2, <2>3
<1>11. p <= 2 => Last(IF p = 1 THEN SubSeq(chunks, 1, 1) ELSE SubSeq(chunks, 1, 2))[2] = n
    <2> SUFFICES ASSUME p <= 2
                 PROVE  Last(IF p = 1 THEN SubSeq(chunks, 1, 1) ELSE SubSeq(chunks, 1, 2))[2] = n
        OBVIOUS
    <2>1. p \in {1, 2} /\ p <= c
        BY <1>3, <1>7, <1>9
    <2>2. Len(SubSeq(chunks, 1, p)) = p /\ SubSeq(chunks, 1, p)[p] = chunks[p]
        BY <1>1, <1>3, <2>1 DEF c
    <2>3. Last(SubSeq(chunks, 1, p))[2] = n
        BY <1>9, <2>2 DEF Last
    <2> QED BY <2>1, <2>3
<1>12. chunks[1][1] < n
    <2>1. 1 \in 1 .. p
        BY <1>9
    <2> QED BY <1>7, <2>1
<1>13. LET timed == SubSeq(chunks, c - g + 1, c)
       IN  timed[1][2] = n /\ Last(timed)[2] = T - 1
    <2> DEFINE timed == SubSeq(chunks, p, c)
    <2>1. c - g + 1 = p
        BY <1>3, <1>9
    <2>2. p \in 1 .. c /\ c - p + 1 = g
        BY <1>3, <1>7, <1>9
    <2>3. Len(timed) = g /\ timed[1] = chunks[p] /\ timed[g] = chunks[c]
        <3>1. Len(timed) = c - p + 1 /\ \A i \in 1 .. c - p + 1 : timed[i] = chunks[p + i - 1]
            <4>1. chunks \in Seq(Nat \X Nat) /\ Len(chunks) = c /\ c \in Nat
                BY <1>1, <1>3 DEF c
            <4> QED BY <2>2, <4>1, TailOfSeq
        <3>2. 1 \in 1 .. c - p + 1 /\ g \in 1 .. c - p + 1 /\ p + 1 - 1 = p /\ p + g - 1 = c
            BY <1>3, <2>2
        <3> HIDE DEF timed
        <3> QED BY <2>2, <3>1, <3>2
    <2> HIDE DEF timed
    <2>4. timed[1][2] = n /\ Last(timed)[2] = T - 1
        <3>1. T - 1 = b
            BY <1>3, <1>4, <1>6
        <3> QED BY <1>8, <1>9, <2>3, <3>1 DEF Last
    <2> QED BY <2>1, <2>4 DEF timed
<1>14. DecodeCallsTimed(chunks, g) = SubSeq(chunks, c - g + 1, c)
    <2>1. Len(chunks) >= g
        BY <1>3, <1>9 DEF c
    <2> QED BY <2>1 DEF DecodeCallsTimed, c
<1>15. /\ AcceptChunk(chunks, g).pieces = p
       /\ AcceptChunk(chunks, g).head = IF p = 1 THEN SubSeq(chunks, 1, 1) ELSE SubSeq(chunks, 1, 2)
    BY <1>9 DEF AcceptChunk, c
<1>16. AcceptArith(chunks, K, Counters).first_decode = chunks[1]
    BY DEF AcceptArith
<1> QED BY <1>10, <1>11, <1>12, <1>13, <1>14, <1>15, <1>16 DEF n, g

(* What the readers of the engine's chunk_ns take for the prefill and for  *)
(* the first decode calls, they take rightly or wrongly as ChunksRead says:*)
(* in every run, whatever the routing, the sets, the prompt, the           *)
(* micro-batch and the number of layers.                                   *)
THEOREM ChunksOfEveryRun == RunSpec => []ChunksRead
<1>1. RunInit => TimedInv
    BY DEF RunInit, TimedInv
<1> QED BY <1>1, StepTimed, TimedRead, PTL DEF RunSpec

----------------------------------------------------------------------------
(* The calls of a run, and what they log and lease.                        *)

\* A call begins at a token of the prompt that is a multiple of the micro-batch,
\* or at a generated one.
Begins(lo, n, u) == lo < n => \E q \in Nat : lo = u * q
EndOf(lo, n, u) == IF lo < n THEN Lower(lo + u, n) ELSE lo + 1

\* The calls of the prompt, and of each of its tokens.
LEMMA PromptCalls ==
    ASSUME NEW n \in Nat \ {0}, NEW u \in Nat \ {0}
    PROVE  /\ (n + u - 1) \div u \in Nat \ {0}
           /\ \A k \in Nat : k < n => /\ k \div u \in Nat /\ k \div u < (n + u - 1) \div u
                                      /\ CallOf(k, n, u) = k \div u
           /\ \A k \in Nat : k >= n => CallOf(k, n, u) = ((n + u - 1) \div u) + (k - n)
           /\ CallOf(n - 1, n, u) = ((n + u - 1) \div u) - 1
<1> DEFINE p == (n - 1) \div u
<1>1. p \in Int /\ u * p <= n - 1 /\ n - 1 < u * p + u
    BY Quotient
<1>2. \A k \in Nat : k \div u \in Nat /\ u * (k \div u) <= k /\ k < u * (k \div u) + u
    BY Quotient
<1>3. p \in Nat
    <2>1. n - 1 \in Nat
        OBVIOUS
    <2> QED BY <1>2, <2>1
<1> HIDE DEF p
<1>4. (n + u - 1) \div u = p + 1
    <2>1. u * (p + 1) = u * p + u /\ u * p \in Int
        BY <1>1
    <2>2. u * (p + 1) <= n + u - 1 /\ n + u - 1 < u * (p + 1) + u
        BY <1>1, <2>1
    <2>3. p + 1 \in Int /\ n + u - 1 \in Int
        BY <1>1
    <2> QED BY <2>2, <2>3, QuotientIs
<1>5. ASSUME NEW k \in Nat, k < n PROVE k \div u < p + 1
    <2> DEFINE q == k \div u
    <2>1. q \in Nat /\ u * q <= k
        BY <1>2
    <2> HIDE DEF q
    <2>2. ASSUME p + 1 <= q PROVE FALSE
        <3>1. u * (p + 1) <= u * q /\ u * (p + 1) = u * p + u
            BY <1>1, <2>1, <2>2, Monotone
        <3>2. u * p \in Int /\ u * q \in Int
            BY <1>1, <2>1
        <3> QED BY <1>1, <1>5, <2>1, <3>1, <3>2
    <2>3. q < p + 1
        BY <1>1, <2>1, <2>2
    <2> QED BY <2>3 DEF q
<1>6. CallOf(n - 1, n, u) = (p + 1) - 1
    <2>1. n - 1 < n
        OBVIOUS
    <2>2. CallOf(n - 1, n, u) = p
        BY <2>1 DEF CallOf, p
    <2> QED BY <1>1, <2>2
<1>7. \A k \in Nat : k < n => CallOf(k, n, u) = k \div u
    BY DEF CallOf
<1>8. \A k \in Nat : k >= n => CallOf(k, n, u) = ((n + u - 1) \div u) + (k - n)
    BY DEF CallOf
<1>9. \A k \in Nat : k < n => k \div u \in Nat /\ k \div u < p + 1
    BY <1>2, <1>5
<1>10. p + 1 \in Nat \ {0}
    BY <1>3
<1> QED BY <1>4, <1>6, <1>7, <1>8, <1>9, <1>10

\* Calls are numbered in the order of their tokens.
LEMMA CallsInOrder ==
    ASSUME NEW n \in Nat \ {0}, NEW u \in Nat \ {0}
    PROVE  /\ \A k \in Nat : CallOf(k, n, u) \in Nat
           /\ \A j, k \in Nat : j <= k => CallOf(j, n, u) <= CallOf(k, n, u)
<1> DEFINE p == (n + u - 1) \div u
           C(k) == CallOf(k, n, u)
<1>1. /\ p \in Nat \ {0}
      /\ \A k \in Nat : k < n => k \div u \in Nat /\ k \div u < p /\ C(k) = k \div u
      /\ \A k \in Nat : k >= n => C(k) = p + (k - n)
    BY PromptCalls
<1>2. \A k \in Nat : k \div u \in Int /\ u * (k \div u) <= k /\ k < u * (k \div u) + u
    BY Quotient
<1> HIDE DEF p, C
<1>3. ASSUME NEW k \in Nat PROVE C(k) \in Nat
    BY <1>1
<1>4. ASSUME NEW j \in Nat, NEW k \in Nat, j <= k PROVE C(j) <= C(k)
    <2>1. CASE k < n
        <3> DEFINE a == j \div u
                   b == k \div u
        <3>1. C(j) = a /\ C(k) = b
            BY <1>1, <1>4, <2>1
        <3>2. a \in Int /\ b \in Int /\ u * a <= j /\ k < u * b + u
            BY <1>2
        <3> HIDE DEF a, b
        <3>3. ASSUME b < a PROVE FALSE
            <4> DEFINE x == u * a
                       y == u * b
            <4>1. u * (b + 1) <= x /\ u * (b + 1) = y + u
                BY <3>2, <3>3, Monotone
            <4>2. x \in Int /\ y \in Int /\ x <= j /\ k < y + u
                BY <3>2
            <4>3. y + u <= x
                BY <4>1
            <4> HIDE DEF x, y
            <4> QED BY <1>4, <4>2, <4>3
        <3> QED BY <3>1, <3>2, <3>3
    <2>2. CASE ~(k < n)
        <3>1. C(k) = p + (k - n)
            BY <1>1, <2>2
        <3>2. CASE j < n
            <4>1. C(j) < p /\ C(j) \in Nat /\ p \in Nat
                BY <1>1, <3>2
            <4> QED BY <2>2, <3>1, <4>1
        <3>3. CASE ~(j < n)
            <4>1. C(j) = p + (j - n)
                BY <1>1, <3>3
            <4> QED BY <1>1, <1>4, <3>1, <4>1
        <3> QED BY <3>2, <3>3
    <2> QED BY <2>1, <2>2
<1> QED BY <1>3, <1>4 DEF C

\* A call that begins at lo computes the tokens up to its end and no others, and
\* the next one begins there.
LEMMA CallTokens ==
    ASSUME NEW n \in Nat \ {0}, NEW u \in Nat \ {0}, NEW lo \in Nat, Begins(lo, n, u)
    PROVE  /\ EndOf(lo, n, u) \in Nat /\ lo < EndOf(lo, n, u)
           /\ Begins(EndOf(lo, n, u), n, u)
           /\ \A k \in Nat : CallOf(k, n, u) = CallOf(lo, n, u) <=> lo <= k /\ k < EndOf(lo, n, u)
           /\ CallOf(EndOf(lo, n, u), n, u) = CallOf(lo, n, u) + 1
<1> DEFINE p == (n + u - 1) \div u
           C(k) == CallOf(k, n, u)
           hi == EndOf(lo, n, u)
<1>1. /\ p \in Nat \ {0}
      /\ \A k \in Nat : k < n => k \div u \in Nat /\ k \div u < p /\ C(k) = k \div u
      /\ \A k \in Nat : k >= n => C(k) = p + (k - n)
      /\ C(n - 1) = p - 1
    BY PromptCalls
<1>2. /\ \A k \in Nat : C(k) \in Nat
      /\ \A j, k \in Nat : j <= k => C(j) <= C(k)
    BY CallsInOrder
<1>3. hi = IF lo < n THEN (IF lo + u <= n THEN lo + u ELSE n) ELSE lo + 1
    BY DEF EndOf, Lower
<1>4. hi \in Nat /\ lo < hi
    <2> HIDE DEF hi
    <2> QED BY <1>3
<1>5. CASE lo < n
    <2>1. PICK q \in Nat : lo = u * q
        BY <1>5 DEF Begins
    <2>2. u * (q + 1) = lo + u
        BY <2>1
    <2>3. \A k \in Nat : u * q <= k /\ k < u * q + u => k \div u = q
        BY <2>1, QuotientIs
    <2> HIDE DEF p, C, hi
    <2>4. C(lo) = q
        <3>1. u * q <= lo /\ lo < u * q + u
            BY <2>1
        <3>2. lo \div u = q
            BY <2>3, <3>1
        <3> QED BY <1>1, <1>5, <3>2
    <2>5. C(hi - 1) = q
        <3>1. hi - 1 \in Nat /\ lo <= hi - 1 /\ hi - 1 < lo + u /\ hi - 1 < n
            BY <1>3, <1>5
        <3>2. (hi - 1) \div u = q
            BY <2>1, <2>3, <3>1
        <3> QED BY <1>1, <3>1, <3>2
    <2>6. C(hi) = q + 1
        <3>1. CASE hi < n
            <4>1. hi = u * (q + 1)
                BY <1>3, <1>5, <2>2, <3>1
            <4>2. hi \in Int /\ q + 1 \in Int /\ u * (q + 1) <= hi /\ hi < u * (q + 1) + u
                BY <1>4, <4>1
            <4>3. hi \div u = q + 1
                BY <4>2, QuotientIs
            <4> QED BY <1>1, <1>4, <3>1, <4>3
        <3>2. CASE ~(hi < n)
            <4>1. hi = n
                BY <1>3, <1>5, <3>2
            <4>2. C(n) = p
                BY <1>1
            <4> QED BY <1>1, <2>5, <4>1, <4>2
        <3> QED BY <3>1, <3>2
    <2>7. Begins(hi, n, u)
        <3> SUFFICES ASSUME hi < n PROVE \E r \in Nat : hi = u * r
            BY DEF Begins
        <3>1. hi = u * (q + 1) /\ q + 1 \in Nat
            BY <1>3, <1>5, <2>2
        <3> QED BY <3>1
    <2>8. ASSUME NEW k \in Nat PROVE C(k) = q <=> lo <= k /\ k < hi
        <3>1. ASSUME lo <= k, k < hi PROVE C(k) = q
            <4>1. k <= hi - 1 /\ hi - 1 \in Nat
                BY <1>4, <3>1
            <4>2. C(lo) <= C(k) /\ C(k) <= C(hi - 1) /\ C(k) \in Nat
                BY <1>2, <3>1, <4>1
            <4> QED BY <2>4, <2>5, <4>2
        <3>2. ASSUME hi <= k PROVE C(k) # q
            <4>1. C(hi) <= C(k) /\ C(k) \in Nat
                BY <1>2, <1>4, <3>2
            <4> QED BY <2>6, <4>1
        <3>3. ASSUME k < lo PROVE C(k) # q
            <4> DEFINE r == k \div u
            <4>1. k < n /\ k \in Int /\ u * r <= k
                BY <1>5, <3>3, Quotient
            <4>2. r \in Nat /\ C(k) = r
                BY <1>1, <4>1
            <4> HIDE DEF r
            <4>3. r # q
                BY <2>1, <3>3, <4>1
            <4> QED BY <4>2, <4>3
        <3> QED BY <1>4, <3>1, <3>2, <3>3
    <2> QED BY <1>4, <2>4, <2>6, <2>7, <2>8 DEF C, hi
<1>6. CASE ~(lo < n)
    <2>1. hi = lo + 1
        BY <1>3, <1>6
    <2> HIDE DEF p, C, hi
    <2>2. C(lo) = p + (lo - n) /\ C(hi) = p + (hi - n)
        BY <1>1, <1>4, <1>6, <2>1
    <2>3. Begins(hi, n, u)
        <3>1. ~(hi < n)
            BY <1>6, <2>1
        <3> QED BY <3>1 DEF Begins
    <2>4. ASSUME NEW k \in Nat PROVE C(k) = C(lo) <=> lo <= k /\ k < hi
        <3>1. CASE k < n
            <4>1. C(k) < p /\ C(k) \in Nat
                BY <1>1, <3>1
            <4> QED BY <1>1, <1>6, <2>1, <2>2, <3>1, <4>1
        <3>2. CASE ~(k < n)
            <4>1. C(k) = p + (k - n)
                BY <1>1, <3>2
            <4> QED BY <1>1, <1>6, <2>1, <2>2, <3>2, <4>1
        <3> QED BY <3>1, <3>2
    <2>5. C(hi) = C(lo) + 1
        BY <1>1, <2>1, <2>2
    <2> QED BY <1>4, <2>3, <2>4, <2>5 DEF C, hi
<1> QED BY <1>5, <1>6

----------------------------------------------------------------------------
(* What a run under way has logged and counted.                            *)

Row(l, k) == [layer |-> l, token |-> k, ids |-> routing[l][k + 1]]
LogRows == {Row(l, k) : l \in Layers, k \in 0 .. T - 1}
CallAt(k) == CallOf(k, shape.n_prompt, shape.ub)

\* What layer l needs for token k beyond its residents, and for a whole call.
Wanted(l, k) == ToSet(routing[l][k + 1]) \ resident[l]
NeedOf(l, c) == UNION {Wanted(l, k) : k \in {x \in 0 .. T - 1 : CallAt(x) = c}}

\* The tokens that layer l has been through.
Through(l) == IF l < il THEN CallEnd(first) ELSE first

\* The router ranks distinct experts, and every layer holds as many.
RouteOK ==
    /\ routing \in [Layers -> [1 .. T -> [1 .. Picks -> Experts]]]
    /\ \A l \in Layers : \A k \in 1 .. T : \A i, j \in 1 .. Picks :
          routing[l][k][i] = routing[l][k][j] => i = j
    /\ resident \in EvenSets

\* The log has the rows that have been computed, each layer's in order, and the
\* pieces that its layer column tells apart are the calls.
LogIs ==
    /\ file \in Seq(LogRows)
    /\ \A i \in 1 .. Len(file) : file[i].token < Through(file[i].layer)
    /\ \A l \in Layers : \A k \in 0 .. Through(l) - 1 :
          \E i \in 1 .. Len(file) : file[i].layer = l /\ file[i].token = k
    /\ \A i, j \in 1 .. Len(file) :
          i < j /\ file[i].layer = file[j].layer => file[i].token < file[j].token
    /\ \A i \in 1 .. Len(file) : PieceOf(file, i) = CallAt(file[i].token) + 1
    /\ Len(file) = 0 <=> first = 0 /\ il = 0
    /\ Len(file) > 0 =>
          /\ file[Len(file)].layer = IF il > 0 THEN il - 1 ELSE L - 1
          /\ file[Len(file)].token = (IF il > 0 THEN CallEnd(first) ELSE first) - 1

\* A call of a layer, and an expert that it leases.
LeasedIn(l) ==
    {q \in Nat \X Experts : \E k \in 0 .. Through(l) - 1 : CallAt(k) = q[1] /\ q[2] \in Wanted(l, k)}

\* The needs so far of the calls from token lo on, and the largest of them.
NeedsFrom(lo) ==
    {Cardinality(NeedOf(p[1], CallAt(p[2]))) :
        p \in {q \in Layers \X (0 .. T - 1) : lo <= q[2] /\ q[2] < Through(q[1])}}
PeakIs(p, S) == p \in Nat /\ S \in SUBSET Nat /\ (\A x \in S : x <= p) /\ (p = 0 \/ p \in S)

LeasesCounted ==
    /\ lease_events \in [Layers -> Nat]
    /\ \A l \in Layers : lease_events[l] = Cardinality(LeasedIn(l))
    /\ PeakIs(peak_leased, NeedsFrom(0))
    /\ PeakIs(decode_leased, NeedsFrom(shape.n_prompt))

LeaseInv ==
    /\ stage = "idle" =>
          /\ file = <<>> /\ lease_events = [l \in Layers |-> 0]
          /\ peak_leased = 0 /\ decode_leased = 0
    /\ stage \in {"running", "done"} =>
          RouteOK /\ Begins(first, shape.n_prompt, shape.ub) /\ LogIs /\ LeasesCounted

LEMMA RowFields ==
    ASSUME NEW l, NEW k
    PROVE  Row(l, k).layer = l /\ Row(l, k).token = k /\ Row(l, k).ids = routing[l][k + 1]
BY DEF Row

LEMMA CallEndIs == ASSUME NEW lo PROVE CallEnd(lo) = EndOf(lo, shape.n_prompt, shape.ub)
BY DEF CallEnd, EndOf

\* The call under way.
LEMMA CallUnderway ==
    ASSUME ShapeOK, NEW lo \in Nat, lo < T, Begins(lo, shape.n_prompt, shape.ub)
    PROVE  /\ CallEnd(lo) \in Nat /\ lo < CallEnd(lo) /\ CallEnd(lo) <= T
           /\ Begins(CallEnd(lo), shape.n_prompt, shape.ub)
           /\ \A k \in Nat : CallAt(k) \in Nat
           /\ \A k \in Nat : CallAt(k) = CallAt(lo) <=> lo <= k /\ k < CallEnd(lo)
           /\ CallAt(CallEnd(lo)) = CallAt(lo) + 1
           /\ lo < shape.n_prompt => CallEnd(lo) <= shape.n_prompt
<1>1. shape.n_prompt \in Nat \ {0} /\ shape.ub \in Nat \ {0}
    BY ShapeIs
<1>2. CallEnd(lo) = EndOf(lo, shape.n_prompt, shape.ub)
    BY CallEndIs
<1>3. /\ Begins(EndOf(lo, shape.n_prompt, shape.ub), shape.n_prompt, shape.ub)
      /\ \A k \in Nat : CallOf(k, shape.n_prompt, shape.ub) = CallOf(lo, shape.n_prompt, shape.ub)
                           <=> lo <= k /\ k < EndOf(lo, shape.n_prompt, shape.ub)
      /\ CallOf(EndOf(lo, shape.n_prompt, shape.ub), shape.n_prompt, shape.ub)
            = CallOf(lo, shape.n_prompt, shape.ub) + 1
    BY <1>1, CallTokens
<1>4. \A k \in Nat : CallOf(k, shape.n_prompt, shape.ub) \in Nat
    BY <1>1, CallsInOrder
<1>5. CallEnd(lo) \in Nat /\ lo < CallEnd(lo) /\ CallEnd(lo) <= T
      /\ (lo < shape.n_prompt => CallEnd(lo) <= shape.n_prompt)
    BY CallEnds
<1> QED BY <1>2, <1>3, <1>4, <1>5 DEF CallAt

\* The last token before a call is of the call before.
LEMMA CallBefore ==
    ASSUME ShapeOK, NEW lo \in Nat, lo > 0, Begins(lo, shape.n_prompt, shape.ub)
    PROVE  CallAt(lo - 1) + 1 = CallAt(lo)
<1> DEFINE n == shape.n_prompt
           u == shape.ub
<1>1. n \in Nat \ {0} /\ u \in Nat \ {0}
    BY ShapeIs
<1> HIDE DEF n, u
<1>2. /\ (n + u - 1) \div u \in Nat \ {0}
      /\ \A k \in Nat : k < n => /\ k \div u \in Nat /\ k \div u < (n + u - 1) \div u
                                 /\ CallOf(k, n, u) = k \div u
      /\ \A k \in Nat : k >= n => CallOf(k, n, u) = ((n + u - 1) \div u) + (k - n)
      /\ CallOf(n - 1, n, u) = ((n + u - 1) \div u) - 1
    BY <1>1, PromptCalls, Zenon
<1>3. CASE lo < n
    <2>1. PICK q \in Nat : lo = u * q
        BY <1>3 DEF Begins, n, u
    <2>2. q > 0 /\ q - 1 \in Nat /\ u * (q - 1) = lo - u
        <3>1. q # 0
            BY <1>1, <2>1
        <3>2. u * (q - 1) = u * q - u
            BY <1>1, <3>1
        <3> QED BY <2>1, <3>1, <3>2
    <2>3. lo \div u = q
        <3>1. u * q <= lo /\ lo < u * q + u
            BY <1>1, <2>1
        <3> QED BY <1>1, <3>1, QuotientIs
    <2>4. (lo - 1) \div u = q - 1
        <3> DEFINE r == q - 1
        <3>1. r \in Int /\ lo - 1 \in Int /\ u * r <= lo - 1 /\ lo - 1 < u * r + u
            BY <1>1, <2>2
        <3> HIDE DEF r
        <3>2. (lo - 1) \div u = r
            BY <1>1, <3>1, QuotientIs
        <3> QED BY <3>2 DEF r
    <2>5. CallOf(lo, n, u) = q
        BY <1>2, <1>3, <2>3
    <2>6. CallOf(lo - 1, n, u) = q - 1
        <3>1. lo - 1 \in Nat /\ lo - 1 < n
            BY <1>1, <1>3
        <3> QED BY <1>2, <2>4, <3>1
    <2>7. CallOf(lo - 1, n, u) + 1 = CallOf(lo, n, u)
        BY <2>2, <2>5, <2>6
    <2> QED BY <2>7 DEF CallAt, n, u
<1>4. CASE ~(lo < n)
    <2> DEFINE p == (n + u - 1) \div u
    <2>1. p \in Nat /\ CallOf(lo, n, u) = p + (lo - n) /\ CallOf(n - 1, n, u) = p - 1
        BY <1>1, <1>2, <1>4
    <2>2. lo > n => CallOf(lo - 1, n, u) = p + (lo - 1 - n)
        BY <1>1, <1>2, <1>4
    <2> HIDE DEF p
    <2>3. CallOf(lo - 1, n, u) + 1 = CallOf(lo, n, u)
        <3>1. CASE lo = n
            BY <1>1, <2>1, <3>1
        <3>2. CASE lo # n
            BY <1>1, <1>4, <2>1, <2>2, <3>2
        <3> QED BY <3>1, <3>2
    <2> QED BY <2>3 DEF CallAt, n, u
<1> QED BY <1>3, <1>4

\* What a route call does to the place in the run.
LEMMA CallMoves ==
    ASSUME TimedInv, RunCall, Begins(first, shape.n_prompt, shape.ub)
    PROVE  /\ ShapeOK /\ first \in Nat /\ first < T /\ il \in Layers
           /\ L \in Nat \ {0} /\ T \in Nat \ {0} /\ il \in Nat /\ il < L
           /\ shape' = shape /\ routing' = routing /\ resident' = resident
           /\ il' = (IF il = L - 1 THEN 0 ELSE il + 1)
           /\ first' = (IF il = L - 1 THEN CallEnd(first) ELSE first)
           /\ \A lo : CallEnd(lo)' = CallEnd(lo)
           /\ \A l \in Layers : Through(l)' = IF l = il THEN CallEnd(first) ELSE Through(l)
           /\ Through(il) = first
           /\ Begins(first', shape.n_prompt, shape.ub)
<1> DEFINE hi == CallEnd(first)
<1>1. /\ stage = "running" /\ shape' = shape /\ routing' = routing /\ resident' = resident
      /\ il' = (il + 1) % L
      /\ first' = IF il = L - 1 THEN hi ELSE first
    BY DEF RunCall
<1>2. ShapeOK /\ Underway
    BY <1>1 DEF TimedInv
<1>3. /\ first \in 0 .. T /\ first < T /\ il \in Layers
    BY <1>1, <1>2 DEF Underway
<1>4. T \in Nat \ {0} /\ L \in Nat \ {0} /\ first \in Nat /\ il \in 0 .. L - 1
    BY <1>3, LogAssumption DEF Layers
<1>5. il' = IF il = L - 1 THEN 0 ELSE il + 1
    BY <1>1, <1>4
<1>6. \A lo : CallEnd(lo)' = CallEnd(lo)
    BY <1>1 DEF CallEnd
<1>7. hi \in Nat /\ Begins(hi, shape.n_prompt, shape.ub)
    BY <1>2, <1>3, <1>4, CallUnderway
<1>8. Begins(first', shape.n_prompt, shape.ub)
    <2> HIDE DEF hi
    <2>1. CASE il = L - 1
        <3>1. first' = hi
            BY <1>1, <2>1
        <3> QED BY <1>7, <3>1
    <2>2. CASE il # L - 1
        <3>1. first' = first
            BY <1>1, <2>2
        <3> QED BY <3>1
    <2> QED BY <2>1, <2>2
<1>9. CallEnd(first)' = IF il = L - 1 THEN CallEnd(hi) ELSE hi
    <2>1. CASE il = L - 1
        <3>1. first' = hi
            BY <1>1, <2>1
        <3> HIDE DEF hi
        <3>2. CallEnd(first)' = CallEnd(hi)
            BY <1>1, <3>1 DEF CallEnd
        <3> QED BY <2>1, <3>2
    <2>2. CASE il # L - 1
        <3>1. first' = first
            BY <1>1, <2>2
        <3>2. CallEnd(first)' = CallEnd(first)
            BY <1>1, <3>1 DEF CallEnd
        <3> QED BY <2>2, <3>2
    <2> QED BY <2>1, <2>2
<1> HIDE DEF hi
<1>10. ASSUME NEW l \in Layers PROVE Through(l)' = IF l = il THEN hi ELSE Through(l)
    <2>1. l \in 0 .. L - 1
        BY DEF Layers
    <2>2. Through(l) = IF l < il THEN hi ELSE first
        BY DEF Through, hi
    <2>3. CASE il = L - 1
        <3>1. il' = 0 /\ first' = hi /\ ~(l < 0)
            BY <1>1, <1>5, <2>1, <2>3
        <3>2. Through(l)' = hi
            BY <3>1 DEF Through
        <3>3. l = il \/ l < il
            BY <1>4, <2>1, <2>3
        <3> QED BY <2>2, <3>2, <3>3
    <2>4. CASE il # L - 1
        <3>1. il' = il + 1 /\ first' = first /\ CallEnd(first)' = hi
            BY <1>1, <1>5, <1>9, <2>4
        <3>2. Through(l)' = IF l < il + 1 THEN hi ELSE first
            BY <3>1 DEF Through
        <3>3. l < il + 1 <=> l < il \/ l = il
            BY <1>4, <2>1
        <3>4. CASE l = il
            BY <3>2, <3>3, <3>4
        <3>5. CASE l # il
            BY <2>2, <3>2, <3>3, <3>5
        <3> QED BY <3>4, <3>5
    <2> QED BY <2>3, <2>4
<1>11. Through(il) = first
    BY <1>4 DEF Through
<1>12. il \in Nat /\ il < L
    BY <1>4
<1> QED BY <1>1, <1>2, <1>3, <1>4, <1>5, <1>6, <1>8, <1>10, <1>11, <1>12 DEF hi

----------------------------------------------------------------------------
(* The log grows by the rows of a route call.                              *)

\* Where a piece begins, up to row i.
Turns(f, i) == {j \in 2 .. i : f[j].layer = 0 /\ f[j - 1].layer # 0}

LEMMA TurnsFinite == ASSUME NEW f, NEW i \in Nat
    PROVE  IsFiniteSet(Turns(f, i)) /\ Cardinality(Turns(f, i)) \in Nat
           /\ PieceOf(f, i) = 1 + Cardinality(Turns(f, i))
<1>1. IsFiniteSet(2 .. i)
    <2>1. 2 \in Int /\ i \in Int
        OBVIOUS
    <2> QED BY <2>1, FS_Interval
<1>2. Turns(f, i) \in SUBSET (2 .. i)
    BY DEF Turns
<1> QED BY <1>1, <1>2, FS_Subset, FS_CardinalityType DEF PieceOf, Turns

LEMMA NoTurn ==
    ASSUME NEW f, NEW g, NEW m \in Nat, NEW i \in Nat, m <= i,
           \A j \in 1 .. m : g[j] = f[j],
           \A j \in m + 1 .. i : j > 1 => ~(g[j].layer = 0 /\ g[j - 1].layer # 0)
    PROVE  PieceOf(g, i) = PieceOf(f, m)
<1>1. ASSUME NEW j \in 2 .. i PROVE (g[j].layer = 0 /\ g[j - 1].layer # 0)
                                    <=> j <= m /\ f[j].layer = 0 /\ f[j - 1].layer # 0
    <2>1. CASE j <= m
        <3>1. j \in 1 .. m /\ j - 1 \in 1 .. m
            BY <2>1
        <3>2. g[j] = f[j] /\ g[j - 1] = f[j - 1]
            BY <3>1
        <3> QED BY <2>1, <3>2
    <2>2. CASE ~(j <= m)
        <3>1. j \in m + 1 .. i /\ j > 1
            BY <2>2
        <3> QED BY <2>2, <3>1
    <2> QED BY <2>1, <2>2
<1>2. \A j : j \in 2 .. i /\ j <= m <=> j \in 2 .. m
    OBVIOUS
<1>3. Turns(g, i) = Turns(f, m)
    BY <1>1, <1>2 DEF Turns
<1> QED BY <1>3, TurnsFinite

LEMMA OneTurn ==
    ASSUME NEW f, NEW g, NEW m \in Nat, NEW i \in Nat, 1 <= m, m + 1 <= i,
           \A j \in 1 .. m : g[j] = f[j],
           g[m + 1].layer = 0, f[m].layer # 0,
           \A j \in m + 2 .. i : g[j - 1].layer = 0
    PROVE  PieceOf(g, i) = PieceOf(f, m) + 1
<1>1. ASSUME NEW j \in 2 .. i PROVE (g[j].layer = 0 /\ g[j - 1].layer # 0)
                                    <=> j = m + 1 \/ (j <= m /\ f[j].layer = 0 /\ f[j - 1].layer # 0)
    <2>1. CASE j <= m
        <3>1. j \in 1 .. m /\ j - 1 \in 1 .. m
            BY <2>1
        <3>2. g[j] = f[j] /\ g[j - 1] = f[j - 1]
            BY <3>1
        <3>3. j # m + 1
            BY <2>1
        <3> QED BY <2>1, <3>2, <3>3
    <2>2. CASE j = m + 1
        <3>1. m \in 1 .. m /\ j - 1 = m
            BY <2>2
        <3>2. g[j - 1] = f[m]
            BY <3>1
        <3> QED BY <2>2, <3>2
    <2>3. CASE j > m + 1
        <3>1. j \in m + 2 .. i /\ j # m + 1 /\ ~(j <= m)
            BY <2>3
        <3> QED BY <3>1
    <2> QED BY <2>1, <2>2, <2>3
<1>2. /\ \A j : j \in 2 .. i /\ j <= m <=> j \in 2 .. m
      /\ m + 1 \in 2 .. i /\ m + 1 \notin 2 .. m
    OBVIOUS
<1>3. Turns(g, i) = Turns(f, m) \cup {m + 1}
    BY <1>1, <1>2 DEF Turns
<1>4. m + 1 \notin Turns(f, m)
    BY <1>2 DEF Turns
<1>5. IsFiniteSet(Turns(f, m)) /\ Cardinality(Turns(f, m)) \in Nat
    BY TurnsFinite
<1>6. Cardinality(Turns(f, m) \cup {m + 1}) = Cardinality(Turns(f, m)) + 1
    BY <1>4, <1>5, FS_AddElement
<1>7. /\ PieceOf(f, m) = 1 + Cardinality(Turns(f, m))
      /\ PieceOf(g, i) = 1 + Cardinality(Turns(g, i))
    BY TurnsFinite
<1> QED BY <1>3, <1>5, <1>6, <1>7

\* The rows of a call, and the log with them.
LEMMA RowsAppended ==
    ASSUME TimedInv, RunCall, Begins(first, shape.n_prompt, shape.ub), RouteOK, LogIs
    PROVE  /\ Len(file) \in Nat /\ CallEnd(first) \in Nat /\ first < CallEnd(first)
           /\ CallEnd(first) <= T
           /\ file' \in Seq(LogRows) /\ Len(file') = Len(file) + (CallEnd(first) - first)
           /\ \A i \in 1 .. Len(file) : /\ file'[i] = file[i] /\ file[i].layer \in Layers
                                        /\ file[i].token \in Nat
           /\ \A i \in Len(file) + 1 .. Len(file') :
                 file'[i].layer = il /\ file'[i].token = first + (i - Len(file)) - 1
<1> DEFINE m == Len(file)
           hi == CallEnd(first)
           h == hi - first
           e == Emit(il, first, hi)
<1>1. ShapeOK /\ first \in Nat /\ first < T /\ il \in Layers /\ T \in Nat
    BY CallMoves
<1>2. hi \in Nat /\ first < hi /\ hi <= T /\ h \in Nat
    <2>1. hi \in Nat /\ first < hi /\ hi <= T
        BY <1>1, CallUnderway
    <2> HIDE DEF hi
    <2> QED BY <1>1, <2>1
<1>3. file' = file \o e
    BY DEF RunCall
<1>4. \A d \in 1 .. h : e[d] = Row(il, first + d - 1)
    <2> TAKE d \in 1 .. h
    <2>1. e[d] = [layer |-> il, token |-> first + d - 1, ids |-> routing[il][first + d]]
        BY DEF Emit
    <2>2. (first + d - 1) + 1 = first + d
        BY <1>1
    <2> HIDE DEF e
    <2> QED BY <2>1, <2>2 DEF Row
<1>5. \A d \in 1 .. h : e[d] \in LogRows
    <2> TAKE d \in 1 .. h
    <2>1. first + d - 1 \in 0 .. T - 1
        <3> HIDE DEF hi
        <3> QED BY <1>1, <1>2
    <2> HIDE DEF e
    <2> QED BY <1>1, <1>4, <2>1 DEF LogRows
<1>6. e \in Seq(LogRows) /\ Len(e) = h
    <2>1. e \in [1 .. h -> LogRows]
        <3>1. e = [d \in 1 .. h |-> e[d]]
            BY DEF Emit
        <3> HIDE DEF e, h
        <3> QED BY <1>5, <3>1
    <2> HIDE DEF e, h
    <2> QED BY <1>2, <2>1
<1>7. file \in Seq(LogRows) /\ m \in Nat
    BY DEF LogIs
<1> HIDE DEF e, h, hi
<1>8. /\ file' \in Seq(LogRows) /\ Len(file') = m + h
      /\ \A i \in 1 .. m : file'[i] = file[i]
      /\ \A i \in m + 1 .. m + h : file'[i] = e[i - m]
    <2>1. /\ file \o e \in Seq(LogRows) /\ Len(file \o e) = Len(file) + Len(e)
          /\ \A i \in 1 .. Len(file) + Len(e) :
                (file \o e)[i] = IF i <= Len(file) THEN file[i] ELSE e[i - Len(file)]
        BY <1>6, <1>7, ConcatProperties, Zenon
    <2>2. \A i \in 1 .. m + h : file'[i] = IF i <= m THEN file[i] ELSE e[i - m]
        BY <1>3, <1>6, <2>1
    <2>3. \A i \in 1 .. m : i \in 1 .. m + h /\ i <= m
        BY <1>2, <1>7
    <2>4. \A i \in m + 1 .. m + h : i \in 1 .. m + h /\ ~(i <= m)
        BY <1>2, <1>7
    <2> QED BY <1>3, <1>6, <2>1, <2>2, <2>3, <2>4
<1>9. ASSUME NEW i \in m + 1 .. m + h
      PROVE  file'[i].layer = il /\ file'[i].token = first + (i - m) - 1
    <2>1. i - m \in 1 .. h
        BY <1>2, <1>7
    <2>2. file'[i] = Row(il, first + (i - m) - 1)
        BY <1>4, <1>8, <2>1
    <2> QED BY <2>2, RowFields
<1>10. ASSUME NEW i \in 1 .. m PROVE file[i].layer \in Layers /\ file[i].token \in Nat
    <2>1. file[i] \in LogRows
        BY <1>7
    <2>2. PICK l \in Layers, k \in 0 .. T - 1 : file[i] = Row(l, k)
        BY <2>1 DEF LogRows
    <2> QED BY <2>2, RowFields
<1> QED BY <1>2, <1>7, <1>8, <1>9, <1>10 DEF h, hi

LEMMA PiecesGrow ==
    ASSUME TimedInv, RunCall, Begins(first, shape.n_prompt, shape.ub), RouteOK, LogIs
    PROVE  \A i \in 1 .. Len(file') : PieceOf(file', i) = CallAt(file'[i].token) + 1
<1> DEFINE m == Len(file)
           hi == CallEnd(first)
           C(k) == CallAt(k)
<1>1. /\ ShapeOK /\ first \in Nat /\ first < T /\ il \in Nat /\ il < L /\ L \in Nat
      /\ il \in Layers
    BY CallMoves
<1>2. /\ m \in Nat /\ hi \in Nat /\ first < hi /\ hi <= T
      /\ Len(file') = m + (hi - first)
      /\ \A i \in 1 .. m : file'[i] = file[i] /\ file[i].layer \in Layers /\ file[i].token \in Nat
      /\ \A i \in m + 1 .. Len(file') :
            file'[i].layer = il /\ file'[i].token = first + (i - m) - 1
    BY RowsAppended
<1>3. /\ \A i \in 1 .. m : PieceOf(file, i) = C(file[i].token) + 1
      /\ m = 0 <=> first = 0 /\ il = 0
      /\ m > 0 => /\ file[m].layer = IF il > 0 THEN il - 1 ELSE L - 1
                  /\ file[m].token = (IF il > 0 THEN hi ELSE first) - 1
    BY DEF LogIs
<1>4. /\ \A k \in Nat : C(k) \in Nat
      /\ \A k \in Nat : C(k) = C(first) <=> first <= k /\ k < hi
    BY <1>1, CallUnderway
<1>5. first > 0 => C(first - 1) + 1 = C(first)
    BY <1>1, CallBefore
<1>6. first = 0 => C(first) = 0
    <2> SUFFICES ASSUME first = 0 PROVE CallOf(0, shape.n_prompt, shape.ub) = 0
        BY DEF CallAt
    <2> DEFINE u == shape.ub
    <2>1. shape.n_prompt \in Nat \ {0} /\ u \in Nat \ {0}
        BY <1>1, ShapeIs
    <2> HIDE DEF u
    <2>2. 0 \div u = 0
        BY <2>1
    <2>3. 0 < shape.n_prompt
        BY <2>1
    <2> QED BY <2>2, <2>3 DEF CallOf, u
<1> DEFINE n == Len(file')
           g == file'
<1>7. n \in Nat /\ m < n /\ n = m + (hi - first)
    <2>1. n = m + (hi - first) /\ m \in Nat /\ hi \in Nat /\ first < hi
        BY <1>2
    <2> HIDE DEF m, hi, n
    <2> QED BY <1>1, <2>1
<1>8. \A i \in 1 .. m : g[i] = file[i]
    <2> HIDE DEF m, hi, C
    <2> QED BY <1>2
<1>9. \A i \in m + 1 .. n : g[i].layer = il /\ g[i].token = first + (i - m) - 1
    BY <1>2
<1>10. L > 1
    BY RunAssumption
<1> HIDE DEF m, hi, C, n, g
<1>11. ASSUME NEW i \in m + 1 .. n PROVE C(g[i].token) = C(first)
    <2> DEFINE k == first + (i - m) - 1
    <2>1. k \in Nat /\ first <= k /\ k < hi
        BY <1>1, <1>2, <1>7
    <2>2. g[i].token = k
        BY <1>9
    <2> HIDE DEF k
    <2> QED BY <1>4, <2>1, <2>2
<1>12. ASSUME NEW i \in 1 .. m PROVE PieceOf(g, i) = C(g[i].token) + 1
    <2>1. \A j \in 1 .. i : g[j] = file[j]
        BY <1>2, <1>8
    <2>2. i + 1 .. i = {} /\ i \in Nat
        BY <1>2
    <2>3. PieceOf(g, i) = PieceOf(file, i)
        BY <2>1, <2>2, NoTurn
    <2> QED BY <1>3, <1>8, <2>3
<1>13. ASSUME NEW i \in m + 1 .. n PROVE PieceOf(g, i) = C(first) + 1
    <2>1. i \in Nat /\ m + 1 <= i /\ m <= i
        BY <1>2, <1>7
    <2>2. CASE il > 0
        <3>1. m > 0 /\ m \in 1 .. m
            BY <1>2, <1>3, <2>2
        <3>2. file[m].token = hi - 1
            BY <1>3, <2>2, <3>1
        <3>3. hi - 1 \in Nat /\ first <= hi - 1 /\ hi - 1 < hi
            BY <1>1, <1>2
        <3>4. C(hi - 1) = C(first)
            BY <1>4, <3>3
        <3>5. PieceOf(file, m) = C(first) + 1
            BY <1>3, <3>1, <3>2, <3>4
        <3>6. ASSUME NEW j \in m + 1 .. i PROVE g[j].layer # 0
            <4>1. j \in m + 1 .. n
                BY <1>2, <1>7
            <4> QED BY <1>9, <2>2, <4>1
        <3>7. PieceOf(g, i) = PieceOf(file, m)
            BY <1>2, <1>8, <2>1, <3>6, NoTurn
        <3> QED BY <3>5, <3>7
    <2>3. CASE il = 0 /\ m > 0
        <3>1. first > 0 /\ m \in 1 .. m
            BY <1>1, <1>2, <1>3, <2>3
        <3>2. file[m].token = first - 1 /\ file[m].layer = L - 1
            BY <1>3, <2>3
        <3>3. PieceOf(file, m) = C(first)
            BY <1>3, <1>5, <3>1, <3>2
        <3>4. file[m].layer # 0
            BY <1>1, <1>10, <3>2
        <3>5. m + 1 \in m + 1 .. n
            BY <1>2, <1>7
        <3>6. g[m + 1].layer = 0
            BY <1>9, <2>3, <3>5
        <3>7. ASSUME NEW j \in m + 2 .. i PROVE g[j - 1].layer = 0
            <4>1. j - 1 \in m + 1 .. n
                BY <1>2, <1>7
            <4> QED BY <1>9, <2>3, <4>1
        <3>8. 1 <= m
            BY <1>2, <2>3
        <3>9. PieceOf(g, i) = PieceOf(file, m) + 1
            BY <1>2, <1>8, <2>1, <3>4, <3>6, <3>7, <3>8, OneTurn
        <3> QED BY <3>3, <3>9
    <2>4. CASE il = 0 /\ m = 0
        <3>1. first = 0 /\ C(first) = 0
            BY <1>3, <1>6, <2>4
        <3>2. ASSUME NEW j \in m + 1 .. i, j > 1 PROVE g[j - 1].layer = 0
            <4>1. j - 1 \in m + 1 .. n
                BY <1>2, <1>7, <2>4, <3>2
            <4> QED BY <1>9, <2>4, <4>1
        <3>3. PieceOf(g, i) = PieceOf(file, m)
            <4>1. \A j \in m + 1 .. i : j > 1 => ~(g[j].layer = 0 /\ g[j - 1].layer # 0)
                BY <3>2
            <4>2. m \in Nat /\ m <= i /\ i \in Nat
                BY <1>2, <2>1
            <4> QED BY <1>8, <4>1, <4>2, NoTurn, SMTT(20)
        <3>4. Turns(file, 0) = {}
            <4>1. 2 .. 0 = {}
                OBVIOUS
            <4> QED BY <4>1 DEF Turns
        <3>5. PieceOf(file, 0) = 1
            BY <3>4, TurnsFinite, FS_EmptySet
        <3> QED BY <2>4, <3>1, <3>3, <3>5
    <2> QED BY <1>1, <1>2, <2>2, <2>3, <2>4
<1>14. ASSUME NEW i \in 1 .. n PROVE PieceOf(g, i) = C(g[i].token) + 1
    <2>1. CASE i <= m
        <3>1. i \in 1 .. m
            BY <1>2, <2>1
        <3> QED BY <1>12, <3>1
    <2>2. CASE ~(i <= m)
        <3>1. i \in m + 1 .. n
            BY <1>2, <1>7, <2>2
        <3> QED BY <1>11, <1>13, <3>1
    <2> QED BY <2>1, <2>2
<1> QED BY <1>14 DEF n, g, C

\* The log is what it is meant to be after the call.
LEMMA LogGrows ==
    ASSUME TimedInv, RunCall, Begins(first, shape.n_prompt, shape.ub), RouteOK, LogIs
    PROVE  LogIs'
<1> DEFINE m == Len(file)
           hi == CallEnd(first)
           n == Len(file')
           g == file'
           Old(l) == Through(l)
           New(l) == IF l = il THEN hi ELSE Through(l)
<1>1. /\ ShapeOK /\ first \in Nat /\ first < T /\ il \in Nat /\ il < L /\ L \in Nat
      /\ il \in Layers /\ shape' = shape /\ routing' = routing
      /\ il' = (IF il = L - 1 THEN 0 ELSE il + 1)
      /\ first' = (IF il = L - 1 THEN hi ELSE first)
      /\ \A lo : CallEnd(lo)' = CallEnd(lo)
      /\ \A l \in Layers : Through(l)' = New(l)
      /\ Old(il) = first
    BY CallMoves
<1>2. /\ m \in Nat /\ hi \in Nat /\ first < hi /\ hi <= T
      /\ g \in Seq(LogRows) /\ n = m + (hi - first)
      /\ \A i \in 1 .. m : g[i] = file[i] /\ file[i].layer \in Layers /\ file[i].token \in Nat
      /\ \A i \in m + 1 .. n : g[i].layer = il /\ g[i].token = first + (i - m) - 1
    BY RowsAppended
<1>3. n \in Nat /\ m < n
    BY <1>1, <1>2
<1>4. /\ \A i \in 1 .. m : file[i].token < Old(file[i].layer)
      /\ \A l \in Layers : \A k \in 0 .. Old(l) - 1 :
            \E i \in 1 .. m : file[i].layer = l /\ file[i].token = k
      /\ \A i, j \in 1 .. m :
            i < j /\ file[i].layer = file[j].layer => file[i].token < file[j].token
    BY DEF LogIs
<1>5. \A l \in Layers : Old(l) \in Nat
    BY <1>1, <1>2 DEF Through
<1>6. LogRows' = LogRows
    BY <1>1 DEF LogRows, Row
<1>7. \A i \in 1 .. n : PieceOf(g, i) = CallAt(g[i].token) + 1
    BY PiecesGrow
<1>8. \A k : CallAt(k)' = CallAt(k)
    BY <1>1 DEF CallAt
<1> HIDE DEF m, hi, n, g, Old
<1>9. \A i \in 1 .. n : i \in 1 .. m \/ i \in m + 1 .. n
    BY <1>2, <1>3
<1>10. ASSUME NEW i \in 1 .. n PROVE g[i].layer \in Layers /\ g[i].token < New(g[i].layer)
    <2>1. CASE i \in 1 .. m
        <3>1. g[i] = file[i] /\ file[i].layer \in Layers /\ file[i].token \in Nat
            BY <1>2, <2>1
        <3>2. file[i].token < Old(file[i].layer)
            BY <1>4, <2>1
        <3>3. CASE file[i].layer = il
            BY <1>1, <1>2, <3>1, <3>2, <3>3
        <3>4. CASE file[i].layer # il
            BY <3>1, <3>2, <3>4 DEF Old
        <3> QED BY <3>3, <3>4
    <2>2. CASE i \in m + 1 .. n
        <3>1. g[i].layer = il /\ g[i].token = first + (i - m) - 1
            BY <1>2, <2>2
        <3>2. first + (i - m) - 1 < hi
            BY <1>1, <1>2, <2>2
        <3> QED BY <1>1, <3>1, <3>2
    <2> QED BY <1>9, <2>1, <2>2
<1>11. ASSUME NEW l \in Layers, NEW k \in 0 .. New(l) - 1
       PROVE  \E i \in 1 .. n : g[i].layer = l /\ g[i].token = k
    <2>1. ASSUME k \in 0 .. Old(l) - 1 PROVE \E i \in 1 .. n : g[i].layer = l /\ g[i].token = k
        <3>1. PICK i \in 1 .. m : file[i].layer = l /\ file[i].token = k
            BY <1>4, <2>1
        <3>2. i \in 1 .. n /\ g[i] = file[i]
            BY <1>2, <1>3
        <3> QED BY <3>1, <3>2
    <2>2. CASE l # il
        BY <2>1, <2>2 DEF Old
    <2>3. CASE l = il /\ k < first
        <3>1. k \in 0 .. Old(l) - 1
            BY <1>1, <2>3
        <3> QED BY <2>1, <3>1
    <2>4. CASE l = il /\ ~(k < first)
        <3>1. k \in 0 .. hi - 1
            BY <2>4
        <3>2. m + (k - first) + 1 \in m + 1 .. n
            BY <1>1, <1>2, <2>4, <3>1
        <3> DEFINE i == m + (k - first) + 1
        <3>3. i \in m + 1 .. n
            BY <3>2
        <3>4. first + (i - m) - 1 = k
            BY <1>1, <1>2, <3>1
        <3> HIDE DEF i
        <3>5. g[i].layer = l /\ g[i].token = k
            BY <1>2, <2>4, <3>3, <3>4
        <3>6. i \in 1 .. n
            BY <1>2, <1>3, <3>3
        <3> QED BY <3>5, <3>6
    <2> QED BY <2>2, <2>3, <2>4
<1>12. ASSUME NEW i \in 1 .. n, NEW j \in 1 .. n, i < j, g[i].layer = g[j].layer
       PROVE  g[i].token < g[j].token
    <2>1. CASE j \in 1 .. m
        <3>1. i \in 1 .. m
            BY <1>2, <1>12, <2>1
        <3> QED BY <1>2, <1>4, <1>12, <2>1, <3>1
    <2>2. CASE i \in 1 .. m /\ j \in m + 1 .. n
        <3>1. g[j].layer = il /\ g[j].token = first + (j - m) - 1 /\ g[i] = file[i]
            BY <1>2, <2>2
        <3>2. file[i].token < Old(il) /\ file[i].token \in Nat
            BY <1>2, <1>4, <1>12, <2>2, <3>1
        <3>3. first <= first + (j - m) - 1
            BY <1>1, <1>2, <2>2
        <3> QED BY <1>1, <1>2, <2>2, <3>1, <3>2, <3>3
    <2>3. CASE i \in m + 1 .. n /\ j \in m + 1 .. n
        <3>1. g[i].token = first + (i - m) - 1 /\ g[j].token = first + (j - m) - 1
            BY <1>2, <2>3
        <3>2. first + (i - m) - 1 < first + (j - m) - 1
            BY <1>1, <1>2, <1>12
        <3> QED BY <3>1, <3>2
    <2> QED BY <1>9, <2>1, <2>2, <2>3
<1>13. ~(n = 0) /\ ~(first' = 0 /\ il' = 0)
    <2>1. CASE il = L - 1
        BY <1>1, <1>2, <1>3, <2>1
    <2>2. CASE il # L - 1
        BY <1>1, <1>2, <1>3, <2>2
    <2> QED BY <2>1, <2>2
<1>14. /\ g[n].layer = IF il' > 0 THEN il' - 1 ELSE L - 1
       /\ g[n].token = (IF il' > 0 THEN CallEnd(first)' ELSE first') - 1
    <2>1. n \in m + 1 .. n
        BY <1>2, <1>3
    <2>2. g[n].layer = il /\ g[n].token = first + (n - m) - 1
        BY <1>2, <2>1
    <2>3. first + (n - m) - 1 = hi - 1
        BY <1>1, <1>2
    <2>4. CASE il = L - 1
        <3>1. ~(il' > 0) /\ first' = hi
            BY <1>1, <2>4
        <3> QED BY <2>2, <2>3, <2>4, <3>1
    <2>5. CASE il # L - 1
        <3>1. il' > 0 /\ il' - 1 = il /\ first' = first
            BY <1>1, <2>5
        <3>2. CallEnd(first)' = hi
            BY <1>1, <3>1 DEF CallEnd, hi
        <3> QED BY <2>2, <2>3, <3>1, <3>2
    <2> QED BY <2>4, <2>5
<1>15. g \in Seq(LogRows)'
    BY <1>2, <1>6
<1> DEFINE Now(l) == IF l < il' THEN CallEnd(first)' ELSE first'
           At(k) == CallOf(k, shape'.n_prompt, shape'.ub)
<1>16. \A l \in Layers : Now(l) = New(l)
    <2>1. \A l : Through(l)' = Now(l)
        BY DEF Through
    <2> HIDE DEF Now, New
    <2> QED BY <1>1, <2>1
<1>17. \A k : At(k) = CallAt(k)
    BY <1>1 DEF CallAt
<1> HIDE DEF Now, New, At
<1>18. \A i \in 1 .. n : g[i].token < Now(g[i].layer)
    BY <1>10, <1>16
<1>19. \A l \in Layers : \A k \in 0 .. Now(l) - 1 :
          \E i \in 1 .. n : g[i].layer = l /\ g[i].token = k
    BY <1>11, <1>16
<1>20. \A i \in 1 .. n : PieceOf(g, i) = At(g[i].token) + 1
    BY <1>7, <1>17
<1>21. \A i, j \in 1 .. n : i < j /\ g[i].layer = g[j].layer => g[i].token < g[j].token
    BY <1>12
<1>22. n = 0 <=> first' = 0 /\ il' = 0
    BY <1>13
<1>23. n > 0 => /\ g[n].layer = IF il' > 0 THEN il' - 1 ELSE L - 1
                /\ g[n].token = (IF il' > 0 THEN CallEnd(first)' ELSE first') - 1
    BY <1>14
<1> QED
    <2>1. (\A i \in 1 .. n : g[i].token < Now(g[i].layer)) => 
          \A i \in 1 .. Len(file') : file'[i].token < Through(file[i].layer)'
        BY DEF Through, Now, n, g
    <2>2. (\A l \in Layers : \A k \in 0 .. Now(l) - 1 :
              \E i \in 1 .. n : g[i].layer = l /\ g[i].token = k)
          => \A l \in Layers : \A k \in 0 .. Through(l)' - 1 :
                \E i \in 1 .. Len(file') : file'[i].layer = l /\ file'[i].token = k
        BY DEF Through, Now, n, g
    <2>3. (\A i \in 1 .. n : PieceOf(g, i) = At(g[i].token) + 1)
          => \A i \in 1 .. Len(file') : PieceOf(file', i) = CallAt(file[i].token)' + 1
        BY DEF CallAt, At, n, g
    <2> QED BY <1>15, <1>18, <1>19, <1>20, <1>21, <1>22, <1>23, <2>1, <2>2, <2>3 DEF LogIs, n, g

----------------------------------------------------------------------------
(* What a route call adds to the counters.                                 *)

\* The sets that are counted.
LEMMA WantedFinite ==
    ASSUME RouteOK, NEW l \in Layers
    PROVE  /\ \A k \in 0 .. T - 1 : /\ ToSet(routing[l][k + 1]) \in SUBSET Experts
                                    /\ Wanted(l, k) \in SUBSET Experts /\ IsFiniteSet(Wanted(l, k))
                                    /\ Cardinality(Wanted(l, k)) \in Nat
           /\ \A c : /\ NeedOf(l, c) \in SUBSET Experts /\ IsFiniteSet(NeedOf(l, c))
                     /\ Cardinality(NeedOf(l, c)) \in Nat
<1>1. ASSUME NEW k \in 0 .. T - 1
      PROVE  ToSet(routing[l][k + 1]) \in SUBSET Experts /\ Wanted(l, k) \in SUBSET Experts
    <2>1. routing[l][k + 1] \in [1 .. Picks -> Experts]
        <3>1. k + 1 \in 1 .. T
            BY LogAssumption
        <3> QED BY <3>1 DEF RouteOK
    <2> QED BY <2>1 DEF ToSet, Wanted
<1>2. ASSUME NEW c PROVE NeedOf(l, c) \in SUBSET Experts
    BY <1>1 DEF NeedOf
<1> QED BY <1>1, <1>2, ExpertSetsFinite

LEMMA CallNeeds ==
    ASSUME ShapeOK, first \in Nat, first < T, Begins(first, shape.n_prompt, shape.ub), NEW l
    PROVE  NeedOf(l, CallAt(first)) = DistinctIn(routing[l], first, CallEnd(first)) \ resident[l]
<1> DEFINE hi == CallEnd(first)
           X == {x \in 0 .. T - 1 : CallAt(x) = CallAt(first)}
<1>1. /\ hi \in Nat /\ first < hi /\ hi <= T /\ T \in Nat
      /\ \A k \in Nat : CallAt(k) = CallAt(first) <=> first <= k /\ k < hi
    BY CallUnderway, LogAssumption
<1> HIDE DEF hi
<1>2. ASSUME NEW k PROVE k \in X <=> k + 1 \in first + 1 .. hi /\ k \in Nat
    <2>1. ASSUME k \in X PROVE k + 1 \in first + 1 .. hi /\ k \in Nat
        BY <1>1, <2>1
    <2>2. ASSUME k \in Nat, k + 1 \in first + 1 .. hi PROVE k \in X
        BY <1>1, <2>2
    <2> QED BY <2>1, <2>2
<1> HIDE DEF X
<1>3. ASSUME NEW e PROVE e \in UNION {Wanted(l, k) : k \in X}
                         <=> e \in UNION {ToSet(routing[l][i]) : i \in first + 1 .. hi} /\ e \notin resident[l]
    <2>1. ASSUME e \in UNION {Wanted(l, k) : k \in X}
          PROVE  e \in UNION {ToSet(routing[l][i]) : i \in first + 1 .. hi} /\ e \notin resident[l]
        <3>1. PICK k \in X : e \in Wanted(l, k)
            BY <2>1
        <3>2. e \in ToSet(routing[l][k + 1]) /\ e \notin resident[l]
            BY <3>1 DEF Wanted
        <3>3. k + 1 \in first + 1 .. hi
            BY <1>2
        <3> QED BY <3>2, <3>3
    <2>2. ASSUME e \in UNION {ToSet(routing[l][i]) : i \in first + 1 .. hi}, e \notin resident[l]
          PROVE  e \in UNION {Wanted(l, k) : k \in X}
        <3>1. PICK i \in first + 1 .. hi : e \in ToSet(routing[l][i])
            BY <2>2
        <3>2. i - 1 \in Nat /\ (i - 1) + 1 = i
            BY <1>1
        <3>3. i - 1 \in X
            BY <1>2, <3>2
        <3>4. e \in Wanted(l, i - 1)
            BY <2>2, <3>1, <3>2 DEF Wanted
        <3> QED BY <3>3, <3>4
    <2> QED BY <2>1, <2>2
<1>4. NeedOf(l, CallAt(first)) = UNION {Wanted(l, k) : k \in X}
    BY DEF NeedOf, X
<1>5. DistinctIn(routing[l], first, hi) = UNION {ToSet(routing[l][i]) : i \in first + 1 .. hi}
    BY DEF DistinctIn
<1> QED BY <1>3, <1>4, <1>5 DEF hi

LEMMA LeasedFinite ==
    ASSUME NEW l, Through(l) \in Nat
    PROVE  IsFiniteSet(LeasedIn(l)) /\ Cardinality(LeasedIn(l)) \in Nat
<1> DEFINE n == Through(l)
           I == 0 .. n - 1
           f == [k \in I |-> CallAt(k)]
           C == {f[k] : k \in I}
<1>1. IsFiniteSet(I)
    <2>1. 0 \in Int /\ n - 1 \in Int
        OBVIOUS
    <2> HIDE DEF n
    <2> QED BY <2>1, FS_Interval
<1>2. IsFiniteSet(C)
    <2>1. f = [k \in I |-> f[k]]
        OBVIOUS
    <2> HIDE DEF f, I
    <2> QED BY <1>1, <2>1, ImageBound
<1>3. IsFiniteSet(C \X Experts)
    <2> HIDE DEF C
    <2> QED BY <1>2, ExpertSetsFinite, FS_Product
<1>4. LeasedIn(l) \in SUBSET (C \X Experts)
    <2> SUFFICES ASSUME NEW q \in LeasedIn(l) PROVE q \in C \X Experts
        OBVIOUS
    <2>1. q \in Nat \X Experts /\ \E k \in I : CallAt(k) = q[1]
        BY DEF LeasedIn
    <2>2. q[1] \in C
        BY <2>1
    <2> HIDE DEF C
    <2> QED BY <2>1, <2>2
<1> HIDE DEF C
<1> QED BY <1>3, <1>4, FS_Subset, FS_CardinalityType

\* A call's leases are those of the calls before it, and its own.
LEMMA LeasedGrows ==
    ASSUME TimedInv, RunCall, Begins(first, shape.n_prompt, shape.ub), RouteOK, NEW l \in Layers
    PROVE  /\ l # il => LeasedIn(l)' = LeasedIn(l)
           /\ l = il => /\ LeasedIn(l)' = LeasedIn(l) \cup ({CallAt(first)} \X NeedOf(l, CallAt(first)))
                        /\ LeasedIn(l) \cap ({CallAt(first)} \X NeedOf(l, CallAt(first))) = {}
<1> DEFINE hi == CallEnd(first)
           c == CallAt(first)
           Old == LeasedIn(l)
           Fresh == {c} \X NeedOf(l, c)
           Thr == Through(l)'
<1>1. /\ ShapeOK /\ first \in Nat /\ first < T /\ T \in Nat
      /\ shape' = shape /\ routing' = routing /\ resident' = resident
      /\ Thr = (IF l = il THEN hi ELSE Through(l)) /\ Through(il) = first
    BY CallMoves
<1>2. /\ hi \in Nat /\ first < hi /\ hi <= T /\ \A k \in Nat : CallAt(k) \in Nat
      /\ \A k \in Nat : CallAt(k) = c <=> first <= k /\ k < hi
    BY <1>1, CallUnderway
<1>3. \A q : q \in Old <=> q \in Nat \X Experts /\ \E k \in 0 .. Through(l) - 1 :
                                CallAt(k) = q[1] /\ q[2] \in Wanted(l, k)
    BY DEF LeasedIn
<1>4. \A q : q \in LeasedIn(l)' <=> q \in Nat \X Experts /\ \E k \in 0 .. Thr - 1 :
                                CallAt(k) = q[1] /\ q[2] \in Wanted(l, k)
    BY <1>1 DEF LeasedIn, CallAt, Wanted
<1> HIDE DEF Thr
<1>5. CASE l # il
    <2>1. Thr = Through(l)
        BY <1>1, <1>5
    <2>2. \A q : q \in LeasedIn(l)' <=> q \in Old
        BY <1>3, <1>4, <2>1
    <2> HIDE DEF Old
    <2>3. LeasedIn(l)' = Old
        BY <2>2
    <2> QED BY <1>5, <2>3 DEF Old
<1>6. CASE l = il
    <2>1. Thr = hi /\ Through(l) = first
        BY <1>1, <1>6
    <2>2. \A q : q \in Fresh <=> q = <<q[1], q[2]>> /\ q[1] = c /\ q[2] \in NeedOf(l, c)
        OBVIOUS
    <2>3. \A e : e \in NeedOf(l, c) <=> \E k \in 0 .. T - 1 : CallAt(k) = c /\ e \in Wanted(l, k)
        BY DEF NeedOf
    <2>4. NeedOf(l, c) \in SUBSET Experts /\ c \in Nat
        BY <1>1, <1>2, WantedFinite
    <2> HIDE DEF Old, Fresh, c, hi
    <2>5. ASSUME NEW q \in LeasedIn(l)' PROVE q \in Old \cup Fresh
        <3>1. PICK k \in 0 .. hi - 1 : CallAt(k) = q[1] /\ q[2] \in Wanted(l, k)
            BY <1>4, <2>1
        <3>2. q \in Nat \X Experts
            BY <1>4
        <3>3. CASE k < first
            <4>1. k \in 0 .. Through(l) - 1
                BY <1>1, <2>1, <3>3
            <4> QED BY <1>3, <3>1, <3>2, <4>1
        <3>4. CASE ~(k < first)
            <4>1. k \in Nat /\ first <= k /\ k < hi /\ k \in 0 .. T - 1
                BY <1>1, <1>2, <3>4
            <4>2. CallAt(k) = c
                BY <1>2, <4>1
            <4>3. q[2] \in NeedOf(l, c)
                BY <2>3, <3>1, <4>1, <4>2
            <4>4. q = <<q[1], q[2]>>
                BY <3>2
            <4>5. q[1] = c
                BY <3>1, <4>2
            <4>6. q \in Fresh
                BY <2>2, <4>3, <4>4, <4>5
            <4> QED BY <4>6
        <3> QED BY <3>3, <3>4
    <2>6. ASSUME NEW q \in Old PROVE q \in LeasedIn(l)'
        <3>1. PICK k \in 0 .. Through(l) - 1 : CallAt(k) = q[1] /\ q[2] \in Wanted(l, k)
            BY <1>3
        <3>2. k \in 0 .. Thr - 1
            BY <1>1, <1>2, <2>1
        <3> QED BY <1>3, <1>4, <3>1, <3>2
    <2>7. ASSUME NEW q \in Fresh PROVE q \in LeasedIn(l)' /\ q \notin Old
        <3>1. q = <<q[1], q[2]>> /\ q[1] = c /\ q[2] \in NeedOf(l, c)
            BY <2>2
        <3>2. PICK k \in 0 .. T - 1 : CallAt(k) = c /\ q[2] \in Wanted(l, k)
            BY <2>3, <3>1
        <3>3. k \in Nat /\ first <= k /\ k < hi
            BY <1>2, <3>2
        <3>4. k \in 0 .. Thr - 1
            BY <1>2, <2>1, <3>3
        <3>5. q[2] \in Experts
            BY <2>4, <3>1
        <3>6. q \in Nat \X Experts
            BY <2>4, <3>1, <3>5
        <3>7. q \in LeasedIn(l)'
            BY <1>4, <3>1, <3>2, <3>4, <3>6
        <3>8. ASSUME q \in Old PROVE FALSE
            <4>1. PICK j \in 0 .. first - 1 : CallAt(j) = c
                BY <1>3, <2>1, <3>1, <3>8
            <4>2. j \in Nat /\ j < first
                BY <1>1
            <4> QED BY <1>1, <1>2, <4>1, <4>2
        <3> QED BY <3>7, <3>8
    <2> DEFINE X == LeasedIn(l)'
    <2>8. X = Old \cup Fresh /\ Old \cap Fresh = {}
        <3>1. \A q \in Fresh : q \in X /\ q \notin Old
            BY <2>7
        <3>2. \A q \in Old : q \in X
            BY <2>6
        <3>3. \A q \in X : q \in Old \cup Fresh
            BY <2>5
        <3> HIDE DEF X
        <3> QED BY <3>1, <3>2, <3>3
    <2> QED BY <1>6, <2>8 DEF Old, Fresh, c
<1> QED BY <1>5, <1>6

NeedsAll ==
    \A lo, x : x \in NeedsFrom(lo) <=> \E l \in Layers, k \in 0 .. T - 1 :
        lo <= k /\ k < Through(l) /\ x = Cardinality(NeedOf(l, CallAt(k)))

LEMMA NeedsAre == NeedsAll
<1> SUFFICES ASSUME NEW lo, NEW x
             PROVE  x \in NeedsFrom(lo) <=> \E l \in Layers, k \in 0 .. T - 1 :
                        lo <= k /\ k < Through(l) /\ x = Cardinality(NeedOf(l, CallAt(k)))
    BY DEF NeedsAll
<1> DEFINE S == {q \in Layers \X (0 .. T - 1) : lo <= q[2] /\ q[2] < Through(q[1])}
<1>1. ASSUME x \in NeedsFrom(lo)
      PROVE  \E l \in Layers, k \in 0 .. T - 1 :
                lo <= k /\ k < Through(l) /\ x = Cardinality(NeedOf(l, CallAt(k)))
    <2>1. PICK p \in S : x = Cardinality(NeedOf(p[1], CallAt(p[2])))
        BY <1>1 DEF NeedsFrom
    <2>2. p[1] \in Layers /\ p[2] \in 0 .. T - 1 /\ lo <= p[2] /\ p[2] < Through(p[1])
        BY <2>1
    <2> QED BY <2>1, <2>2
<1>2. ASSUME NEW l \in Layers, NEW k \in 0 .. T - 1,
             lo <= k, k < Through(l), x = Cardinality(NeedOf(l, CallAt(k)))
      PROVE  x \in NeedsFrom(lo)
    <2> DEFINE p == <<l, k>>
    <2>1. p \in S /\ p[1] = l /\ p[2] = k
        BY <1>2
    <2> HIDE DEF p, S
    <2>2. x = Cardinality(NeedOf(p[1], CallAt(p[2])))
        BY <1>2, <2>1
    <2> QED BY <2>1, <2>2 DEF NeedsFrom, S
<1> QED BY <1>1, <1>2

\* The needs of a call join those that are counted from a token on, when it is a
\* call from there on.
LEMMA NeedsGrow ==
    ASSUME TimedInv, RunCall, Begins(first, shape.n_prompt, shape.ub), RouteOK, NEW lo \in Nat,
           lo <= first \/ CallEnd(first) <= lo
    PROVE  NeedsFrom(lo)' = IF lo <= first
                            THEN NeedsFrom(lo) \cup {Cardinality(NeedOf(il, CallAt(first)))}
                            ELSE NeedsFrom(lo)
<1> DEFINE hi == CallEnd(first)
           c == CallAt(first)
           Old == NeedsFrom(lo)
           New == NeedsFrom(lo)'
           x0 == Cardinality(NeedOf(il, c))
           Thr(l) == Through(l)'
<1>1. /\ ShapeOK /\ first \in Nat /\ first < T /\ T \in Nat /\ il \in Layers
      /\ shape' = shape /\ routing' = routing /\ resident' = resident
      /\ \A l \in Layers : Thr(l) = (IF l = il THEN hi ELSE Through(l))
      /\ Through(il) = first
    BY CallMoves
<1>2. /\ hi \in Nat /\ first < hi /\ hi <= T
      /\ \A k \in Nat : CallAt(k) = c <=> first <= k /\ k < hi
    BY <1>1, CallUnderway
<1>3. \A x : x \in Old <=> \E l \in Layers, k \in 0 .. T - 1 :
                lo <= k /\ k < Through(l) /\ x = Cardinality(NeedOf(l, CallAt(k)))
    BY NeedsAre DEF NeedsAll
<1>4. \A l, k : NeedOf(l, CallAt(k))' = NeedOf(l, CallAt(k))
    BY <1>1 DEF NeedOf, Wanted, CallAt
<1>5. \A x : x \in New <=> \E l \in Layers, k \in 0 .. T - 1 :
                lo <= k /\ k < Thr(l) /\ x = Cardinality(NeedOf(l, CallAt(k)))
    <2>1. NeedsAll'
        BY NeedsAre, PTL
    <2>2. \A x : x \in New <=> \E l \in Layers, k \in 0 .. T - 1 :
                lo <= k /\ k < Thr(l) /\ x = Cardinality(NeedOf(l, CallAt(k))')
        BY <2>1 DEF NeedsAll
    <2>3. \A l, k : Cardinality(NeedOf(l, CallAt(k))') = Cardinality(NeedOf(l, CallAt(k)))
        BY <1>4
    <2> HIDE DEF Thr, New
    <2> QED BY <2>2, <2>3
<1> HIDE DEF hi, Old, New, Thr
<1>6. ASSUME NEW x \in Old PROVE x \in New
    <2>1. PICK l \in Layers, k \in 0 .. T - 1 :
              lo <= k /\ k < Through(l) /\ x = Cardinality(NeedOf(l, CallAt(k)))
        BY <1>3
    <2>2. k < Thr(l)
        <3>1. CASE l = il
            <4>1. k < first
                BY <1>1, <2>1, <3>1
            <4>2. k < hi
                BY <1>1, <1>2, <4>1
            <4> QED BY <1>1, <3>1, <4>2
        <3>2. CASE l # il
            BY <1>1, <2>1, <3>2
        <3> QED BY <3>1, <3>2
    <2> QED BY <1>5, <2>1, <2>2
<1>7. ASSUME NEW x \in New PROVE x \in Old \/ (lo <= first /\ x = x0)
    <2>1. PICK l \in Layers, k \in 0 .. T - 1 :
              lo <= k /\ k < Thr(l) /\ x = Cardinality(NeedOf(l, CallAt(k)))
        BY <1>5
    <2>2. CASE l # il
        <3>1. k < Through(l)
            BY <1>1, <2>1, <2>2
        <3> QED BY <1>3, <2>1, <3>1
    <2>3. CASE l = il /\ k < first
        <3>1. k < Through(l)
            BY <1>1, <2>3
        <3> QED BY <1>3, <2>1, <3>1
    <2>4. CASE l = il /\ ~(k < first)
        <3>1. k < hi /\ k \in Nat /\ first <= k
            BY <1>1, <2>1, <2>4
        <3>2. CallAt(k) = c
            BY <1>2, <3>1
        <3>3. lo <= first
            BY <1>1, <1>2, <2>1, <3>1 DEF hi
        <3>4. x = x0
            BY <2>1, <2>4, <3>2
        <3> QED BY <3>3, <3>4
    <2> QED BY <2>2, <2>3, <2>4
<1>8. lo <= first => x0 \in New
    <2> SUFFICES ASSUME lo <= first PROVE x0 \in New
        OBVIOUS
    <2>1. first \in 0 .. T - 1 /\ first < Thr(il)
        BY <1>1, <1>2
    <2> QED BY <1>1, <1>5, <2>1
<1> HIDE DEF x0
<1>9. New = IF lo <= first THEN Old \cup {x0} ELSE Old
    BY <1>6, <1>7, <1>8
<1> QED BY <1>9 DEF New, Old, x0

LEMMA PeakGrows ==
    ASSUME NEW p, NEW S, PeakIs(p, S), NEW x \in Nat
    PROVE  PeakIs(Max({p, x}), S \cup {x})
<1> DEFINE m == Max({p, x})
<1>1. p \in Nat /\ S \in SUBSET Nat /\ (\A y \in S : y <= p) /\ (p = 0 \/ p \in S)
    BY DEF PeakIs
<1>2. m \in {p, x} /\ p <= m /\ x <= m
    BY <1>1, MaxOfTwo
<1> HIDE DEF m
<1>3. m \in Nat /\ S \cup {x} \in SUBSET Nat
    BY <1>1, <1>2
<1>4. \A y \in S \cup {x} : y <= m
    BY <1>1, <1>2, <1>3
<1>5. m = 0 \/ m \in S \cup {x}
    BY <1>1, <1>2
<1> QED BY <1>3, <1>4, <1>5 DEF PeakIs, m

\* A route call keeps the invariant.
LEMMA CallLease ==
    ASSUME TimedInv, LeaseInv, RunCall
    PROVE  LeaseInv'
<1> DEFINE c == CallAt(first)
           need == Cardinality(NeedOf(il, c))
<1>1. stage = "running" /\ stage' \in {"running", "done"}
    BY DEF RunCall
<1>2. RouteOK /\ Begins(first, shape.n_prompt, shape.ub) /\ LogIs /\ LeasesCounted
    BY <1>1 DEF LeaseInv
<1>3. /\ ShapeOK /\ first \in Nat /\ first < T /\ T \in Nat \ {0} /\ il \in Layers
      /\ shape' = shape /\ routing' = routing /\ resident' = resident
      /\ Begins(first', shape.n_prompt, shape.ub) /\ Through(il) = first
    BY <1>2, CallMoves
<1>n. PICK n \in Nat : n = shape.n_prompt
    BY <1>3, ShapeIs
<1>4. n \in Nat /\ CallEnd(first) \in Nat /\ first < CallEnd(first)
      /\ (first < n => CallEnd(first) <= n)
    BY <1>2, <1>3, <1>n, CallUnderway
<1>5. /\ lease_events' = [lease_events EXCEPT ![il] = @ + need]
      /\ peak_leased' = Max({peak_leased, need})
      /\ decode_leased' = IF first < n THEN decode_leased ELSE Max({decode_leased, need})
    <2>1. DistinctIn(routing[il], first, CallEnd(first)) \ resident[il] = NeedOf(il, c)
        BY <1>2, <1>3, CallNeeds
    <2> QED BY <1>n, <2>1 DEF RunCall
<1>6. NeedOf(il, c) \in SUBSET Experts /\ IsFiniteSet(NeedOf(il, c)) /\ need \in Nat
    BY <1>2, <1>3, WantedFinite
<1>7. /\ lease_events \in [Layers -> Nat]
      /\ \A l \in Layers : lease_events[l] = Cardinality(LeasedIn(l))
      /\ PeakIs(peak_leased, NeedsFrom(0)) /\ PeakIs(decode_leased, NeedsFrom(n))
    BY <1>2, <1>n DEF LeasesCounted
<1>8. ASSUME NEW l \in Layers PROVE lease_events'[l] = Cardinality(LeasedIn(l)')
    <2>1. CASE l # il
        <3>1. LeasedIn(l)' = LeasedIn(l)
            BY <1>2, <2>1, LeasedGrows
        <3>2. lease_events'[l] = lease_events[l]
            BY <1>5, <1>7, <2>1
        <3> QED BY <1>7, <3>1, <3>2
    <2>2. CASE l = il
        <3> DEFINE A == LeasedIn(l)
                   B == {c} \X NeedOf(l, c)
        <3>1. LeasedIn(l)' = A \cup B /\ A \cap B = {}
            BY <1>2, <2>2, LeasedGrows
        <3>2. IsFiniteSet(A) /\ Cardinality(A) \in Nat
            BY <1>3, <2>2, LeasedFinite
        <3>3. IsFiniteSet(B) /\ Cardinality(B) = need
            BY <1>6, <2>2, PairedSize
        <3> HIDE DEF A, B, need
        <3>4. Cardinality(A \cup B) = Cardinality(A) + Cardinality(B)
            <4>1. Cardinality(A \cup B) = Cardinality(A) + Cardinality(B) - Cardinality(A \cap B)
                BY <3>2, <3>3, FS_Union
            <4>2. Cardinality(A \cap B) = 0
                BY <3>1, FS_EmptySet
            <4> QED BY <1>6, <3>2, <3>3, <4>1, <4>2
        <3>5. lease_events'[l] = lease_events[l] + need
            BY <1>3, <1>5, <1>7, <2>2
        <3>6. lease_events[l] = Cardinality(A)
            BY <1>7 DEF A
        <3> QED BY <3>1, <3>3, <3>4, <3>5, <3>6
    <2> QED BY <2>1, <2>2
<1>9. lease_events' \in [Layers -> Nat]
    <2> HIDE DEF need
    <2> QED BY <1>3, <1>5, <1>6, <1>7
<1>10. PeakIs(peak_leased', NeedsFrom(0)')
    <2>1. 0 \in Nat /\ 0 <= first
        BY <1>3
    <2>2. NeedsFrom(0)' = NeedsFrom(0) \cup {need}
        BY <1>2, <2>1, NeedsGrow
    <2> HIDE DEF need
    <2> QED BY <1>5, <1>6, <1>7, <2>2, PeakGrows
<1>11. PeakIs(decode_leased', NeedsFrom(n)')
    <2>1. NeedsFrom(n)' = IF n <= first THEN NeedsFrom(n) \cup {need} ELSE NeedsFrom(n)
        <3>1. n <= first \/ CallEnd(first) <= n
            BY <1>3, <1>4
        <3> QED BY <1>2, <1>4, <3>1, NeedsGrow
    <2> HIDE DEF need
    <2>2. CASE n <= first
        <3>1. ~(first < n)
            BY <1>3, <1>4, <2>2
        <3> QED BY <1>5, <1>6, <1>7, <2>1, <2>2, <3>1, PeakGrows
    <2>3. CASE ~(n <= first)
        <3>1. first < n
            BY <1>3, <1>4, <2>3
        <3> QED BY <1>5, <1>7, <2>1, <2>3, <3>1
    <2> QED BY <2>2, <2>3
<1>12. LeasesCounted'
    <2>1. \A l \in Layers : lease_events'[l] = Cardinality(LeasedIn(l)')
        BY <1>8
    <2>2. NeedsFrom(shape.n_prompt)' = NeedsFrom(n)'
        <3>1. shape'.n_prompt = n
            BY <1>3, <1>n
        <3> QED BY <3>1 DEF NeedsFrom
    <2>3. PeakIs(peak_leased, NeedsFrom(0))'
        BY <1>10 DEF PeakIs
    <2>4. PeakIs(decode_leased, NeedsFrom(shape.n_prompt))'
        BY <1>11, <2>2 DEF PeakIs
    <2> QED BY <1>9, <2>1, <2>3, <2>4 DEF LeasesCounted
<1>13. LogIs'
    BY <1>2, LogGrows
<1>14. RouteOK'
    <2>1. routing' = routing /\ resident' = resident
        BY <1>3
    <2>2. RouteOK' = RouteOK
        BY <2>1 DEF RouteOK
    <2> QED BY <1>2, <2>2
<1>15. Begins(first, shape.n_prompt, shape.ub)'
    BY <1>3 DEF Begins
<1>16. stage' # "idle"
    BY <1>1
<1> QED BY <1>12, <1>13, <1>14, <1>15, <1>16 DEF LeaseInv

LEMMA LaunchLease ==
    ASSUME TimedInv, LeaseInv, NEW routes \in [Layers -> [1 .. T -> Rankings]],
           NEW held \in EvenSets, NEW n \in 1 .. T, NEW u \in Nat \ {0},
           Launch(routes, held, n, u)
    PROVE  LeaseInv'
<1>1. /\ stage = "idle" /\ stage' = "running" /\ routing' = routes
      /\ resident' = held
      /\ UNCHANGED <<first, il, file, lease_events, peak_leased, decode_leased>>
    BY DEF Launch
<1>2. first = 0 /\ il = 0 /\ file = <<>> /\ lease_events = [l \in Layers |-> 0]
      /\ peak_leased = 0 /\ decode_leased = 0
    BY <1>1 DEF TimedInv, LeaseInv
<1>3. first' = 0 /\ il' = 0 /\ file' = <<>> /\ lease_events' = [l \in Layers |-> 0]
      /\ peak_leased' = 0 /\ decode_leased' = 0
    BY <1>1, <1>2
<1>4. RouteOK'
    <2>1. ASSUME NEW l \in Layers, NEW k \in 1 .. T
          PROVE  \A i, j \in 1 .. Picks : routes[l][k][i] = routes[l][k][j] => i = j
        <3>1. routes[l][k] \in Rankings
            OBVIOUS
        <3> QED BY <3>1 DEF Rankings
    <2>2. Rankings \in SUBSET [1 .. Picks -> Experts]
        BY DEF Rankings
    <2>3. routes \in [Layers -> [1 .. T -> [1 .. Picks -> Experts]]]
        BY <2>2
    <2> QED BY <1>1, <2>1, <2>3 DEF RouteOK
<1>5. shape'.n_prompt = n /\ shape'.ub = u /\ n \in Nat /\ u \in Nat
    <2>1. shape' = [n_prompt |-> n, n_gen |-> T - n, ub |-> u]
        BY DEF Launch
    <2> QED BY <2>1
<1>6. Begins(first, shape.n_prompt, shape.ub)'
    <2>1. 0 = u * 0
        BY <1>5
    <2> QED BY <1>3, <1>5, <2>1 DEF Begins
<1>7. \A l \in Layers : Through(l)' = 0
    <2>1. \A l \in Layers : ~(l < 0)
        BY DEF Layers
    <2> QED BY <1>3, <2>1 DEF Through
<1>8. LogIs'
    <2>1. file' \in Seq(LogRows') /\ Len(file') = 0 /\ 1 .. 0 = {}
        BY <1>3
    <2>2. \A l \in Layers : 0 .. Through(l)' - 1 = {}
        BY <1>7
    <2> QED BY <1>3, <2>1, <2>2 DEF LogIs
<1>9. \A l \in Layers : LeasedIn(l)' = {}
    <2>1. \A l \in Layers : 0 .. Through(l)' - 1 = {}
        BY <1>7
    <2> QED BY <2>1 DEF LeasedIn
<1>10. \A lo \in Nat : NeedsFrom(lo)' = {}
    <2>1. NeedsAll'
        BY NeedsAre, PTL
    <2>2. ASSUME NEW lo \in Nat, NEW x \in NeedsFrom(lo)' PROVE FALSE
        <3>1. PICK l \in Layers, k \in 0 .. T - 1 : k < Through(l)'
            BY <2>1, <2>2 DEF NeedsAll
        <3> QED BY <1>7, <3>1
    <2> QED BY <2>2
<1>11. LeasesCounted'
    <2>1. PeakIs(0, {})
        BY DEF PeakIs
    <2>2. PeakIs(peak_leased, NeedsFrom(0))'
        BY <1>3, <1>10 DEF PeakIs
    <2>3. PeakIs(decode_leased, NeedsFrom(shape.n_prompt))'
        <3>1. NeedsFrom(shape.n_prompt)' = {}
            <4>1. NeedsFrom(n)' = {}
                BY <1>5, <1>10
            <4> QED BY <1>5, <4>1 DEF NeedsFrom
        <3> QED BY <1>3, <3>1 DEF PeakIs
    <2>4. lease_events' \in [Layers -> Nat]
          /\ \A l \in Layers : lease_events'[l] = Cardinality(LeasedIn(l)')
        BY <1>3, <1>9, FS_EmptySet
    <2> QED BY <2>2, <2>3, <2>4 DEF LeasesCounted
<1>12. stage' = "running"
    BY <1>1
<1> QED BY <1>4, <1>6, <1>8, <1>11, <1>12 DEF LeaseInv

LEMMA StillLease ==
    ASSUME LeaseInv, UNCHANGED runVars
    PROVE  LeaseInv'
<1>1. UNCHANGED <<stage, routing, resident, shape, first, il, file, lease_events,
                  peak_leased, decode_leased>>
    BY DEF runVars
<1>2. /\ RouteOK' = RouteOK /\ LogIs' = LogIs
      /\ Begins(first, shape.n_prompt, shape.ub)' = Begins(first, shape.n_prompt, shape.ub)
    BY <1>1 DEF RouteOK, LogIs, LogRows, Row, Through, CallEnd, CallAt, Begins
<1>3. \A l : LeasedIn(l)' = LeasedIn(l)
    BY <1>1 DEF LeasedIn, Through, CallEnd, CallAt, Wanted
<1>4. \A lo : NeedsFrom(lo)' = NeedsFrom(lo)
    BY <1>1 DEF NeedsFrom, NeedOf, Through, CallEnd, CallAt, Wanted
<1>5. NeedsFrom(shape.n_prompt)' = NeedsFrom(shape.n_prompt)
    BY <1>1 DEF NeedsFrom, NeedOf, Through, CallEnd, CallAt, Wanted
<1>6. LeasesCounted' = LeasesCounted
    BY <1>1, <1>3, <1>4, <1>5 DEF LeasesCounted, PeakIs
<1> QED BY <1>1, <1>2, <1>6 DEF LeaseInv

LEMMA StepLease == TimedInv /\ LeaseInv /\ [RunNext]_runVars => LeaseInv'
<1> SUFFICES ASSUME TimedInv, LeaseInv, [RunNext]_runVars PROVE LeaseInv'
    OBVIOUS
<1>1. CASE UNCHANGED runVars
    BY <1>1, StillLease
<1>2. CASE RunNext
    <2>1. ASSUME NEW routes \in [Layers -> [1 .. T -> Rankings]], NEW held \in EvenSets,
                 NEW n \in 1 .. T, NEW u \in Nat \ {0}, Launch(routes, held, n, u)
          PROVE  LeaseInv'
        BY <2>1, LaunchLease
    <2>2. ASSUME RunCall PROVE LeaseInv'
        BY <2>2, CallLease
    <2>3. ASSUME NEW f, NEW i, Damage(f, i) PROVE LeaseInv'
        <3>1. stage' = "damaged"
            BY <2>3 DEF Damage
        <3> QED BY <3>1 DEF LeaseInv
    <2> QED BY <1>2, <2>1, <2>2, <2>3 DEF RunNext
<1> QED BY <1>1, <1>2

----------------------------------------------------------------------------
(* The log of a run that has ended.                                        *)

\* It has every row, once, a layer's in order, and its pieces are the calls.
EveryRow ==
    /\ Len(file) \in Nat /\ DOMAIN file = 1 .. Len(file)
    /\ \A i \in 1 .. Len(file) :
          /\ file[i].layer \in Layers /\ file[i].token \in 0 .. T - 1
          /\ file[i] = Row(file[i].layer, file[i].token)
          /\ file[i].ids = routing[file[i].layer][file[i].token + 1]
          /\ PieceOf(file, i) = CallAt(file[i].token) + 1
    /\ \A l \in Layers : \A k \in 0 .. T - 1 :
          \E i \in 1 .. Len(file) : file[i].layer = l /\ file[i].token = k
    /\ \A i, j \in 1 .. Len(file) :
          file[i].layer = file[j].layer => (i < j <=> file[i].token < file[j].token)

LEMMA RunEnded ==
    ASSUME TimedInv, LeaseInv, stage = "done"
    PROVE  /\ ShapeOK /\ RouteOK /\ EveryRow /\ LeasesCounted
           /\ T \in Nat \ {0} /\ L \in Nat \ {0} /\ \A l \in Layers : Through(l) = T
<1>1. ShapeOK /\ RouteOK /\ LogIs /\ LeasesCounted /\ first = T /\ il = 0
    BY DEF TimedInv, LeaseInv, Underway
<1>2. T \in Nat \ {0} /\ L \in Nat \ {0}
    BY LogAssumption
<1>3. \A l \in Layers : Through(l) = T
    <2>1. \A l \in Layers : ~(l < 0)
        BY DEF Layers
    <2> QED BY <1>1, <2>1 DEF Through
<1> DEFINE N == Len(file)
<1>4. N \in Nat /\ DOMAIN file = 1 .. N /\ \A i \in 1 .. N : file[i] \in LogRows
    BY <1>1 DEF LogIs
<1>5. /\ \A l \in Layers : \A k \in 0 .. T - 1 :
            \E i \in 1 .. N : file[i].layer = l /\ file[i].token = k
      /\ \A i, j \in 1 .. N : i < j /\ file[i].layer = file[j].layer => file[i].token < file[j].token
      /\ \A i \in 1 .. N : PieceOf(file, i) = CallAt(file[i].token) + 1
    BY <1>1, <1>3 DEF LogIs
<1> HIDE DEF N
<1>6. ASSUME NEW i \in 1 .. N
      PROVE  /\ file[i].layer \in Layers /\ file[i].token \in 0 .. T - 1
             /\ file[i] = Row(file[i].layer, file[i].token)
             /\ file[i].ids = routing[file[i].layer][file[i].token + 1]
    <2>1. PICK l \in Layers, k \in 0 .. T - 1 : file[i] = Row(l, k)
        BY <1>4 DEF LogRows
    <2>2. file[i].layer = l /\ file[i].token = k
        BY <2>1, RowFields
    <2>3. file[i].ids = routing[l][k + 1]
        BY <2>1, RowFields
    <2> QED BY <2>1, <2>2, <2>3
<1>7. ASSUME NEW i \in 1 .. N, NEW j \in 1 .. N, file[i].layer = file[j].layer
      PROVE  i < j <=> file[i].token < file[j].token
    <2>1. file[i].token \in Int /\ file[j].token \in Int /\ i \in Int /\ j \in Int
        BY <1>4, <1>6
    <2>2. i < j => file[i].token < file[j].token
        BY <1>5, <1>7
    <2>3. j < i => file[j].token < file[i].token
        BY <1>5, <1>7
    <2>4. i = j => file[i].token = file[j].token
        OBVIOUS
    <2> QED BY <2>1, <2>2, <2>3, <2>4
<1>8. EveryRow
    BY <1>4, <1>5, <1>6, <1>7 DEF EveryRow, N
<1> QED BY <1>1, <1>2, <1>3, <1>8

\* The function that RowsOf is defined by.
LayerRows(f, l) ==
    f = [n \in 0 .. Len(file) |->
            IF n = 0 THEN <<>>
            ELSE IF file[n].layer = l THEN Append(f[n - 1], file[n]) ELSE f[n - 1]]

LEMMA RowsInOrder ==
    ASSUME EveryRow, T \in Nat \ {0}, NEW l \in Layers
    PROVE  RowsOf(file, l) = [i \in 1 .. T |-> Row(l, i - 1)]
<1> DEFINE N == Len(file)
           C(n) == {i \in 1 .. n : file[i].layer = l}
           c(n) == Cardinality(C(n))
           w(n) == [i \in 1 .. c(n) |-> Row(l, i - 1)]
           W == [n \in 0 .. N |-> w(n)]
<1>1. /\ N \in Nat
      /\ \A i \in 1 .. N : /\ file[i].token \in 0 .. T - 1
                           /\ file[i] = Row(file[i].layer, file[i].token)
      /\ \A k \in 0 .. T - 1 : \E i \in 1 .. N : file[i].layer = l /\ file[i].token = k
      /\ \A i, j \in 1 .. N :
            file[i].layer = file[j].layer => (i < j <=> file[i].token < file[j].token)
    BY DEF EveryRow
<1> HIDE DEF N
<1>2. \A n \in Nat : IsFiniteSet(C(n)) /\ c(n) \in Nat
    <2> TAKE n \in Nat
    <2>1. 1 \in Int /\ n \in Int
        OBVIOUS
    <2>2. IsFiniteSet(1 .. n) /\ C(n) \in SUBSET (1 .. n)
        BY <2>1, FS_Interval
    <2> HIDE DEF C
    <2> QED BY <2>2, FS_Subset, FS_CardinalityType
\* The rows of a layer up to n, whose tokens are those below m.
<1>3. ASSUME NEW n \in 0 .. N, NEW m \in 0 .. T,
             \A i \in 1 .. n : file[i].layer = l => file[i].token < m,
             \A k \in 0 .. m - 1 : \E i \in 1 .. n : file[i].layer = l /\ file[i].token = k
      PROVE  c(n) = m
    <2> DEFINE h == [i \in C(n) |-> file[i].token]
               D == C(n)
    <2>1. \A i : i \in D <=> i \in 1 .. n /\ file[i].layer = l
        OBVIOUS
    <2>2. \A i \in D : h[i] = file[i].token
        OBVIOUS
    <2>3. \A i \in D : i \in 1 .. N
        BY <1>1, <2>1
    <2>4. IsFiniteSet(D)
        BY <1>1, <1>2
    <2> HIDE DEF D, h
    <2>5. \A i \in D : h[i] \in 0 .. m - 1
        BY <1>1, <1>3, <2>1, <2>2, <2>3
    <2>6. \A i, j \in D : h[i] = h[j] => i = j
        <3> TAKE i, j \in D
        <3> HAVE h[i] = h[j]
        <3>1. i \in 1 .. N /\ j \in 1 .. N /\ file[i].layer = l /\ file[j].layer = l
            BY <2>1, <2>3
        <3>2. file[i].token = file[j].token /\ file[i].token \in Int
            BY <1>1, <2>2, <3>1
        <3>3. ~(i < j) /\ ~(j < i)
            BY <1>1, <3>1, <3>2
        <3> QED BY <1>1, <3>1, <3>3
    <2>7. \A k \in 0 .. m - 1 : \E i \in D : h[i] = k
        BY <1>3, <2>1, <2>2
    <2>8. h \in [D -> 0 .. m - 1]
        <3>1. h = [i \in D |-> h[i]]
            BY DEF h, D
        <3> QED BY <2>5, <3>1
    <2>9. h \in Bijection(D, 0 .. m - 1)
        BY <2>6, <2>7, <2>8 DEF Bijection, Injection, Surjection, IsInjective
    <2>10. Cardinality(0 .. m - 1) = m
        <3>1. 0 \in Int /\ m - 1 \in Int /\ m \in Nat
            OBVIOUS
        <3> QED BY <3>1, FS_Interval
    <2>11. Cardinality(0 .. m - 1) = Cardinality(D)
        BY <2>4, <2>9, FS_Bijection DEF ExistsBijection
    <2> QED BY <2>10, <2>11 DEF D
<1>4. ASSUME NEW n \in 1 .. N, file[n].layer = l PROVE file[n].token = c(n - 1)
    <2> DEFINE m == file[n].token
    <2>1. m \in 0 .. T /\ n - 1 \in 0 .. N /\ m \in 0 .. T - 1
        BY <1>1
    <2>2. ASSUME NEW i \in 1 .. n - 1, file[i].layer = l PROVE file[i].token < m
        <3>1. i \in 1 .. N /\ i < n
            BY <1>1
        <3> QED BY <1>1, <1>4, <2>2, <3>1
    <2>3. ASSUME NEW k \in 0 .. m - 1
          PROVE  \E i \in 1 .. n - 1 : file[i].layer = l /\ file[i].token = k
        <3>1. k \in 0 .. T - 1
            BY <1>1, <2>1
        <3>2. PICK i \in 1 .. N : file[i].layer = l /\ file[i].token = k
            BY <1>1, <3>1
        <3>3. k < m
            BY <2>1
        <3>4. i < n
            BY <1>1, <1>4, <3>2, <3>3
        <3>5. i \in 1 .. n - 1
            BY <1>1, <3>4
        <3> QED BY <3>2, <3>5
    <2> HIDE DEF m, c
    <2>4. c(n - 1) = m
        BY <1>3, <2>1, <2>2, <2>3
    <2> QED BY <2>4 DEF m
<1>5. c(0) = 0
    <2>1. C(0) = {}
        OBVIOUS
    <2> QED BY <2>1, FS_EmptySet
<1>6. c(N) = T
    <2>1. N \in 0 .. N /\ T \in 0 .. T /\ \A i \in 1 .. N : file[i].token < T
        BY <1>1
    <2> HIDE DEF c
    <2> QED BY <1>1, <1>3, <2>1
<1>7. ASSUME NEW n \in 1 .. N
      PROVE  c(n) = IF file[n].layer = l THEN c(n - 1) + 1 ELSE c(n - 1)
    <2> DEFINE A == C(n - 1)
    <2>1. n \in Nat /\ n - 1 \in Nat
        BY <1>1
    <2>2. IsFiniteSet(A)
        BY <1>2, <2>1
    <2>3. \A i : i \in 1 .. n <=> i \in 1 .. n - 1 \/ i = n
        BY <2>1
    <2>4. n \notin A
        BY <2>1
    <2>5. C(n) = IF file[n].layer = l THEN A \cup {n} ELSE A
        BY <2>3
    <2> HIDE DEF A, C
    <2>6. file[n].layer = l => Cardinality(C(n)) = Cardinality(A) + 1
        BY <2>2, <2>4, <2>5, FS_AddElement
    <2> QED BY <2>5, <2>6 DEF A
<1>8. ASSUME NEW n \in 1 .. N
      PROVE  w(n) = IF file[n].layer = l THEN Append(w(n - 1), file[n]) ELSE w(n - 1)
    <2>1. CASE file[n].layer = l
        <3> DEFINE f == [i \in Nat |-> Row(l, i - 1)]
                   m == c(n - 1)
                   s == w(n - 1)
        <3>1. m \in Nat
            <4>1. n - 1 \in Nat
                BY <1>1
            <4> QED BY <1>2, <4>1
        <3>2. c(n) = m + 1
            BY <1>7, <2>1
        <3>3. file[n] = Row(l, m)
            <4>1. file[n] = Row(l, file[n].token)
                BY <1>1, <2>1
            <4>2. file[n].token = m
                BY <1>4, <2>1
            <4> QED BY <4>1, <4>2
        <3> HIDE DEF c, m
        <3>4. s = [i \in 1 .. m |-> f[i]]
            <4>1. \A i \in 1 .. m : f[i] = Row(l, i - 1)
                BY <3>1
            <4> HIDE DEF f
            <4> QED BY <4>1 DEF m
        <3>5. file[n] = f[m + 1]
            <4>1. (m + 1) - 1 = m /\ m + 1 \in Nat
                BY <3>1
            <4> QED BY <3>3, <4>1
        <3>6. w(n) = [i \in 1 .. m + 1 |-> f[i]]
            <4>1. \A i \in 1 .. m + 1 : f[i] = Row(l, i - 1)
                BY <3>1
            <4> HIDE DEF f
            <4> QED BY <3>2, <4>1
        <3> HIDE DEF f, s
        <3>7. Append(s, file[n]) = [i \in 1 .. m + 1 |-> f[i]]
            BY <3>1, <3>4, <3>5, OneMoreSet
        <3> QED BY <2>1, <3>6, <3>7 DEF s
    <2>2. CASE file[n].layer # l
        <3>1. c(n) = c(n - 1)
            BY <1>7, <2>2
        <3> QED BY <2>2, <3>1
    <2> QED BY <2>1, <2>2
<1>9. w(0) = <<>>
    <2>1. 1 .. c(0) = {}
        BY <1>5
    <2> QED BY <2>1
<1> HIDE DEF c, w
<1>10. LayerRows(W, l)
    <2>1. \A n \in 0 .. N : W[n] = w(n)
        OBVIOUS
    <2>2. ASSUME NEW n \in 0 .. N
          PROVE  w(n) = IF n = 0 THEN <<>>
                        ELSE IF file[n].layer = l THEN Append(W[n - 1], file[n]) ELSE W[n - 1]
        <3>1. CASE n = 0
            BY <1>9, <3>1
        <3>2. CASE n # 0
            <4>1. n \in 1 .. N /\ n - 1 \in 0 .. N
                BY <1>1, <3>2
            <4> QED BY <1>8, <2>1, <3>2, <4>1
        <3> QED BY <3>1, <3>2
    <2>3. W = [n \in 0 .. N |-> IF n = 0 THEN <<>>
                        ELSE IF file[n].layer = l THEN Append(W[n - 1], file[n]) ELSE W[n - 1]]
        <3>1. W = [n \in 0 .. N |-> w(n)]
            OBVIOUS
        <3> DEFINE V == W
        <3> HIDE DEF V
        <3>2. \A n \in 0 .. N : w(n) = IF n = 0 THEN <<>>
                        ELSE IF file[n].layer = l THEN Append(V[n - 1], file[n]) ELSE V[n - 1]
            BY <2>2 DEF V
        <3>3. V = [n \in 0 .. N |-> w(n)]
            BY <3>1 DEF V
        <3>4. V = [n \in 0 .. N |-> IF n = 0 THEN <<>>
                        ELSE IF file[n].layer = l THEN Append(V[n - 1], file[n]) ELSE V[n - 1]]
            BY <3>2, <3>3
        <3> QED BY <3>4 DEF V
    <2> HIDE DEF W
    <2> QED BY <2>3 DEF LayerRows, N
<1> DEFINE f == CHOOSE f : LayerRows(f, l)
<1>11. LayerRows(f, l)
    <2> HIDE DEF W
    <2> QED BY <1>10
<1>12. RowsOf(file, l) = f[N]
    BY DEF RowsOf, LayerRows, N
<1> HIDE DEF f
<1>13. \A n \in 0 .. N : f[n] = IF n = 0 THEN <<>>
            ELSE IF file[n].layer = l THEN Append(f[n - 1], file[n]) ELSE f[n - 1]
    <2> DEFINE g == [n \in 0 .. N |-> IF n = 0 THEN <<>>
            ELSE IF file[n].layer = l THEN Append(f[n - 1], file[n]) ELSE f[n - 1]]
    <2>1. f = g
        BY <1>11 DEF LayerRows, N
    <2>2. \A n \in 0 .. N : g[n] = IF n = 0 THEN <<>>
            ELSE IF file[n].layer = l THEN Append(f[n - 1], file[n]) ELSE f[n - 1]
        OBVIOUS
    <2> HIDE DEF g
    <2> QED BY <2>1, <2>2
<1>14. \A n \in 0 .. N : f[n] = w(n)
    <2> DEFINE Off == {n \in 0 .. N : f[n] # w(n)}
    <2> SUFFICES ASSUME Off # {} PROVE FALSE
        OBVIOUS
    <2>1. Off \in SUBSET Nat
        BY <1>1
    <2> DEFINE n == Min(Off)
    <2>2. n \in Off /\ \A x \in Off : n <= x
        BY <2>1, LeastNat
    <2> HIDE DEF n
    <2>3. n \in 0 .. N /\ f[n] # w(n)
        BY <2>2
    <2>4. n # 0
        BY <1>9, <1>13, <2>3
    <2>5. n \in 1 .. N /\ n - 1 \in 0 .. N /\ ~(n <= n - 1)
        BY <1>1, <2>3, <2>4
    <2>6. f[n - 1] = w(n - 1)
        BY <2>2, <2>5
    <2> QED BY <1>8, <1>13, <2>3, <2>4, <2>5, <2>6
<1>15. f[N] = w(N)
    BY <1>1, <1>14
<1>16. w(N) = [i \in 1 .. T |-> Row(l, i - 1)]
    BY <1>6 DEF w
<1> QED BY <1>12, <1>15, <1>16

LEMMA IdsAreRouting ==
    ASSUME EveryRow, RouteOK, T \in Nat \ {0}
    PROVE  IdsOf(file) = routing
<1>1. ASSUME NEW l \in Layers
      PROVE  LET rows == RowsOf(file, l) IN [i \in DOMAIN rows |-> rows[i].ids] = routing[l]
    <2> DEFINE rows == RowsOf(file, l)
               out == [i \in DOMAIN rows |-> rows[i].ids]
    <2>1. rows = [i \in 1 .. T |-> Row(l, i - 1)]
        BY RowsInOrder
    <2> HIDE DEF rows
    <2>2. DOMAIN rows = 1 .. T /\ \A i \in 1 .. T : rows[i] = Row(l, i - 1)
        BY <2>1
    <2>3. \A i \in 1 .. T : rows[i].ids = routing[l][i]
        <3> TAKE i \in 1 .. T
        <3>1. rows[i].ids = routing[l][(i - 1) + 1]
            BY <2>2, RowFields
        <3> QED BY <3>1
    <2>4. routing[l] = [i \in 1 .. T |-> routing[l][i]]
        BY DEF RouteOK
    <2>5. out = [i \in 1 .. T |-> routing[l][i]]
        BY <2>2, <2>3
    <2> QED BY <2>4, <2>5 DEF rows
<1>2. routing = [l \in Layers |-> routing[l]]
    BY DEF RouteOK
<1> QED BY <1>1, <1>2 DEF IdsOf

----------------------------------------------------------------------------
(* The two derivations of the lease events: calls from the shape, pieces   *)
(* from the order of the rows.                                             *)

Ended ==
    /\ ShapeOK /\ RouteOK /\ EveryRow /\ LeasesCounted
    /\ T \in Nat \ {0} /\ L \in Nat \ {0} /\ \A l \in Layers : Through(l) = T

Prefill == (shape.n_prompt + shape.ub - 1) \div shape.ub

LEMMA CallNumbers ==
    ASSUME ShapeOK
    PROVE  /\ Prefill \in Nat \ {0}
           /\ \A k \in Nat : CallAt(k) \in Nat
           /\ \A k \in Nat : k < shape.n_prompt => CallAt(k) < Prefill
           /\ \A k \in Nat : k >= shape.n_prompt => CallAt(k) = Prefill + (k - shape.n_prompt)
<1>1. PICK n \in Nat \ {0}, u \in Nat \ {0} : n = shape.n_prompt /\ u = shape.ub
    BY ShapeIs
<1>2. \A k \in Nat : CallOf(k, n, u) \in Nat
    BY CallsInOrder
<1>3. /\ (n + u - 1) \div u \in Nat \ {0}
      /\ \A k \in Nat : k < n => CallOf(k, n, u) < (n + u - 1) \div u
      /\ \A k \in Nat : k >= n => CallOf(k, n, u) = ((n + u - 1) \div u) + (k - n)
    BY PromptCalls
<1>4. Prefill = (n + u - 1) \div u /\ \A k : CallAt(k) = CallOf(k, n, u)
    BY <1>1 DEF Prefill, CallAt
<1> QED BY <1>1, <1>2, <1>3, <1>4

\* The call (d = 0) or the piece (d = 1) of a row, with its layer.
KeyAt(i, d) == <<CallAt(file[i].token) + d, file[i].layer>>
KeysOf(d) == {KeyAt(i, d) : i \in DOMAIN file}
MissedAt(c, d) == UNION {NonRes(file[i], resident) : i \in {j \in DOMAIN file : KeyAt(j, d) = c}}
NeedsOf(d) == [c \in KeysOf(d) |-> Cardinality(MissedAt(c, d))]

LEMMA RowMisses ==
    ASSUME EveryRow, NEW i \in 1 .. Len(file)
    PROVE  NonRes(file[i], resident) = Wanted(file[i].layer, file[i].token)
<1>1. file[i].ids = routing[file[i].layer][file[i].token + 1]
    BY DEF EveryRow
<1> QED BY <1>1 DEF NonRes, Wanted

LEMMA KeyMembers ==
    ASSUME Ended, NEW d \in Nat
    PROVE  /\ \A c : c \in KeysOf(d) <=> \E l \in Layers, k \in 0 .. T - 1 : c = <<CallAt(k) + d, l>>
           /\ \A l \in Layers, k \in 0 .. T - 1 :
                 MissedAt(<<CallAt(k) + d, l>>, d) = NeedOf(l, CallAt(k))
           /\ IsFiniteSet(KeysOf(d))
<1> DEFINE N == Len(file)
<1>1. /\ N \in Nat /\ DOMAIN file = 1 .. N /\ EveryRow /\ ShapeOK /\ T \in Nat
      /\ \A i \in 1 .. N : file[i].layer \in Layers /\ file[i].token \in 0 .. T - 1
      /\ \A l \in Layers : \A k \in 0 .. T - 1 :
            \E i \in 1 .. N : file[i].layer = l /\ file[i].token = k
    BY DEF Ended, EveryRow
<1>2. \A i \in 1 .. N : NonRes(file[i], resident) = Wanted(file[i].layer, file[i].token)
    BY <1>1, RowMisses
<1> HIDE DEF N
<1>3. \A k \in 0 .. T - 1 : CallAt(k) \in Nat
    BY <1>1, CallNumbers
<1>4. ASSUME NEW c
      PROVE  c \in KeysOf(d) <=> \E l \in Layers, k \in 0 .. T - 1 : c = <<CallAt(k) + d, l>>
    <2>1. ASSUME c \in KeysOf(d) PROVE \E l \in Layers, k \in 0 .. T - 1 : c = <<CallAt(k) + d, l>>
        <3>1. PICK i \in 1 .. N : c = KeyAt(i, d)
            BY <1>1, <2>1 DEF KeysOf
        <3> QED BY <1>1, <3>1 DEF KeyAt
    <2>2. ASSUME NEW l \in Layers, NEW k \in 0 .. T - 1, c = <<CallAt(k) + d, l>> PROVE c \in KeysOf(d)
        <3>1. PICK i \in 1 .. N : file[i].layer = l /\ file[i].token = k
            BY <1>1
        <3>2. c = KeyAt(i, d)
            BY <2>2, <3>1 DEF KeyAt
        <3> QED BY <1>1, <3>2 DEF KeysOf
    <2> QED BY <2>1, <2>2
<1>5. ASSUME NEW l \in Layers, NEW k \in 0 .. T - 1
      PROVE  MissedAt(<<CallAt(k) + d, l>>, d) = NeedOf(l, CallAt(k))
    <2> DEFINE I == {j \in DOMAIN file : KeyAt(j, d) = <<CallAt(k) + d, l>>}
               X == {x \in 0 .. T - 1 : CallAt(x) = CallAt(k)}
    <2>1. \A i : i \in I <=> i \in 1 .. N /\ file[i].layer = l /\ file[i].token \in X
        <3> TAKE i
        <3>1. ASSUME i \in 1 .. N
              PROVE  KeyAt(i, d) = <<CallAt(k) + d, l>>
                        <=> file[i].layer = l /\ CallAt(file[i].token) = CallAt(k)
            <4>1. CallAt(file[i].token) \in Nat /\ CallAt(k) \in Nat
                BY <1>1, <1>3, <3>1
            <4>2. CallAt(file[i].token) + d = CallAt(k) + d <=> CallAt(file[i].token) = CallAt(k)
                BY <4>1
            <4> QED BY <4>2 DEF KeyAt
        <3> QED BY <1>1, <3>1
    <2> HIDE DEF I, X
    <2>2. \A x \in X : x \in 0 .. T - 1
        BY DEF X
    <2>3. UNION {NonRes(file[i], resident) : i \in I} = UNION {Wanted(l, x) : x \in X}
        <3>1. \A i \in I : file[i].token \in X /\ NonRes(file[i], resident) = Wanted(l, file[i].token)
            BY <1>2, <2>1
        <3>2. \A x \in X : \E i \in I : NonRes(file[i], resident) = Wanted(l, x)
            <4> TAKE x \in X
            <4>1. PICK i \in 1 .. N : file[i].layer = l /\ file[i].token = x
                BY <1>1, <2>2
            <4> QED BY <1>2, <2>1, <4>1
        <3> QED BY <3>1, <3>2
    <2> QED BY <2>3 DEF MissedAt, NeedOf, I, X
<1>6. IsFiniteSet(KeysOf(d))
    <2> DEFINE I == 1 .. N
               g == [i \in I |-> KeyAt(i, d)]
    <2>1. g = [i \in I |-> g[i]] /\ KeysOf(d) = {g[i] : i \in I}
        BY <1>1 DEF KeysOf
    <2>2. IsFiniteSet(I)
        BY <1>1, FS_Interval
    <2> HIDE DEF g, I
    <2>3. IsFiniteSet({g[i] : i \in I})
        BY <2>1, <2>2, ImageBound
    <2> QED BY <2>1, <2>3
<1> QED BY <1>4, <1>5, <1>6

LEMMA NeedsTyped ==
    ASSUME Ended, NEW d \in Nat
    PROVE  /\ NeedsOf(d) \in [KeysOf(d) -> Nat]
           /\ \A c \in KeysOf(d) : IsFiniteSet(MissedAt(c, d)) /\ NeedsOf(d)[c] = Cardinality(MissedAt(c, d))
           /\ \A l \in Layers, k \in 0 .. T - 1 :
                 /\ <<CallAt(k) + d, l>> \in KeysOf(d)
                 /\ NeedsOf(d)[<<CallAt(k) + d, l>>] = Cardinality(NeedOf(l, CallAt(k)))
<1>1. /\ \A c : c \in KeysOf(d) <=> \E l \in Layers, k \in 0 .. T - 1 : c = <<CallAt(k) + d, l>>
      /\ \A l \in Layers, k \in 0 .. T - 1 : MissedAt(<<CallAt(k) + d, l>>, d) = NeedOf(l, CallAt(k))
    BY KeyMembers
<1>2. \A l \in Layers : \A c : IsFiniteSet(NeedOf(l, c)) /\ Cardinality(NeedOf(l, c)) \in Nat
    BY WantedFinite DEF Ended
<1>3. \A c \in KeysOf(d) : NeedsOf(d)[c] = Cardinality(MissedAt(c, d))
    BY DEF NeedsOf
<1>4. \A c \in KeysOf(d) : IsFiniteSet(MissedAt(c, d)) /\ Cardinality(MissedAt(c, d)) \in Nat
    <2> TAKE c \in KeysOf(d)
    <2>1. PICK l \in Layers, k \in 0 .. T - 1 : c = <<CallAt(k) + d, l>>
        BY <1>1
    <2>2. MissedAt(c, d) = NeedOf(l, CallAt(k))
        BY <1>1, <2>1
    <2> QED BY <1>2, <2>2
<1>5. NeedsOf(d) \in [KeysOf(d) -> Nat]
    BY <1>4 DEF NeedsOf
<1>6. \A l \in Layers, k \in 0 .. T - 1 : <<CallAt(k) + d, l>> \in KeysOf(d)
    BY <1>1
<1> QED BY <1>1, <1>3, <1>4, <1>5, <1>6

\* Their needs add up to the lease events.
LEMMA NeedsAddUp ==
    ASSUME Ended, NEW d \in Nat
    PROVE  Total(NeedsOf(d)) = Total(lease_events)
<1> DEFINE Ks == KeysOf(d)
           M == [c \in Ks |-> MissedAt(c, d)]
           A == Pairs(Ks, M)
           Q == [l \in Layers |-> LeasedIn(l)]
           B == Pairs(Layers, Q)
           h == [q \in A |-> <<q[1][2], <<q[1][1] - d, q[2]>>>>]
<1>1. /\ \A c : c \in Ks <=> \E l \in Layers, k \in 0 .. T - 1 : c = <<CallAt(k) + d, l>>
      /\ \A l \in Layers, k \in 0 .. T - 1 : MissedAt(<<CallAt(k) + d, l>>, d) = NeedOf(l, CallAt(k))
      /\ IsFiniteSet(Ks)
    BY KeyMembers
<1>2. /\ \A c \in Ks : IsFiniteSet(MissedAt(c, d)) /\ NeedsOf(d)[c] = Cardinality(MissedAt(c, d))
      /\ NeedsOf(d) \in [Ks -> Nat]
    BY NeedsTyped
<1>3. \A l \in Layers : Through(l) = T /\ T \in Nat /\ lease_events[l] = Cardinality(LeasedIn(l))
    BY DEF Ended, LeasesCounted
<1>4. lease_events \in [Layers -> Nat] /\ IsFiniteSet(Layers)
    <2>1. 0 \in Int /\ L - 1 \in Int
        BY LogAssumption
    <2> QED BY <2>1, FS_Interval DEF Ended, LeasesCounted, Layers
<1>5. \A l \in Layers : IsFiniteSet(LeasedIn(l))
    BY <1>3, LeasedFinite
<1>6. \A k \in 0 .. T - 1 : CallAt(k) \in Nat
    <2>1. ShapeOK /\ T \in Nat
        BY DEF Ended
    <2> QED BY <2>1, CallNumbers
<1>7. \A c \in Ks : M[c] = MissedAt(c, d)
    OBVIOUS
<1>8. \A l \in Layers : Q[l] = LeasedIn(l)
    OBVIOUS
<1> HIDE DEF Ks, M, Q
<1>9. /\ \A q : q \in A <=> q = <<q[1], q[2]>> /\ q[1] \in Ks /\ q[2] \in M[q[1]]
      /\ IsFiniteSet(A) /\ Total([c \in Ks |-> Cardinality(M[c])]) = Cardinality(A)
    <2>1. \A c \in Ks : IsFiniteSet(M[c])
        BY <1>2, <1>7
    <2> QED BY <1>1, <2>1, PairsSize
<1>10. /\ \A q : q \in B <=> q = <<q[1], q[2]>> /\ q[1] \in Layers /\ q[2] \in Q[q[1]]
       /\ Total([l \in Layers |-> Cardinality(Q[l])]) = Cardinality(B)
    <2>1. \A l \in Layers : IsFiniteSet(Q[l])
        BY <1>5, <1>8
    <2> QED BY <1>4, <2>1, PairsSize
<1>11. [c \in Ks |-> Cardinality(M[c])] = NeedsOf(d)
    BY <1>2, <1>7
<1>12. [l \in Layers |-> Cardinality(Q[l])] = lease_events
    BY <1>3, <1>4, <1>8
<1>13. \A q \in A : h[q] = <<q[1][2], <<q[1][1] - d, q[2]>>>>
    OBVIOUS
<1> HIDE DEF A, B, h
\* A lease of a layer: its call computes a token that wants the expert.
<1>14. \A l \in Layers : \A p : p \in Q[l] <=>
           \E k \in 0 .. T - 1 : p = <<CallAt(k), p[2]>> /\ p[2] \in NeedOf(l, CallAt(k))
    <2> TAKE l \in Layers
    <2> TAKE p
    <2>1. ASSUME p \in Q[l]
          PROVE  \E k \in 0 .. T - 1 : p = <<CallAt(k), p[2]>> /\ p[2] \in NeedOf(l, CallAt(k))
        <3>1. p \in LeasedIn(l)
            BY <1>8, <2>1
        <3>2. p \in Nat \X Experts /\ \E k \in 0 .. T - 1 : CallAt(k) = p[1] /\ p[2] \in Wanted(l, k)
            BY <1>3, <3>1 DEF LeasedIn
        <3>3. PICK k \in 0 .. T - 1 : CallAt(k) = p[1] /\ p[2] \in Wanted(l, k)
            BY <3>2
        <3>4. p[2] \in NeedOf(l, CallAt(k))
            BY <3>3 DEF NeedOf
        <3>5. p = <<CallAt(k), p[2]>>
            BY <3>2, <3>3
        <3> QED BY <3>4, <3>5
    <2>2. ASSUME NEW k \in 0 .. T - 1, p = <<CallAt(k), p[2]>>, p[2] \in NeedOf(l, CallAt(k))
          PROVE  p \in Q[l]
        <3>1. PICK x \in 0 .. T - 1 : CallAt(x) = CallAt(k) /\ p[2] \in Wanted(l, x)
            BY <2>2 DEF NeedOf
        <3>2. p[1] = CallAt(k)
            BY <2>2
        <3>3. p[2] \in Experts
            <4>1. NeedOf(l, CallAt(k)) \in SUBSET Experts
                BY WantedFinite DEF Ended
            <4> QED BY <2>2, <4>1
        <3>4. p \in Nat \X Experts
            BY <1>6, <2>2, <3>3
        <3>5. p \in LeasedIn(l)
            BY <1>3, <3>1, <3>2, <3>4 DEF LeasedIn
        <3> QED BY <1>8, <3>5
    <2> QED BY <2>1, <2>2
<1>15. ASSUME NEW q \in A
       PROVE  \E l \in Layers, k \in 0 .. T - 1 :
                 /\ q = <<<<CallAt(k) + d, l>>, q[2]>> /\ q[2] \in NeedOf(l, CallAt(k))
                 /\ h[q] = <<l, <<CallAt(k), q[2]>>>>
    <2>1. q = <<q[1], q[2]>> /\ q[1] \in Ks /\ q[2] \in M[q[1]]
        BY <1>9
    <2>2. PICK l \in Layers, k \in 0 .. T - 1 : q[1] = <<CallAt(k) + d, l>>
        BY <1>1, <2>1
    <2>3. q[2] \in NeedOf(l, CallAt(k))
        BY <1>1, <1>7, <2>1, <2>2
    <2>4. q[1][1] = CallAt(k) + d /\ q[1][2] = l
        BY <2>2
    <2>5. (CallAt(k) + d) - d = CallAt(k)
        BY <1>6
    <2>6. h[q] = <<l, <<CallAt(k), q[2]>>>>
        BY <1>13, <2>4, <2>5
    <2> QED BY <2>1, <2>2, <2>3, <2>6
<1>16. \A q \in A : h[q] \in B
    <2> TAKE q \in A
    <2>1. PICK l \in Layers, k \in 0 .. T - 1 :
                 q[2] \in NeedOf(l, CallAt(k)) /\ h[q] = <<l, <<CallAt(k), q[2]>>>>
        BY <1>15
    <2> DEFINE p == <<CallAt(k), q[2]>>
    <2>2. p = <<CallAt(k), p[2]>> /\ p[2] = q[2]
        OBVIOUS
    <2> HIDE DEF p
    <2>3. p \in Q[l]
        BY <1>14, <2>1, <2>2
    <2>4. h[q] = <<l, p>> /\ <<l, p>>[1] = l /\ <<l, p>>[2] = p
        BY <2>1 DEF p
    <2> QED BY <1>10, <2>3, <2>4
<1>17. \A q, r \in A : h[q] = h[r] => q = r
    <2> TAKE q, r \in A
    <2> HAVE h[q] = h[r]
    <2>1. PICK l \in Layers, k \in 0 .. T - 1 :
             q = <<<<CallAt(k) + d, l>>, q[2]>> /\ h[q] = <<l, <<CallAt(k), q[2]>>>>
        BY <1>15
    <2>2. PICK m \in Layers, j \in 0 .. T - 1 :
             r = <<<<CallAt(j) + d, m>>, r[2]>> /\ h[r] = <<m, <<CallAt(j), r[2]>>>>
        BY <1>15
    <2>3. <<l, <<CallAt(k), q[2]>>>> = <<m, <<CallAt(j), r[2]>>>>
        BY <2>1, <2>2, Zenon
    <2>4. l = m /\ <<CallAt(k), q[2]>> = <<CallAt(j), r[2]>>
        BY <2>3
    <2>5. CallAt(k) = CallAt(j) /\ q[2] = r[2]
        BY <2>4
    <2> QED BY <2>1, <2>2, <2>4, <2>5, Zenon
<1>18. \A b \in B : \E q \in A : h[q] = b
    <2> TAKE b \in B
    <2>1. b = <<b[1], b[2]>> /\ b[1] \in Layers /\ b[2] \in Q[b[1]]
        BY <1>10
    <2> DEFINE l == b[1]
               p == b[2]
    <2>2. PICK k \in 0 .. T - 1 : p = <<CallAt(k), p[2]>> /\ p[2] \in NeedOf(l, CallAt(k))
        BY <1>14, <2>1
    <2> DEFINE c == <<CallAt(k) + d, l>>
               q == <<c, p[2]>>
    <2>3. c \in Ks /\ M[c] = NeedOf(l, CallAt(k))
        BY <1>1, <1>7, <2>1
    <2>4. q \in A
        <3>1. q = <<q[1], q[2]>> /\ q[1] = c /\ q[2] = p[2]
            OBVIOUS
        <3> HIDE DEF q, c, p, l
        <3> QED BY <1>9, <2>2, <2>3, <3>1
    <2>5. h[q] = <<l, <<(CallAt(k) + d) - d, p[2]>>>>
        <3>1. q[1][2] = l /\ q[1][1] = CallAt(k) + d /\ q[2] = p[2]
            OBVIOUS
        <3> HIDE DEF q, p, l
        <3> QED BY <1>13, <2>4, <3>1
    <2>6. (CallAt(k) + d) - d = CallAt(k)
        BY <1>6
    <2>7. h[q] = b
        <3> HIDE DEF q
        <3> QED BY <2>1, <2>2, <2>5, <2>6
    <2> QED BY <2>4, <2>7
<1>19. h \in Bijection(A, B)
    <2>1. h = [q \in A |-> h[q]]
        BY DEF h
    <2>2. h \in [A -> B]
        BY <1>16, <2>1
    <2> QED BY <1>17, <1>18, <2>2 DEF Bijection, Injection, Surjection, IsInjective
<1>20. Cardinality(A) = Cardinality(B)
    BY <1>9, <1>19, FS_Bijection DEF ExistsBijection
<1> QED BY <1>9, <1>10, <1>11, <1>12, <1>20

\* The largest of the counts that a peak is over.
LEMMA MostIsPeak ==
    ASSUME NEW p, NEW S, PeakIs(p, S)
    PROVE  Most(S) = p
<1> DEFINE X == {0} \cup S
<1>1. p \in Nat /\ X \in SUBSET Nat /\ X # {} /\ (\A x \in X : x <= p) /\ p \in X
    BY DEF PeakIs
<1> HIDE DEF X
<1>2. Max(X) \in X /\ \A x \in X : x <= Max(X)
    BY <1>1, GreatestNat
<1>3. Max(X) <= p /\ p <= Max(X) /\ Max(X) \in Nat
    BY <1>1, <1>2
<1>4. Max(X) = p
    BY <1>1, <1>3
<1> QED BY <1>4 DEF Most, X

\* The calls or pieces of the decode, and the peaks.
LateKeys(d) == {c \in KeysOf(d) : \E k \in shape.n_prompt .. T - 1 : c[1] = CallAt(k) + d}

LEMMA LateMembers ==
    ASSUME Ended, NEW d \in Nat
    PROVE  \A c : c \in LateKeys(d) <=>
              \E l \in Layers, k \in 0 .. T - 1 : k >= shape.n_prompt /\ c = <<CallAt(k) + d, l>>
<1>1. \A c : c \in KeysOf(d) <=> \E l \in Layers, k \in 0 .. T - 1 : c = <<CallAt(k) + d, l>>
    BY KeyMembers
<1>2. PICK n \in Nat : n = shape.n_prompt
    BY ShapeIs DEF Ended
<1>3. T \in Nat
    BY DEF Ended
<1> TAKE c
<1>4. ASSUME c \in LateKeys(d)
      PROVE  \E l \in Layers, k \in 0 .. T - 1 : k >= n /\ c = <<CallAt(k) + d, l>>
    <2>1. PICK l \in Layers, j \in 0 .. T - 1 : c = <<CallAt(j) + d, l>>
        BY <1>1, <1>4 DEF LateKeys
    <2>2. PICK k \in n .. T - 1 : c[1] = CallAt(k) + d
        BY <1>2, <1>4 DEF LateKeys
    <2>3. c = <<CallAt(k) + d, l>> /\ k \in 0 .. T - 1 /\ k >= n
        BY <1>3, <2>1, <2>2
    <2> QED BY <2>3
<1>5. ASSUME NEW l \in Layers, NEW k \in 0 .. T - 1, k >= n, c = <<CallAt(k) + d, l>>
      PROVE  c \in LateKeys(d)
    <2>1. c \in KeysOf(d) /\ c[1] = CallAt(k) + d
        BY <1>1, <1>5
    <2>2. k \in n .. T - 1
        BY <1>3, <1>5
    <2> QED BY <1>2, <2>1, <2>2 DEF LateKeys
<1> QED BY <1>2, <1>4, <1>5

LEMMA PeaksAgain ==
    ASSUME Ended, NEW d \in Nat
    PROVE  /\ Most({NeedsOf(d)[c] : c \in KeysOf(d)}) = peak_leased
           /\ Most({NeedsOf(d)[c] : c \in LateKeys(d)}) = decode_leased
<1>1. PICK n \in Nat : n = shape.n_prompt
    BY ShapeIs DEF Ended
<1>2. /\ \A c : c \in KeysOf(d) <=> \E l \in Layers, k \in 0 .. T - 1 : c = <<CallAt(k) + d, l>>
      /\ \A c : c \in LateKeys(d) <=>
              \E l \in Layers, k \in 0 .. T - 1 : k >= n /\ c = <<CallAt(k) + d, l>>
    BY <1>1, KeyMembers, LateMembers
<1>3. \A l \in Layers, k \in 0 .. T - 1 :
          NeedsOf(d)[<<CallAt(k) + d, l>>] = Cardinality(NeedOf(l, CallAt(k)))
    BY NeedsTyped
<1>4. /\ \A l \in Layers : Through(l) = T
      /\ T \in Nat /\ PeakIs(peak_leased, NeedsFrom(0)) /\ PeakIs(decode_leased, NeedsFrom(n))
    BY <1>1 DEF Ended, LeasesCounted
<1>5. \A lo, x : x \in NeedsFrom(lo) <=> \E l \in Layers, k \in 0 .. T - 1 :
                lo <= k /\ k < Through(l) /\ x = Cardinality(NeedOf(l, CallAt(k)))
    BY NeedsAre DEF NeedsAll
<1>6. \A lo, x : x \in NeedsFrom(lo) <=> \E l \in Layers, k \in 0 .. T - 1 :
                lo <= k /\ x = NeedsOf(d)[<<CallAt(k) + d, l>>]
    <2>1. \A k \in 0 .. T - 1 : k < T
        BY <1>4
    <2> TAKE lo, x
    <2>2. ASSUME x \in NeedsFrom(lo)
          PROVE  \E l \in Layers, k \in 0 .. T - 1 :
                    lo <= k /\ x = NeedsOf(d)[<<CallAt(k) + d, l>>]
        <3>1. PICK l \in Layers, k \in 0 .. T - 1 : lo <= k /\ x = Cardinality(NeedOf(l, CallAt(k)))
            BY <1>5, <2>2
        <3> QED BY <1>3, <3>1
    <2>3. ASSUME NEW l \in Layers, NEW k \in 0 .. T - 1,
                 lo <= k, x = NeedsOf(d)[<<CallAt(k) + d, l>>]
          PROVE  x \in NeedsFrom(lo)
        <3>1. x = Cardinality(NeedOf(l, CallAt(k))) /\ k < Through(l)
            BY <1>3, <1>4, <2>1, <2>3
        <3> QED BY <1>5, <2>3, <3>1
    <2> QED BY <2>2, <2>3
<1> DEFINE S == {NeedsOf(d)[c] : c \in KeysOf(d)}
           R == {NeedsOf(d)[c] : c \in LateKeys(d)}
<1>7. \A x : x \in S <=> \E c \in KeysOf(d) : x = NeedsOf(d)[c]
    OBVIOUS
<1>8. \A x : x \in R <=> \E c \in LateKeys(d) : x = NeedsOf(d)[c]
    OBVIOUS
<1> HIDE DEF S, R
<1>9. S = NeedsFrom(0)
    <2>1. \A k \in 0 .. T - 1 : 0 <= k
        BY <1>4
    <2>2. \A x \in S : x \in NeedsFrom(0)
        BY <1>2, <1>6, <1>7, <2>1
    <2>3. \A x \in NeedsFrom(0) : x \in S
        BY <1>2, <1>6, <1>7
    <2> QED BY <2>2, <2>3
<1>10. R = NeedsFrom(n)
    <2>1. \A k \in 0 .. T - 1 : n <= k <=> k >= n
        BY <1>1, <1>4
    <2>2. \A x \in R : x \in NeedsFrom(n)
        BY <1>2, <1>6, <1>8, <2>1
    <2>3. \A x \in NeedsFrom(n) : x \in R
        BY <1>2, <1>6, <1>8, <2>1
    <2> QED BY <2>2, <2>3
<1>11. Most(S) = peak_leased /\ Most(R) = decode_leased
    BY <1>4, <1>9, <1>10, MostIsPeak
<1> QED BY <1>11 DEF S, R

----------------------------------------------------------------------------
(* Picks outside a set, with multiplicity, of rows that repeat none.       *)

LEMMA OutsideAddsUp ==
    ASSUME NEW n \in Nat, NEW s \in [1 .. n -> [1 .. Picks -> Experts]],
           \A i \in 1 .. n : \A a, b \in 1 .. Picks : s[i][a] = s[i][b] => a = b, NEW S
    PROVE  Outside(s, S) = Total([i \in 1 .. n |-> Cardinality(ToSet(s[i]) \ S)])
<1> DEFINE I == 1 .. n
           J == 1 .. Picks
           In == {p \in I \X J : s[p[1]][p[2]] \in S}
           Out == {p \in I \X J : s[p[1]][p[2]] \notin S}
           D == [i \in I |-> ToSet(s[i]) \ S]
           B == Pairs(I, D)
           h == [p \in Out |-> <<p[1], s[p[1]][p[2]]>>]
<1>1. /\ IsFiniteSet(I) /\ Cardinality(I) = n
      /\ IsFiniteSet(J) /\ Cardinality(J) = Picks /\ Picks \in Nat
    <2>1. 1 \in Int /\ n \in Int /\ Picks \in Nat
        BY PolicyAssumption
    <2> QED BY <2>1, FS_Interval
<1>2. DOMAIN s = I /\ Len(s) = n
    OBVIOUS
<1>3. \A i \in I : s[i] \in [J -> Experts] /\ \A a, b \in J : s[i][a] = s[i][b] => a = b
    OBVIOUS
<1> HIDE DEF I, J
<1>4. IsFiniteSet(I \X J) /\ Cardinality(I \X J) = n * Picks
    BY <1>1, FS_Product
<1>5. In \in SUBSET (I \X J) /\ Out \in SUBSET (I \X J) /\ In \cup Out = I \X J /\ In \cap Out = {}
    OBVIOUS
<1>6. PicksIn(s, S) = Cardinality(In)
    BY <1>2 DEF PicksIn, J
<1>7. \A p : p \in Out <=> p = <<p[1], p[2]>> /\ p[1] \in I /\ p[2] \in J /\ s[p[1]][p[2]] \notin S
    OBVIOUS
<1>8. \A p \in Out : h[p] = <<p[1], s[p[1]][p[2]]>>
    OBVIOUS
<1>9. \A i \in I : IsFiniteSet(D[i]) /\ \A e : e \in D[i] <=> \E a \in J : e = s[i][a] /\ e \notin S
    <2> TAKE i \in I
    <2>1. D[i] = ToSet(s[i]) \ S /\ DOMAIN s[i] = J /\ ToSet(s[i]) \in SUBSET Experts
        BY <1>3 DEF ToSet
    <2>2. \A e : e \in ToSet(s[i]) <=> \E a \in J : e = s[i][a]
        BY <2>1 DEF ToSet
    <2> HIDE DEF D
    <2>3. D[i] \in SUBSET Experts
        BY <2>1
    <2> QED BY <2>1, <2>2, <2>3, ExpertSetsFinite
<1>10. [i \in I |-> Cardinality(D[i])] = [i \in I |-> Cardinality(ToSet(s[i]) \ S)]
    OBVIOUS
<1> HIDE DEF In, Out, D
<1>11. IsFiniteSet(In) /\ IsFiniteSet(Out)
    BY <1>4, <1>5, FS_Subset
<1>12. Cardinality(In) + Cardinality(Out) = n * Picks /\ Cardinality(In) \in Nat /\ Cardinality(Out) \in Nat
    <2>1. Cardinality(In \cup Out) = Cardinality(In) + Cardinality(Out) - Cardinality(In \cap Out)
        BY <1>11, FS_Union
    <2>2. Cardinality(In \cap Out) = 0
        BY <1>5, FS_EmptySet
    <2>3. Cardinality(In) \in Nat /\ Cardinality(Out) \in Nat
        BY <1>11, FS_CardinalityType
    <2>4. Cardinality(In \cup Out) = n * Picks
        <3>1. In \cup Out = I \X J
            BY <1>5
        <3> QED BY <1>4, <3>1
    <2> DEFINE x == Cardinality(In)
               y == Cardinality(Out)
    <2>5. n * Picks = x + y - 0 /\ x \in Nat /\ y \in Nat
        BY <2>1, <2>2, <2>3, <2>4
    <2> HIDE DEF x, y
    <2>6. x + y = n * Picks
        BY <2>5
    <2> QED BY <2>3, <2>6 DEF x, y
<1>13. /\ \A q : q \in B <=> q = <<q[1], q[2]>> /\ q[1] \in I /\ q[2] \in D[q[1]]
       /\ Total([i \in I |-> Cardinality(D[i])]) = Cardinality(B)
    BY <1>1, <1>9, PairsSize
<1> HIDE DEF B, h
<1>14. \A p \in Out : h[p] \in B
    <2> TAKE p \in Out
    <2>1. p[1] \in I /\ p[2] \in J /\ s[p[1]][p[2]] \notin S
        BY <1>7
    <2>2. s[p[1]][p[2]] \in D[p[1]]
        BY <1>9, <2>1
    <2> DEFINE q == <<p[1], s[p[1]][p[2]]>>
    <2>3. q = <<q[1], q[2]>> /\ q[1] = p[1] /\ q[2] = s[p[1]][p[2]]
        OBVIOUS
    <2>4. h[p] = q
        BY <1>8
    <2> HIDE DEF q
    <2> QED BY <1>13, <2>1, <2>2, <2>3, <2>4
<1>15. \A p, q \in Out : h[p] = h[q] => p = q
    <2> TAKE p, q \in Out
    <2> HAVE h[p] = h[q]
    <2>1. p[1] = q[1] /\ s[p[1]][p[2]] = s[q[1]][q[2]]
        BY <1>8
    <2>2. p[2] = q[2]
        BY <1>3, <1>7, <2>1
    <2> QED BY <1>7, <2>1, <2>2
<1>16. \A b \in B : \E p \in Out : h[p] = b
    <2> TAKE b \in B
    <2>1. b = <<b[1], b[2]>> /\ b[1] \in I /\ b[2] \in D[b[1]]
        BY <1>13
    <2>2. PICK a \in J : b[2] = s[b[1]][a] /\ b[2] \notin S
        BY <1>9, <2>1
    <2> DEFINE p == <<b[1], a>>
    <2>3. p = <<p[1], p[2]>> /\ p[1] = b[1] /\ p[2] = a
        OBVIOUS
    <2> HIDE DEF p
    <2>4. p \in Out
        BY <1>7, <2>1, <2>2, <2>3
    <2>5. h[p] = b
        BY <1>8, <2>1, <2>2, <2>3, <2>4
    <2> QED BY <2>4, <2>5
<1>17. h \in Bijection(Out, B)
    <2>1. h = [p \in Out |-> h[p]]
        BY DEF h
    <2>2. h \in [Out -> B]
        BY <1>14, <2>1
    <2> QED BY <1>15, <1>16, <2>2 DEF Bijection, Injection, Surjection, IsInjective
<1>18. Cardinality(Out) = Cardinality(B)
    BY <1>11, <1>17, FS_Bijection DEF ExistsBijection
<1>19. Outside(s, S) = n * Picks - Cardinality(In)
    BY <1>2, <1>6 DEF Outside
<1>20. n * Picks \in Nat
    BY <1>1
<1>21. Outside(s, S) = Cardinality(Out)
    BY <1>12, <1>19, <1>20
<1> QED BY <1>10, <1>13, <1>18, <1>21 DEF I

LEMMA OutsideOfRow ==
    ASSUME NEW row \in [1 .. Picks -> Experts],
           \A a, b \in 1 .. Picks : row[a] = row[b] => a = b, NEW S
    PROVE  Outside(<<row>>, S) = Cardinality(ToSet(row) \ S)
<1> DEFINE s == <<row>>
           f == [i \in {1} |-> Cardinality(ToSet(s[i]) \ S)]
<1>1. s \in [1 .. 1 -> [1 .. Picks -> Experts]] /\ 1 .. 1 = {1} /\ s[1] = row
    OBVIOUS
<1>2. ToSet(row) \in SUBSET Experts
    BY DEF ToSet
<1>3. Cardinality(ToSet(row) \ S) \in Nat
    BY <1>2, ExpertSetsFinite
<1> HIDE DEF s
<1>4. f[1] = Cardinality(ToSet(row) \ S) /\ f = [i \in {1} |-> f[i]]
    BY <1>1
<1>5. \A i \in 1 .. 1 : \A a, b \in 1 .. Picks : s[i][a] = s[i][b] => a = b
    BY <1>1
<1>6. Outside(s, S) = Total([i \in 1 .. 1 |-> Cardinality(ToSet(s[i]) \ S)])
    <2>1. PICK m \in Nat : m = 1
        OBVIOUS
    <2>2. /\ s \in [1 .. m -> [1 .. Picks -> Experts]]
          /\ \A i \in 1 .. m : \A a, b \in 1 .. Picks : s[i][a] = s[i][b] => a = b
        BY <1>1, <1>5, <2>1
    <2>3. Outside(s, S) = Total([i \in 1 .. m |-> Cardinality(ToSet(s[i]) \ S)])
        BY <2>2, OutsideAddsUp
    <2> QED BY <2>1, <2>3
<1>7. [i \in 1 .. 1 |-> Cardinality(ToSet(s[i]) \ S)] = f
    BY <1>1
<1> HIDE DEF f
<1>8. Total(f) = f[1]
    BY <1>3, <1>4, TotalOfOne
<1> QED BY <1>4, <1>6, <1>7, <1>8 DEF s

\* A row of the log misses what its layer wants for its token.
LEMMA MissOfRow ==
    ASSUME Ended, NEW i \in 1 .. Len(file)
    PROVE  /\ MissOf(file[i], resident) = Cardinality(Wanted(file[i].layer, file[i].token))
           /\ NonRes(file[i], resident) = Wanted(file[i].layer, file[i].token)
<1>1. EveryRow /\ RouteOK /\ T \in Nat
    BY DEF Ended
<1> DEFINE l == file[i].layer
           k == file[i].token
           row == file[i].ids
<1>2. l \in Layers /\ k \in 0 .. T - 1 /\ row = routing[l][k + 1]
    BY <1>1 DEF EveryRow
<1>3. row \in [1 .. Picks -> Experts] /\ \A a, b \in 1 .. Picks : row[a] = row[b] => a = b
    <2>1. k + 1 \in 1 .. T
        BY <1>1, <1>2
    <2> HIDE DEF l, k, row
    <2> QED BY <1>1, <1>2, <2>1 DEF RouteOK
<1>4. MissOf(file[i], resident) = Outside(<<row>>, resident[l])
    BY DEF MissOf
<1> HIDE DEF l, k, row
<1>5. Outside(<<row>>, resident[l]) = Cardinality(ToSet(row) \ resident[l])
    BY <1>3, OutsideOfRow
<1>6. MissOf(file[i], resident) = Cardinality(Wanted(l, k))
    BY <1>2, <1>4, <1>5 DEF Wanted
<1> QED BY <1>1, <1>6, RowMisses DEF l, k

\* A call of the decode computes one token.
LEMMA LateNeed ==
    ASSUME Ended
    PROVE  /\ \A l \in Layers, k \in 0 .. T - 1 :
                 k >= shape.n_prompt => NeedOf(l, CallAt(k)) = Wanted(l, k)
           /\ \A j, k \in 0 .. T - 1 :
                 k >= shape.n_prompt /\ CallAt(j) = CallAt(k) => j = k
<1>1. PICK n \in Nat : n = shape.n_prompt
    BY ShapeIs DEF Ended
<1>2. T \in Nat /\ ShapeOK
    BY DEF Ended
<1>3. /\ Prefill \in Nat
      /\ \A k \in Nat : k < n => CallAt(k) < Prefill /\ CallAt(k) \in Nat
      /\ \A k \in Nat : k >= n => CallAt(k) = Prefill + (k - n)
    BY <1>1, <1>2, CallNumbers
<1>4. ASSUME NEW j \in 0 .. T - 1, NEW k \in 0 .. T - 1, k >= n, CallAt(j) = CallAt(k) PROVE j = k
    <2>1. j \in Nat /\ k \in Nat
        BY <1>2
    <2>2. CallAt(k) = Prefill + (k - n)
        BY <1>3, <1>4, <2>1
    <2>3. CASE j < n
        <3>1. CallAt(j) < Prefill /\ CallAt(j) \in Nat
            BY <1>3, <2>1, <2>3
        <3> QED BY <1>3, <1>4, <2>1, <2>2, <3>1
    <2>4. CASE ~(j < n)
        <3>1. CallAt(j) = Prefill + (j - n)
            BY <1>3, <2>1, <2>4
        <3> QED BY <1>3, <1>4, <2>1, <2>2, <3>1
    <2> QED BY <2>3, <2>4
<1>5. ASSUME NEW l \in Layers, NEW k \in 0 .. T - 1, k >= n PROVE NeedOf(l, CallAt(k)) = Wanted(l, k)
    <2>1. {x \in 0 .. T - 1 : CallAt(x) = CallAt(k)} = {k}
        BY <1>4, <1>5
    <2> QED BY <2>1 DEF NeedOf
<1> QED BY <1>1, <1>4, <1>5

Late == {i \in DOMAIN file : file[i].token >= shape.n_prompt}

\* The leases of the decode are its misses.
LEMMA LateNeedsAddUp ==
    ASSUME Ended, NEW d \in Nat
    PROVE  Total([c \in LateKeys(d) |-> NeedsOf(d)[c]])
             = Total([i \in Late |-> Cardinality(Wanted(file[i].layer, file[i].token))])
<1> DEFINE N == Len(file)
           f == [i \in Late |-> Cardinality(Wanted(file[i].layer, file[i].token))]
           g == [c \in LateKeys(d) |-> NeedsOf(d)[c]]
           h == [i \in Late |-> KeyAt(i, d)]
<1>1. /\ N \in Nat /\ DOMAIN file = 1 .. N /\ RouteOK
      /\ \A i \in 1 .. N : file[i].layer \in Layers /\ file[i].token \in 0 .. T - 1
      /\ \A l \in Layers : \A k \in 0 .. T - 1 :
            \E i \in 1 .. N : file[i].layer = l /\ file[i].token = k
      /\ \A i, j \in 1 .. N :
            file[i].layer = file[j].layer => (i < j <=> file[i].token < file[j].token)
    BY DEF Ended, EveryRow
<1> HIDE DEF N
<1>2. \A i : i \in Late <=> i \in 1 .. N /\ file[i].token >= shape.n_prompt
    BY <1>1 DEF Late
<1>3. \A i \in Late : file[i].layer \in Layers /\ file[i].token \in 0 .. T - 1
    BY <1>1, <1>2
<1>4. \A c : c \in LateKeys(d) <=>
          \E l \in Layers, k \in 0 .. T - 1 : k >= shape.n_prompt /\ c = <<CallAt(k) + d, l>>
    BY LateMembers
<1>5. /\ \A c \in KeysOf(d) : NeedsOf(d)[c] \in Nat
      /\ \A l \in Layers, k \in 0 .. T - 1 :
            NeedsOf(d)[<<CallAt(k) + d, l>>] = Cardinality(NeedOf(l, CallAt(k)))
    BY NeedsTyped
<1>6. /\ \A l \in Layers, k \in 0 .. T - 1 :
            k >= shape.n_prompt => NeedOf(l, CallAt(k)) = Wanted(l, k)
      /\ \A j, k \in 0 .. T - 1 : k >= shape.n_prompt /\ CallAt(j) = CallAt(k) => j = k
    BY LateNeed
<1>7. \A k \in 0 .. T - 1 : CallAt(k) \in Nat
    <2>1. ShapeOK /\ T \in Nat
        BY DEF Ended
    <2> QED BY <2>1, CallNumbers
<1>8. \A i \in Late : /\ KeyAt(i, d) \in LateKeys(d)
                      /\ NeedsOf(d)[KeyAt(i, d)] = Cardinality(Wanted(file[i].layer, file[i].token))
    <2> TAKE i \in Late
    <2> DEFINE l == file[i].layer
               k == file[i].token
    <2>1. l \in Layers /\ k \in 0 .. T - 1 /\ k >= shape.n_prompt /\ KeyAt(i, d) = <<CallAt(k) + d, l>>
        BY <1>2, <1>3 DEF KeyAt
    <2> HIDE DEF l, k
    <2>2. KeyAt(i, d) \in LateKeys(d)
        BY <1>4, <2>1
    <2>3. NeedsOf(d)[KeyAt(i, d)] = Cardinality(Wanted(l, k))
        BY <1>5, <1>6, <2>1
    <2> QED BY <2>2, <2>3 DEF l, k
<1>9. \A i, j \in Late : KeyAt(i, d) = KeyAt(j, d) => i = j
    <2> TAKE i, j \in Late
    <2> HAVE KeyAt(i, d) = KeyAt(j, d)
    <2>1. /\ i \in 1 .. N /\ j \in 1 .. N /\ file[j].token >= shape.n_prompt
          /\ file[i].token \in 0 .. T - 1 /\ file[j].token \in 0 .. T - 1
        BY <1>2, <1>3
    <2>2. file[i].layer = file[j].layer /\ CallAt(file[i].token) + d = CallAt(file[j].token) + d
        BY DEF KeyAt
    <2>3. CallAt(file[i].token) = CallAt(file[j].token)
        <3>1. CallAt(file[i].token) \in Nat /\ CallAt(file[j].token) \in Nat
            BY <1>7, <2>1
        <3> QED BY <2>2, <3>1
    <2>4. file[i].token = file[j].token /\ file[i].token \in Int
        BY <1>6, <2>1, <2>3
    <2>5. ~(i < j) /\ ~(j < i)
        BY <1>1, <2>1, <2>2, <2>4
    <2> QED BY <1>1, <2>1, <2>5
<1>10. \A c \in LateKeys(d) : \E i \in Late : KeyAt(i, d) = c
    <2> TAKE c \in LateKeys(d)
    <2>1. PICK l \in Layers, k \in 0 .. T - 1 : k >= shape.n_prompt /\ c = <<CallAt(k) + d, l>>
        BY <1>4
    <2>2. PICK i \in 1 .. N : file[i].layer = l /\ file[i].token = k
        BY <1>1
    <2>3. i \in Late /\ KeyAt(i, d) = c
        BY <1>2, <2>1, <2>2 DEF KeyAt
    <2> QED BY <2>3
<1>11. h \in Bijection(Late, LateKeys(d))
    <2>1. \A i \in Late : h[i] = KeyAt(i, d)
        OBVIOUS
    <2>2. h = [i \in Late |-> h[i]]
        OBVIOUS
    <2> HIDE DEF h
    <2>3. h \in [Late -> LateKeys(d)]
        BY <1>8, <2>1, <2>2
    <2>4. \A i, j \in Late : h[i] = h[j] => i = j
        BY <1>9, <2>1
    <2>5. \A c \in LateKeys(d) : \E i \in Late : h[i] = c
        BY <1>10, <2>1
    <2> QED BY <2>3, <2>4, <2>5 DEF Bijection, Injection, Surjection, IsInjective
<1>12. IsFiniteSet(Late) /\ IsFiniteSet(LateKeys(d)) /\ \A c \in LateKeys(d) : c \in KeysOf(d)
    <2>1. IsFiniteSet(1 .. N) /\ Late \in SUBSET (1 .. N)
        <3>1. 1 \in Int /\ N \in Int
            BY <1>1
        <3> QED BY <1>2, <3>1, FS_Interval
    <2>2. IsFiniteSet(KeysOf(d)) /\ LateKeys(d) \in SUBSET KeysOf(d)
        BY KeyMembers DEF LateKeys
    <2> QED BY <2>1, <2>2, FS_Subset
<1>13. f \in [Late -> Nat] /\ g \in [LateKeys(d) -> Nat] /\ \A i \in Late : f[i] = g[h[i]]
    <2>1. \A i \in Late : f[i] = Cardinality(Wanted(file[i].layer, file[i].token)) /\ h[i] = KeyAt(i, d)
        OBVIOUS
    <2>2. \A c \in LateKeys(d) : g[c] = NeedsOf(d)[c]
        OBVIOUS
    <2>3. f = [i \in Late |-> f[i]] /\ g = [c \in LateKeys(d) |-> g[c]]
        OBVIOUS
    <2> HIDE DEF f, g, h
    <2>4. \A c \in LateKeys(d) : g[c] \in Nat
        BY <1>5, <1>12, <2>2
    <2>5. \A i \in Late : f[i] = g[h[i]] /\ f[i] \in Nat
        BY <1>8, <2>1, <2>2, <2>4
    <2> QED BY <2>3, <2>4, <2>5
<1> HIDE DEF f, g, h
<1>14. Total(f) = Total(g)
    BY <1>11, <1>12, <1>13, Reindexed
<1> QED BY <1>14 DEF f, g

\* What the layers miss of a token, row by row.
LEMMA MissesOfToken ==
    ASSUME Ended, NEW tok \in 0 .. T - 1
    PROVE  Total([i \in {j \in DOMAIN file : file[j].token = tok} |-> Cardinality(NonRes(file[i], resident))])
             = Total([l \in Layers |-> Cardinality(Wanted(l, tok))])
<1> DEFINE N == Len(file)
           S == {j \in DOMAIN file : file[j].token = tok}
           f == [i \in S |-> Cardinality(NonRes(file[i], resident))]
           g == [l \in Layers |-> Cardinality(Wanted(l, tok))]
           h == [i \in S |-> file[i].layer]
<1>1. /\ N \in Nat /\ DOMAIN file = 1 .. N /\ RouteOK /\ EveryRow
      /\ \A i \in 1 .. N : file[i].layer \in Layers /\ file[i].token \in 0 .. T - 1
      /\ \A l \in Layers : \A k \in 0 .. T - 1 :
            \E i \in 1 .. N : file[i].layer = l /\ file[i].token = k
      /\ \A i, j \in 1 .. N :
            file[i].layer = file[j].layer => (i < j <=> file[i].token < file[j].token)
    BY DEF Ended, EveryRow
<1>2. \A i \in 1 .. N : NonRes(file[i], resident) = Wanted(file[i].layer, file[i].token)
    BY <1>1, RowMisses
<1> HIDE DEF N
<1>3. \A i : i \in S <=> i \in 1 .. N /\ file[i].token = tok
    BY <1>1
<1>4. \A l \in Layers : Cardinality(Wanted(l, tok)) \in Nat
    BY <1>1, WantedFinite
<1>5. \A i \in S : f[i] = Cardinality(NonRes(file[i], resident)) /\ h[i] = file[i].layer
    OBVIOUS
<1>6. \A l \in Layers : g[l] = Cardinality(Wanted(l, tok))
    OBVIOUS
<1>7. f = [i \in S |-> f[i]] /\ g = [l \in Layers |-> g[l]] /\ h = [i \in S |-> h[i]]
    OBVIOUS
<1>8. tok \in Int
    OBVIOUS
<1> HIDE DEF S, f, g, h
<1>9. h \in Bijection(S, Layers)
    <2>1. \A i \in S : h[i] \in Layers
        BY <1>1, <1>3, <1>5
    <2>2. \A i, j \in S : h[i] = h[j] => i = j
        <3> TAKE i, j \in S
        <3> HAVE h[i] = h[j]
        <3>1. i \in 1 .. N /\ j \in 1 .. N /\ file[i].layer = file[j].layer
              /\ file[i].token = tok /\ file[j].token = tok
            BY <1>3, <1>5
        <3>2. ~(tok < tok)
            BY <1>8
        <3>3. ~(i < j) /\ ~(j < i)
            BY <1>1, <3>1, <3>2
        <3> QED BY <1>1, <3>1, <3>3
    <2>3. \A l \in Layers : \E i \in S : h[i] = l
        BY <1>1, <1>3, <1>5
    <2>4. h \in [S -> Layers]
        BY <1>7, <2>1
    <2> QED BY <2>2, <2>3, <2>4 DEF Bijection, Injection, Surjection, IsInjective
<1>10. IsFiniteSet(S) /\ IsFiniteSet(Layers)
    <2>1. 0 \in Int /\ L - 1 \in Int /\ 1 \in Int /\ N \in Int
        BY <1>1, LogAssumption
    <2>2. IsFiniteSet(1 .. N) /\ S \in SUBSET (1 .. N)
        BY <1>3, <2>1, FS_Interval
    <2>3. IsFiniteSet(Layers)
        BY <2>1, FS_Interval DEF Layers
    <2> QED BY <2>2, <2>3, FS_Subset
<1>11. g \in [Layers -> Nat]
    BY <1>4, <1>6, <1>7
<1>12. \A i \in S : f[i] = g[h[i]] /\ f[i] \in Nat
    <2> TAKE i \in S
    <2>1. file[i].layer \in Layers /\ file[i].token = tok /\ h[i] = file[i].layer
        BY <1>1, <1>3, <1>5
    <2>2. NonRes(file[i], resident) = Wanted(file[i].layer, tok)
        BY <1>2, <1>3
    <2> QED BY <1>4, <1>5, <1>6, <2>1, <2>2
<1>13. f \in [S -> Nat]
    BY <1>7, <1>12
<1>14. Total(f) = Total(g)
    BY <1>9, <1>10, <1>11, <1>12, <1>13, Reindexed
<1> QED BY <1>14 DEF f, g, S

\* A decode call leases no more than the picks of its token.
LEMMA LatePeakSmall ==
    ASSUME Ended
    PROVE  decode_leased <= Picks
<1>1. PICK n \in Nat : n = shape.n_prompt
    BY ShapeIs DEF Ended
<1>2. PeakIs(decode_leased, NeedsFrom(n)) /\ RouteOK /\ T \in Nat
    BY <1>1 DEF Ended, LeasesCounted
<1>3. Picks \in Nat
    BY PolicyAssumption
<1>4. ASSUME NEW x \in NeedsFrom(n) PROVE x <= Picks
    <2>1. PICK l \in Layers, k \in 0 .. T - 1 : n <= k /\ x = Cardinality(NeedOf(l, CallAt(k)))
        BY NeedsAre DEF NeedsAll
    <2>2. k >= n
        BY <1>2, <2>1
    <2>3. NeedOf(l, CallAt(k)) = Wanted(l, k)
        BY <1>1, <2>2, LateNeed
    <2> DEFINE row == routing[l][k + 1]
               I == 1 .. Picks
    <2>4. row \in [I -> Experts]
        <3>1. k + 1 \in 1 .. T
            BY <1>2
        <3> QED BY <1>2, <3>1 DEF RouteOK
    <2>5. IsFiniteSet(I) /\ Cardinality(I) = Picks
        <3>1. 1 \in Int /\ Picks \in Int
            BY <1>3
        <3> QED BY <1>3, <3>1, FS_Interval
    <2>6. Wanted(l, k) = ToSet(row) \ resident[l]
        BY DEF Wanted
    <2> HIDE DEF row, I
    <2>7. row = [i \in I |-> row[i]] /\ ToSet(row) = {row[i] : i \in I}
        BY <2>4 DEF ToSet
    <2>8. IsFiniteSet({row[i] : i \in I}) /\ Cardinality({row[i] : i \in I}) <= Cardinality(I)
        BY <2>5, <2>7, ImageBound
    <2>9. IsFiniteSet(ToSet(row)) /\ Cardinality(ToSet(row)) <= Picks
        BY <2>5, <2>7, <2>8
    <2>10. Cardinality(Wanted(l, k)) <= Cardinality(ToSet(row))
           /\ Cardinality(Wanted(l, k)) \in Nat /\ Cardinality(ToSet(row)) \in Nat
        <3>1. Wanted(l, k) \in SUBSET ToSet(row)
            BY <2>6
        <3> QED BY <2>9, <3>1, FS_Subset, FS_CardinalityType
    <2>11. x = Cardinality(Wanted(l, k))
        BY <2>1, <2>3
    <2> QED BY <1>3, <2>9, <2>10, <2>11
<1> QED BY <1>2, <1>3, <1>4 DEF PeakIs

\* accept_route.py's pieces.
LEMMA SplitIs ==
    ASSUME Ended, NEW m, m = PhaseSplit(file, resident, shape.n_prompt)
    PROVE  /\ m.lease_events = Total(lease_events)
           /\ m.peak_all = peak_leased /\ m.peak_decode = decode_leased
           /\ m.decode_misses = Total([i \in Late |-> Cardinality(Wanted(file[i].layer, file[i].token))])
<1> DEFINE piece == [i \in DOMAIN file |-> PieceOf(file, i)]
           keys == {<<piece[i], file[i].layer>> : i \in DOMAIN file}
           At(c) == {i \in DOMAIN file : <<piece[i], file[i].layer>> = c}
           need == [c \in keys |-> Cardinality(UNION {NonRes(file[i], resident) : i \in At(c)})]
           decode == {c \in keys : \A i \in At(c) : file[i].token >= shape.n_prompt}
           miss == [i \in Late |-> MissOf(file[i], resident)]
<1>1. /\ m.lease_events = Total(need)
      /\ m.peak_all = Most({need[c] : c \in keys})
      /\ m.peak_decode = Most({need[c] : c \in decode})
      /\ m.decode_misses = Total(miss)
    BY DEF PhaseSplit, Late
<1>2. /\ Len(file) \in Nat /\ DOMAIN file = 1 .. Len(file)
      /\ \A i \in DOMAIN file : /\ PieceOf(file, i) = CallAt(file[i].token) + 1
                                /\ file[i].layer \in Layers /\ file[i].token \in 0 .. T - 1
      /\ \A l \in Layers : \A k \in 0 .. T - 1 :
            \E i \in DOMAIN file : file[i].layer = l /\ file[i].token = k
    BY DEF Ended, EveryRow
<1>3. \A i \in DOMAIN file : <<piece[i], file[i].layer>> = KeyAt(i, 1)
    BY <1>2 DEF KeyAt
<1> HIDE DEF piece
<1>4. keys = KeysOf(1)
    BY <1>3 DEF KeysOf
<1>5. \A c : At(c) = {j \in DOMAIN file : KeyAt(j, 1) = c}
    BY <1>3
<1>6. need = NeedsOf(1)
    <2>1. \A c \in keys : Cardinality(UNION {NonRes(file[i], resident) : i \in At(c)})
                            = Cardinality(MissedAt(c, 1))
        BY <1>5 DEF MissedAt
    <2> HIDE DEF keys, At
    <2> QED BY <1>4, <2>1 DEF NeedsOf
<1>7. decode = LateKeys(1)
    <2> HIDE DEF keys, At
    <2>1. \A c : c \in KeysOf(1) <=> \E l \in Layers, k \in 0 .. T - 1 : c = <<CallAt(k) + 1, l>>
        BY KeyMembers
    <2>2. \A c : c \in LateKeys(1) <=>
              \E l \in Layers, k \in 0 .. T - 1 : k >= shape.n_prompt /\ c = <<CallAt(k) + 1, l>>
        BY LateMembers
    <2>3. \A j, k \in 0 .. T - 1 : k >= shape.n_prompt /\ CallAt(j) = CallAt(k) => j = k
        BY LateNeed
    <2>4. \A k \in 0 .. T - 1 : CallAt(k) \in Nat
        <3>1. ShapeOK /\ T \in Nat
            BY DEF Ended
        <3> QED BY <3>1, CallNumbers
    <2>5. ASSUME NEW c \in LateKeys(1) PROVE c \in decode
        <3>1. PICK l \in Layers, k \in 0 .. T - 1 : k >= shape.n_prompt /\ c = <<CallAt(k) + 1, l>>
            BY <2>2
        <3>2. ASSUME NEW i \in At(c) PROVE file[i].token >= shape.n_prompt
            <4>1. i \in DOMAIN file /\ KeyAt(i, 1) = c
                BY <1>5
            <4>2. file[i].token \in 0 .. T - 1 /\ CallAt(file[i].token) + 1 = CallAt(k) + 1
                BY <1>2, <3>1, <4>1 DEF KeyAt
            <4>3. CallAt(file[i].token) = CallAt(k)
                <5>1. CallAt(file[i].token) \in Nat /\ CallAt(k) \in Nat
                    BY <2>4, <4>2
                <5> QED BY <4>2, <5>1
            <4>4. file[i].token = k
                BY <2>3, <3>1, <4>2, <4>3
            <4> QED BY <3>1, <4>4
        <3>3. c \in keys
            BY <1>4, <2>1, <3>1
        <3> QED BY <3>2, <3>3
    <2>6. ASSUME NEW c \in decode PROVE c \in LateKeys(1)
        <3>1. c \in keys /\ \A i \in At(c) : file[i].token >= shape.n_prompt
            OBVIOUS
        <3>2. PICK l \in Layers, k \in 0 .. T - 1 : c = <<CallAt(k) + 1, l>>
            BY <1>4, <2>1, <3>1
        <3>3. PICK i \in DOMAIN file : file[i].layer = l /\ file[i].token = k
            BY <1>2
        <3>4. KeyAt(i, 1) = c
            BY <3>2, <3>3 DEF KeyAt
        <3>5. i \in At(c)
            BY <1>5, <3>4
        <3>6. k >= shape.n_prompt
            BY <3>1, <3>3, <3>5
        <3> QED BY <2>2, <3>2, <3>6
    <2> HIDE DEF decode
    <2> QED BY <2>5, <2>6
<1>8. miss = [i \in Late |-> Cardinality(Wanted(file[i].layer, file[i].token))]
    <2>1. \A i \in Late : i \in 1 .. Len(file)
        BY <1>2 DEF Late
    <2>2. \A i \in Late : MissOf(file[i], resident) = Cardinality(Wanted(file[i].layer, file[i].token))
        BY <2>1, MissOfRow
    <2> QED BY <2>2
<1> HIDE DEF keys, At, need, decode, miss
<1>9. Total(need) = Total(lease_events)
    <2>1. 1 \in Nat
        OBVIOUS
    <2> QED BY <1>6, <2>1, NeedsAddUp
<1>10. Most({need[c] : c \in keys}) = peak_leased /\ Most({need[c] : c \in decode}) = decode_leased
    <2>1. 1 \in Nat
        OBVIOUS
    <2> QED BY <1>4, <1>6, <1>7, <2>1, PeaksAgain
<1> QED BY <1>1, <1>8, <1>9, <1>10

\* gate2_decode_acct.py's calls.
LEMMA DecodeAcctIs ==
    ASSUME Ended, NEW two, two.ok,
           two = Gate2DecodeAcct(file, resident, shape.n_prompt, shape.n_gen, shape.ub)
    PROVE  /\ two.lease_pred = Total(lease_events)
           /\ two.whole_peak = peak_leased /\ two.decode_peak = decode_leased
           /\ two.decode_leases
                = Total([i \in Late |-> Cardinality(Wanted(file[i].layer, file[i].token))])
           /\ two.misses = [tok \in 0 .. T - 1 |-> Total([l \in Layers |-> Cardinality(Wanted(l, tok))])]
<1> DEFINE n == shape.n_prompt
           u == shape.ub
           Call(i) == CallOf(file[i].token, n, u)
           keys == {<<Call(i), file[i].layer>> : i \in DOMAIN file}
           need == [c \in keys |-> Cardinality(UNION {NonRes(file[i], resident) :
                        i \in {j \in DOMAIN file : <<Call(j), file[j].layer>> = c}})]
           decode == {c \in keys : c[1] >= (n + u - 1) \div u}
           late == Restrict(need, decode)
           OfToken(tok) == [i \in {j \in DOMAIN file : file[j].token = tok} |->
                                Cardinality(NonRes(file[i], resident))]
           misses == TokenMisses(file, resident, n + shape.n_gen)
<1>1. /\ two.lease_pred = Total(need)
      /\ two.whole_peak = Most({need[c] : c \in keys})
      /\ two.decode_peak = Most({need[c] : c \in decode})
      /\ two.decode_leases = Total(late)
      /\ two.misses = misses
    <2>1. two.lease_pred = Total(need)
        BY DEF Gate2DecodeAcct, Refused
    <2>2. two.whole_peak = Most({need[c] : c \in keys})
        BY DEF Gate2DecodeAcct, Refused
    <2>3. two.decode_peak = Most({need[c] : c \in decode})
        BY DEF Gate2DecodeAcct, Refused
    <2>4. two.decode_leases = Total(late)
        BY DEF Gate2DecodeAcct, Refused
    <2>5. two.misses = misses
        BY DEF Gate2DecodeAcct, Refused
    <2> QED BY <2>1, <2>2, <2>3, <2>4, <2>5, Zenon
<1>2. /\ Len(file) \in Nat /\ DOMAIN file = 1 .. Len(file) /\ ShapeOK /\ T \in Nat
      /\ \A i \in DOMAIN file : file[i].layer \in Layers /\ file[i].token \in 0 .. T - 1
    BY DEF Ended, EveryRow
<1>3. /\ \A k \in 0 .. T - 1 : CallAt(k) \in Nat
      /\ \A k \in 0 .. T - 1 : k < n => CallAt(k) < Prefill
      /\ \A k \in 0 .. T - 1 : k >= n => CallAt(k) = Prefill + (k - n)
      /\ Prefill \in Nat
    <2>1. /\ \A k \in Nat : CallAt(k) \in Nat
          /\ \A k \in Nat : k < n => CallAt(k) < Prefill
          /\ \A k \in Nat : k >= n => CallAt(k) = Prefill + (k - n)
          /\ Prefill \in Nat
        BY <1>2, CallNumbers
    <2>2. \A k \in 0 .. T - 1 : k \in Nat
        BY <1>2
    <2> HIDE DEF n
    <2> QED BY <2>1, <2>2
<1>4. n \in Nat /\ (n + shape.n_gen) - 1 = T - 1 /\ (n + u - 1) \div u = Prefill
    BY <1>2, ShapeIs DEF Prefill
<1>5. \A i \in DOMAIN file : <<Call(i), file[i].layer>> = KeyAt(i, 0)
    <2> TAKE i \in DOMAIN file
    <2>1. Call(i) = CallAt(file[i].token)
        BY DEF CallAt
    <2>2. CallAt(file[i].token) \in Nat
        BY <1>2, <1>3
    <2> HIDE DEF Call
    <2> QED BY <2>1, <2>2 DEF KeyAt
<1> HIDE DEF Call, n, u
<1>6. keys = KeysOf(0)
    BY <1>5 DEF KeysOf
<1>7. need = NeedsOf(0)
    <2>1. \A c : {j \in DOMAIN file : <<Call(j), file[j].layer>> = c}
                    = {j \in DOMAIN file : KeyAt(j, 0) = c}
        BY <1>5
    <2>2. \A c \in keys : Cardinality(UNION {NonRes(file[i], resident) :
                             i \in {j \in DOMAIN file : <<Call(j), file[j].layer>> = c}})
                            = Cardinality(MissedAt(c, 0))
        BY <2>1 DEF MissedAt
    <2> HIDE DEF keys
    <2> QED BY <1>6, <2>2 DEF NeedsOf
<1>8. decode = LateKeys(0)
    <2>1. \A c : c \in KeysOf(0) <=> \E l \in Layers, k \in 0 .. T - 1 : c = <<CallAt(k) + 0, l>>
        BY KeyMembers
    <2>2. \A c : c \in LateKeys(0) <=>
              \E l \in Layers, k \in 0 .. T - 1 : k >= n /\ c = <<CallAt(k) + 0, l>>
        BY LateMembers DEF n
    <2>3. \A k \in 0 .. T - 1 : CallAt(k) >= Prefill <=> k >= n
        <3> TAKE k \in 0 .. T - 1
        <3>1. k \in Nat /\ CallAt(k) \in Nat /\ n \in Nat /\ Prefill \in Nat
            BY <1>2, <1>3, <1>4
        <3>2. k < n => CallAt(k) < Prefill
            BY <1>3
        <3>3. k >= n => CallAt(k) = Prefill + (k - n)
            BY <1>3
        <3> QED BY <3>1, <3>2, <3>3
    <2>4. ASSUME NEW c \in keys PROVE c[1] >= Prefill <=> c \in LateKeys(0)
        <3>1. PICK l \in Layers, k \in 0 .. T - 1 : c = <<CallAt(k) + 0, l>>
            BY <1>6, <2>1
        <3>2. c[1] = CallAt(k)
            BY <1>3, <3>1
        <3>3. ASSUME k >= n PROVE c \in LateKeys(0)
            BY <2>2, <3>1, <3>3
        <3>4. ASSUME c \in LateKeys(0) PROVE k >= n
            <4>1. PICK m \in Layers, j \in 0 .. T - 1 : j >= n /\ c = <<CallAt(j) + 0, m>>
                BY <2>2, <3>4
            <4>2. c[1] = CallAt(j)
                BY <1>3, <4>1
            <4> QED BY <2>3, <3>2, <4>1, <4>2
        <3> QED BY <2>3, <3>2, <3>3, <3>4
    <2>5. \A c : c \in LateKeys(0) => c \in keys
        BY <1>6 DEF LateKeys
    <2>6. decode = {c \in keys : c[1] >= Prefill}
        BY <1>4
    <2> HIDE DEF keys, decode
    <2> QED BY <2>4, <2>5, <2>6
<1>9. misses = [tok \in 0 .. T - 1 |-> Total([l \in Layers |-> Cardinality(Wanted(l, tok))])]
    <2>1. \A tok \in 0 .. T - 1 : Total(OfToken(tok)) = Total([l \in Layers |-> Cardinality(Wanted(l, tok))])
        BY MissesOfToken
    <2>2. misses = [tok \in 0 .. (n + shape.n_gen) - 1 |-> Total(OfToken(tok))]
        BY DEF TokenMisses
    <2> HIDE DEF OfToken, misses
    <2> QED BY <1>4, <2>1, <2>2
<1>10. late = [c \in LateKeys(0) |-> NeedsOf(0)[c]]
    <2>1. late = [c \in decode |-> need[c]]
        BY DEF Restrict
    <2> HIDE DEF need, decode, late
    <2> QED BY <1>7, <1>8, <2>1
<1> HIDE DEF keys, need, decode, late, misses
<1>11. 0 \in Nat
    OBVIOUS
<1>12. Total(need) = Total(lease_events)
    BY <1>7, <1>11, NeedsAddUp
<1>13. Most({need[c] : c \in keys}) = peak_leased /\ Most({need[c] : c \in decode}) = decode_leased
    BY <1>6, <1>7, <1>8, <1>11, PeaksAgain
<1>14. Total(late) = Total([i \in Late |-> Cardinality(Wanted(file[i].layer, file[i].token))])
    BY <1>10, <1>11, LateNeedsAddUp
<1> QED BY <1>1, <1>9, <1>12, <1>13, <1>14

----------------------------------------------------------------------------
(* What the acceptance programs hold the counters to.                      *)

\* Every layer holds as many.
LEMMA ResidentCount ==
    ASSUME Ended, NEW k \in Nat, Cardinality(resident[0]) = k
    PROVE  Counters.resident = k * L
<1>1. \A l \in Layers : Cardinality(resident[l]) = Cardinality(resident[0])
    BY DEF Ended, RouteOK, EvenSets
<1>2. L \in Nat \ {0} /\ 0 \in Layers
    BY LogAssumption DEF Layers
<1>3. IsFiniteSet(Layers) /\ Cardinality(Layers) = L
    <2>1. 0 \in Int /\ L - 1 \in Int
        BY <1>2
    <2> QED BY <1>2, <2>1, FS_Interval DEF Layers
<1> DEFINE f == [l \in Layers |-> Cardinality(resident[l])]
<1>4. Counters.resident = Total(f)
    BY DEF Counters, OverLayers
<1>5. f = [l \in Layers |-> k]
    BY <1>1, <1>2
<1> HIDE DEF f
<1>6. Total([l \in Layers |-> k]) = k * Cardinality(Layers)
    BY <1>3, TotalOfSame
<1> QED BY <1>3, <1>4, <1>5, <1>6

\* A limb that holds is not among those that fail.
LEMMA Holding == ASSUME NEW f, NEW a, NEW p, f = <<a, p>>, p = TRUE PROVE f[2] = TRUE
OBVIOUS

LEMMA NoneFails ==
    ASSUME NEW S, NEW D, \A f \in S : \E a \in D : f = <<a, TRUE>>
    PROVE  {f \in S : ~f[2]} = {}
<1>1. \A f \in S : f[2] = TRUE
    BY Holding
<1> QED BY <1>1

LEMMA SplitAccepted ==
    ASSUME Ended
    PROVE  Gate12(file, resident, shape.n_prompt, Counters) = {}
<1> DEFINE m == PhaseSplit(file, resident, shape.n_prompt)
           p == m.lease_events = Counters.lease_events
           q == m.peak_all = Counters.peak
           S == {<<"lease_events", p>>, <<"peak", q>>}
<1>1. Counters.lease_events = Total(lease_events) /\ Counters.peak = peak_leased
    BY DEF Counters
<1>2. m.lease_events = Total(lease_events) /\ m.peak_all = peak_leased
    <2> HIDE DEF m
    <2>1. m = PhaseSplit(file, resident, shape.n_prompt)
        BY DEF m
    <2> QED BY <2>1, SplitIs
<1>3. Gate12(file, resident, shape.n_prompt, Counters) = {f \in S : ~f[2]}
    BY DEF Gate12
<1>4. p = TRUE /\ q = TRUE
    <2> HIDE DEF m
    <2> QED BY <1>1, <1>2
<1> HIDE DEF m, p, q
<1>5. S = {<<"lease_events", TRUE>>, <<"peak", TRUE>>}
    BY <1>4
<1>6. \A f \in S : \E a \in {"lease_events", "peak"} : f = <<a, TRUE>>
    BY <1>5
<1> HIDE DEF S
<1>7. {f \in S : ~f[2]} = {}
    BY <1>6, NoneFails
<1> QED BY <1>3, <1>7

LEMMA ReceiptAccepted ==
    ASSUME Ended, Cardinality(resident[0]) = K
    PROVE  /\ AcceptGate3(file, resident, shape.n_prompt, Counters) \subseteq {<<"decode_peak", FALSE>>}
           /\ AcceptArith(chunks, K, Counters).disagree = {}
<1> DEFINE m == PhaseSplit(file, resident, shape.n_prompt)
           e == Counters
           p == m.lease_events = e.lease_events
           q == e.lease_events = e.bytes_read
           r == e.resident = K * L
           s == m.peak_all = e.peak
           w == m.peak_decode = Picks
           x == K * L = e.resident
           A == {<<"leases", p>>, <<"bytes", q>>, <<"resident", r>>, <<"peak", s>>}
           S == {<<"leases", p>>, <<"bytes", q>>, <<"resident", r>>, <<"peak", s>>,
                 <<"decode_peak", w>>}
           R == {<<"bytes", q>>, <<"resident", x>>}
<1>1. e.lease_events = Total(lease_events) /\ e.peak = peak_leased /\ e.bytes_read = Total(lease_events)
    BY DEF Counters
<1>2. m.lease_events = Total(lease_events) /\ m.peak_all = peak_leased
    <2> HIDE DEF m
    <2>1. m = PhaseSplit(file, resident, shape.n_prompt)
        BY DEF m
    <2> QED BY <2>1, SplitIs
<1>3. e.resident = K * L
    <2>1. K \in Nat
        BY PolicyAssumption
    <2> QED BY <2>1, ResidentCount
<1>4. AcceptGate3(file, resident, shape.n_prompt, Counters) = {f \in S : ~f[2]}
    BY DEF AcceptGate3
<1>5. AcceptArith(chunks, K, Counters).disagree = {f \in R : ~f[2]}
    BY DEF AcceptArith
<1>6. p = TRUE /\ q = TRUE /\ r = TRUE /\ s = TRUE /\ x = TRUE
    <2> HIDE DEF m, e
    <2>1. p = TRUE
        BY <1>1, <1>2
    <2>2. q = TRUE
        BY <1>1
    <2>3. r = TRUE
        BY <1>3
    <2>4. s = TRUE
        BY <1>1, <1>2
    <2>5. x = TRUE
        BY <1>3
    <2> QED BY <2>1, <2>2, <2>3, <2>4, <2>5
<1>7. w \in BOOLEAN
    OBVIOUS
<1> HIDE DEF m, e, p, q, r, s, w, x
<1>8. A = {<<"leases", TRUE>>, <<"bytes", TRUE>>, <<"resident", TRUE>>, <<"peak", TRUE>>}
       /\ R = {<<"bytes", TRUE>>, <<"resident", TRUE>>}
    BY <1>6
<1>9. \A f \in A : \E a \in {"leases", "bytes", "resident", "peak"} : f = <<a, TRUE>>
    BY <1>8
<1>10. \A f \in A : f[2] = TRUE
    BY <1>9, Holding
<1>11. \A f \in R : \E a \in {"bytes", "resident"} : f = <<a, TRUE>>
    BY <1>8
<1>12. \A f \in S : f \in A \/ f = <<"decode_peak", w>>
    OBVIOUS
<1> HIDE DEF A, R, S
<1>13. ASSUME NEW f \in S, ~f[2] PROVE f = <<"decode_peak", FALSE>>
    <2>1. f = <<"decode_peak", w>>
        BY <1>10, <1>12, <1>13
    <2>2. w # TRUE
        <3> SUFFICES ASSUME w = TRUE PROVE FALSE
            OBVIOUS
        <3>1. f = <<"decode_peak", TRUE>>
            BY <2>1
        <3> QED BY <1>13, <3>1
    <2>3. w = FALSE
        BY <1>7, <2>2
    <2> QED BY <2>1, <2>3
<1>14. {f \in R : ~f[2]} = {}
    BY <1>11, NoneFails
<1> QED BY <1>4, <1>5, <1>13, <1>14

----------------------------------------------------------------------------
(* gate1_route_check.py's two models.                                      *)

\* What the rows of tokens lo to hi - 1 of a layer want, each for itself.
Drop(l, lo, hi) == Total([i \in lo + 1 .. hi |-> Cardinality(Wanted(l, i - 1))])

LEMMA PhaseRows ==
    ASSUME Ended, NEW l \in Layers, NEW lo \in Nat, NEW hi \in Nat, lo <= hi, hi <= T
    PROVE  /\ IsFiniteSet(lo + 1 .. hi)
           /\ \A i \in lo + 1 .. hi :
                 /\ i \in 1 .. T /\ i - 1 \in 0 .. T - 1
                 /\ routing[l][i] \in [1 .. Picks -> Experts]
                 /\ \A a, b \in 1 .. Picks : routing[l][i][a] = routing[l][i][b] => a = b
                 /\ Wanted(l, i - 1) = ToSet(routing[l][i]) \ resident[l]
                 /\ ToSet(routing[l][i]) \in SUBSET Experts
                 /\ IsFiniteSet(Wanted(l, i - 1)) /\ Cardinality(Wanted(l, i - 1)) \in Nat
           /\ [i \in lo + 1 .. hi |-> Cardinality(Wanted(l, i - 1))] \in [lo + 1 .. hi -> Nat]
<1>1. T \in Nat /\ RouteOK
    BY DEF Ended
<1>2. IsFiniteSet(lo + 1 .. hi)
    <2>1. lo + 1 \in Int /\ hi \in Int
        OBVIOUS
    <2> QED BY <2>1, FS_Interval
<1>3. \A i \in lo + 1 .. hi : i \in 1 .. T /\ i - 1 \in 0 .. T - 1 /\ (i - 1) + 1 = i
    BY <1>1
<1>4. ASSUME NEW i \in lo + 1 .. hi
      PROVE  /\ routing[l][i] \in [1 .. Picks -> Experts]
             /\ \A a, b \in 1 .. Picks : routing[l][i][a] = routing[l][i][b] => a = b
             /\ Wanted(l, i - 1) = ToSet(routing[l][i]) \ resident[l]
             /\ ToSet(routing[l][i]) \in SUBSET Experts
             /\ IsFiniteSet(Wanted(l, i - 1)) /\ Cardinality(Wanted(l, i - 1)) \in Nat
    <2>1. i \in 1 .. T /\ i - 1 \in 0 .. T - 1 /\ (i - 1) + 1 = i
        BY <1>3
    <2>2. /\ routing[l][i] \in [1 .. Picks -> Experts]
          /\ \A a, b \in 1 .. Picks : routing[l][i][a] = routing[l][i][b] => a = b
        BY <1>1, <2>1 DEF RouteOK
    <2>3. Wanted(l, i - 1) = ToSet(routing[l][i]) \ resident[l]
        BY <2>1 DEF Wanted
    <2>4. IsFiniteSet(Wanted(l, i - 1)) /\ Cardinality(Wanted(l, i - 1)) \in Nat
        BY <1>1, <2>1, WantedFinite
    <2>5. ToSet(routing[l][i]) \in SUBSET Experts
        BY <2>2 DEF ToSet
    <2> QED BY <2>2, <2>3, <2>4, <2>5
<1>5. \A i \in lo + 1 .. hi : Cardinality(Wanted(l, i - 1)) \in Nat
    BY <1>4
<1> QED BY <1>2, <1>3, <1>4, <1>5

\* The picks of a phase outside the residents are what its rows want.
LEMMA PhaseMisses ==
    ASSUME Ended, NEW l \in Layers, NEW lo \in Nat, NEW hi \in Nat, lo <= hi, hi <= T
    PROVE  /\ Outside(SubSeq(routing[l], lo + 1, hi), resident[l]) = Drop(l, lo, hi)
           /\ Drop(l, lo, hi) \in Nat
<1> DEFINE s == SubSeq(routing[l], lo + 1, hi)
           R == resident[l]
           d == hi - lo
           I == 1 .. d
           J == lo + 1 .. hi
           f == [j \in I |-> Cardinality(ToSet(s[j]) \ R)]
           g == [i \in J |-> Cardinality(Wanted(l, i - 1))]
           h == [j \in I |-> lo + j]
<1>1. /\ IsFiniteSet(J) /\ g \in [J -> Nat]
      /\ \A i \in J :
                 /\ i \in 1 .. T /\ i - 1 \in 0 .. T - 1
                 /\ routing[l][i] \in [1 .. Picks -> Experts]
                 /\ \A a, b \in 1 .. Picks : routing[l][i][a] = routing[l][i][b] => a = b
                 /\ Wanted(l, i - 1) = ToSet(routing[l][i]) \ R
                 /\ ToSet(routing[l][i]) \in SUBSET Experts
                 /\ IsFiniteSet(Wanted(l, i - 1)) /\ Cardinality(Wanted(l, i - 1)) \in Nat
    BY PhaseRows
<1>2. d \in Nat /\ IsFiniteSet(I)
    <2>1. d \in Nat /\ 1 \in Int /\ d \in Int
        OBVIOUS
    <2> HIDE DEF d
    <2> QED BY <2>1, FS_Interval
<1>3. s \in Seq([1 .. Picks -> Experts]) /\ Len(s) = d /\ \A j \in I : s[j] = routing[l][lo + j]
    <2>1. lo + 1 \in Int /\ hi \in Int /\ \A i \in lo + 1 .. hi : routing[l][i] \in [1 .. Picks -> Experts]
        BY <1>1
    <2>2. /\ s \in Seq([1 .. Picks -> Experts])
          /\ Len(s) = IF lo + 1 <= hi THEN hi - (lo + 1) + 1 ELSE 0
          /\ \A j \in 1 .. hi - (lo + 1) + 1 : s[j] = routing[l][lo + 1 + j - 1]
        BY <2>1, SubSeqProperties
    <2> HIDE DEF s
    <2>3. hi - (lo + 1) + 1 = d /\ (lo + 1 > hi => d = 0)
        OBVIOUS
    <2>4. \A j \in I : lo + 1 + j - 1 = lo + j
        OBVIOUS
    <2>5. Len(s) = d
        <3>1. CASE lo + 1 <= hi
            BY <2>2, <2>3, <3>1
        <3>2. CASE ~(lo + 1 <= hi)
            BY <2>2, <2>3, <3>2
        <3> QED BY <3>1, <3>2
    <2>6. \A j \in I : s[j] = routing[l][lo + 1 + j - 1]
        BY <2>2, <2>3
    <2>7. \A j \in I : s[j] = routing[l][lo + j]
        BY <2>4, <2>6
    <2> QED BY <2>2, <2>5, <2>7
<1>4. \A i : i \in J <=> i \in Int /\ lo < i /\ i <= hi
    OBVIOUS
<1>5. \A j : j \in I <=> j \in Int /\ 0 < j /\ lo + j <= hi
    OBVIOUS
<1>6. \A j \in I : h[j] = lo + j
    OBVIOUS
<1>7. h = [j \in I |-> h[j]] /\ f = [j \in I |-> f[j]]
    OBVIOUS
<1> HIDE DEF h, J
<1>8. \A j \in I : lo + j \in J
    BY <1>4, <1>5
<1>9. h \in Bijection(I, J)
    <2>1. \A j \in I : h[j] \in J
        BY <1>6, <1>8
    <2>2. \A i, j \in I : h[i] = h[j] => i = j
        BY <1>6
    <2>3. \A i \in J : \E j \in I : h[j] = i
        <3> TAKE i \in J
        <3>1. i - lo \in I /\ lo + (i - lo) = i
            BY <1>4, <1>5
        <3> QED BY <1>6, <3>1
    <2>4. h \in [I -> J]
        BY <1>7, <2>1
    <2> QED BY <2>2, <2>3, <2>4 DEF Bijection, Injection, Surjection, IsInjective
<1>10. s \in [1 .. d -> [1 .. Picks -> Experts]]
    <2> HIDE DEF s, d
    <2> QED BY <1>3
<1>11. \A j \in I : \A a, b \in 1 .. Picks : s[j][a] = s[j][b] => a = b
    <2> TAKE j \in I
    <2>1. s[j] = routing[l][lo + j] /\ lo + j \in J
        BY <1>3, <1>8
    <2> HIDE DEF s, I
    <2> QED BY <1>1, <2>1
<1>12. \A i \in J : g[i] = Cardinality(Wanted(l, i - 1))
    OBVIOUS
<1>13. \A j \in I : f[j] = g[h[j]] /\ f[j] \in Nat
    <2> TAKE j \in I
    <2>1. s[j] = routing[l][lo + j] /\ lo + j \in J /\ h[j] = lo + j
        BY <1>3, <1>6, <1>8
    <2>2. f[j] = Cardinality(ToSet(s[j]) \ R)
        OBVIOUS
    <2> DEFINE i == lo + j
    <2> HIDE DEF s, I, f, g, i
    <2>3. s[j] = routing[l][i] /\ i \in J /\ h[j] = i
        BY <2>1 DEF i
    <2> HIDE DEF R
    <2>4. Wanted(l, i - 1) = ToSet(s[j]) \ R /\ Cardinality(Wanted(l, i - 1)) \in Nat
        BY <1>1, <2>3
    <2> QED BY <1>12, <2>2, <2>3, <2>4
<1>14. f \in [I -> Nat]
    <2> HIDE DEF f, I
    <2> QED BY <1>7, <1>13
<1>15. Outside(s, R) = Total(f)
    <2> HIDE DEF s, R
    <2> QED BY <1>2, <1>10, <1>11, OutsideAddsUp
<1>16. Total(f) = Total(g)
    <2> HIDE DEF f, g, I
    <2>1. \A j \in I : f[j] = g[h[j]]
        BY <1>13
    <2>2. IsFiniteSet(J) /\ g \in [J -> Nat]
        BY <1>1
    <2> QED BY <1>2, <1>9, <1>14, <2>1, <2>2, Reindexed
<1>17. Total(g) \in Nat
    <2> HIDE DEF g
    <2> QED BY <1>1, TotalIsNatural
<1> QED BY <1>15, <1>16, <1>17 DEF Drop, J

\* Held from the token before, it is no more.
LEMMA HeldAtMost ==
    ASSUME Ended, NEW l \in Layers, NEW lo \in Nat, NEW hi \in Nat, lo <= hi, hi <= T
    PROVE  /\ Total([i \in lo + 1 .. hi |-> HeldMisses(routing[l], resident[l], i)]) \in Nat
           /\ Total([i \in lo + 1 .. hi |-> HeldMisses(routing[l], resident[l], i)]) <= Drop(l, lo, hi)
<1> DEFINE J == lo + 1 .. hi
           f == [i \in J |-> HeldMisses(routing[l], resident[l], i)]
           g == [i \in J |-> Cardinality(Wanted(l, i - 1))]
<1>1. /\ IsFiniteSet(J) /\ g \in [J -> Nat]
      /\ \A i \in J :
                 /\ routing[l][i] \in [1 .. Picks -> Experts]
                 /\ \A a, b \in 1 .. Picks : routing[l][i][a] = routing[l][i][b] => a = b
                 /\ Wanted(l, i - 1) = ToSet(routing[l][i]) \ resident[l]
                 /\ ToSet(routing[l][i]) \in SUBSET Experts
                 /\ IsFiniteSet(Wanted(l, i - 1)) /\ Cardinality(Wanted(l, i - 1)) \in Nat
    <2>1. IsFiniteSet(J)
        BY PhaseRows
    <2>2. g \in [J -> Nat]
        BY PhaseRows
    <2>3. ASSUME NEW i \in J
          PROVE  /\ routing[l][i] \in [1 .. Picks -> Experts]
                 /\ \A a, b \in 1 .. Picks : routing[l][i][a] = routing[l][i][b] => a = b
                 /\ Wanted(l, i - 1) = ToSet(routing[l][i]) \ resident[l]
                 /\ ToSet(routing[l][i]) \in SUBSET Experts
                 /\ IsFiniteSet(Wanted(l, i - 1)) /\ Cardinality(Wanted(l, i - 1)) \in Nat
        <3> HIDE DEF f, g
        <3>1. i \in lo + 1 .. hi
            BY <2>3
        <3>2. Ended /\ l \in Layers /\ lo \in Nat /\ hi \in Nat /\ lo <= hi /\ hi <= T
            OBVIOUS
        <3> HIDE DEF J
        <3> QED BY <3>1, <3>2, PhaseRows
    <2> HIDE DEF J, f, g
    <2> QED BY <2>1, <2>2, <2>3
<1>2. \A i \in J : g[i] = Cardinality(Wanted(l, i - 1))
    OBVIOUS
<1>3. \A i \in J : f[i] = HeldMisses(routing[l], resident[l], i)
    OBVIOUS
<1>4. f = [i \in J |-> f[i]]
    OBVIOUS
<1> HIDE DEF J, f, g
<1>5. ASSUME NEW i \in J PROVE f[i] \in Nat /\ f[i] <= g[i]
    <2> DEFINE row == routing[l][i]
               S == resident[l] \cup (IF i = 1 THEN {} ELSE ToSet(routing[l][i - 1]))
    <2>1. f[i] = Outside(<<row>>, S)
        BY <1>3 DEF HeldMisses
    <2>2. resident[l] \in SUBSET S
        OBVIOUS
    <2>3. Outside(<<row>>, S) = Cardinality(ToSet(row) \ S)
        <3>1. /\ row \in [1 .. Picks -> Experts]
              /\ \A a, b \in 1 .. Picks : row[a] = row[b] => a = b
            BY <1>1
        <3> HIDE DEF row, S
        <3> QED BY <3>1, OutsideOfRow
    <2>4. Wanted(l, i - 1) = ToSet(row) \ resident[l]
        BY <1>1
    <2> HIDE DEF row, S
    <2>5. (ToSet(row) \ S) \in SUBSET Wanted(l, i - 1)
        BY <2>2, <2>4
    <2>6. IsFiniteSet(ToSet(row) \ S) /\ Cardinality(ToSet(row) \ S) <= Cardinality(Wanted(l, i - 1))
        BY <1>1, <2>5, FS_Subset
    <2>7. Cardinality(ToSet(row) \ S) \in Nat
        BY <2>6, FS_CardinalityType
    <2> QED BY <1>2, <2>1, <2>3, <2>6, <2>7
<1>6. f \in [J -> Nat]
    BY <1>4, <1>5
<1>7. Total(f) \in Nat /\ Total(f) <= Total(g)
    BY <1>1, <1>5, <1>6, TotalAtMost
<1> QED BY <1>7 DEF Drop, f, g, J

\* The leases of a layer are between its distinct prompt experts and what all
\* its prompt rows want, each with the decode's; a one-piece prompt leases the
\* distinct ones.
LEMMA LeasesBetween ==
    ASSUME Ended, NEW l \in Layers, NEW n \in Nat, n = shape.n_prompt, NEW x,
           x = Cardinality(DistinctIn(routing[l], 0, n) \ resident[l])
    PROVE  /\ x \in Nat /\ lease_events[l] \in Nat
           /\ Drop(l, 0, n) \in Nat /\ Drop(l, n, T) \in Nat
           /\ x + Drop(l, n, T) <= lease_events[l]
           /\ lease_events[l] <= Drop(l, 0, n) + Drop(l, n, T)
           /\ n <= shape.ub => x + Drop(l, n, T) = lease_events[l]
<1> DEFINE I0 == 0 + 1 .. n
           I1 == n + 1 .. T
           D0 == [i \in I0 |-> Wanted(l, i - 1)]
           D1 == [i \in I1 |-> Wanted(l, i - 1)]
           P0 == Pairs(I0, D0)
           P1 == Pairs(I1, D1)
           Q  == LeasedIn(l)
           A  == {q \in Q : q[1] < Prefill}
           B  == {q \in Q : ~(q[1] < Prefill)}
           U  == DistinctIn(routing[l], 0, n) \ resident[l]
           h0 == [p \in P0 |-> <<CallAt(p[1] - 1), p[2]>>]
           h1 == [p \in P1 |-> <<CallAt(p[1] - 1), p[2]>>]
           g  == [q \in A |-> q[2]]
<1>1. /\ T \in Nat /\ n <= T /\ ShapeOK /\ RouteOK /\ Through(l) = T
      /\ lease_events[l] = Cardinality(Q) /\ lease_events[l] \in Nat
    <2>1. T \in Nat /\ ShapeOK /\ RouteOK /\ Through(l) = T
        BY DEF Ended
    <2>2. n <= T
        BY <2>1, ShapeIs
    <2>3. lease_events[l] = Cardinality(Q) /\ lease_events[l] \in Nat
        BY DEF Ended, LeasesCounted
    <2> QED BY <2>1, <2>2, <2>3
<1>2. 0 \in Nat /\ 0 <= n /\ n <= n
    OBVIOUS
<1>3. /\ \A i : i \in I0 <=> i \in 1 .. T /\ i <= n
      /\ \A i : i \in I1 <=> i \in 1 .. T /\ ~(i <= n)
    BY <1>1
<1>4. /\ IsFiniteSet(I0)
      /\ \A i \in I0 : /\ Wanted(l, i - 1) = ToSet(routing[l][i]) \ resident[l]
                       /\ ToSet(routing[l][i]) \in SUBSET Experts /\ IsFiniteSet(Wanted(l, i - 1))
    BY <1>1, <1>2, PhaseRows
<1>5. /\ IsFiniteSet(I1)
      /\ \A i \in I1 : /\ Wanted(l, i - 1) = ToSet(routing[l][i]) \ resident[l]
                       /\ ToSet(routing[l][i]) \in SUBSET Experts /\ IsFiniteSet(Wanted(l, i - 1))
    BY <1>1, PhaseRows
<1>6. \A i \in I0 : D0[i] = Wanted(l, i - 1)
    OBVIOUS
<1>7. \A i \in I1 : D1[i] = Wanted(l, i - 1)
    OBVIOUS
<1>8. [i \in I0 |-> Cardinality(D0[i])] = [i \in I0 |-> Cardinality(Wanted(l, i - 1))]
      /\ [i \in I1 |-> Cardinality(D1[i])] = [i \in I1 |-> Cardinality(Wanted(l, i - 1))]
    OBVIOUS
<1>9. /\ \A q : q \in Q <=> /\ q = <<q[1], q[2]>> /\ q[1] \in Nat /\ q[2] \in Experts
                            /\ \E k \in 0 .. T - 1 : CallAt(k) = q[1] /\ q[2] \in Wanted(l, k)
    BY <1>1 DEF LeasedIn
<1>10. IsFiniteSet(Q)
    BY <1>1, LeasedFinite
<1>11. /\ \A i \in I0 : CallAt(i - 1) < Prefill /\ CallAt(i - 1) \in Nat
       /\ \A i \in I1 : CallAt(i - 1) = Prefill + ((i - 1) - n) /\ CallAt(i - 1) \in Nat
       /\ Prefill \in Nat
    <2>1. /\ \A k \in Nat : CallAt(k) \in Nat
          /\ \A k \in Nat : k < n => CallAt(k) < Prefill
          /\ \A k \in Nat : k >= n => CallAt(k) = Prefill + (k - n)
          /\ Prefill \in Nat
        BY <1>1, CallNumbers
    <2>2. \A i \in I0 : i - 1 \in Nat /\ i - 1 < n
        OBVIOUS
    <2>3. \A i \in I1 : i - 1 \in Nat /\ i - 1 >= n
        OBVIOUS
    <2> HIDE DEF I0, I1
    <2> QED BY <2>1, <2>2, <2>3
<1>12. U = (UNION {ToSet(routing[l][i]) : i \in I0}) \ resident[l]
    BY DEF DistinctIn
<1>13. \A i \in 1 .. T : i - 1 \in 0 .. T - 1 /\ i \in Int
    BY <1>1
<1>14. \A k \in 0 .. T - 1 : k + 1 \in 1 .. T /\ (k + 1) - 1 = k
    BY <1>1
<1>15. A = {q \in Q : q[1] < Prefill} /\ B = {q \in Q : ~(q[1] < Prefill)}
    OBVIOUS
<1>16. /\ h0 = [p \in P0 |-> h0[p]] /\ \A p \in P0 : h0[p] = <<CallAt(p[1] - 1), p[2]>>
       /\ h1 = [p \in P1 |-> h1[p]] /\ \A p \in P1 : h1[p] = <<CallAt(p[1] - 1), p[2]>>
       /\ g = [q \in A |-> g[q]] /\ \A q \in A : g[q] = q[2]
    OBVIOUS
<1> HIDE DEF I0, I1, D0, D1, P0, P1, Q, A, B, U, h0, h1, g
<1>17. /\ IsFiniteSet(P0) /\ Drop(l, 0, n) = Cardinality(P0) /\ Cardinality(P0) \in Nat
       /\ \A q : q \in P0 <=> q = <<q[1], q[2]>> /\ q[1] \in I0 /\ q[2] \in Wanted(l, q[1] - 1)
    <2>1. \A i \in I0 : IsFiniteSet(D0[i])
        BY <1>4, <1>6
    <2>2. /\ IsFiniteSet(P0) /\ Cardinality(P0) \in Nat
          /\ Total([i \in I0 |-> Cardinality(D0[i])]) = Cardinality(P0)
          /\ \A q : q \in P0 <=> q = <<q[1], q[2]>> /\ q[1] \in I0 /\ q[2] \in D0[q[1]]
        BY <1>4, <2>1, PairsSize DEF P0
    <2>3. Drop(l, 0, n) = Total([i \in I0 |-> Cardinality(Wanted(l, i - 1))])
        BY DEF Drop, I0
    <2>4. \A q : q \in P0 <=> q = <<q[1], q[2]>> /\ q[1] \in I0 /\ q[2] \in Wanted(l, q[1] - 1)
        BY <1>6, <2>2
    <2> QED BY <1>8, <2>2, <2>3, <2>4
<1>18. /\ IsFiniteSet(P1) /\ Drop(l, n, T) = Cardinality(P1) /\ Cardinality(P1) \in Nat
       /\ \A q : q \in P1 <=> q = <<q[1], q[2]>> /\ q[1] \in I1 /\ q[2] \in Wanted(l, q[1] - 1)
    <2>1. \A i \in I1 : IsFiniteSet(D1[i])
        BY <1>5, <1>7
    <2>2. /\ IsFiniteSet(P1) /\ Cardinality(P1) \in Nat
          /\ Total([i \in I1 |-> Cardinality(D1[i])]) = Cardinality(P1)
          /\ \A q : q \in P1 <=> q = <<q[1], q[2]>> /\ q[1] \in I1 /\ q[2] \in D1[q[1]]
        BY <1>5, <2>1, PairsSize DEF P1
    <2>3. Drop(l, n, T) = Total([i \in I1 |-> Cardinality(Wanted(l, i - 1))])
        BY DEF Drop, I1
    <2>4. \A q : q \in P1 <=> q = <<q[1], q[2]>> /\ q[1] \in I1 /\ q[2] \in Wanted(l, q[1] - 1)
        BY <1>7, <2>2
    <2> QED BY <1>8, <2>2, <2>3, <2>4
<1>19. \A k \in 0 .. T - 1 : \E i \in I0 \cup I1 : i - 1 = k
    BY <1>3, <1>14
<1>20. \A q : q \in A <=> /\ q = <<q[1], q[2]>> /\ q[1] \in Nat /\ q[2] \in Experts
                          /\ \E i \in I0 : CallAt(i - 1) = q[1] /\ q[2] \in Wanted(l, i - 1)
    <2> TAKE q
    <2>1. ASSUME q \in A
          PROVE  /\ q = <<q[1], q[2]>> /\ q[1] \in Nat /\ q[2] \in Experts
                 /\ \E i \in I0 : CallAt(i - 1) = q[1] /\ q[2] \in Wanted(l, i - 1)
        <3>1. q \in Q /\ q[1] < Prefill
            BY <1>15, <2>1
        <3>2. /\ q = <<q[1], q[2]>> /\ q[1] \in Nat /\ q[2] \in Experts
              /\ \E k \in 0 .. T - 1 : CallAt(k) = q[1] /\ q[2] \in Wanted(l, k)
            BY <1>9, <3>1
        <3>3. PICK k \in 0 .. T - 1 : CallAt(k) = q[1] /\ q[2] \in Wanted(l, k)
            BY <3>2
        <3>4. PICK i \in I0 \cup I1 : i - 1 = k
            BY <1>19
        <3>5. i \in I0
            <4> SUFFICES ASSUME i \in I1 PROVE FALSE
                BY <3>4
            <4>1. CallAt(k) = Prefill + (k - n) /\ k - n >= 0 /\ k \in Int
                <5>1. k \in Int /\ i \in Int /\ ~(i <= n)
                    BY <1>3, <1>13
                <5> QED BY <1>11, <3>4, <5>1
            <4> QED BY <1>11, <3>1, <3>3, <4>1
        <3> QED BY <3>2, <3>3, <3>4, <3>5
    <2>2. ASSUME q = <<q[1], q[2]>> /\ q[1] \in Nat /\ q[2] \in Experts,
                 \E i \in I0 : CallAt(i - 1) = q[1] /\ q[2] \in Wanted(l, i - 1)
          PROVE  q \in A
        <3>1. PICK i \in I0 : CallAt(i - 1) = q[1] /\ q[2] \in Wanted(l, i - 1)
            BY <2>2
        <3>2. i - 1 \in 0 .. T - 1
            BY <1>3, <1>13
        <3>3. q \in Q
            BY <1>9, <2>2, <3>1, <3>2
        <3>4. q[1] < Prefill
            BY <1>11, <3>1
        <3> QED BY <1>15, <3>3, <3>4
    <2> QED BY <2>1, <2>2
<1>21. \A q : q \in B <=> /\ q = <<q[1], q[2]>> /\ q[1] \in Nat /\ q[2] \in Experts
                          /\ \E i \in I1 : CallAt(i - 1) = q[1] /\ q[2] \in Wanted(l, i - 1)
    <2> TAKE q
    <2>1. ASSUME q \in B
          PROVE  /\ q = <<q[1], q[2]>> /\ q[1] \in Nat /\ q[2] \in Experts
                 /\ \E i \in I1 : CallAt(i - 1) = q[1] /\ q[2] \in Wanted(l, i - 1)
        <3>1. q \in Q /\ ~(q[1] < Prefill)
            BY <1>15, <2>1
        <3>2. /\ q = <<q[1], q[2]>> /\ q[1] \in Nat /\ q[2] \in Experts
              /\ \E k \in 0 .. T - 1 : CallAt(k) = q[1] /\ q[2] \in Wanted(l, k)
            BY <1>9, <3>1
        <3>3. PICK k \in 0 .. T - 1 : CallAt(k) = q[1] /\ q[2] \in Wanted(l, k)
            BY <3>2
        <3>4. PICK i \in I0 \cup I1 : i - 1 = k
            BY <1>19
        <3>5. i \in I1
            BY <1>11, <3>1, <3>3, <3>4
        <3> QED BY <3>2, <3>3, <3>4, <3>5
    <2>2. ASSUME q = <<q[1], q[2]>> /\ q[1] \in Nat /\ q[2] \in Experts,
                 \E i \in I1 : CallAt(i - 1) = q[1] /\ q[2] \in Wanted(l, i - 1)
          PROVE  q \in B
        <3>1. PICK i \in I1 : CallAt(i - 1) = q[1] /\ q[2] \in Wanted(l, i - 1)
            BY <2>2
        <3>2. i - 1 \in 0 .. T - 1 /\ i \in Int /\ ~(i <= n)
            BY <1>3, <1>13
        <3>3. q \in Q
            BY <1>9, <2>2, <3>1, <3>2
        <3>4. ~(q[1] < Prefill)
            <4>1. q[1] = Prefill + ((i - 1) - n)
                BY <1>11, <3>1
            <4> QED BY <1>11, <3>2, <4>1
        <3> QED BY <1>15, <3>3, <3>4
    <2> QED BY <2>1, <2>2
<1>22. \A e : e \in U <=> \E i \in I0 : e \in Wanted(l, i - 1)
    BY <1>4, <1>12
<1>23. \A e \in U : e \in Experts
    BY <1>4, <1>22
<1>24. h0 \in Surjection(P0, A)
    <2>1. \A p \in P0 : h0[p] \in A
        <3> TAKE p \in P0
        <3>1. p[1] \in I0 /\ p[2] \in Wanted(l, p[1] - 1) /\ p[2] \in Experts
            BY <1>4, <1>17
        <3> DEFINE q == <<CallAt(p[1] - 1), p[2]>>
        <3>2. h0[p] = q
            BY <1>16
        <3>3. q = <<q[1], q[2]>> /\ q[1] = CallAt(p[1] - 1) /\ q[2] = p[2]
            OBVIOUS
        <3> HIDE DEF q
        <3> QED BY <1>11, <1>20, <3>1, <3>2, <3>3
    <2>2. \A q \in A : \E p \in P0 : h0[p] = q
        <3> TAKE q \in A
        <3>1. q = <<q[1], q[2]>>
            BY <1>20
        <3>2. PICK i \in I0 : CallAt(i - 1) = q[1] /\ q[2] \in Wanted(l, i - 1)
            BY <1>20
        <3> DEFINE p == <<i, q[2]>>
        <3>3. p = <<p[1], p[2]>> /\ p[1] = i /\ p[2] = q[2]
            OBVIOUS
        <3> HIDE DEF p
        <3>4. p \in P0
            BY <1>17, <3>2, <3>3
        <3>5. h0[p] = <<q[1], q[2]>>
            BY <1>16, <3>2, <3>3, <3>4
        <3> QED BY <3>1, <3>4, <3>5
    <2>3. h0 \in [P0 -> A]
        BY <1>16, <2>1
    <2> QED BY <2>2, <2>3 DEF Surjection
<1>25. h1 \in Bijection(P1, B)
    <2>1. \A p \in P1 : h1[p] \in B
        <3> TAKE p \in P1
        <3>1. p[1] \in I1 /\ p[2] \in Wanted(l, p[1] - 1) /\ p[2] \in Experts
            BY <1>5, <1>18
        <3> DEFINE q == <<CallAt(p[1] - 1), p[2]>>
        <3>2. h1[p] = q
            BY <1>16
        <3>3. q = <<q[1], q[2]>> /\ q[1] = CallAt(p[1] - 1) /\ q[2] = p[2]
            OBVIOUS
        <3> HIDE DEF q
        <3> QED BY <1>11, <1>21, <3>1, <3>2, <3>3
    <2>2. \A q \in B : \E p \in P1 : h1[p] = q
        <3> TAKE q \in B
        <3>1. q = <<q[1], q[2]>>
            BY <1>21
        <3>2. PICK i \in I1 : CallAt(i - 1) = q[1] /\ q[2] \in Wanted(l, i - 1)
            BY <1>21
        <3> DEFINE p == <<i, q[2]>>
        <3>3. p = <<p[1], p[2]>> /\ p[1] = i /\ p[2] = q[2]
            OBVIOUS
        <3> HIDE DEF p
        <3>4. p \in P1
            BY <1>18, <3>2, <3>3
        <3>5. h1[p] = <<q[1], q[2]>>
            BY <1>16, <3>2, <3>3, <3>4
        <3> QED BY <3>1, <3>4, <3>5
    <2>3. \A p, q \in P1 : h1[p] = h1[q] => p = q
        <3> TAKE p, q \in P1
        <3> HAVE h1[p] = h1[q]
        <3>1. CallAt(p[1] - 1) = CallAt(q[1] - 1) /\ p[2] = q[2]
            BY <1>16
        <3>2. p[1] \in I1 /\ q[1] \in I1 /\ p = <<p[1], p[2]>> /\ q = <<q[1], q[2]>>
            BY <1>18
        <3>3. p[1] = q[1]
            <4>1. p[1] \in Int /\ q[1] \in Int
                BY <1>3, <1>13, <3>2
            <4>2. Prefill + ((p[1] - 1) - n) = Prefill + ((q[1] - 1) - n)
                BY <1>11, <3>1, <3>2
            <4> QED BY <1>11, <4>1, <4>2
        <3> QED BY <3>1, <3>2, <3>3
    <2>4. h1 \in [P1 -> B]
        BY <1>16, <2>1
    <2> QED BY <2>2, <2>3, <2>4 DEF Bijection, Injection, Surjection, IsInjective
<1>26. g \in Surjection(A, U)
    <2>1. \A q \in A : g[q] \in U
        BY <1>16, <1>20, <1>22
    <2>2. \A e \in U : \E q \in A : g[q] = e
        <3> TAKE e \in U
        <3>1. PICK i \in I0 : e \in Wanted(l, i - 1)
            BY <1>22
        <3> DEFINE q == <<CallAt(i - 1), e>>
        <3>2. q = <<q[1], q[2]>> /\ q[1] = CallAt(i - 1) /\ q[2] = e
            OBVIOUS
        <3> HIDE DEF q
        <3>3. q \in A
            BY <1>11, <1>20, <1>23, <3>1, <3>2
        <3> QED BY <1>16, <3>2, <3>3
    <2>3. g \in [A -> U]
        BY <1>16, <2>1
    <2> QED BY <2>2, <2>3 DEF Surjection
<1>27. n <= shape.ub => g \in Injection(A, U)
    <2> SUFFICES ASSUME n <= shape.ub PROVE g \in Injection(A, U)
        OBVIOUS
    <2>1. \A i \in I0 : CallAt(i - 1) = 0
        <3> TAKE i \in I0
        <3>1. shape.ub \in Nat \ {0}
            BY <1>1, ShapeIs
        <3>2. i - 1 \in Nat /\ i - 1 < n
            BY <1>3, <1>13
        <3>3. CallAt(i - 1) = (i - 1) \div shape.ub
            BY <3>2 DEF CallAt, CallOf
        <3> DEFINE u == shape.ub
                   k == i - 1
        <3>4. k \in Nat /\ k < u /\ u \in Nat \ {0}
            BY <3>1, <3>2
        <3> HIDE DEF u, k
        <3>5. k \div u = 0
            BY <3>4
        <3> QED BY <3>3, <3>5 DEF u, k
    <2>2. \A p, q \in A : g[p] = g[q] => p = q
        <3> TAKE p, q \in A
        <3> HAVE g[p] = g[q]
        <3>1. p[2] = q[2]
            BY <1>16
        <3>2. p = <<p[1], p[2]>> /\ q = <<q[1], q[2]>> /\ p[1] = 0 /\ q[1] = 0
            BY <1>20, <2>1
        <3> QED BY <3>1, <3>2
    <2>3. g \in [A -> U]
        BY <1>26 DEF Surjection
    <2> QED BY <2>2, <2>3 DEF Injection, IsInjective
<1>28. IsFiniteSet(A) /\ IsFiniteSet(B) /\ Q = A \cup B /\ A \cap B = {}
    <2>1. A \in SUBSET Q /\ B \in SUBSET Q /\ Q = A \cup B /\ A \cap B = {}
        BY <1>15
    <2> QED BY <1>10, <2>1, FS_Subset
<1>29. Cardinality(A) \in Nat /\ Cardinality(B) \in Nat /\ Cardinality(Q) = Cardinality(A) + Cardinality(B)
    <2>1. Cardinality(A \cup B) = Cardinality(A) + Cardinality(B) - Cardinality(A \cap B)
        BY <1>28, FS_Union
    <2>2. Cardinality(A \cap B) = 0
        BY <1>28, FS_EmptySet
    <2>3. Cardinality(A) \in Nat /\ Cardinality(B) \in Nat
        BY <1>28, FS_CardinalityType
    <2>4. Cardinality(Q) = Cardinality(A \cup B)
        BY <1>28
    <2> QED BY <2>1, <2>2, <2>3, <2>4
<1>30. Cardinality(A) <= Cardinality(P0)
    BY <1>17, <1>24, FS_Surjection
<1>31. Cardinality(B) = Cardinality(P1)
    BY <1>18, <1>25, FS_Bijection DEF ExistsBijection
<1>32. /\ IsFiniteSet(U) /\ Cardinality(U) <= Cardinality(A)
       /\ Cardinality(U) = Cardinality(A) <=> g \in Injection(A, U)
    BY <1>26, <1>28, FS_Surjection
<1>33. x = Cardinality(U) /\ x \in Nat
    <2>1. x = Cardinality(U)
        BY DEF U
    <2> QED BY <1>32, <2>1, FS_CardinalityType
<1>34. n <= shape.ub => x = Cardinality(A)
    BY <1>27, <1>32, <1>33
<1> DEFINE a == Cardinality(A)
           b == Cardinality(B)
           d0 == Drop(l, 0, n)
           d1 == Drop(l, n, T)
           e == lease_events[l]
<1>35. /\ a \in Nat /\ b \in Nat /\ d0 \in Nat /\ d1 \in Nat /\ e \in Nat /\ x \in Nat
       /\ e = a + b /\ a <= d0 /\ b = d1 /\ x <= a
    BY <1>1, <1>17, <1>18, <1>29, <1>30, <1>31, <1>32, <1>33
<1>36. n <= shape.ub => x = a
    BY <1>34
<1> HIDE DEF a, b, d0, d1, e
<1>37. x + d1 <= e /\ e <= d0 + d1
    BY <1>35
<1>38. n <= shape.ub => x + d1 = e
    BY <1>35, <1>36
<1> QED BY <1>35, <1>37, <1>38 DEF d0, d1, e

LEMMA LayersFinite == IsFiniteSet(Layers)
<1>1. 0 \in Int /\ L - 1 \in Int
    BY LogAssumption
<1> QED BY <1>1, FS_Interval DEF Layers

\* The layers' wants of a phase, and what the picks of the token before spare.
AllDrop(lo, hi) == Total([l \in Layers |-> Drop(l, lo, hi)])

LEMMA DropUseIs ==
    ASSUME Ended, NEW lo \in Nat, NEW hi \in Nat, lo <= hi, hi <= T
    PROVE  /\ AllDrop(lo, hi) \in Nat
           /\ Total([l \in Layers |-> Outside(SubSeq(routing[l], lo + 1, hi), resident[l])])
                = AllDrop(lo, hi)
           /\ [l \in Layers |-> Drop(l, lo, hi)] \in [Layers -> Nat]
           /\ LET held == Total([l \in Layers |->
                             Total([i \in lo + 1 .. hi |-> HeldMisses(routing[l], resident[l], i)])])
              IN  held \in Nat /\ held <= AllDrop(lo, hi)
<1> DEFINE f == [l \in Layers |-> Outside(SubSeq(routing[l], lo + 1, hi), resident[l])]
           g == [l \in Layers |-> Drop(l, lo, hi)]
           h == [l \in Layers |-> Total([i \in lo + 1 .. hi |-> HeldMisses(routing[l], resident[l], i)])]
<1>1. IsFiniteSet(Layers)
    BY LayersFinite
<1>2. \A l \in Layers : /\ Outside(SubSeq(routing[l], lo + 1, hi), resident[l]) = Drop(l, lo, hi)
                        /\ Drop(l, lo, hi) \in Nat
    BY PhaseMisses
<1>3. f = g
    BY <1>2
<1>4. g \in [Layers -> Nat]
    BY <1>2
<1>5. \A l \in Layers :
         /\ Total([i \in lo + 1 .. hi |-> HeldMisses(routing[l], resident[l], i)]) \in Nat
         /\ Total([i \in lo + 1 .. hi |-> HeldMisses(routing[l], resident[l], i)]) <= Drop(l, lo, hi)
    BY HeldAtMost
<1>6. h \in [Layers -> Nat] /\ \A l \in Layers : h[l] <= g[l]
    BY <1>5
<1> HIDE DEF f, g, h
<1>7. Total(g) \in Nat
    BY <1>1, <1>4, TotalIsNatural
<1>8. Total(h) \in Nat /\ Total(h) <= Total(g)
    BY <1>1, <1>4, <1>6, TotalAtMost
<1>9. AllDrop(lo, hi) = Total(g)
    BY DEF AllDrop, g
<1>10. Total(f) = Total(g)
    BY <1>3
<1> QED BY <1>4, <1>7, <1>8, <1>9, <1>10 DEF f, g, h

LEMMA RouteCheckIs ==
    ASSUME Ended, NEW one, one.ok, NEW n \in Nat, n = shape.n_prompt,
           one = Gate1RouteCheck(file, resident, shape.n_prompt, shape.n_gen)
    PROVE  /\ one.modelA = AllDrop(0, n) + AllDrop(n, T)
           /\ one.modelB = Total([l \in Layers |->
                               Cardinality(DistinctIn(routing[l], 0, n) \ resident[l])]) + AllDrop(n, T)
           /\ one.keep <= one.modelA
<1> DEFINE log == IdsOf(file)
           m   == shape.n_prompt + shape.n_gen
           p   == shape.n_prompt
           DropUse(lo, hi) == Total([l \in Layers |-> Outside(SubSeq(log[l], lo + 1, hi), resident[l])])
           Held(lo, hi) == Total([l \in Layers |->
                               Total([i \in lo + 1 .. hi |-> HeldMisses(log[l], resident[l], i)])])
           Keep(lo, hi) == IF hi - lo = 1 THEN DropUse(lo, hi) ELSE Held(lo, hi)
           Distinct == Total([l \in Layers |-> Cardinality(DistinctIn(log[l], 0, p) \ resident[l])])
<1>1. one.modelA = DropUse(0, p) + DropUse(p, m)
    BY DEF Gate1RouteCheck, Refused, OverLayers
<1>2. one.modelB = Distinct + DropUse(p, m)
    BY DEF Gate1RouteCheck, Refused, OverLayers
<1>3. one.keep = Keep(0, p) + Keep(p, m)
    BY DEF Gate1RouteCheck, Refused, OverLayers
<1>4. T \in Nat /\ n <= T /\ p = n /\ m = T /\ 0 <= n /\ 0 \in Nat
    BY ShapeIs DEF Ended
<1>5. log = routing
    BY IdsAreRouting DEF Ended
<1> HIDE DEF log, p, m
<1>13. ASSUME NEW lo \in Nat, NEW hi \in Nat, lo <= hi, hi <= T
       PROVE  /\ DropUse(lo, hi) = AllDrop(lo, hi) /\ AllDrop(lo, hi) \in Nat
              /\ Held(lo, hi) \in Nat /\ Held(lo, hi) <= AllDrop(lo, hi)
    <2>1. DropUse(lo, hi) = AllDrop(lo, hi) /\ AllDrop(lo, hi) \in Nat
        BY <1>5, <1>13, DropUseIs
    <2> DEFINE held == Total([l \in Layers |->
                           Total([i \in lo + 1 .. hi |-> HeldMisses(routing[l], resident[l], i)])])
    <2>2. held \in Nat /\ held <= AllDrop(lo, hi)
        BY <1>13, DropUseIs
    <2>3. Held(lo, hi) = held
        BY <1>5
    <2> QED BY <2>1, <2>2, <2>3
<1> HIDE DEF DropUse, Held
<1>6. DropUse(0, p) = AllDrop(0, n) /\ AllDrop(0, n) \in Nat /\ Held(0, p) \in Nat /\ Held(0, p) <= AllDrop(0, n)
    <2>1. PICK z \in Nat : z = 0
        OBVIOUS
    <2>2. z <= n
        BY <2>1
    <2> QED BY <1>4, <1>13, <2>1, <2>2
<1>7. DropUse(p, m) = AllDrop(n, T) /\ AllDrop(n, T) \in Nat /\ Held(p, m) \in Nat /\ Held(p, m) <= AllDrop(n, T)
    BY <1>4, <1>13
<1>8. Distinct = Total([l \in Layers |-> Cardinality(DistinctIn(routing[l], 0, n) \ resident[l])])
    BY <1>4, <1>5
<1> HIDE DEF Distinct
<1>9. Keep(0, p) \in Nat /\ Keep(0, p) <= AllDrop(0, n)
    BY <1>6
<1>10. Keep(p, m) \in Nat /\ Keep(p, m) <= AllDrop(n, T)
    BY <1>7
<1> HIDE DEF Keep
<1>11. Keep(0, p) + Keep(p, m) <= AllDrop(0, n) + AllDrop(n, T)
    BY <1>6, <1>7, <1>9, <1>10
<1> QED BY <1>1, <1>2, <1>3, <1>6, <1>7, <1>8, <1>11

LEMMA RouteCheckBounds ==
    ASSUME Ended, NEW one, one.ok,
           one = Gate1RouteCheck(file, resident, shape.n_prompt, shape.n_gen)
    PROVE  /\ one.modelB <= Total(lease_events) /\ Total(lease_events) <= one.modelA
           /\ one.keep <= one.modelA
           /\ shape.n_prompt <= shape.ub => one.modelB = Total(lease_events)
<1>1. PICK n \in Nat : n = shape.n_prompt
    BY ShapeIs DEF Ended
<1> DEFINE x  == [l \in Layers |-> Cardinality(DistinctIn(routing[l], 0, n) \ resident[l])]
           d0 == [l \in Layers |-> Drop(l, 0, n)]
           d1 == [l \in Layers |-> Drop(l, n, T)]
           xs == [l \in Layers |-> x[l] + d1[l]]
           ds == [l \in Layers |-> d0[l] + d1[l]]
<1>2. /\ one.modelA = Total(d0) + Total(d1) /\ one.modelB = Total(x) + Total(d1)
      /\ one.keep <= one.modelA
    BY <1>1, RouteCheckIs DEF AllDrop
<1>3. \A l \in Layers :
         /\ x[l] = Cardinality(DistinctIn(routing[l], 0, n) \ resident[l])
         /\ d0[l] = Drop(l, 0, n) /\ d1[l] = Drop(l, n, T)
         /\ xs[l] = x[l] + d1[l] /\ ds[l] = d0[l] + d1[l]
    OBVIOUS
<1>4. /\ x = [l \in Layers |-> x[l]] /\ d0 = [l \in Layers |-> d0[l]] /\ d1 = [l \in Layers |-> d1[l]]
      /\ xs = [l \in Layers |-> xs[l]] /\ ds = [l \in Layers |-> ds[l]]
    OBVIOUS
<1>5. xs = [l \in Layers |-> x[l] + d1[l]] /\ ds = [l \in Layers |-> d0[l] + d1[l]]
    OBVIOUS
<1> HIDE DEF x, d0, d1, xs, ds
<1>6. \A l \in Layers :
         /\ x[l] \in Nat /\ lease_events[l] \in Nat /\ d0[l] \in Nat /\ d1[l] \in Nat
         /\ x[l] + d1[l] <= lease_events[l] /\ lease_events[l] <= d0[l] + d1[l]
         /\ n <= shape.ub => x[l] + d1[l] = lease_events[l]
    <2> TAKE l \in Layers
    <2>1. PICK c : c = Cardinality(DistinctIn(routing[l], 0, n) \ resident[l])
        OBVIOUS
    <2>2. /\ c \in Nat /\ lease_events[l] \in Nat
          /\ Drop(l, 0, n) \in Nat /\ Drop(l, n, T) \in Nat
          /\ c + Drop(l, n, T) <= lease_events[l]
          /\ lease_events[l] <= Drop(l, 0, n) + Drop(l, n, T)
          /\ n <= shape.ub => c + Drop(l, n, T) = lease_events[l]
        BY <1>1, <2>1, LeasesBetween
    <2>3. x[l] = c /\ d0[l] = Drop(l, 0, n) /\ d1[l] = Drop(l, n, T)
        BY <1>3, <2>1
    <2> QED BY <2>2, <2>3
<1>7. x \in [Layers -> Nat] /\ d0 \in [Layers -> Nat] /\ d1 \in [Layers -> Nat]
    BY <1>4, <1>6
<1>8. xs \in [Layers -> Nat] /\ ds \in [Layers -> Nat]
    <2>1. ASSUME NEW l \in Layers PROVE xs[l] \in Nat /\ ds[l] \in Nat
        <3>1. x[l] \in Nat /\ d0[l] \in Nat /\ d1[l] \in Nat
            BY <1>6
        <3>2. xs[l] = x[l] + d1[l] /\ ds[l] = d0[l] + d1[l]
            BY <1>3
        <3> QED BY <3>1, <3>2
    <2> QED BY <1>4, <2>1
<1>9. lease_events \in [Layers -> Nat]
    BY DEF Ended, LeasesCounted
<1>10. IsFiniteSet(Layers)
    BY LayersFinite
<1>11. Total(xs) = Total(x) + Total(d1)
    BY <1>5, <1>7, <1>10, TotalOfSums
<1>12. Total(ds) = Total(d0) + Total(d1)
    BY <1>5, <1>7, <1>10, TotalOfSums
<1>13. Total(xs) <= Total(lease_events)
    <2>1. \A l \in Layers : xs[l] <= lease_events[l]
        BY <1>3, <1>6
    <2> QED BY <1>8, <1>9, <1>10, <2>1, TotalAtMost
<1>14. Total(lease_events) <= Total(ds)
    <2>1. \A l \in Layers : lease_events[l] <= ds[l]
        BY <1>3, <1>6
    <2> QED BY <1>8, <1>9, <1>10, <2>1, TotalAtMost
<1>15. n <= shape.ub => Total(xs) = Total(lease_events)
    <2> SUFFICES ASSUME n <= shape.ub PROVE Total(xs) = Total(lease_events)
        OBVIOUS
    <2>1. \A l \in Layers : xs[l] = lease_events[l]
        BY <1>3, <1>6
    <2>2. xs = lease_events
        BY <1>4, <1>9, <2>1
    <2> QED BY <2>2
<1> QED BY <1>1, <1>2, <1>11, <1>12, <1>13, <1>14, <1>15

----------------------------------------------------------------------------
(* The engine's counters, derived again.                                   *)

LEMMA LeasesFollow == TimedInv /\ LeaseInv => LeasesRederived
<1> SUFFICES ASSUME TimedInv, LeaseInv, Intact PROVE LeasesRederived
    BY DEF LeasesRederived
<1> DEFINE leased == Counters.lease_events
           n      == shape.n_prompt
           two == Gate2DecodeAcct(file, resident, n, shape.n_gen, shape.ub)
           one == Gate1RouteCheck(file, resident, n, shape.n_gen)
           m   == PhaseSplit(file, resident, n)
           needs == [tok \in 0 .. T - 1 |-> OverLayers(
                        LAMBDA l : Cardinality(ToSet(routing[l][tok + 1]) \ resident[l]))]
<1>1. Ended
    BY RunEnded DEF Ended, Intact
<1>2. Gate12(file, resident, n, Counters) = {}
    BY <1>1, SplitAccepted
<1>3. decode_leased <= Picks
    BY <1>1, LatePeakSmall
<1>4. Cardinality(resident[0]) = K =>
        /\ AcceptGate3(file, resident, n, Counters) \subseteq {<<"decode_peak", FALSE>>}
        /\ AcceptArith(chunks, K, Counters).disagree = {}
    BY <1>1, ReceiptAccepted
<1>5. /\ m.peak_decode = decode_leased
      /\ m.decode_misses = Total([i \in Late |-> Cardinality(Wanted(file[i].layer, file[i].token))])
    <2>1. m = PhaseSplit(file, resident, shape.n_prompt)
        OBVIOUS
    <2> HIDE DEF m
    <2> QED BY <1>1, <2>1, SplitIs
<1>6. leased = Total(lease_events)
    BY DEF Counters
<1>7. two = Gate2DecodeAcct(file, resident, shape.n_prompt, shape.n_gen, shape.ub)
      /\ one = Gate1RouteCheck(file, resident, shape.n_prompt, shape.n_gen)
    OBVIOUS
<1>8. needs = [tok \in 0 .. T - 1 |-> Total([l \in Layers |-> Cardinality(Wanted(l, tok))])]
    BY DEF OverLayers, Wanted
<1> HIDE DEF two, one, m, leased, needs
<1>9. two.ok =>
        /\ two.lease_pred = leased /\ two.whole_peak = peak_leased
        /\ two.decode_peak = decode_leased /\ two.decode_leases = m.decode_misses
        /\ two.misses = needs
    <2> SUFFICES ASSUME two.ok
                 PROVE  /\ two.lease_pred = leased /\ two.whole_peak = peak_leased
                        /\ two.decode_peak = decode_leased /\ two.decode_leases = m.decode_misses
                        /\ two.misses = needs
        OBVIOUS
    <2>1. /\ two.lease_pred = Total(lease_events)
          /\ two.whole_peak = peak_leased /\ two.decode_peak = decode_leased
          /\ two.decode_leases
                = Total([i \in Late |-> Cardinality(Wanted(file[i].layer, file[i].token))])
          /\ two.misses = [tok \in 0 .. T - 1 |-> Total([l \in Layers |-> Cardinality(Wanted(l, tok))])]
        BY <1>1, <1>7, DecodeAcctIs
    <2> QED BY <1>5, <1>6, <1>8, <2>1
<1>10. one.ok =>
        /\ one.modelB <= leased /\ leased <= one.modelA /\ one.keep <= one.modelA
        /\ n <= shape.ub => one.modelB = leased
    <2> SUFFICES ASSUME one.ok
                 PROVE  /\ one.modelB <= leased /\ leased <= one.modelA /\ one.keep <= one.modelA
                        /\ n <= shape.ub => one.modelB = leased
        OBVIOUS
    <2>1. /\ one.modelB <= Total(lease_events) /\ Total(lease_events) <= one.modelA
          /\ one.keep <= one.modelA
          /\ shape.n_prompt <= shape.ub => one.modelB = Total(lease_events)
        BY <1>1, <1>7, RouteCheckBounds
    <2> QED BY <1>6, <2>1
<1> USE DEF two, one, m, leased, needs
<1> QED BY <1>2, <1>3, <1>4, <1>5, <1>9, <1>10, Zenon DEF LeasesRederived

(* The programs that re-derive a run's counters from its log get what the  *)
(* engine counted, call by call or piece by piece, as LeasesRederived says:*)
(* in every run, whatever the routing, the sets, the prompt, the           *)
(* micro-batch and the number of layers above one.                         *)
THEOREM LeasesOfEveryRun == RunSpec => []LeasesRederived
<1>1. RunInit => TimedInv /\ LeaseInv
    BY DEF RunInit, TimedInv, LeaseInv
<1> QED BY <1>1, StepTimed, StepLease, LeasesFollow, PTL DEF RunSpec

----------------------------------------------------------------------------
(* What the predictors foretell.                                           *)

\* The whole chunks of a log that is all prompt, and what each is foretold to
\* lease of a layer.
Prompted == Ended /\ shape.n_gen = 0
WholeChunks == 1 .. T \div shape.ub
Foretold == [p \in Layers \X WholeChunks |-> Cardinality(NeedOf(p[1], p[2] - 1))]

\* The calls of a log that is all prompt.
LEMMA PromptIs ==
    ASSUME Prompted, NEW u, u = shape.ub, NEW n, n = T \div u
    PROVE  /\ shape.n_prompt = T /\ u \in Nat \ {0} /\ T \in Nat \ {0} /\ n \in Nat
           /\ u * n <= T /\ u * n \in Nat /\ (T % u = 0 => u * n = T)
           /\ \A k \in 0 .. T - 1 : CallAt(k) = k \div u /\ CallAt(k) \in Nat
           /\ \A k \in 0 .. T - 1 : \A c \in Nat : CallAt(k) = c <=> u * c <= k /\ k < u * c + u
<1>1. /\ shape.n_prompt \in Nat \ {0} /\ u \in Nat \ {0} /\ T \in Nat \ {0}
      /\ shape.n_gen = T - shape.n_prompt
    BY ShapeIs DEF Prompted, Ended
<1>2. shape.n_prompt = T
    BY <1>1 DEF Prompted
<1>3. ASSUME NEW k \in 0 .. T - 1 PROVE CallAt(k) = k \div u /\ CallAt(k) \in Nat
    <2>1. k \in Nat /\ k < T
        BY <1>1
    <2>2. PICK m \in Nat \ {0}, v \in Nat \ {0} : m = T /\ v = u
        BY <1>1
    <2>3. CallOf(k, m, v) = k \div v
        BY <2>1, <2>2 DEF CallOf
    <2>4. k \div v \in Int /\ k < v * (k \div v) + v
        BY <2>1, Quotient
    <2>5. k \div v \in Nat
        BY <2>1, <2>4
    <2> QED BY <1>2, <2>2, <2>3, <2>5 DEF CallAt
<1>4. ASSUME NEW k \in 0 .. T - 1, NEW c \in Nat PROVE CallAt(k) = c <=> u * c <= k /\ k < u * c + u
    <2>1. k \in Int /\ c \in Int
        BY <1>1
    <2>2. u * (k \div u) <= k /\ k < u * (k \div u) + u
        BY <1>1, <2>1, Quotient
    <2>3. u * c <= k /\ k < u * c + u => k \div u = c
        BY <1>1, <2>1, QuotientIs
    <2> DEFINE q == k \div u
    <2>4. CallAt(k) = q
        BY <1>3
    <2> HIDE DEF q
    <2>5. CallAt(k) = c => u * c <= k /\ k < u * c + u
        BY <2>2, <2>4 DEF q
    <2>6. u * c <= k /\ k < u * c + u => CallAt(k) = c
        BY <2>3, <2>4 DEF q
    <2> QED BY <2>5, <2>6
<1>5. n \in Int /\ u * n <= T /\ T < u * n + u
    <2>1. PICK m \in Int, v \in Nat \ {0} : m = T /\ v = u
        BY <1>1
    <2>2. m \div v \in Int /\ v * (m \div v) <= m /\ m < v * (m \div v) + v
        BY Quotient
    <2> QED BY <2>1, <2>2
<1>6. n \in Nat
    <2>1. ASSUME n <= 0 - 1 PROVE FALSE
        <3>1. u * n <= u * (0 - 1)
            BY <1>1, <1>5, <2>1, Monotone
        <3>2. u * (0 - 1) = 0 - u /\ u * n \in Int
            BY <1>1, <1>5
        <3> QED BY <1>1, <1>5, <3>1, <3>2
    <2> QED BY <1>5, <2>1
<1>7. u * n \in Nat
    BY <1>1, <1>6
<1>8. T % u = 0 => u * n = T
    <2>1. ASSUME NEW a \in Nat, NEW b \in Nat \ {0}, a % b = 0 PROVE b * (a \div b) = a
        BY <2>1
    <2> QED BY <1>1, <2>1
<1> QED BY <1>1, <1>2, <1>3, <1>4, <1>5, <1>6, <1>7, <1>8

\* A whole chunk is a call.
LEMMA ChunkIsCall ==
    ASSUME Prompted, NEW l \in Layers, NEW c \in WholeChunks
    PROVE  /\ DistinctIn(routing[l], (c - 1) * shape.ub, c * shape.ub) \ resident[l] = NeedOf(l, c - 1)
           /\ Cardinality(NeedOf(l, c - 1)) \in Nat
           /\ ChunkLeases(routing[l], resident[l], shape.ub, c) = Cardinality(NeedOf(l, c - 1))
           /\ Foretold[<<l, c>>] = Cardinality(NeedOf(l, c - 1))
           /\ \E k \in 0 .. T - 1 : CallAt(k) = c - 1
<1> DEFINE u == shape.ub
           n == T \div u
           d == c - 1
           X == DistinctIn(routing[l], (c - 1) * u, c * u)
<1>1. /\ u \in Nat \ {0} /\ T \in Nat \ {0} /\ n \in Nat /\ u * n <= T
      /\ \A k \in 0 .. T - 1 : \A b \in Nat : CallAt(k) = b <=> u * b <= k /\ k < u * b + u
    BY PromptIs
<1>2. c \in Nat \ {0} /\ c <= n /\ d \in Nat
    BY <1>1 DEF WholeChunks
<1> HIDE DEF u, n
<1>3. (c - 1) * u = u * d /\ c * u = u * d + u /\ u * c = u * d + u /\ u * d \in Nat
    BY <1>1, <1>2
<1>4. u * d + u <= T
    <2>1. u * c <= u * n
        BY <1>1, <1>2, Monotone
    <2>2. u * c \in Int /\ u * n \in Int
        BY <1>1, <1>2
    <2> QED BY <1>1, <1>3, <2>1, <2>2
<1>5. X = UNION {ToSet(routing[l][i]) : i \in u * d + 1 .. u * d + u}
    BY <1>3 DEF DistinctIn
<1> DEFINE a == u * d
<1>6. a \in Nat /\ a + u <= T /\ X = UNION {ToSet(routing[l][i]) : i \in a + 1 .. a + u}
    BY <1>3, <1>4, <1>5
<1>7. \A k \in 0 .. T - 1 : CallAt(k) = d <=> a <= k /\ k < a + u
    BY <1>1, <1>2
<1> HIDE DEF a, d, X
<1>8. X \ resident[l] = NeedOf(l, d)
    <2>1. ASSUME NEW e, e \in X, e \notin resident[l] PROVE e \in NeedOf(l, d)
        <3>1. PICK i \in a + 1 .. a + u : e \in ToSet(routing[l][i])
            BY <1>6, <2>1
        <3>2. i - 1 \in 0 .. T - 1 /\ a <= i - 1 /\ i - 1 < a + u /\ (i - 1) + 1 = i
            BY <1>1, <1>6
        <3>3. CallAt(i - 1) = d
            BY <1>7, <3>2
        <3>4. e \in Wanted(l, i - 1)
            BY <2>1, <3>1, <3>2 DEF Wanted
        <3> QED BY <3>2, <3>3, <3>4 DEF NeedOf
    <2>2. ASSUME NEW e, e \in NeedOf(l, d) PROVE e \in X /\ e \notin resident[l]
        <3>1. PICK k \in 0 .. T - 1 : CallAt(k) = d /\ e \in Wanted(l, k)
            BY <2>2 DEF NeedOf
        <3>2. e \in ToSet(routing[l][k + 1]) /\ e \notin resident[l]
            BY <3>1 DEF Wanted
        <3>3. k + 1 \in a + 1 .. a + u
            BY <1>1, <1>6, <1>7, <3>1
        <3> QED BY <1>6, <3>2, <3>3
    <2> QED BY <2>1, <2>2
<1>9. Cardinality(NeedOf(l, d)) \in Nat
    BY WantedFinite DEF Prompted, Ended
<1>10. a \in 0 .. T - 1 /\ CallAt(a) = d
    BY <1>1, <1>6, <1>7
<1>11. Foretold[<<l, c>>] = Cardinality(NeedOf(l, c - 1))
    BY DEF Foretold
<1>12. ChunkLeases(routing[l], resident[l], u, c) = Cardinality(X \ resident[l])
    BY DEF ChunkLeases, X
<1> QED BY <1>8, <1>9, <1>10, <1>11, <1>12 DEF X, d, u

\* The foretold leases are numbers, and add up by layer or by chunk.
LEMMA ForetoldTyped ==
    ASSUME Prompted
    PROVE  /\ Foretold \in [Layers \X WholeChunks -> Nat]
           /\ IsFiniteSet(Layers) /\ IsFiniteSet(WholeChunks) /\ IsFiniteSet(Layers \X WholeChunks)
           /\ \A l \in Layers, c \in WholeChunks : Foretold[<<l, c>>] = Cardinality(NeedOf(l, c - 1))
<1>1. ASSUME NEW p \in Layers \X WholeChunks PROVE Cardinality(NeedOf(p[1], p[2] - 1)) \in Nat
    <2>1. p[1] \in Layers /\ p[2] \in WholeChunks
        OBVIOUS
    <2> QED BY <2>1, ChunkIsCall
<1>2. Foretold \in [Layers \X WholeChunks -> Nat]
    BY <1>1 DEF Foretold
<1>3. IsFiniteSet(Layers)
    BY LayersFinite
<1>4. IsFiniteSet(WholeChunks)
    <2>1. T \div shape.ub \in Nat
        BY PromptIs
    <2>2. T \div shape.ub \in Int /\ 1 \in Int
        BY <2>1
    <2> QED BY <2>2, FS_Interval DEF WholeChunks
<1> QED BY <1>2, <1>3, <1>4, FS_Product, ChunkIsCall

LEMMA ForetoldSums == Prompted => SumsOver(Foretold, Layers, WholeChunks)
<1> SUFFICES ASSUME Prompted PROVE SumsOver(Foretold, Layers, WholeChunks)
    OBVIOUS
<1>1. PICK f, S, R : f = Foretold /\ S = Layers /\ R = WholeChunks
    OBVIOUS
<1>2. f \in [S \X R -> Nat] /\ IsFiniteSet(S) /\ IsFiniteSet(R)
    BY <1>1, ForetoldTyped
<1>3. SumsOver(f, S, R)
    BY <1>2, TotalOverPairs
<1> QED BY <1>1, <1>3

\* Every row of the log has a place of its own.
Places == Layers \X (1 .. T)
PlaceOf(i) == <<file[i].layer, file[i].token + 1>>

LEMMA RowPlaces ==
    ASSUME Ended
    PROVE  \E h \in Bijection(1 .. Len(file), Places) :
              \A i \in 1 .. Len(file) : h[i] = PlaceOf(i) /\ h[i] \in Places
<1> DEFINE N == Len(file)
           h == [i \in 1 .. N |-> PlaceOf(i)]
<1>1. /\ N \in Nat /\ T \in Nat
      /\ \A i \in 1 .. N : file[i].layer \in Layers /\ file[i].token \in 0 .. T - 1
      /\ \A l \in Layers : \A k \in 0 .. T - 1 :
            \E i \in 1 .. N : file[i].layer = l /\ file[i].token = k
      /\ \A i, j \in 1 .. N :
            file[i].layer = file[j].layer => (i < j <=> file[i].token < file[j].token)
    BY DEF Ended, EveryRow
<1> HIDE DEF N
<1>8. h = [i \in 1 .. N |-> h[i]] /\ \A i \in 1 .. N : h[i] = PlaceOf(i)
    OBVIOUS
<1> HIDE DEF h
<1>2. \A i \in 1 .. N : h[i] = <<file[i].layer, file[i].token + 1>>
    BY <1>8 DEF PlaceOf
<1>3. ASSUME NEW i \in 1 .. N PROVE h[i] \in Places
    <2>1. PICK l \in Layers, k \in 0 .. T - 1 : l = file[i].layer /\ k = file[i].token
        BY <1>1
    <2>2. h[i] = <<l, k + 1>> /\ k + 1 \in 1 .. T
        BY <1>1, <1>2, <2>1
    <2> QED BY <2>2 DEF Places
<1>4. ASSUME NEW i \in 1 .. N, NEW j \in 1 .. N, h[i] = h[j] PROVE i = j
    <2>1. file[i].token \in Int /\ file[j].token \in Int
        BY <1>1
    <2>4. <<file[i].layer, file[i].token + 1>> = <<file[j].layer, file[j].token + 1>>
        BY <1>2, <1>4
    <2>2. file[i].layer = file[j].layer /\ file[i].token = file[j].token
        BY <2>1, <2>4
    <2>3. ~(i < j) /\ ~(j < i)
        BY <1>1, <2>1, <2>2
    <2>5. N \in Nat
        BY <1>1
    <2> QED BY <2>3, <2>5
<1>5. ASSUME NEW p \in Places PROVE \E i \in 1 .. N : h[i] = p
    <2>1. PICK l \in Layers, k \in 1 .. T : p = <<l, k>>
        BY DEF Places
    <2>2. k - 1 \in 0 .. T - 1 /\ (k - 1) + 1 = k
        BY <1>1
    <2>3. PICK i \in 1 .. N : file[i].layer = l /\ file[i].token = k - 1
        BY <1>1, <2>2
    <2> QED BY <1>2, <2>1, <2>2, <2>3
<1>6. h \in [1 .. N -> Places]
    BY <1>3, <1>8
<1>7. h \in Bijection(1 .. N, Places)
    BY <1>4, <1>5, <1>6 DEF Bijection, Injection, Surjection, IsInjective
<1> QED BY <1>3, <1>7, <1>8 DEF N

\* The loader takes the log of a run, and reads each layer's routing in it.
LEMMA LogLoads ==
    ASSUME Ended
    PROVE  Loads(file) /\ IdsOf(file) = routing
<1> DEFINE N == Len(file)
<1>1. /\ N \in Nat /\ DOMAIN file = 1 .. N /\ RouteOK /\ EveryRow /\ T \in Nat \ {0} /\ L \in Nat \ {0}
      /\ \A i \in 1 .. N : /\ file[i].layer \in Layers /\ file[i].token \in 0 .. T - 1
                           /\ file[i].ids = routing[file[i].layer][file[i].token + 1]
      /\ \A l \in Layers : \A k \in 0 .. T - 1 :
            \E i \in 1 .. N : file[i].layer = l /\ file[i].token = k
      /\ \A i, j \in 1 .. N :
            file[i].layer = file[j].layer => (i < j <=> file[i].token < file[j].token)
    BY DEF Ended, EveryRow
<1> HIDE DEF N
<1>3. N = L * T
    <2>1. IsFiniteSet(1 .. N) /\ Cardinality(1 .. N) = N
        BY <1>1, FS_Interval
    <2>2. IsFiniteSet(Layers) /\ Cardinality(Layers) = L
        <3>1. 0 \in Int /\ L - 1 \in Int
            BY <1>1
        <3> QED BY <1>1, <3>1, FS_Interval DEF Layers
    <2>3. IsFiniteSet(1 .. T) /\ Cardinality(1 .. T) = T
        <3>1. 1 \in Int /\ T \in Int
            BY <1>1
        <3> QED BY <1>1, <3>1, FS_Interval
    <2>4. Cardinality(Places) = L * T
        BY <2>2, <2>3, FS_Product DEF Places
    <2>6. PICK h \in Bijection(1 .. N, Places) : TRUE
        BY RowPlaces DEF N
    <2> QED BY <2>1, <2>4, <2>6, FS_Bijection DEF ExistsBijection
<1>4. ASSUME NEW i \in 1 .. N PROVE ToSet(file[i].ids) \subseteq Experts
    <2>1. ToSet(routing[file[i].layer][file[i].token + 1]) \in SUBSET Experts
        BY <1>1, WantedFinite
    <2> QED BY <1>1, <2>1
<1>5. ASSUME NEW l \in Layers PROVE InOrder(RowsOf(file, l), T)
    <2> DEFINE rows == RowsOf(file, l)
    <2>1. rows = [i \in 1 .. T |-> Row(l, i - 1)]
        BY <1>1, RowsInOrder
    <2> HIDE DEF rows
    <2>2. DOMAIN rows = 1 .. T /\ \A i \in 1 .. T : rows[i] = Row(l, i - 1)
        BY <2>1
    <2> DEFINE R == {rows[i] : i \in 1 .. T}
    <2>3. rows \in [1 .. T -> R]
        <3>1. rows = [i \in 1 .. T |-> rows[i]]
            BY <2>1
        <3> QED BY <3>1
    <2> HIDE DEF R
    <2>4. Len(rows) = T
        <3>1. PICK n \in Nat : n = T
            BY <1>1
        <3>2. rows \in Seq(R)
            BY <2>3, <3>1
        <3>3. Len(rows) \in Nat /\ DOMAIN rows = 1 .. Len(rows)
            BY <3>2
        <3> QED BY <2>2, <3>1, <3>3
    <2>5. \A i \in 1 .. T : rows[i].token = i - 1
        BY <2>2, RowFields
    <2> QED BY <2>4, <2>5 DEF InOrder, rows
<1>6. IdsOf(file) = routing
    BY <1>1, IdsAreRouting
<1>7. Loads(file)
    BY <1>1, <1>3, <1>4, <1>5 DEF Loads, N
<1> QED BY <1>6, <1>7

ForetoldOf(l) == RowOf(Foretold, WholeChunks, l)
ForetoldPeak == Most({Foretold[x] : x \in Layers \X WholeChunks})

\* What a layer's chunks lease.
LEMMA ChunksOfLayers ==
    ASSUME Prompted
    PROVE  [p \in Layers \X WholeChunks |-> ChunkLeases(routing[p[1]], resident[p[1]], shape.ub, p[2])]
             = Foretold
<1>1. ASSUME NEW p \in Layers \X WholeChunks
      PROVE  ChunkLeases(routing[p[1]], resident[p[1]], shape.ub, p[2]) = Foretold[p]
    <2>1. p[1] \in Layers /\ p[2] \in WholeChunks /\ p = <<p[1], p[2]>>
        OBVIOUS
    <2>2. ChunkLeases(routing[p[1]], resident[p[1]], shape.ub, p[2]) = Foretold[<<p[1], p[2]>>]
        BY <2>1, ChunkIsCall
    <2> QED BY <2>1, <2>2
<1>2. Foretold = [p \in Layers \X WholeChunks |-> Foretold[p]]
    BY DEF Foretold
<1> QED BY <1>1, <1>2

\* predict_leases.py.
LEMMA PredictLeasesIs ==
    ASSUME Prompted, NEW p, p = PredictLeases(file, resident, K, shape.ub)
    PROVE  p.events = Total(Foretold) /\ p.peak = ForetoldPeak /\ (p.matches_rule <=> p.peak = E - K)
<1> DEFINE log == IdsOf(file)
           leases == [x \in Layers \X (1 .. T \div shape.ub) |->
                         ChunkLeases(log[x[1]], resident[x[1]], shape.ub, x[2])]
           high == Max({0} \cup {leases[x] : x \in DOMAIN leases})
<1>1. Loads(file) /\ log = routing
    BY LogLoads DEF Prompted
<1>2. p = [ok |-> TRUE, events |-> Total(leases), peak |-> high, matches_rule |-> high = E - K]
    BY <1>1 DEF PredictLeases
<1> HIDE DEF log
<1>3. leases = Foretold
    BY <1>1, ChunksOfLayers DEF WholeChunks
<1> HIDE DEF leases
<1>4. DOMAIN Foretold = Layers \X WholeChunks
    BY DEF Foretold
<1>5. high = ForetoldPeak
    BY <1>3, <1>4 DEF ForetoldPeak, Most
<1> HIDE DEF high
<1>6. p.events = Total(leases) /\ p.peak = high
    BY <1>2
<1>7. p.matches_rule = (high = E - K)
    BY <1>2
<1> QED BY <1>3, <1>5, <1>6, <1>7

\* predict_120b.py: layer by layer.
LEMMA Predict120Is ==
    ASSUME Prompted, NEW q, q = Predict120(file, resident, K, shape.ub)
    PROVE  /\ q.per_layer = [l \in Layers |-> Total(ForetoldOf(l))]
           /\ q.events = Total(Foretold) /\ q.peak = ForetoldPeak
<1> DEFINE log == IdsOf(file)
           Of(l) == [c \in WholeChunks |-> ChunkLeases(log[l], resident[l], shape.ub, c)]
           layer == [l \in Layers |-> Total(Of(l))]
           high == Max({0} \cup UNION {{Of(l)[c] : c \in WholeChunks} : l \in Layers})
<1>1. Loads(file) /\ log = routing
    BY LogLoads DEF Prompted
<1>2. q = [ok |-> TRUE, per_layer |-> layer, events |-> Total(layer), peak |-> high, acct |-> K * L + high]
    BY <1>1 DEF Predict120, WholeChunks
<1>3. ASSUME NEW l \in Layers PROVE Of(l) = ForetoldOf(l)
    <2> HIDE DEF log
    <2>1. \A c \in WholeChunks : ChunkLeases(routing[l], resident[l], shape.ub, c) = Foretold[<<l, c>>]
        BY ChunkIsCall
    <2> QED BY <1>1, <2>1 DEF ForetoldOf, RowOf
<1> HIDE DEF log, Of
<1>4. layer = [l \in Layers |-> Total(ForetoldOf(l))]
    BY <1>3
<1>5. Total(layer) = Total(Foretold)
    <2>1. Total(Foretold) = Total(RowTotals(Foretold, Layers, WholeChunks))
        BY ForetoldSums DEF SumsOver
    <2> QED BY <1>4, <2>1 DEF ForetoldOf, RowTotals
<1>6. UNION {{Of(l)[c] : c \in WholeChunks} : l \in Layers} = {Foretold[x] : x \in Layers \X WholeChunks}
    <2>1. \A l \in Layers, c \in WholeChunks : Of(l)[c] = Foretold[<<l, c>>]
        BY <1>3 DEF ForetoldOf, RowOf
    <2>2. \A x \in Layers \X WholeChunks : x = <<x[1], x[2]>> /\ x[1] \in Layers /\ x[2] \in WholeChunks
        OBVIOUS
    <2>3. \A l \in Layers, c \in WholeChunks : <<l, c>> \in Layers \X WholeChunks
        OBVIOUS
    <2>5. ASSUME NEW y, y \in UNION {{Of(l)[c] : c \in WholeChunks} : l \in Layers}
          PROVE  y \in {Foretold[x] : x \in Layers \X WholeChunks}
        <3>3. PICK l \in Layers : y \in {Of(l)[c] : c \in WholeChunks}
            BY <2>5
        <3>1. PICK c \in WholeChunks : y = Of(l)[c]
            BY <3>3
        <3>2. y = Foretold[<<l, c>>]
            BY <2>1, <3>1
        <3> QED BY <2>3, <3>2
    <2>6. ASSUME NEW x \in Layers \X WholeChunks
          PROVE  Foretold[x] \in UNION {{Of(l)[c] : c \in WholeChunks} : l \in Layers}
        <3>1. x = <<x[1], x[2]>> /\ x[1] \in Layers /\ x[2] \in WholeChunks
            BY <2>2
        <3>2. Foretold[x] = Of(x[1])[x[2]]
            BY <2>1, <3>1
        <3> DEFINE X == {Of(x[1])[c] : c \in WholeChunks}
        <3>3. Foretold[x] \in X
            BY <3>1, <3>2
        <3>4. X \in {{Of(l)[c] : c \in WholeChunks} : l \in Layers}
            BY <3>1, Zenon
        <3> HIDE DEF X
        <3> QED BY <3>3, <3>4, Zenon
    <2> DEFINE X == UNION {{Of(l)[c] : c \in WholeChunks} : l \in Layers}
               Y == {Foretold[x] : x \in Layers \X WholeChunks}
    <2>8. ASSUME NEW y, y \in Y PROVE y \in X
        <3>1. PICK x \in Layers \X WholeChunks : y = Foretold[x]
            BY <2>8, Zenon
        <3> QED BY <2>6, <3>1, Zenon
    <2>9. ASSUME NEW y, y \in X PROVE y \in Y
        BY <2>5, <2>9, Zenon
    <2> HIDE DEF X, Y
    <2>10. X = Y
        BY <2>8, <2>9
    <2> QED BY <2>10 DEF X, Y
<1>7. high = ForetoldPeak
    BY <1>6 DEF ForetoldPeak, Most
<1> HIDE DEF layer, high
<1> QED BY <1>2, <1>4, <1>5, <1>7

\* gate0_window.py: window by window.
LEMMA Gate0WindowIs ==
    ASSUME Prompted, NEW w, w = Gate0Window(file, resident, shape.ub)
    PROVE  /\ w.nonresident = ColumnTotals(Foretold, Layers, WholeChunks)
           /\ Total(w.nonresident) = Total(Foretold)
<1> DEFINE at == [p \in Layers \X Windowed(shape.ub) |->
                     DistinctIn(IdsOf(file)[p[1]], (p[2] - 1) * shape.ub, p[2] * shape.ub)]
<1>1. Loads(file) /\ IdsOf(file) = routing
    BY LogLoads DEF Prompted
<1>2. \A l \in Layers : InOrder(RowsOf(file, l), T)
    BY <1>1 DEF Loads
<1>3. \A r \in ToSet(file) : ToSet(r.ids) \subseteq Experts
    BY <1>1 DEF Loads, ToSet
<1>4. w = [ok |-> TRUE, nonresident |-> [c \in Windowed(shape.ub) |->
                            OverLayers(LAMBDA l : Cardinality(at[<<l, c>>] \ resident[l]))]]
    BY <1>2, <1>3 DEF Gate0Window
<1>5. Windowed(shape.ub) = WholeChunks
    BY DEF Windowed, WholeChunks
<1>6. ASSUME NEW l \in Layers, NEW c \in WholeChunks
      PROVE  Cardinality(at[<<l, c>>] \ resident[l]) = Foretold[<<l, c>>]
    <2>1. at[<<l, c>>] = DistinctIn(routing[l], (c - 1) * shape.ub, c * shape.ub)
        BY <1>1, <1>5
    <2> HIDE DEF at
    <2> QED BY <2>1, ChunkIsCall
<1> HIDE DEF at
<1>7. ASSUME NEW c \in WholeChunks
      PROVE  OverLayers(LAMBDA l : Cardinality(at[<<l, c>>] \ resident[l])) = Total(ColumnOf(Foretold, Layers, c))
    <2>1. [l \in Layers |-> Cardinality(at[<<l, c>>] \ resident[l])] = ColumnOf(Foretold, Layers, c)
        BY <1>6 DEF ColumnOf
    <2> QED BY <2>1 DEF OverLayers
<1>8. w.nonresident = ColumnTotals(Foretold, Layers, WholeChunks)
    <2> DEFINE u == [c \in Windowed(shape.ub) |->
                        OverLayers(LAMBDA l : Cardinality(at[<<l, c>>] \ resident[l]))]
    <2>1. u = ColumnTotals(Foretold, Layers, WholeChunks)
        BY <1>5, <1>7 DEF ColumnTotals
    <2>2. w = [ok |-> TRUE, nonresident |-> u]
        BY <1>4
    <2> HIDE DEF u
    <2>3. w.nonresident = u
        BY <2>2
    <2> QED BY <2>1, <2>3
<1>9. Total(Foretold) = Total(ColumnTotals(Foretold, Layers, WholeChunks))
    BY ForetoldSums DEF SumsOver
<1> QED BY <1>8, <1>9

\* When the chunk divides the log, every call is a whole chunk.
LEMMA CallIsChunk ==
    ASSUME Prompted, T % shape.ub = 0, NEW k \in 0 .. T - 1
    PROVE  CallAt(k) + 1 \in WholeChunks /\ CallAt(k) \in Nat
<1> DEFINE n == T \div shape.ub
<1>1. PICK u \in Nat \ {0} : u = shape.ub
    BY PromptIs
<1>2. /\ T \in Nat /\ n \in Nat /\ u * n = T
      /\ CallAt(k) \in Nat /\ \A c \in Nat : CallAt(k) = c <=> u * c <= k /\ k < u * c + u
    BY <1>1, PromptIs
<1> HIDE DEF n
<1>3. PICK c \in Nat : c = CallAt(k)
    BY <1>2
<1>4. u * c <= k /\ k < T
    BY <1>2, <1>3
<1>5. ~(n <= c)
    <2>1. ASSUME n <= c PROVE FALSE
        <3>1. u * n <= u * c /\ u * n \in Int /\ u * c \in Int
            BY <1>2, <2>1, Monotone
        <3> QED BY <1>2, <1>4, <3>1
    <2> QED BY <2>1
<1>6. c + 1 \in 1 .. n
    BY <1>2, <1>5
<1> QED BY <1>3, <1>6 DEF WholeChunks, n

\* A layer leases what is foretold of its whole chunks, and of a last part of one.
LEMMA EventsOfLayer ==
    ASSUME Prompted, NEW l \in Layers
    PROVE  /\ Total(ForetoldOf(l)) \in Nat /\ Total(ForetoldOf(l)) <= lease_events[l]
           /\ T % shape.ub = 0 => Total(ForetoldOf(l)) = lease_events[l]
<1> DEFINE C == WholeChunks
           D == [c \in C |-> NeedOf(l, c - 1)]
           P == Pairs(C, D)
           A == {q \in LeasedIn(l) : q[1] + 1 \in C}
           m == [q \in P |-> <<q[1] - 1, q[2]>>]
<1>1. /\ RouteOK /\ Through(l) = T /\ T \in Nat /\ lease_events[l] = Cardinality(LeasedIn(l))
    BY DEF Prompted, Ended, LeasesCounted
<1>2. IsFiniteSet(C) /\ \A c \in C : c \in Nat \ {0}
    <2>1. \A c \in 1 .. T \div shape.ub : c \in Nat \ {0}
        <3>1. PICK n \in Nat : n = T \div shape.ub
            BY PromptIs
        <3> QED BY <3>1
    <2> QED BY <2>1, ForetoldTyped DEF WholeChunks
<1>3. \A c : NeedOf(l, c) \in SUBSET Experts /\ IsFiniteSet(NeedOf(l, c))
    BY <1>1, WantedFinite
<1>4. \A c \in C : D[c] = NeedOf(l, c - 1) /\ IsFiniteSet(D[c])
    BY <1>3
<1>5. ForetoldOf(l) = [c \in C |-> Cardinality(D[c])]
    BY ForetoldTyped DEF ForetoldOf, RowOf
<1>6. \A q \in P : m[q] = <<q[1] - 1, q[2]>>
    OBVIOUS
<1>7. m = [q \in P |-> m[q]]
    OBVIOUS
<1>8. \A q : q \in A <=> q \in LeasedIn(l) /\ q[1] + 1 \in C
    OBVIOUS
<1> HIDE DEF C, D, A, m
<1>9. /\ IsFiniteSet(P) /\ Total([c \in C |-> Cardinality(D[c])]) = Cardinality(P)
      /\ \A q : q \in P <=> q = <<q[1], q[2]>> /\ q[1] \in C /\ q[2] \in D[q[1]]
    BY <1>2, <1>4, PairsSize
<1> HIDE DEF P
<1>10. IsFiniteSet(LeasedIn(l)) /\ Cardinality(LeasedIn(l)) \in Nat
    BY <1>1, LeasedFinite
<1>11. \A q : q \in LeasedIn(l) <=> q \in Nat \X Experts /\ q[2] \in NeedOf(l, q[1])
    <2> TAKE q
    <2>1. q[2] \in NeedOf(l, q[1]) <=> \E k \in 0 .. T - 1 : CallAt(k) = q[1] /\ q[2] \in Wanted(l, k)
        BY DEF NeedOf
    <2>2. q \in LeasedIn(l) <=> /\ q \in Nat \X Experts
                                /\ \E k \in 0 .. T - 1 : CallAt(k) = q[1] /\ q[2] \in Wanted(l, k)
        BY <1>1 DEF LeasedIn
    <2> QED BY <2>1, <2>2
<1>12. m \in Bijection(P, A)
    <2>1. \A q \in P : m[q] \in A
        <3> TAKE q \in P
        <3>1. q[1] \in C /\ q[2] \in D[q[1]]
            BY <1>9
        <3>2. PICK c \in Nat \ {0} : c = q[1]
            BY <1>2, <3>1
        <3>3. PICK e : e = q[2]
            OBVIOUS
        <3>4. e \in NeedOf(l, c - 1) /\ e \in Experts
            BY <1>3, <1>4, <3>1, <3>2, <3>3
        <3>5. m[q] = <<c - 1, e>> /\ c - 1 \in Nat /\ (c - 1) + 1 = c
            BY <1>6, <3>2, <3>3
        <3> QED BY <1>8, <1>11, <3>1, <3>2, <3>3, <3>4, <3>5
    <2>2. ASSUME NEW p \in P, NEW q \in P, m[p] = m[q] PROVE p = q
        <3>1. p = <<p[1], p[2]>> /\ q = <<q[1], q[2]>> /\ p[1] \in Nat /\ q[1] \in Nat
            BY <1>2, <1>9
        <3>2. p[1] - 1 = q[1] - 1 /\ p[2] = q[2]
            BY <1>6, <2>2
        <3> QED BY <3>1, <3>2
    <2>3. ASSUME NEW r \in A PROVE \E q \in P : m[q] = r
        <3>1. r \in Nat \X Experts /\ r[2] \in NeedOf(l, r[1]) /\ r[1] + 1 \in C
            BY <1>8, <1>11
        <3>2. PICK c \in Nat, e \in Experts : r = <<c, e>>
            BY <3>1
        <3>3. c + 1 \in C /\ (c + 1) - 1 = c /\ e \in NeedOf(l, c)
            BY <3>1, <3>2
        <3> DEFINE q == <<c + 1, e>>
        <3>4. q \in P
            BY <1>4, <1>9, <3>3
        <3>5. m[q] = r
            BY <1>6, <3>2, <3>3, <3>4
        <3> QED BY <3>4, <3>5
    <2>4. m \in [P -> A]
        BY <1>7, <2>1
    <2> QED BY <2>2, <2>3, <2>4 DEF Bijection, Injection, Surjection, IsInjective
<1>13. A \in SUBSET LeasedIn(l)
    BY <1>8
<1>14. IsFiniteSet(A) /\ Cardinality(A) <= Cardinality(LeasedIn(l)) /\ Cardinality(A) \in Nat
    BY <1>10, <1>13, FS_Subset, FS_CardinalityType
<1>15. Cardinality(P) = Cardinality(A)
    BY <1>9, <1>12, <1>14, FS_Bijection DEF ExistsBijection
<1>16. T % shape.ub = 0 => A = LeasedIn(l)
    <2>1. ASSUME T % shape.ub = 0, NEW q \in LeasedIn(l) PROVE q \in A
        <3>1. PICK k \in 0 .. T - 1 : CallAt(k) = q[1]
            BY <1>1 DEF LeasedIn
        <3>2. CallAt(k) + 1 \in C
            BY <2>1, CallIsChunk DEF C
        <3> QED BY <1>8, <3>1, <3>2
    <2> QED BY <1>13, <2>1
<1> QED BY <1>1, <1>5, <1>9, <1>14, <1>15, <1>16

\* The largest call is the largest whole chunk.
LEMMA PeakForetold ==
    ASSUME Prompted, T % shape.ub = 0
    PROVE  ForetoldPeak = peak_leased
<1> DEFINE S == {Foretold[x] : x \in Layers \X WholeChunks}
<1>1. PeakIs(peak_leased, NeedsFrom(0)) /\ \A l \in Layers : Through(l) = T
    BY DEF Prompted, Ended, LeasesCounted
<1>2. T \in Nat
    BY PromptIs
<1>3. ASSUME NEW y, y \in S PROVE y \in NeedsFrom(0)
    <2>1. PICK x \in Layers \X WholeChunks : y = Foretold[x]
        BY <1>3
    <2>2. PICK l \in Layers, c \in WholeChunks : x = <<l, c>>
        BY <2>1
    <2>3. y = Cardinality(NeedOf(l, c - 1)) /\ \E k \in 0 .. T - 1 : CallAt(k) = c - 1
        BY <2>1, <2>2, ChunkIsCall
    <2>4. PICK k \in 0 .. T - 1 : CallAt(k) = c - 1
        BY <2>3
    <2>5. 0 <= k /\ k < Through(l) /\ y = Cardinality(NeedOf(l, CallAt(k)))
        BY <1>1, <1>2, <2>3, <2>4
    <2> QED BY <2>5, NeedsAre DEF NeedsAll
<1>4. ASSUME NEW y, y \in NeedsFrom(0) PROVE y \in S
    <2>1. PICK l \in Layers, k \in 0 .. T - 1 : y = Cardinality(NeedOf(l, CallAt(k)))
        BY <1>4, NeedsAre DEF NeedsAll
    <2>2. CallAt(k) + 1 \in WholeChunks /\ (CallAt(k) + 1) - 1 = CallAt(k)
        BY CallIsChunk
    <2>3. PICK c \in WholeChunks : c = CallAt(k) + 1
        BY <2>2
    <2>4. Foretold[<<l, c>>] = Cardinality(NeedOf(l, c - 1)) /\ c - 1 = CallAt(k)
        BY <2>2, <2>3, ForetoldTyped
    <2>5. <<l, c>> \in Layers \X WholeChunks
        OBVIOUS
    <2> QED BY <2>1, <2>4, <2>5
<1>5. S = NeedsFrom(0)
    BY <1>3, <1>4
<1> HIDE DEF S
<1>6. Most(S) = peak_leased
    BY <1>1, <1>5, MostIsPeak
<1> QED BY <1>6 DEF ForetoldPeak, S

\* What every row of the log misses.
WantedAt == [p \in Places |-> Cardinality(Wanted(p[1], p[2] - 1))]

LEMMA WantedTyped ==
    ASSUME Ended
    PROVE  /\ IsFiniteSet(Places) /\ IsFiniteSet(1 .. T)
           /\ WantedAt \in [Places -> Nat]
           /\ \A l \in Layers, k \in 1 .. T :
                 /\ <<l, k>> \in Places /\ WantedAt[<<l, k>>] = Cardinality(Wanted(l, k - 1))
                 /\ Wanted(l, k - 1) = ToSet(routing[l][k]) \ resident[l]
                 /\ routing[l][k] \in [1 .. Picks -> Experts]
<1>1. T \in Nat /\ RouteOK
    BY DEF Ended
<1>2. IsFiniteSet(1 .. T)
    <2>1. 1 \in Int /\ T \in Int
        BY <1>1
    <2> QED BY <2>1, FS_Interval
<1>3. IsFiniteSet(Places)
    BY <1>2, LayersFinite, FS_Product DEF Places
<1>4. ASSUME NEW l \in Layers, NEW k \in 1 .. T
      PROVE  /\ k - 1 \in 0 .. T - 1 /\ (k - 1) + 1 = k
             /\ Cardinality(Wanted(l, k - 1)) \in Nat
             /\ Wanted(l, k - 1) = ToSet(routing[l][k]) \ resident[l]
             /\ routing[l][k] \in [1 .. Picks -> Experts]
    <2>1. k - 1 \in 0 .. T - 1 /\ (k - 1) + 1 = k
        BY <1>1
    <2>2. Cardinality(Wanted(l, k - 1)) \in Nat
        BY <1>1, <2>1, WantedFinite
    <2>3. Wanted(l, k - 1) = ToSet(routing[l][k]) \ resident[l]
        BY <2>1 DEF Wanted
    <2>4. routing[l][k] \in [1 .. Picks -> Experts]
        BY <1>1 DEF RouteOK
    <2> QED BY <2>1, <2>2, <2>3, <2>4
<1>5. \A l \in Layers, k \in 1 .. T : <<l, k>> \in Places
    BY DEF Places
<1>6. \A p \in Places : p = <<p[1], p[2]>> /\ p[1] \in Layers /\ p[2] \in 1 .. T
    BY DEF Places
<1>7. \A p \in Places : WantedAt[p] = Cardinality(Wanted(p[1], p[2] - 1))
    BY DEF WantedAt
<1>8. \A p \in Places : WantedAt[p] \in Nat
    BY <1>4, <1>6, <1>7
<1>9. WantedAt = [p \in Places |-> WantedAt[p]]
    BY DEF WantedAt
<1>10. WantedAt \in [Places -> Nat]
    BY <1>8, <1>9
<1>11. \A l \in Layers, k \in 1 .. T : WantedAt[<<l, k>>] = Cardinality(Wanted(l, k - 1))
    BY <1>5, <1>7
<1> QED BY <1>2, <1>3, <1>4, <1>5, <1>10, <1>11

\* A layer's picks outside its set.
LEMMA LayerMisses ==
    ASSUME Ended, NEW l \in Layers
    PROVE  /\ Outside(routing[l], resident[l]) = Total(RowOf(WantedAt, 1 .. T, l))
           /\ Outside(routing[l], {}) = T * Picks
<1>1. T \in Nat /\ RouteOK
    BY DEF Ended
<1>9. PICK n \in Nat : n = T
    BY <1>1
<1>8. PICK s \in [1 .. n -> [1 .. Picks -> Experts]] : s = routing[l]
    BY <1>1, <1>9 DEF RouteOK
<1>2. n = T /\ s = routing[l]
    BY <1>8, <1>9
<1>3. \A i \in 1 .. n : \A a, b \in 1 .. Picks : s[i][a] = s[i][b] => a = b
    BY <1>1, <1>2 DEF RouteOK
<1>4. Outside(s, resident[l]) = Total([i \in 1 .. n |-> Cardinality(ToSet(s[i]) \ resident[l])])
    BY <1>3, OutsideAddsUp
<1>5. \A k \in 1 .. T : WantedAt[<<l, k>>] = Cardinality(ToSet(routing[l][k]) \ resident[l])
    BY WantedTyped
<1>6. RowOf(WantedAt, 1 .. T, l) = [i \in 1 .. n |-> Cardinality(ToSet(s[i]) \ resident[l])]
    BY <1>2, <1>5 DEF RowOf
<1>7. Outside(s, {}) = n * Picks
    <2>1. Len(s) = n
        <3>1. s \in Seq([1 .. Picks -> Experts])
            OBVIOUS
        <3> QED BY <3>1
    <2>2. {p \in (DOMAIN s) \X (1 .. Picks) : s[p[1]][p[2]] \in {}} = {}
        OBVIOUS
    <2>3. PicksIn(s, {}) = 0
        BY <2>2, FS_EmptySet DEF PicksIn
    <2>4. Picks \in Nat
        BY PolicyAssumption
    <2> QED BY <2>1, <2>3, <2>4 DEF Outside
<1> QED BY <1>2, <1>4, <1>6, <1>7

\* All the misses, layer by layer.
LEMMA WantedByLayer ==
    ASSUME Ended
    PROVE  Total(WantedAt) = Total(RowTotals(WantedAt, Layers, 1 .. T))
<1>1. PICK S, R, w : S = Layers /\ R = 1 .. T /\ w = WantedAt
    OBVIOUS
<1>2. IsFiniteSet(S) /\ IsFiniteSet(R) /\ w \in [S \X R -> Nat]
    BY <1>1, WantedTyped, LayersFinite DEF Places
<1>3. SumsOver(w, S, R)
    BY <1>2, TotalOverPairs
<1>4. Total(w) = Total(RowTotals(w, S, R))
    BY <1>3 DEF SumsOver
<1> QED BY <1>1, <1>4

\* sim_miss.py, with the sets of the run.
LEMMA SimMissIs ==
    ASSUME Ended, NEW m, m = SimMiss(file, resident, Cardinality(resident[0]))
    PROVE  m.misses = Total(WantedAt)
<1> DEFINE f == [l \in Layers |-> Outside(routing[l], resident[l])]
           n == Cardinality(resident[0])
           k == IF n = 0 THEN L * T * Picks ELSE Total(f)
<1>1. Loads(file) /\ IdsOf(file) = routing /\ RouteOK /\ T \in Nat /\ L \in Nat \ {0}
    BY LogLoads DEF Ended
<1>2. m = [ok |-> TRUE, misses |-> k]
    BY <1>1 DEF SimMiss, OverLayers
<1>3. m.misses = k
    <2> HIDE DEF k
    <2> QED BY <1>2
<1>4. Total(WantedAt) = Total(RowTotals(WantedAt, Layers, 1 .. T))
    BY WantedByLayer
<1>5. RowTotals(WantedAt, Layers, 1 .. T) = f
    BY LayerMisses DEF RowTotals
<1>6. Total(f) = Total(WantedAt)
    BY <1>4, <1>5
<1>7. ASSUME n = 0 PROVE Total(f) = L * T * Picks
    <2>1. \A l \in Layers : resident[l] \in SUBSET Experts /\ Cardinality(resident[l]) = 0
        BY <1>1, <1>7 DEF RouteOK, EvenSets
    <2>2. \A l \in Layers : resident[l] = {}
        BY <2>1, ExpertSetsFinite, FS_EmptySet
    <2>3. f = [l \in Layers |-> T * Picks]
        BY <2>2, LayerMisses
    <2>4. PICK p \in Nat : p = T * Picks
        BY <1>1, PolicyAssumption
    <2>5. Cardinality(Layers) = L
        <3>1. 0 \in Int /\ L - 1 \in Int
            BY <1>1
        <3> QED BY <1>1, <3>1, FS_Interval DEF Layers
    <2>6. Total([l \in Layers |-> p]) = p * Cardinality(Layers)
        BY LayersFinite, TotalOfSame
    <2>7. Total(f) = p * L
        BY <2>3, <2>4, <2>5, <2>6
    <2>8. p * L = L * T * Picks
        BY <1>1, <2>4, PolicyAssumption
    <2> QED BY <2>7, <2>8
<1> QED BY <1>3, <1>6, <1>7

\* Every picks of a layer is of an expert, and only one.
LEMMA RowsAreFull ==
    ASSUME Ended
    PROVE  FullRows(Histogram(file))
<1>1. IdsOf(file) = routing /\ RouteOK /\ T \in Nat
    BY LogLoads DEF Ended
<1>2. ASSUME NEW l \in Layers PROVE Total(CountsOf(routing[l])) = T * Picks
    <2> DEFINE s == routing[l]
               Z == (1 .. T) \X (1 .. Picks)
               D == [e \in Experts |-> {p \in Z : s[p[1]][p[2]] = e}]
               P == Pairs(Experts, D)
               m == [z \in Z |-> <<s[z[1]][z[2]], z>>]
    <2>1. Picks \in Nat
        BY PolicyAssumption
    <2>2. IsFiniteSet(Z) /\ Cardinality(Z) = T * Picks
        <3>1. IsFiniteSet(1 .. T) /\ Cardinality(1 .. T) = T
            <4>1. 1 \in Int /\ T \in Int
                BY <1>1
            <4> QED BY <1>1, <4>1, FS_Interval
        <3>2. IsFiniteSet(1 .. Picks) /\ Cardinality(1 .. Picks) = Picks
            <4>1. 1 \in Int /\ Picks \in Int
                BY <2>1
            <4> QED BY <2>1, <4>1, FS_Interval
        <3>3. PICK A, B : A = 1 .. T /\ B = 1 .. Picks
            OBVIOUS
        <3>4. IsFiniteSet(A \X B) /\ Cardinality(A \X B) = Cardinality(A) * Cardinality(B)
            BY <3>1, <3>2, <3>3, FS_Product
        <3> QED BY <3>1, <3>2, <3>3, <3>4
    <2>3. s \in [1 .. T -> [1 .. Picks -> Experts]]
        BY <1>1 DEF RouteOK
    <2>4. \A z \in Z : s[z[1]][z[2]] \in Experts /\ m[z] = <<s[z[1]][z[2]], z>>
        BY <2>3
    <2>5. m = [z \in Z |-> m[z]]
        OBVIOUS
    <2>6. \A e \in Experts : D[e] = {p \in Z : s[p[1]][p[2]] = e}
        OBVIOUS
    <2>7. CountsOf(s) = [e \in Experts |-> Cardinality(D[e])]
        <3>1. ASSUME NEW e \in Experts PROVE PicksIn(s, {e}) = Cardinality(D[e])
            <4>1. {p \in (DOMAIN s) \X (1 .. Picks) : s[p[1]][p[2]] \in {e}} = D[e]
                BY <2>3
            <4> QED BY <4>1 DEF PicksIn
        <3> HIDE DEF D
        <3> QED BY <3>1 DEF CountsOf
    <2> HIDE DEF Z, D, m, s
    <2>8. \A e \in Experts : IsFiniteSet(D[e])
        BY <2>2, <2>6, FS_Subset
    <2>9. /\ IsFiniteSet(P) /\ Total([e \in Experts |-> Cardinality(D[e])]) = Cardinality(P)
          /\ \A q : q \in P <=> q = <<q[1], q[2]>> /\ q[1] \in Experts /\ q[2] \in D[q[1]]
        BY <2>8, ExpertSetsFinite, PairsSize
    <2> HIDE DEF P
    <2>10. m \in Bijection(Z, P)
        <3>1. \A z \in Z : m[z] \in P
            BY <2>4, <2>6, <2>9
        <3>2. \A y, z \in Z : m[y] = m[z] => y = z
            BY <2>4
        <3>3. ASSUME NEW q \in P PROVE \E z \in Z : m[z] = q
            <4>1. q = <<q[1], q[2]>> /\ q[1] \in Experts /\ q[2] \in D[q[1]]
                BY <2>9
            <4>2. q[2] \in Z /\ s[q[2][1]][q[2][2]] = q[1]
                BY <2>6, <4>1
            <4> QED BY <2>4, <4>1, <4>2
        <3>4. m \in [Z -> P]
            BY <2>5, <3>1
        <3> QED BY <3>2, <3>3, <3>4 DEF Bijection, Injection, Surjection, IsInjective
    <2>11. Cardinality(Z) = Cardinality(P)
        BY <2>2, <2>9, <2>10, FS_Bijection DEF ExistsBijection
    <2> QED BY <2>2, <2>7, <2>9, <2>11 DEF s
<1>3. \A l \in Layers : Histogram(file)[l] = CountsOf(routing[l])
    BY <1>1 DEF Histogram
<1> QED BY <1>2, <1>3 DEF FullRows

\* What the rows miss.
RowsMiss == [i \in 1 .. Len(file) |-> Cardinality(NonRes(file[i], resident))]

LEMMA RowsMissAll ==
    ASSUME Ended
    PROVE  /\ IsFiniteSet(1 .. Len(file)) /\ RowsMiss \in [1 .. Len(file) -> Nat]
           /\ Total(RowsMiss) = Total(WantedAt)
<1>1. PICK N \in Nat : N = Len(file)
    BY DEF Ended, EveryRow
<1>2. \A i \in 1 .. N : /\ file[i].layer \in Layers /\ file[i].token \in 0 .. T - 1
                        /\ NonRes(file[i], resident) = Wanted(file[i].layer, file[i].token)
    BY <1>1, RowMisses DEF Ended, EveryRow
<1>3. IsFiniteSet(1 .. N)
    <2>1. 1 \in Int /\ N \in Int
        OBVIOUS
    <2> QED BY <2>1, FS_Interval
<1>5. PICK h \in Bijection(1 .. N, Places) : \A i \in 1 .. N : h[i] = PlaceOf(i) /\ h[i] \in Places
    BY <1>1, RowPlaces
<1>6. /\ IsFiniteSet(Places) /\ WantedAt \in [Places -> Nat]
      /\ \A l \in Layers, k \in 1 .. T : WantedAt[<<l, k>>] = Cardinality(Wanted(l, k - 1))
    BY WantedTyped
<1>7. ASSUME NEW i \in 1 .. N PROVE RowsMiss[i] = WantedAt[h[i]]
    <2>1. PICK l \in Layers, k \in 0 .. T - 1 : l = file[i].layer /\ k = file[i].token
        BY <1>2
    <2>2. k + 1 \in 1 .. T /\ (k + 1) - 1 = k
        BY DEF Ended
    <2>3. h[i] = <<l, k + 1>>
        BY <1>5, <2>1 DEF PlaceOf
    <2>4. RowsMiss[i] = Cardinality(Wanted(l, k))
        BY <1>1, <1>2, <2>1 DEF RowsMiss
    <2>5. WantedAt[<<l, k + 1>>] = Cardinality(Wanted(l, (k + 1) - 1))
        BY <1>6, <2>2
    <2> QED BY <2>2, <2>3, <2>4, <2>5
<1>8. RowsMiss \in [1 .. N -> Nat]
    <2>1. RowsMiss = [i \in 1 .. N |-> RowsMiss[i]]
        BY <1>1 DEF RowsMiss
    <2>2. \A i \in 1 .. N : RowsMiss[i] \in Nat
        BY <1>5, <1>6, <1>7
    <2> QED BY <2>1, <2>2
<1>9. Total(RowsMiss) = Total(WantedAt)
    BY <1>3, <1>5, <1>6, <1>7, <1>8, Reindexed
<1> QED BY <1>1, <1>3, <1>8, <1>9

\* gate2_window_mass.py, whatever the window: what its windows do not hit.
MassMissed(wm) == [w \in DOMAIN wm |-> wm[w].dec - wm[w].hits]

\* The windows' decisions less their hits are all the misses.
LEMMA MassIs ==
    ASSUME Ended, NEW u, u = shape.ub
    PROVE  Total(MassMissed(WindowMass(file, resident, u))) = Total(WantedAt)
<1> DEFINE wm == WindowMass(file, resident, u)
           W == {r.token \div u : r \in ToSet(file)}
           I == 1 .. Len(file)
           h == [i \in I |-> file[i].token \div u]
           rows(w) == {i \in I : h[i] = w}
           hit(w) == [i \in rows(w) |-> Cardinality(ToSet(file[i].ids) \cap resident[file[i].layer])]
           dec(w) == [i \in rows(w) |-> Cardinality(ToSet(file[i].ids))]
           part(w) == PartAt(RowsMiss, I, h, w)
<1>1. /\ DOMAIN file = I /\ RouteOK /\ T \in Nat
      /\ \A i \in I : /\ file[i].layer \in Layers /\ file[i].token \in 0 .. T - 1
                      /\ file[i].ids = routing[file[i].layer][file[i].token + 1]
    BY DEF Ended, EveryRow
<1>2. IsFiniteSet(I) /\ RowsMiss \in [I -> Nat] /\ Total(RowsMiss) = Total(WantedAt)
    BY RowsMissAll
<1>3. W = {h[i] : i \in I}
    <2>1. ToSet(file) = {file[i] : i \in I}
        BY <1>1 DEF ToSet
    <2> HIDE DEF I
    <2> QED BY <2>1
<1>4. IsFiniteSet(W) /\ h \in [I -> W]
    <2>1. h = [i \in I |-> h[i]]
        OBVIOUS
    <2> HIDE DEF h, W, I
    <2>2. IsFiniteSet({h[i] : i \in I})
        BY <1>2, <2>1, ImageBound
    <2>3. \A i \in I : h[i] \in W
        BY <1>3
    <2> QED BY <1>3, <2>1, <2>2, <2>3
<1>5. /\ \A w \in W : Total(part(w)) \in Nat
      /\ Total(RowsMiss) = Total([w \in W |-> Total(part(w))])
    <2> HIDE DEF W, I, h
    <2> QED BY <1>2, <1>4, TotalByPart
<1>6. DOMAIN wm = W /\ \A w \in W : wm[w].hits = Total(hit(w)) /\ wm[w].dec = Total(dec(w))
    <2>1. ASSUME NEW w \in W
          PROVE  {i \in DOMAIN file : file[i].token \div u = w} = rows(w)
        BY <1>1
    <2>2. wm = [w \in W |-> [hits |-> Total(hit(w)), dec |-> Total(dec(w))]]
        <3> HIDE DEF W, rows
        <3> QED BY <2>1 DEF WindowMass, W
    <2> HIDE DEF wm, W, hit, dec
    <2> QED BY <2>2
<1>7. ASSUME NEW i \in I
      PROVE  /\ Cardinality(ToSet(file[i].ids) \cap resident[file[i].layer]) \in Nat
             /\ Cardinality(ToSet(file[i].ids))
                  = Cardinality(ToSet(file[i].ids) \cap resident[file[i].layer]) + RowsMiss[i]
    <2>1. PICK X, R : X = ToSet(file[i].ids) /\ R = resident[file[i].layer]
        OBVIOUS
    <2>2. X \in SUBSET Experts
        BY <1>1, <2>1, WantedFinite
    <2>3. IsFiniteSet(X)
        BY <2>2, ExpertSetsFinite
    <2>4. /\ Cardinality(X \ R) = Cardinality(X) - Cardinality(X \cap R)
          /\ Cardinality(X) \in Nat /\ Cardinality(X \cap R) \in Nat
        BY <2>3, FS_Difference, FS_Intersection, FS_CardinalityType
    <2>5. RowsMiss[i] = Cardinality(X \ R)
        BY <2>1 DEF RowsMiss, NonRes
    <2> QED BY <2>1, <2>4, <2>5
<1>8. ASSUME NEW w \in W PROVE Total(dec(w)) - Total(hit(w)) = Total(part(w))
    <2>1. \A i : i \in rows(w) => i \in I
        OBVIOUS
    <2>2. IsFiniteSet(rows(w))
        BY <1>2, FS_Subset
    <2>3. part(w) = [i \in rows(w) |-> RowsMiss[i]]
        BY DEF PartAt
    <2> HIDE DEF rows, I, W
    <2> DEFINE A == hit(w)
               B == [i \in rows(w) |-> RowsMiss[i]]
               S == rows(w)
    <2>4. A \in [S -> Nat] /\ B \in [S -> Nat]
        BY <1>2, <1>7, <2>1
    <2>5. dec(w) = [i \in S |-> A[i] + B[i]]
        BY <1>7, <2>1
    <2> HIDE DEF A, B, S
    <2>6. IsFiniteSet(S)
        BY <2>2 DEF S
    <2>7. Total([i \in S |-> A[i] + B[i]]) = Total(A) + Total(B)
        BY <2>4, <2>6, TotalOfSums
    <2>8. Total(A) \in Nat /\ Total(B) \in Nat
        BY <2>4, <2>6, TotalIsNatural
    <2>9. Total(dec(w)) - Total(A) = Total(B)
        BY <2>5, <2>7, <2>8
    <2> QED BY <2>3, <2>9 DEF A, B
<1> HIDE DEF wm, W, part, dec, hit
<1>9. MassMissed(wm) = [w \in W |-> Total(part(w))]
    BY <1>6, <1>8 DEF MassMissed
<1> QED BY <1>2, <1>5, <1>9 DEF wm

\* With no residents, the windows hold what rs053-metrics.py pools.
LEMMA PooledIs ==
    ASSUME Prompted, T % shape.ub = 0, resident[0] = {}, NEW W, W = shape.ub
    PROVE  Metrics(file, {W}).pooled[W] = ColumnTotals(Foretold, Layers, WholeChunks)
<1> DEFINE x == WindowMetrics(routing, W)
           at == [l \in Layers |-> [w \in Windowed(W) |-> DistinctIn(routing[l], (w - 1) * W, w * W)]]
           pool == [w \in Windowed(W) |-> OverLayers(LAMBDA l : Cardinality(at[l][w]))]
           byWindow == [V \in {W} |-> WindowMetrics(routing, V).pooled]
<1>1. Ended /\ Loads(file) /\ IdsOf(file) = routing /\ FullRows(Histogram(file)) /\ RouteOK
    BY LogLoads, RowsAreFull DEF Prompted, Ended
<1>2. \A V \in {W} : T % V = 0
    OBVIOUS
<1>3. Metrics(file, {W}).pooled = byWindow
    <2>1. ~(~Loads(file) \/ ~FullRows(Histogram(file)) \/ \E V \in {W} : T % V # 0)
        BY <1>1, <1>2
    <2> DEFINE distinct == [V \in {W} |-> WindowMetrics(routing, V).distinct]
               hist == Histogram(file)
               collapse == [l \in Layers |-> 100 * PHalf(hist)[l] >= 95 * T * Picks
                                             /\ Dead(hist)[l] > E \div 2]
    <2>2. Metrics(file, {W}) =
              [ok |-> TRUE, E |-> E, L |-> L, histogram |-> hist, p_half |-> PHalf(hist),
               collapse |-> collapse, distinct |-> distinct, pooled |-> byWindow]
        BY <1>1, <2>1 DEF Metrics
    <2> HIDE DEF distinct, hist, collapse, byWindow
    <2> QED BY <2>2
<1>4. byWindow[W] = x.pooled
    OBVIOUS
<1>5. x.pooled = pool
    <2> DEFINE distinct == [l \in Layers |-> [w \in Windowed(W) |-> Cardinality(at[l][w])]]
    <2>1. x = [distinct |-> distinct, pooled |-> pool]
        BY DEF WindowMetrics
    <2> HIDE DEF x, pool, distinct
    <2> QED BY <2>1
<1>6. Windowed(W) = WholeChunks
    BY DEF Windowed, WholeChunks
<1>7. \A l \in Layers : resident[l] = {}
    <2>1. 0 \in Layers
        BY LogAssumption DEF Layers
    <2>2. Cardinality(resident[0]) = 0
        BY FS_EmptySet
    <2>3. \A l \in Layers : resident[l] \in SUBSET Experts /\ Cardinality(resident[l]) = 0
        BY <1>1, <2>2 DEF RouteOK, EvenSets
    <2> QED BY <2>3, ExpertSetsFinite, FS_EmptySet
<1>8. ASSUME NEW l \in Layers, NEW c \in WholeChunks PROVE Cardinality(at[l][c]) = Foretold[<<l, c>>]
    <2>1. at[l][c] = DistinctIn(routing[l], (c - 1) * W, c * W)
        BY <1>6
    <2> HIDE DEF at
    <2>2. /\ DistinctIn(routing[l], (c - 1) * shape.ub, c * shape.ub) \ resident[l] = NeedOf(l, c - 1)
          /\ Foretold[<<l, c>>] = Cardinality(NeedOf(l, c - 1))
        BY ChunkIsCall
    <2>3. at[l][c] \ {} = NeedOf(l, c - 1)
        BY <1>7, <2>1, <2>2
    <2> QED BY <2>2, <2>3
<1>9. pool = ColumnTotals(Foretold, Layers, WholeChunks)
    <2> HIDE DEF at
    <2>1. ASSUME NEW c \in WholeChunks
          PROVE  OverLayers(LAMBDA l : Cardinality(at[l][c])) = Total(ColumnOf(Foretold, Layers, c))
        <3>1. [l \in Layers |-> Cardinality(at[l][c])] = ColumnOf(Foretold, Layers, c)
            BY <1>8 DEF ColumnOf
        <3> QED BY <3>1 DEF OverLayers
    <2> QED BY <1>6, <2>1 DEF ColumnTotals
<1> HIDE DEF x, pool, byWindow
<1> QED BY <1>3, <1>4, <1>5, <1>9

\* The predictors and the engine.
LEMMA LeasesForetold == TimedInv /\ LeaseInv => LeasesPredicted
<1> SUFFICES ASSUME TimedInv, LeaseInv, Intact, shape.n_gen = 0 PROVE LeasesPredicted
    BY DEF LeasesPredicted
<1> DEFINE p == PredictLeases(file, resident, K, shape.ub)
           q == Predict120(file, resident, K, shape.ub)
           w == Gate0Window(file, resident, shape.ub)
           mass == WindowMass(file, resident, shape.ub)
           m == SimMiss(file, resident, Cardinality(resident[0]))
           whole == T % shape.ub = 0
<1>1. Prompted /\ Ended
    BY RunEnded DEF Intact, Prompted, Ended
<1>2. p.events = Total(Foretold) /\ p.peak = ForetoldPeak /\ (p.matches_rule <=> p.peak = E - K)
    <2> HIDE DEF p
    <2>1. \A z : z = p => z.events = Total(Foretold) /\ z.peak = ForetoldPeak
                            /\ (z.matches_rule <=> z.peak = E - K)
        BY <1>1, PredictLeasesIs DEF p
    <2> QED BY <2>1
<1>3. /\ q.per_layer = [l \in Layers |-> Total(ForetoldOf(l))]
      /\ q.events = Total(Foretold) /\ q.peak = ForetoldPeak
    <2> HIDE DEF q
    <2>1. \A z : z = q => /\ z.per_layer = [l \in Layers |-> Total(ForetoldOf(l))]
                          /\ z.events = Total(Foretold) /\ z.peak = ForetoldPeak
        BY <1>1, Predict120Is DEF q
    <2> QED BY <2>1
<1>4. w.nonresident = ColumnTotals(Foretold, Layers, WholeChunks) /\ Total(w.nonresident) = Total(Foretold)
    <2> HIDE DEF w
    <2>1. \A z : z = w => /\ z.nonresident = ColumnTotals(Foretold, Layers, WholeChunks)
                          /\ Total(z.nonresident) = Total(Foretold)
        BY <1>1, Gate0WindowIs DEF w
    <2> QED BY <2>1
<1>5. \A l \in Layers : /\ q.per_layer[l] <= lease_events[l]
                        /\ whole => q.per_layer[l] = lease_events[l]
    <2>1. \A l \in Layers : q.per_layer[l] = Total(ForetoldOf(l))
        BY <1>3
    <2> HIDE DEF q
    <2> QED BY <1>1, <2>1, EventsOfLayer
<1>6. whole => q.per_layer = lease_events
    <2>1. lease_events = [l \in Layers |-> lease_events[l]]
        BY <1>1 DEF Ended, LeasesCounted
    <2>2. q.per_layer = [l \in Layers |-> q.per_layer[l]]
        BY <1>3
    <2> HIDE DEF q
    <2>3. ASSUME whole PROVE q.per_layer = lease_events
        BY <1>5, <2>1, <2>2, <2>3
    <2> QED BY <2>3
<1>7. whole => ForetoldPeak = peak_leased
    BY <1>1, PeakForetold
<1>8. Total(MassMissed(mass)) = m.misses
    <2>1. m.misses = Total(WantedAt)
        BY <1>1, SimMissIs
    <2>2. Total(MassMissed(mass)) = Total(WantedAt)
        BY <1>1, MassIs
    <2> QED BY <2>1, <2>2
<1>9. resident[0] = {} /\ whole => w.nonresident = Metrics(file, {shape.ub}).pooled[shape.ub]
    <2>1. ASSUME resident[0] = {}, whole
          PROVE  Metrics(file, {shape.ub}).pooled[shape.ub] = ColumnTotals(Foretold, Layers, WholeChunks)
        BY <1>1, <2>1, PooledIs
    <2> HIDE DEF w
    <2> QED BY <1>4, <2>1
<1> DEFINE out == Total([x \in DOMAIN mass |-> mass[x].dec - mass[x].hits])
<1>10. out = m.misses
    BY <1>8 DEF MassMissed
<1> HIDE DEF p, q, w, m, whole, out
<1>11. /\ p.events = q.events /\ p.peak = q.peak /\ p.events = Total(w.nonresident)
       /\ \A l \in Layers : q.per_layer[l] <= lease_events[l]
       /\ whole => q.per_layer = lease_events /\ q.peak = peak_leased
       /\ p.matches_rule /\ whole => peak_leased = E - K
       /\ out = m.misses
       /\ resident[0] = {} /\ whole => w.nonresident = Metrics(file, {shape.ub}).pooled[shape.ub]
    BY <1>2, <1>3, <1>4, <1>5, <1>6, <1>7, <1>9, <1>10
<1> QED BY <1>11 DEF LeasesPredicted, p, q, w, m, whole, out, mass

(* LeasesPredicted: what the predictors foretell from the log of a run     *)
(* that is all prompt, against what the engine counts: in every run,       *)
(* whatever the routing, the sets, the micro-batch and the number of       *)
(* layers.                                                                 *)
THEOREM PredictionsOfEveryRun == RunSpec => []LeasesPredicted
<1>1. RunInit => TimedInv /\ LeaseInv
    BY DEF RunInit, TimedInv, LeaseInv
<1> QED BY <1>1, StepTimed, StepLease, LeasesForetold, PTL DEF RunSpec

----------------------------------------------------------------------------
(* The run of the log that was replayed is one of them.                    *)

\* The order of a row's picks has each of them once.
LEMMA RankedRows ==
    ASSUME NEW row \in Rows
    PROVE  /\ Ranked(row) \in [1 .. Picks -> Experts]
           /\ \A i, j \in 1 .. Picks : Ranked(row)[i] = Ranked(row)[j] => i = j
           /\ ToSet(Ranked(row)) = row
<1>1. row \in SUBSET Experts /\ Cardinality(row) = Picks /\ IsFiniteSet(row)
    BY ExpertSetsFinite DEF Rows
<1>2. ExistsBijection(1 .. Picks, row)
    BY <1>1, FS_CardinalityType
<1>3. \E f \in [1 .. Picks -> row] : IsInjective(f)
    <2>1. PICK f : f \in Bijection(1 .. Picks, row)
        BY <1>2 DEF ExistsBijection
    <2>2. f \in [1 .. Picks -> row] /\ IsInjective(f)
        BY <2>1 DEF Bijection, Injection, IsInjective
    <2> QED BY <2>2
<1> DEFINE r == CHOOSE f \in [1 .. Picks -> row] : IsInjective(f)
<1>4. Ranked(row) = r
    BY <1>1 DEF Ranked, SetToSeq
<1>5. r \in [1 .. Picks -> row] /\ IsInjective(r)
    BY <1>3
<1> HIDE DEF r
<1>6. \A i, j \in 1 .. Picks : r[i] = r[j] => i = j
    BY <1>5 DEF IsInjective
<1>7. ToSet(r) = row
    <2> DEFINE S == ToSet(r)
    <2>1. /\ \A i \in 1 .. Picks : r[i] \in S
          /\ \A e \in S : e \in row /\ \E i \in 1 .. Picks : r[i] = e
        BY <1>5 DEF ToSet
    <2> HIDE DEF S
    <2>2. r \in [1 .. Picks -> S]
        BY <1>5, <2>1
    <2>3. r \in Bijection(1 .. Picks, S)
        BY <1>6, <2>1, <2>2 DEF Bijection, Injection, Surjection, IsInjective
    <2>4. IsFiniteSet(1 .. Picks) /\ Cardinality(1 .. Picks) = Picks
        <3>1. Picks \in Nat
            BY PolicyAssumption
        <3>2. 1 \in Int /\ Picks \in Int
            BY <3>1
        <3> QED BY <3>1, <3>2, FS_Interval
    <2>5. Cardinality(S) = Picks
        BY <2>3, <2>4, FS_Bijection DEF ExistsBijection
    <2>6. S \subseteq row
        BY <2>1
    <2>7. S = row
        BY <1>1, <2>5, <2>6, FS_Subset
    <2> QED BY <2>7 DEF S
<1> QED BY <1>1, <1>4, <1>5, <1>6, <1>7

LEMMA LogIsRanked ==
    ASSUME SInv, RunOfLog
    PROVE  /\ Routing \in [Layers -> [1 .. T -> Rankings]]
           /\ [l \in Layers |-> policy[2]] \in EvenSets
           /\ ubatch \in Nat \ {0}
<1>1. ids \in [1 .. T -> Rows] /\ policy[2] \in SUBSET Experts
    <2>1. ids \in Logs /\ policy \in Policies /\ Budget = T
        BY RunAssumption DEF SInv
    <2>2. Kind(policy) = "P0"
        BY DEF RunOfLog, Kind
    <2> QED BY <2>1, <2>2, PolicyKinds DEF Logs
<1>2. T \in Nat \ {0} /\ L \in Nat \ {0}
    BY LogAssumption
<1>3. ASSUME NEW l \in Layers, NEW k \in 1 .. T PROVE Routing[l][k] \in Rankings
    <2> DEFINE x == IF l = 0 THEN k ELSE T + 1 - k
    <2>1. x \in 1 .. T
        BY <1>2
    <2>2. Routing[l][k] = Ranked(ids[x])
        BY DEF Routing
    <2> HIDE DEF x
    <2>3. ids[x] \in Rows
        BY <1>1, <2>1
    <2> QED BY <2>2, <2>3, RankedRows DEF Rankings
<1>4. \A l \in Layers : Routing[l] \in [1 .. T -> Rankings]
    <2> TAKE l \in Layers
    <2> DEFINE g == Routing[l]
    <2>1. g = [k \in 1 .. T |-> Ranked(ids[IF l = 0 THEN k ELSE T + 1 - k])]
        BY DEF Routing
    <2>2. \A k \in 1 .. T : g[k] \in Rankings
        BY <1>3
    <2> HIDE DEF g
    <2>3. g = [k \in 1 .. T |-> g[k]]
        BY <2>1
    <2>4. g \in [1 .. T -> Rankings]
        BY <2>2, <2>3
    <2> QED BY <2>4 DEF g
<1>5. Routing \in [Layers -> [1 .. T -> Rankings]]
    <2> DEFINE h == Routing
    <2>1. h = [l \in Layers |-> h[l]]
        BY DEF Routing
    <2>2. \A l \in Layers : h[l] \in [1 .. T -> Rankings]
        BY <1>4
    <2> HIDE DEF h
    <2>3. h \in [Layers -> [1 .. T -> Rankings]]
        BY <2>1, <2>2
    <2> QED BY <2>3 DEF h
<1>6. [l \in Layers |-> policy[2]] \in EvenSets
    <2>1. 0 \in Layers
        BY <1>2 DEF Layers
    <2> QED BY <1>1, <2>1 DEF EvenSets
<1>7. ubatch \in Nat \ {0}
    BY InReplay DEF RunOfLog
<1> QED BY <1>5, <1>6, <1>7

LEMMA StepOfLog == SInv /\ [MCNext]_<<vars, runVars>> => [RunNext]_runVars
<1> SUFFICES ASSUME SInv, [MCNext]_<<vars, runVars>> PROVE [RunNext]_runVars
    OBVIOUS
<1>1. CASE UNCHANGED runVars
    BY <1>1
<1>2. CASE RunOfLog
    <2>1. ASSUME NEW n \in Prompts,
                 Launch(Routing, [l \in Layers |-> policy[2]], n, ubatch)
          PROVE  RunNext
        <3>1. PICK routes \in [Layers -> [1 .. T -> Rankings]], held \in EvenSets, u \in Nat \ {0} :
                 routes = Routing /\ held = [l \in Layers |-> policy[2]] /\ u = ubatch
            BY <1>2, LogIsRanked
        <3>2. Launch(routes, held, n, u)
            BY <2>1, <3>1 DEF Launch
        <3>3. n \in 1 .. T
            BY PromptAssumption
        <3> QED BY <3>2, <3>3 DEF RunNext
    <2>2. ASSUME RunCall PROVE RunNext
        BY <2>2 DEF RunNext
    <2>3. ASSUME NEW f \in Faults, NEW i \in Spots, Damage(f, i) PROVE RunNext
        <3>1. i \in 1 .. Len(file) - 1
            BY <2>3 DEF Damage
        <3> QED BY <2>3, <3>1 DEF RunNext
    <2> QED BY <1>2, <2>1, <2>2, <2>3 DEF RunOfLog
<1> QED BY <1>1, <1>2 DEF MCNext

(* The composition that the runs check implements RunSpec: what is proved  *)
(* of every run holds of the runs of a log that decode_replay.py replayed. *)
THEOREM RunsOfTheLog == MCSpec => RunSpec
<1>1. MCInit => ReplayInv /\ RunInit
    BY InitReplayInv DEF MCInit
<1>2. ReplayInv /\ [MCNext]_<<vars, runVars>> => ReplayInv' /\ [RunNext]_runVars
    <2>1. ReplayInv /\ [MCNext]_<<vars, runVars>> => ReplayInv'
        BY ComparedSteps, NextReplayInv
    <2>2. ReplayInv => SInv
        BY DEF ReplayInv
    <2> QED BY <2>1, <2>2, StepOfLog
<1> QED BY <1>1, <1>2, PTL DEF MCSpec, RunSpec

(* ChunksRead in the runs that are checked.                                *)
THEOREM ChunksAlwaysRead == MCSpec => []ChunksRead
BY ChunksOfEveryRun, RunsOfTheLog, PTL

(* LeasesRederived in the runs that are checked.                           *)
THEOREM LeasesAlwaysRederived == MCSpec => []LeasesRederived
BY LeasesOfEveryRun, RunsOfTheLog, PTL

----------------------------------------------------------------------------
(* The harness, with a static policy.                                      *)

\* What a call of the log routes to beyond the one set, and the leases of the
\* tokens before n: a call, and an expert that it leases.
NeedThere(c) == UNION {ids[k + 1] \ policy[2] : k \in {x \in 0 .. Budget - 1 : x \div ubatch = c}}
LeasedThere(n) ==
    {q \in Nat \X Experts : \E k \in 0 .. n - 1 : k \div ubatch = q[1] /\ q[2] \in ids[k + 1] \ policy[2]}

StaticCounted ==
    phase = "replay" /\ Kind(policy) = "P0" =>
        /\ IsFiniteSet(LeasedThere(t))
        /\ events["window-start"] = Cardinality(LeasedThere(t))
        /\ \/ peak["window-start"] = 0
           \/ \E k \in 0 .. t - 1 : peak["window-start"] = Cardinality(NeedThere(k \div ubatch))

\* A call of the harness.
LEMMA StaticCall ==
    ASSUME SInv, RouteCall, Kind(policy) = "P0", NEW u \in Nat \ {0}, u = ubatch,
           NEW a \in Nat, t = u * a
    PROVE  /\ t \in Nat /\ Hi \in Nat /\ t < Hi /\ Hi <= Budget
           /\ \A k \in 0 .. Budget - 1 : k \div u = a <=> t <= k /\ k < Hi
           /\ NeedThere(a) \in SUBSET Experts
           /\ Leased(t, Hi) = NeedThere(a)
           /\ CallEvents("window-start", t, Hi) = Cardinality(NeedThere(a))
<1>1. phase = "replay" /\ Budget \in Nat /\ ids \in Logs /\ policy \in Policies
    BY InReplay DEF RouteCall
<1>2. t \in Nat /\ Hi \in Nat /\ t < Hi /\ Hi <= Budget /\ Hi <= t + u /\ (Hi = Budget \/ Hi = t + u)
    <2>1. t \in Nat /\ Hi \in Nat /\ t < Hi /\ Hi <= Budget /\ Hi <= t + u
        BY CallSInv
    <2>2. Hi = Budget \/ Hi = t + u
        BY DEF Hi, Lower
    <2> QED BY <2>1, <2>2
<1>3. ASSUME NEW k \in 0 .. Budget - 1 PROVE k \div u = a <=> t <= k /\ k < Hi
    <2>1. k \in Int /\ a \in Int /\ k < Budget
        BY <1>1
    <2>2. k \div u \in Int /\ u * (k \div u) <= k /\ k < u * (k \div u) + u
        BY <2>1, Quotient
    <2>3. u * a <= k /\ k < u * a + u => k \div u = a
        BY <2>1, QuotientIs
    <2> DEFINE q == k \div u
    <2> HIDE DEF q
    <2>4. q = a => t <= k /\ k < t + u
        BY <2>2 DEF q
    <2>5. t <= k /\ k < t + u => q = a
        BY <2>3 DEF q
    <2>6. k < Hi <=> k < t + u
        BY <1>2, <2>1
    <2> QED BY <2>4, <2>5, <2>6 DEF q
<1>4. ResidentAt(t) = policy[2]
    <2>1. t \in 0 .. Budget - 1
        BY <1>1, <1>2
    <2> QED BY <1>1, <2>1, ResidentIsForce DEF SetAt, InForce
<1>5. \A i \in 1 .. Budget : ids[i] \in SUBSET Experts
    BY <1>1, LogIsSeq
<1> DEFINE X == {x \in 0 .. Budget - 1 : x \div ubatch = a}
<1>6. \A k : k \in X <=> k \in Int /\ t <= k /\ k < Hi
    BY <1>1, <1>2, <1>3
<1> HIDE DEF X
<1>7. Leased(t, Hi) = UNION {ids[k + 1] \ policy[2] : k \in X}
    <2>1. ASSUME NEW e, e \in Leased(t, Hi) PROVE e \in UNION {ids[k + 1] \ policy[2] : k \in X}
        <3>1. PICK i \in t + 1 .. Hi : e \in ids[i] /\ e \notin policy[2]
            BY <1>4, <2>1 DEF Leased
        <3>2. i - 1 \in X /\ (i - 1) + 1 = i
            BY <1>2, <1>6
        <3> QED BY <3>1, <3>2
    <2>2. ASSUME NEW e, e \in UNION {ids[k + 1] \ policy[2] : k \in X} PROVE e \in Leased(t, Hi)
        <3>1. PICK k \in X : e \in ids[k + 1] /\ e \notin policy[2]
            BY <2>2
        <3>2. k + 1 \in t + 1 .. Hi
            BY <1>2, <1>6
        <3> QED BY <1>4, <3>1, <3>2 DEF Leased
    <2> QED BY <2>1, <2>2
<1>8. NeedThere(a) = UNION {ids[k + 1] \ policy[2] : k \in X}
    BY DEF NeedThere, X
<1>9. NeedThere(a) \in SUBSET Experts
    <2>1. \A k \in X : k + 1 \in 1 .. Budget
        BY <1>1, <1>2, <1>6
    <2> QED BY <1>5, <1>8, <2>1
<1>10. CallEvents("window-start", t, Hi) = Cardinality(Leased(t, Hi))
    BY <1>1, <1>2, WindowStartCall
<1> QED BY <1>2, <1>3, <1>7, <1>8, <1>9, <1>10

\* What a call counts is added.
LEMMA CallStatic == ReplayInv /\ StaticCounted /\ RouteCall => StaticCounted'
<1> SUFFICES ASSUME ReplayInv, StaticCounted, RouteCall, Kind(policy) = "P0", phase = "replay"
             PROVE  /\ IsFiniteSet(LeasedThere(t)')
                    /\ events'["window-start"] = Cardinality(LeasedThere(t)')
                    /\ \/ peak'["window-start"] = 0
                       \/ \E k \in 0 .. t' - 1 :
                             peak'["window-start"] = Cardinality(NeedThere(k \div ubatch)')
    <2>1. RouteCall => phase' = phase /\ policy' = policy /\ phase = "replay"
        BY DEF RouteCall, input
    <2> QED BY <2>1 DEF StaticCounted
<1> DEFINE ws == "window-start"
           ev == CallEvents(ws, t, Hi)
<1>1. SInv /\ CountInv
    BY DEF ReplayInv
<1>2. t' = Hi /\ ubatch \in Nat \ {0} /\ \E a \in Nat : t = ubatch * a
    BY <1>1, CallSInv
<1>3. PICK u \in Nat \ {0} : u = ubatch
    BY <1>2
<1>4. PICK a \in Nat : t = u * a
    BY <1>2, <1>3
<1>5. /\ t \in Nat /\ Hi \in Nat /\ t < Hi /\ Hi <= Budget
      /\ \A k \in 0 .. Budget - 1 : k \div u = a <=> t <= k /\ k < Hi
      /\ NeedThere(a) \in SUBSET Experts /\ ev = Cardinality(NeedThere(a))
    BY <1>1, <1>3, <1>4, StaticCall
<1>6. ids' = ids /\ policy' = policy /\ ubatch' = ubatch
    BY DEF RouteCall, input
<1>7. events'[ws] = events[ws] + ev /\ peak'[ws] = Max({peak[ws], ev})
    <2>1. ws \in Modes
        BY DEF Modes
    <2>2. /\ events' = [m \in Modes |-> events[m] + CallEvents(m, t, Hi)]
          /\ peak' = [m \in Modes |-> Max({peak[m], CallEvents(m, t, Hi)})]
        BY DEF RouteCall, Hi
    <2> HIDE DEF ws
    <2> QED BY <2>1, <2>2
<1>8. events[ws] \in Nat /\ peak[ws] \in Nat
    BY <1>1 DEF CountInv, CountsAreNaturals, Modes
<1>9. IsFiniteSet(NeedThere(a)) /\ Cardinality(NeedThere(a)) \in Nat
    BY <1>5, ExpertSetsFinite
<1>10. /\ IsFiniteSet(LeasedThere(t)) /\ events[ws] = Cardinality(LeasedThere(t))
       /\ peak[ws] = 0 \/ \E k \in 0 .. t - 1 : peak[ws] = Cardinality(NeedThere(k \div ubatch))
    BY DEF StaticCounted
<1>11. LeasedThere(t)' = LeasedThere(Hi) /\ \A c : NeedThere(c)' = NeedThere(c)
    BY <1>2, <1>6 DEF LeasedThere, NeedThere
<1> HIDE DEF ev, ws
<1> DEFINE new == {a} \X NeedThere(a)
<1>12. \A n, q : q \in LeasedThere(n) <=> /\ q \in Nat \X Experts
                                          /\ \E k \in 0 .. n - 1 : k \div u = q[1] /\ q[2] \in ids[k + 1] \ policy[2]
    BY <1>3 DEF LeasedThere
<1>13. \A e : e \in NeedThere(a) <=> \E k \in 0 .. Budget - 1 : k \div u = a /\ e \in ids[k + 1] \ policy[2]
    BY <1>3 DEF NeedThere
<1>14. Budget \in Nat
    BY ReplayAssumption
<1>15. LeasedThere(Hi) = LeasedThere(t) \cup new
    <2>1. ASSUME NEW q, q \in LeasedThere(Hi) PROVE q \in LeasedThere(t) \cup new
        <3>1. q \in Nat \X Experts /\ q = <<q[1], q[2]>>
            BY <1>12, <2>1
        <3>2. PICK k \in 0 .. Hi - 1 : k \div u = q[1] /\ q[2] \in ids[k + 1] \ policy[2]
            BY <1>12, <2>1
        <3>3. CASE k < t
            <4>1. k \in 0 .. t - 1
                BY <1>5, <3>3
            <4> QED BY <1>12, <3>1, <3>2, <4>1
        <3>4. CASE ~(k < t)
            <4>1. k \in 0 .. Budget - 1 /\ t <= k /\ k < Hi
                BY <1>5, <1>14, <3>4
            <4>2. k \div u = a
                BY <1>5, <4>1
            <4>3. q[1] = a /\ q[2] \in NeedThere(a)
                BY <1>13, <3>2, <4>1, <4>2
            <4> QED BY <3>1, <4>3
        <3> QED BY <3>3, <3>4
    <2>2. ASSUME NEW q, q \in LeasedThere(t) PROVE q \in LeasedThere(Hi)
        <3>1. PICK k \in 0 .. t - 1 : k \div u = q[1] /\ q[2] \in ids[k + 1] \ policy[2]
            BY <1>12, <2>2
        <3>2. k \in 0 .. Hi - 1
            BY <1>5
        <3>3. q \in Nat \X Experts
            BY <1>12, <2>2
        <3> QED BY <1>12, <3>1, <3>2, <3>3
    <2>3. ASSUME NEW q, q \in new PROVE q \in LeasedThere(Hi)
        <3>1. q = <<a, q[2]>> /\ q[1] = a /\ q[2] \in NeedThere(a)
            BY <2>3
        <3>2. PICK k \in 0 .. Budget - 1 : k \div u = a /\ q[2] \in ids[k + 1] \ policy[2]
            BY <1>13, <3>1
        <3>3. k \in 0 .. Hi - 1
            <4>1. k \div u = a => t <= k /\ k < Hi
                BY <1>5
            <4>2. k < Hi
                BY <3>2, <4>1
            <4> QED BY <1>5, <1>14, <4>2
        <3>4. q \in Nat \X Experts
            BY <1>5, <3>1
        <3> QED BY <1>12, <3>1, <3>2, <3>3, <3>4
    <2> HIDE DEF new
    <2> QED BY <2>1, <2>2, <2>3
<1>16. LeasedThere(t) \cap new = {}
    <2>1. ASSUME NEW q, q \in LeasedThere(t), q \in new PROVE FALSE
        <3>1. PICK k \in 0 .. t - 1 : k \div u = q[1]
            BY <1>12, <2>1
        <3>2. q[1] = a
            BY <2>1
        <3>3. k \in 0 .. Budget - 1 /\ ~(t <= k)
            BY <1>5, <1>14
        <3> QED BY <1>5, <3>1, <3>2, <3>3
    <2> QED BY <2>1
<1>17. IsFiniteSet(new) /\ Cardinality(new) = Cardinality(NeedThere(a))
    <2>1. IsFiniteSet({a}) /\ Cardinality({a}) = 1
        BY FS_Singleton
    <2>2. PICK A, B : A = {a} /\ B = NeedThere(a)
        OBVIOUS
    <2>3. IsFiniteSet(A \X B) /\ Cardinality(A \X B) = Cardinality(A) * Cardinality(B)
        BY <1>9, <2>1, <2>2, FS_Product
    <2>4. IsFiniteSet(new) /\ Cardinality(new) = 1 * Cardinality(B)
        BY <2>1, <2>2, <2>3
    <2>5. Cardinality(B) \in Nat
        BY <1>9, <2>2
    <2> QED BY <2>2, <2>4, <2>5
<1> HIDE DEF new
<1>18. IsFiniteSet(LeasedThere(Hi)) /\ Cardinality(LeasedThere(Hi)) = Cardinality(LeasedThere(t)) + ev
    <2>1. Cardinality(LeasedThere(t) \cap new) = 0
        BY <1>16, FS_EmptySet
    <2>2. /\ IsFiniteSet(LeasedThere(t) \cup new)
          /\ Cardinality(LeasedThere(t) \cup new)
               = Cardinality(LeasedThere(t)) + Cardinality(new) - Cardinality(LeasedThere(t) \cap new)
        BY <1>10, <1>17, FS_Union
    <2> QED BY <1>5, <1>8, <1>9, <1>10, <1>15, <1>17, <2>1, <2>2
<1> DEFINE At(k) == Cardinality(NeedThere(k \div ubatch))
<1>19. peak'[ws] = 0 \/ \E k \in 0 .. t' - 1 : peak'[ws] = At(k)
    <2>1. peak'[ws] \in {peak[ws], ev}
        BY <1>5, <1>7, <1>8, <1>9, MaxOfTwo
    <2>2. CASE peak'[ws] = ev
        <3>1. t \in 0 .. t' - 1 /\ t \in 0 .. Budget - 1
            BY <1>2, <1>5, <1>14
        <3>2. t \div u = a
            <4>1. t \div u = a <=> t <= t /\ t < Hi
                BY <1>5, <3>1
            <4> QED BY <1>5, <4>1
        <3>3. At(t) = ev
            BY <1>3, <1>5, <3>2
        <3> HIDE DEF At
        <3> QED BY <2>2, <3>1, <3>3
    <2>3. CASE peak'[ws] = peak[ws] /\ peak[ws] # 0
        <3>1. PICK k \in 0 .. t - 1 : peak[ws] = At(k)
            BY <1>10, <2>3
        <3> HIDE DEF At
        <3>2. k \in 0 .. t' - 1
            BY <1>2, <1>5
        <3> QED BY <2>3, <3>1, <3>2
    <2> HIDE DEF At
    <2> QED BY <2>1, <2>2, <2>3
<1>20. \A k : Cardinality(NeedThere(k \div ubatch)') = At(k)
    BY <1>6 DEF NeedThere, At
<1> HIDE DEF At
<1>21. IsFiniteSet(LeasedThere(t)') /\ events'[ws] = Cardinality(LeasedThere(t)')
    BY <1>7, <1>10, <1>11, <1>18
<1>22. /\ IsFiniteSet(LeasedThere(t)')
       /\ events'[ws] = Cardinality(LeasedThere(t)')
       /\ peak'[ws] = 0 \/ \E k \in 0 .. t' - 1 : peak'[ws] = Cardinality(NeedThere(k \div ubatch)')
    BY <1>19, <1>20, <1>21
<1> QED BY <1>22 DEF ws

\* Every step keeps the count.
LEMMA NextStatic == ReplayInv /\ StaticCounted /\ [Next]_vars => StaticCounted'
<1> SUFFICES ASSUME ReplayInv, StaticCounted, [Next]_vars PROVE StaticCounted'
    OBVIOUS
<1>1. CASE SchedStatic \/ SchedSliding \/ SchedDecay
    <2>1. phase = "schedule" /\ phase' = phase
        BY <1>1 DEF SchedStatic, SchedSliding, SchedDecay, Scheduling, Sched
    <2> QED BY <2>1 DEF StaticCounted
<1>2. CASE StartReplay
    <2>1. t' = 0 /\ events' = events /\ peak' = peak /\ phase = "schedule"
        BY <1>2 DEF StartReplay, counts
    <2>2. events = Zero /\ peak = Zero
        BY <2>1 DEF ReplayInv, SInv, Making
    <2>3. events'["window-start"] = 0 /\ peak'["window-start"] = 0
        BY <2>1, <2>2 DEF Zero, Modes
    <2>4. LeasedThere(t)' = {}
        <3>1. 0 .. 0 - 1 = {}
            OBVIOUS
        <3>2. LeasedThere(t)' = {q \in Nat \X Experts : \E k \in 0 .. 0 - 1 :
                                    k \div ubatch' = q[1] /\ q[2] \in ids'[k + 1] \ policy'[2]}
            BY <2>1 DEF LeasedThere
        <3> QED BY <3>1, <3>2
    <2> QED BY <2>3, <2>4, FS_EmptySet DEF StaticCounted
<1>3. CASE RouteCall
    BY <1>3, CallStatic
<1>4. CASE UNCHANGED vars
    <2>1. /\ ids' = ids /\ policy' = policy /\ phase' = phase /\ ubatch' = ubatch /\ t' = t
          /\ events' = events /\ peak' = peak
        BY <1>4 DEF vars
    <2> QED BY <2>1 DEF StaticCounted, LeasedThere, NeedThere
<1> QED BY <1>1, <1>2, <1>3, <1>4 DEF Next

\* The run is of the log that the harness has finished with, its layers hold
\* the one set and rank its rows.
Linked ==
    stage \in {"running", "done"} =>
        /\ phase = "replay" /\ t = Budget /\ Kind(policy) = "P0"
        /\ routing = Routing /\ resident = [l \in Layers |-> policy[2]]
        /\ shape.ub = ubatch

\* The harness stands still while the engine runs.
LEMMA NextLinked == Linked /\ [MCNext]_<<vars, runVars>> => Linked'
<1> SUFFICES ASSUME Linked, [MCNext]_<<vars, runVars>>, (stage \in {"running", "done"})'
             PROVE  (/\ phase = "replay" /\ t = Budget /\ Kind(policy) = "P0"
                     /\ routing = Routing /\ resident = [l \in Layers |-> policy[2]]
                     /\ shape.ub = ubatch)'
    BY DEF Linked
<1> DEFINE A == phase = "replay" /\ t = Budget /\ Kind(policy) = "P0"
           B == routing = Routing /\ resident = [l \in Layers |-> policy[2]] /\ shape.ub = ubatch
<1>1. CASE UNCHANGED vars /\ UNCHANGED runVars
    <2>1. /\ ids' = ids /\ policy' = policy /\ phase' = phase /\ ubatch' = ubatch /\ t' = t
          /\ stage' = stage /\ routing' = routing /\ resident' = resident /\ shape' = shape
        BY <1>1 DEF vars, runVars
    <2>2. Routing' = Routing /\ Kind(policy)' = Kind(policy)
        BY <2>1 DEF Routing, Ranked
    <2> QED BY <2>1, <2>2 DEF Linked
<1>2. CASE Next /\ UNCHANGED runVars
    <2>1. stage' = stage
        BY <1>2 DEF runVars
    <2>2. phase = "replay" /\ t = Budget
        BY <2>1 DEF Linked
    <2>3. ~(t < Budget)
        BY <2>2, ReplayAssumption
    <2>4. ~Next
        BY <2>2, <2>3 DEF Next, SchedStatic, SchedSliding, SchedDecay, Scheduling, StartReplay, RouteCall
    <2> QED BY <1>2, <2>4
<1>3. CASE RunOfLog /\ UNCHANGED vars
    <2>1. ids' = ids /\ policy' = policy /\ phase' = phase /\ ubatch' = ubatch /\ t' = t
        BY <1>3 DEF vars
    <2>2. Routing' = Routing /\ Kind(policy)' = Kind(policy)
        BY <2>1 DEF Routing, Ranked
    <2>3. phase = "replay" /\ t = Budget /\ Kind(policy) = "P0"
        BY <1>3 DEF RunOfLog, Kind
    <2>4. ASSUME NEW n \in Prompts, Launch(Routing, [l \in Layers |-> policy[2]], n, ubatch)
          PROVE  (routing = Routing /\ resident = [l \in Layers |-> policy[2]] /\ shape.ub = ubatch)'
        <3>1. /\ routing' = Routing /\ resident' = [l \in Layers |-> policy[2]]
              /\ shape' = [n_prompt |-> n, n_gen |-> T - n, ub |-> ubatch]
            BY <2>4 DEF Launch
        <3>2. shape'.ub = ubatch
            BY <3>1
        <3>3. resident' = [l \in Layers |-> policy'[2]]
            BY <2>1, <3>1
        <3> QED BY <2>1, <2>2, <3>1, <3>2, <3>3
    <2>5. ASSUME RunCall
          PROVE  (routing = Routing /\ resident = [l \in Layers |-> policy[2]] /\ shape.ub = ubatch)'
        <3>1. stage = "running" /\ routing' = routing /\ resident' = resident /\ shape' = shape
            BY <2>5 DEF RunCall
        <3>2. B
            BY <3>1 DEF Linked
        <3>3. resident' = [l \in Layers |-> policy'[2]]
            BY <2>1, <3>1, <3>2
        <3> QED BY <2>1, <2>2, <3>1, <3>2, <3>3
    <2>6. ASSUME NEW f \in Faults, NEW i \in Spots, Damage(f, i) PROVE FALSE
        BY <2>6 DEF Damage
    <2> QED BY <1>3, <2>1, <2>2, <2>3, <2>4, <2>5, <2>6 DEF RunOfLog
<1> QED BY <1>1, <1>2, <1>3 DEF MCNext

\* What the harness and the run have in common when both have ended.
Compared == ReplayInv /\ StaticCounted /\ Linked /\ Prompted /\ stage = "done"

LEMMA ComparedIs ==
    ASSUME Compared
    PROVE  /\ SInv /\ phase = "replay" /\ Kind(policy) = "P0" /\ ids \in [1 .. T -> Rows]
           /\ Budget = T /\ t = T /\ T \in Nat \ {0} /\ L \in Nat \ {0} /\ 0 \in Layers
           /\ policy[2] \in SUBSET Experts /\ shape.ub = ubatch /\ ubatch \in Nat \ {0}
           /\ \A l \in Layers : resident[l] = policy[2]
           /\ \A l \in Layers, k \in 1 .. T :
                 ToSet(routing[l][k]) = ids[IF l = 0 THEN k ELSE T + 1 - k]
<1>1. /\ SInv /\ phase = "replay" /\ Kind(policy) = "P0" /\ t = Budget /\ Budget = T
      /\ routing = Routing /\ resident = [l \in Layers |-> policy[2]] /\ shape.ub = ubatch
    BY RunAssumption DEF Compared, ReplayInv, Linked
<1>2. T \in Nat \ {0} /\ L \in Nat \ {0} /\ 0 \in Layers
    BY LogAssumption DEF Layers
<1>3. ids \in [1 .. T -> Rows] /\ policy[2] \in SUBSET Experts
    <2>1. ids \in Logs /\ policy \in Policies
        BY <1>1 DEF SInv
    <2> QED BY <1>1, <2>1, PolicyKinds DEF Logs
<1>4. ASSUME NEW l \in Layers, NEW k \in 1 .. T
      PROVE  ToSet(routing[l][k]) = ids[IF l = 0 THEN k ELSE T + 1 - k]
    <2> DEFINE x == IF l = 0 THEN k ELSE T + 1 - k
    <2>1. x \in 1 .. T
        BY <1>2
    <2>2. routing[l][k] = Ranked(ids[x])
        BY <1>1 DEF Routing
    <2> HIDE DEF x
    <2>3. ids[x] \in Rows
        BY <1>3, <2>1
    <2>4. ToSet(Ranked(ids[x])) = ids[x]
        BY <2>3, RankedRows
    <2> QED BY <2>2, <2>4 DEF x
<1>5. ubatch \in Nat \ {0}
    BY <1>1, InReplay
<1>6. \A l \in Layers : resident[l] = policy[2]
    BY <1>1
<1> QED BY <1>1, <1>2, <1>3, <1>4, <1>5, <1>6

\* Layer 0 takes the log as it is: its leases and its calls' needs are the harness's.
LEMMA LayerOfLog ==
    ASSUME Compared
    PROVE  /\ LeasedIn(0) = LeasedThere(T)
           /\ \A k \in 0 .. T - 1 : NeedOf(0, CallAt(k)) = NeedThere(k \div ubatch)
<1>1. /\ Budget = T /\ T \in Nat \ {0} /\ 0 \in Layers /\ shape.ub = ubatch
      /\ resident[0] = policy[2]
      /\ \A k \in 1 .. T : ToSet(routing[0][k]) = ids[k]
    BY ComparedIs
<1>2. \A k \in 0 .. T - 1 : CallAt(k) = k \div ubatch
    <2>1. PICK u : u = shape.ub
        OBVIOUS
    <2>2. \A k \in 0 .. T - 1 : CallAt(k) = k \div u
        BY <2>1, PromptIs DEF Compared
    <2> QED BY <1>1, <2>1, <2>2
<1>3. ASSUME NEW k \in 0 .. T - 1 PROVE Wanted(0, k) = ids[k + 1] \ policy[2]
    <2>1. k + 1 \in 1 .. T
        BY <1>1
    <2> QED BY <1>1, <2>1 DEF Wanted
<1>4. Through(0) = T
    BY <1>1 DEF Compared, Prompted, Ended
<1>5. LeasedIn(0) = LeasedThere(T)
    <2> DEFINE A == LeasedIn(0)
               B == LeasedThere(T)
    <2>1. \A q : q \in A <=> q \in Nat \X Experts
                    /\ \E k \in 0 .. T - 1 : CallAt(k) = q[1] /\ q[2] \in Wanted(0, k)
        BY <1>4 DEF LeasedIn
    <2>2. \A q : q \in B <=> q \in Nat \X Experts
                    /\ \E k \in 0 .. T - 1 : k \div ubatch = q[1] /\ q[2] \in ids[k + 1] \ policy[2]
        BY DEF LeasedThere
    <2> HIDE DEF A, B
    <2>3. \A q : q \in A <=> q \in B
        BY <1>2, <1>3, <2>1, <2>2
    <2>4. A = B
        BY <2>3
    <2> QED BY <2>4 DEF A, B
<1>6. ASSUME NEW i \in 0 .. T - 1 PROVE NeedOf(0, CallAt(i)) = NeedThere(i \div ubatch)
    <2>1. PICK c : c = CallAt(i) /\ c = i \div ubatch
        BY <1>2
    <2> DEFINE A == NeedOf(0, c)
               B == NeedThere(c)
    <2>2. \A e : e \in A <=> \E k \in 0 .. T - 1 : CallAt(k) = c /\ e \in Wanted(0, k)
        BY DEF NeedOf
    <2>3. \A e : e \in B <=> \E k \in 0 .. T - 1 : k \div ubatch = c /\ e \in ids[k + 1] \ policy[2]
        BY <1>1 DEF NeedThere
    <2> HIDE DEF A, B
    <2>4. \A e : e \in A <=> e \in B
        BY <1>2, <1>3, <2>2, <2>3
    <2>5. A = B
        BY <2>4
    <2> QED BY <2>1, <2>5 DEF A, B
<1> QED BY <1>5, <1>6

\* Its lease events and its peak.
LEMMA EventsCompared ==
    ASSUME Compared
    PROVE  events["window-start"] = lease_events[0] /\ peak["window-start"] <= peak_leased
<1> DEFINE ws == "window-start"
<1>1. /\ phase = "replay" /\ Kind(policy) = "P0" /\ t = T /\ T \in Nat \ {0} /\ 0 \in Layers
    BY ComparedIs
<1>2. /\ events[ws] = Cardinality(LeasedThere(T))
      /\ \/ peak[ws] = 0
         \/ \E k \in 0 .. T - 1 : peak[ws] = Cardinality(NeedThere(k \div ubatch))
    BY <1>1 DEF Compared, StaticCounted
<1>3. /\ lease_events[0] = Cardinality(LeasedIn(0)) /\ PeakIs(peak_leased, NeedsFrom(0))
      /\ Through(0) = T
    BY <1>1 DEF Compared, Prompted, Ended, LeasesCounted
<1>4. events[ws] = lease_events[0]
    BY <1>2, <1>3, LayerOfLog
<1>5. ASSUME NEW k \in 0 .. T - 1, peak[ws] = Cardinality(NeedThere(k \div ubatch))
      PROVE  peak[ws] <= peak_leased
    <2>1. peak[ws] = Cardinality(NeedOf(0, CallAt(k)))
        BY <1>5, LayerOfLog
    <2>2. 0 <= k /\ k < Through(0)
        BY <1>1, <1>3
    <2>3. peak[ws] \in NeedsFrom(0)
        BY <1>1, <2>1, <2>2, NeedsAre DEF NeedsAll
    <2> QED BY <1>3, <2>3 DEF PeakIs
<1>6. peak_leased >= 0
    BY <1>3 DEF PeakIs
<1> QED BY <1>2, <1>4, <1>5, <1>6

\* What the log's rows miss of the one set.
RowsWant == [k \in 1 .. T |-> Cardinality(ids[k] \ policy[2])]

LEMMA HarnessMisses ==
    ASSUME Compared
    PROVE  /\ RowsWant \in [1 .. T -> Nat] /\ IsFiniteSet(1 .. T)
           /\ pick_misses["window-start"] = Total(RowsWant)
<1> DEFINE ws == "window-start"
           R == policy[2]
           D == [k \in 1 .. T |-> ids[k] \ R]
           M == MissedWith(ids, R, 0, T)
<1>1. /\ SInv /\ phase = "replay" /\ Kind(policy) = "P0" /\ t = T /\ Budget = T
      /\ T \in Nat \ {0} /\ R \in SUBSET Experts /\ ids \in [1 .. T -> Rows]
    BY ComparedIs
<1>2. pick_misses[ws] = Cardinality(Missed(ids, policy, 0, T))
    <2>1. MissesAreMissed
        BY <1>1 DEF Compared, ReplayInv, CountInv, Replaying
    <2> QED BY <1>1, <2>1 DEF MissesAreMissed, Faithful, Modes
<1>3. Missed(ids, policy, 0, T) = M
    <2>1. \A tok \in 0 .. T - 1 : SetAt(ids, policy, tok) = R
        BY <1>1 DEF SetAt, InForce
    <2> QED BY <1>1, <2>1, MissedWithOne
<1>4. \A k \in 1 .. T : D[k] \in SUBSET Experts /\ IsFiniteSet(D[k]) /\ D[k] = ids[k] \ R
    <2>1. \A k \in 1 .. T : ids[k] \in SUBSET Experts
        BY <1>1 DEF Rows
    <2>2. \A k \in 1 .. T : D[k] = ids[k] \ R
        OBVIOUS
    <2> QED BY <2>1, <2>2, ExpertSetsFinite
<1>5. IsFiniteSet(1 .. T)
    <2>1. 1 \in Int /\ T \in Int
        BY <1>1
    <2> QED BY <2>1, FS_Interval
<1>6. RowsWant = [k \in 1 .. T |-> Cardinality(D[k])]
    BY <1>4 DEF RowsWant
<1>7. RowsWant \in [1 .. T -> Nat]
    BY <1>4, <1>6, FS_CardinalityType
<1>8. M = Pairs(1 .. T, D)
    <2> DEFINE P == Pairs(1 .. T, D)
    <2>1. \A q : q \in P <=> q = <<q[1], q[2]>> /\ q[1] \in 1 .. T /\ q[2] \in D[q[1]]
        BY <1>4, <1>5, PairsSize
    <2>2. \A q : q \in M <=> q \in (1 .. T) \X Experts /\ q[2] \in ids[q[1]] /\ q[2] \notin R
        <3>1. 0 + 1 = 1
            OBVIOUS
        <3> QED BY <3>1 DEF MissedWith
    <2> HIDE DEF D, P, M
    <2>3. \A q : q \in M <=> q \in P
        BY <1>4, <2>1, <2>2
    <2>4. M = P
        BY <2>3
    <2> QED BY <2>4 DEF P
<1>9. Total([k \in 1 .. T |-> Cardinality(D[k])]) = Cardinality(Pairs(1 .. T, D))
    <2> HIDE DEF D
    <2> QED BY <1>4, <1>5, PairsSize
<1> QED BY <1>2, <1>3, <1>5, <1>6, <1>7, <1>8, <1>9

\* Every layer misses as much: the others take the log from its end.
LEMMA LayerOfRun ==
    ASSUME Compared, NEW l \in Layers
    PROVE  Total(RowOf(WantedAt, 1 .. T, l)) = Total(RowsWant)
<1> DEFINE S == 1 .. T
           f == RowOf(WantedAt, S, l)
           h == [k \in S |-> IF l = 0 THEN k ELSE T + 1 - k]
<1>1. /\ T \in Nat \ {0} /\ resident[l] = policy[2]
      /\ \A k \in 1 .. T : ToSet(routing[l][k]) = ids[IF l = 0 THEN k ELSE T + 1 - k]
    BY ComparedIs
<1>2. RowsWant \in [S -> Nat] /\ IsFiniteSet(S)
    BY HarnessMisses
<1>3. \A k \in S : h[k] \in S /\ h[k] = IF l = 0 THEN k ELSE T + 1 - k
    BY <1>1
<1>4. \A k \in S : f[k] = WantedAt[<<l, k>>]
    BY DEF RowOf
<1>5. ASSUME NEW k \in S PROVE f[k] = RowsWant[h[k]] /\ f[k] \in Nat
    <2>1. f[k] = Cardinality(Wanted(l, k - 1)) /\ Wanted(l, k - 1) = ToSet(routing[l][k]) \ resident[l]
        BY <1>4, WantedTyped DEF Compared, Prompted
    <2>2. ToSet(routing[l][k]) = ids[h[k]]
        BY <1>1, <1>3
    <2>3. RowsWant[h[k]] = Cardinality(ids[h[k]] \ policy[2])
        BY <1>3 DEF RowsWant
    <2> HIDE DEF f, h
    <2>4. f[k] = RowsWant[h[k]]
        BY <1>1, <2>1, <2>2, <2>3
    <2> QED BY <1>2, <1>3, <2>4
<1>6. f = [k \in S |-> f[k]] /\ h = [k \in S |-> h[k]]
    BY DEF RowOf
<1> HIDE DEF f, h
<1>7. f \in [S -> Nat] /\ h \in [S -> S]
    BY <1>3, <1>5, <1>6
<1>8. h \in Bijection(S, S)
    <2>1. \A j, k \in S : h[j] = h[k] => j = k
        BY <1>1, <1>3
    <2>2. \A j \in S : \E k \in S : h[k] = j
        <3> TAKE j \in S
        <3>1. h[h[j]] = j
            BY <1>1, <1>3
        <3> QED BY <1>3, <3>1
    <2> QED BY <1>7, <2>1, <2>2 DEF Bijection, Injection, Surjection, IsInjective
<1>9. PICK R, g : R = S /\ g = RowsWant
    OBVIOUS
<1>10. IsFiniteSet(R) /\ g \in [R -> Nat] /\ h \in Bijection(R, R) /\ f \in [R -> Nat] /\ \A k \in R : f[k] = g[h[k]]
    BY <1>2, <1>5, <1>7, <1>8, <1>9
<1> HIDE DEF S
<1>11. Total(f) = Total(g)
    BY <1>10, Reindexed
<1> QED BY <1>9, <1>11 DEF f, S

\* Of two layers, twice the harness's misses.
LEMMA MissesCompared ==
    ASSUME Compared, L = 2, NEW m, m = SimMiss(file, resident, Cardinality(policy[2]))
    PROVE  2 * pick_misses["window-start"] = m.misses
<1>1. T \in Nat \ {0} /\ L \in Nat \ {0} /\ 0 \in Layers /\ resident[0] = policy[2]
    BY ComparedIs
<1>2. Ended
    BY DEF Compared, Prompted
<1>3. m.misses = Total(WantedAt)
    BY <1>1, <1>2, SimMissIs
<1>4. Total(WantedAt) = Total(RowTotals(WantedAt, Layers, 1 .. T))
    BY <1>2, WantedByLayer
<1>5. PICK n \in Nat : n = Total(RowsWant)
    <2>1. PICK S, g : S = 1 .. T /\ g = RowsWant
        OBVIOUS
    <2>2. IsFiniteSet(S) /\ g \in [S -> Nat]
        BY <2>1, HarnessMisses
    <2>3. Total(g) \in Nat
        BY <2>2, TotalIsNatural
    <2> QED BY <2>1, <2>3
<1>6. RowTotals(WantedAt, Layers, 1 .. T) = [l \in Layers |-> n]
    BY <1>5, LayerOfRun DEF RowTotals
<1>7. Cardinality(Layers) = 2
    <2>1. PICK a \in Int, b \in Int : a = 0 /\ b = 1
        OBVIOUS
    <2>2. Cardinality(a .. b) = IF a > b THEN 0 ELSE b - a + 1
        BY FS_Interval
    <2>3. Layers = a .. b
        BY <2>1 DEF Layers
    <2> QED BY <2>1, <2>2, <2>3
<1>8. Total([l \in Layers |-> n]) = n * 2
    BY <1>7, LayersFinite, TotalOfSame
<1>9. pick_misses["window-start"] = n
    BY <1>5, HarnessMisses
<1> QED BY <1>3, <1>4, <1>6, <1>8, <1>9

\* All that is foretold of the run.
LEMMA PredictionsFollow ==
    ReplayInv /\ StaticCounted /\ Linked /\ TimedInv /\ LeaseInv => ReplayPredictsRun
<1> SUFFICES ASSUME ReplayInv, StaticCounted, Linked, TimedInv, LeaseInv, Intact, shape.n_gen = 0
             PROVE  /\ LeasesPredicted
                    /\ events["window-start"] = lease_events[0]
                    /\ peak["window-start"] <= peak_leased
                    /\ L = 2 => 2 * pick_misses["window-start"]
                                  = SimMiss(file, resident, Cardinality(policy[2])).misses
    BY DEF ReplayPredictsRun
<1>1. Compared
    BY RunEnded DEF Intact, Compared, Prompted, Ended
<1>2. PICK m : m = SimMiss(file, resident, Cardinality(policy[2]))
    OBVIOUS
<1>3. L = 2 => 2 * pick_misses["window-start"] = m.misses
    BY <1>1, <1>2, MissesCompared
<1> QED BY <1>1, <1>2, <1>3, EventsCompared, LeasesForetold

(* ReplayPredictsRun in the runs that are checked: the predictors foretell *)
(* the engine's counters, and the harness, replaying the log with a static *)
(* policy, has counted the lease events of the log's layer, no larger a    *)
(* peak and, of two layers that route the same rows, half the misses.      *)
THEOREM ReplayForetells == MCSpec => []ReplayPredictsRun
<1>1. MCInit => ReplayInv /\ StaticCounted /\ Linked /\ TimedInv /\ LeaseInv
    <2> SUFFICES ASSUME MCInit PROVE ReplayInv /\ StaticCounted /\ Linked /\ TimedInv /\ LeaseInv
        OBVIOUS
    <2>1. Init /\ RunInit
        BY DEF MCInit
    <2>2. ReplayInv
        BY <2>1, InitReplayInv
    <2>3. StaticCounted /\ Linked
        BY <2>1 DEF Init, RunInit, StaticCounted, Linked
    <2>4. TimedInv /\ LeaseInv
        BY <2>1 DEF RunInit, TimedInv, LeaseInv
    <2> QED BY <2>2, <2>3, <2>4
<1>2. ReplayInv /\ StaticCounted /\ Linked /\ TimedInv /\ LeaseInv /\ [MCNext]_<<vars, runVars>>
        => (ReplayInv /\ StaticCounted /\ Linked /\ TimedInv /\ LeaseInv)'
    <2> SUFFICES ASSUME ReplayInv, StaticCounted, Linked, TimedInv, LeaseInv,
                        [MCNext]_<<vars, runVars>>
                 PROVE  ReplayInv' /\ StaticCounted' /\ Linked' /\ TimedInv' /\ LeaseInv'
        OBVIOUS
    <2>1. [Next]_vars
        BY ComparedSteps
    <2>2. [RunNext]_runVars
        BY StepOfLog DEF ReplayInv
    <2>3. ReplayInv' /\ StaticCounted'
        BY <2>1, NextReplayInv, NextStatic
    <2>4. Linked'
        BY NextLinked
    <2>5. TimedInv' /\ LeaseInv'
        BY <2>2, StepTimed, StepLease
    <2> QED BY <2>3, <2>4, <2>5
<1> QED BY <1>1, <1>2, PredictionsFollow, PTL DEF MCSpec

----------------------------------------------------------------------------
(* At every length of the log the acceptance of gate 0's tables reads a    *)
(* percentile at the rank that numpy takes or at the next one, and the log *)
(* has both: what GatesAgree excepts is never more than one entry.         *)
THEOREM RanksAdjacent ==
    \A n \in Nat \ {0} : \A p \in DOMAIN Percentile :
        LET taken == NearestRank(n, Percentile[p])
            again == RereadRank(n, Percentile[p])
        IN  taken \in 0 .. n - 1 /\ again \in {taken, taken + 1} /\ again <= n - 1
<1> SUFFICES ASSUME NEW n \in Nat \ {0}, NEW p \in {50, 95}
             PROVE  /\ NearestRank(n, p) \in 0 .. n - 1 /\ RereadRank(n, p) <= n - 1
                    /\ RereadRank(n, p) \in {NearestRank(n, p), NearestRank(n, p) + 1}
    BY DEF Percentile
<1> DEFINE q == (p * (n - 1)) \div 100
           r == (p * (n - 1)) % 100
           again == (p * n) \div 100
<1>1. p * (n - 1) = 100 * q + r /\ r \in 0 .. 99 /\ q \in Int /\ q >= 0
    OBVIOUS
<1>2. p * n = p * (n - 1) + p
    OBVIOUS
<1>3. again \in Int /\ 100 * again <= p * n /\ p * n < 100 * again + 100
    OBVIOUS
<1>4. /\ RereadRank(n, p) = again
      /\ NearestRank(n, p) = IF r < 50 \/ (r = 50 /\ q % 2 = 0) THEN q ELSE q + 1
    BY DEF NearestRank, RereadRank
<1> HIDE DEF q, r, again
<1>5. CASE p = 50
    BY <1>1, <1>2, <1>3, <1>4, <1>5
<1>6. CASE p = 95
    BY <1>1, <1>2, <1>3, <1>4, <1>6
<1> QED BY <1>5, <1>6

=============================================================================
