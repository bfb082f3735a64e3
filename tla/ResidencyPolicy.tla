-------------------------- MODULE ResidencyPolicy --------------------------
(***************************************************************************)
(* The integer residency policies of research/ob2/sim_residency.py and     *)
(* research/ob2/sim_trace.py, for ONE layer, as functions of the route log *)
(* of that layer.  A route log is a sequence of rows; a row is the set of  *)
(* experts the router picked for one token.                                *)
(*                                                                         *)
(* A simulator is a walk over the recompute windows of the log.  Each is   *)
(* written as a function walk[w] of the number w of windows done, whose    *)
(* value is the record of the simulator's local variables.                 *)
(*                                                                         *)
(* A definition marked "Slip" is what a plausible mistake would compute in *)
(* place of the definition it precedes.  No specification uses it: it is   *)
(* there for mutation testing, to show which property notices the mistake. *)
(***************************************************************************)
EXTENDS Integers, Sequences, FiniteSetsExt

CONSTANTS
    E,      \* experts per layer
    K,      \* experts kept resident per layer
    H,      \* tokens between two recompute boundaries
    Picks,  \* router picks per token
    Add     \* what one routed pick adds to the counter of its expert

ASSUME PolicyAssumption ==
    /\ E \in Nat \ {0}
    /\ K \in 0 .. E
    /\ H \in Nat \ {0}
    /\ Picks \in 1 .. E
    /\ Add \in Nat \ {0}

Experts == 0 .. (E - 1)
Rows    == {row \in SUBSET Experts : Cardinality(row) = Picks}
Lower(a, b)  == IF a <= b THEN a ELSE b
SymmetricDifference(A, B) == (A \ B) \cup (B \ A)

\* The sum of a function's values.
Total(f) == MapThenSumSet(LAMBDA x : f[x], DOMAIN f)

----------------------------------------------------------------------------
(* Ranking and counting.                                                   *)

\* The sort key (-count, id): a comes strictly before b.
Before(counts, a, b) ==
    \/ counts[a] > counts[b]
    \/ counts[a] = counts[b] /\ a < b

Rank(counts, e) == Cardinality({f \in Experts : Before(counts, f, e)})

\* The K experts at the head of that order.
TopK(counts) == {e \in Experts : Rank(counts, e) < K}

\* What every policy starts from: "cold start: lowest K ids".
ColdSet == 0 .. (K - 1)

NoCounts == [e \in Experts |-> 0]
PicksOf(seg, e) == Cardinality({i \in DOMAIN seg : e \in seg[i]})
BinCount(seg) == [e \in Experts |-> PicksOf(seg, e)]

\* One shift to the right of every counter.
Decay(counts) == [e \in Experts |-> counts[e] \div 2]

Accumulate(counts, seg) ==
    [e \in Experts |-> counts[e] + Add * PicksOf(seg, e)]

\* Picks of seg whose expert is not resident, counted with multiplicity.
Misses(seg, resident) ==
    Cardinality({p \in (DOMAIN seg) \X Experts : p[2] \in seg[p[1]] \ resident})

----------------------------------------------------------------------------
(* The windows of a log.                                                   *)

Windows(ids)  == (Len(ids) + H - 1) \div H
Window(ids, w) == SubSeq(ids, (w - 1) * H + 1, Lower(Len(ids), w * H))
Boundary(w)   == (w - 1) * H

\* P0: the resident set never changes.
SimP0(ids, frozen) == [misses |-> Misses(ids, frozen), churn |-> 0]

\* P1: the resident set is the top K of the last W tokens before the boundary.
SimP1(ids, W) ==
    LET Resident(w) ==
            IF w = 1 THEN ColdSet
            ELSE TopK(BinCount(SubSeq(ids, 1 + (IF Boundary(w) > W THEN Boundary(w) - W ELSE 0),
                                      Boundary(w))))
        walk[w \in 0 .. Windows(ids)] ==
            IF w = 0 THEN [misses |-> 0, churn |-> 0]
            ELSE [misses |-> walk[w - 1].misses + Misses(Window(ids, w), Resident(w)),
                  churn  |-> walk[w - 1].churn +
                             IF w = 1 THEN 0
                             ELSE Cardinality(SymmetricDifference(Resident(w - 1), Resident(w)))]
    IN  walk[Windows(ids)]

\* P2: integer counters, halved at each boundary before residency is read off
\* them and before the new window is counted.
SimP2(ids) ==
    LET walk[w \in 0 .. Windows(ids)] ==
            IF w = 0
            THEN [counters |-> NoCounts, resident |-> ColdSet, misses |-> 0, churn |-> 0]
            ELSE LET s        == walk[w - 1]
                     counters == IF w > 1 THEN Decay(s.counters) ELSE s.counters
                     resident == IF w > 1 THEN TopK(counters) ELSE ColdSet
                 IN  [counters |-> Accumulate(counters, Window(ids, w)),
                      resident |-> resident,
                      misses   |-> s.misses + Misses(Window(ids, w), resident),
                      churn    |-> s.churn +
                                   Cardinality(SymmetricDifference(s.resident, resident))]
    IN  walk[Windows(ids)]

\* The schedule of P2: one <<boundary, resident set>> per recompute boundary
\* below maxToken, and the miss count the tracer cross-checks.
TraceP2(ids, maxToken) ==
    LET walk[w \in 0 .. Windows(ids)] ==
            IF w = 0 THEN [counters |-> NoCounts, misses |-> 0, lines |-> {}]
            ELSE LET s        == walk[w - 1]
                     counters == IF w > 1 THEN Decay(s.counters) ELSE s.counters
                     resident == IF w > 1 THEN TopK(counters) ELSE ColdSet
                 IN  [counters |-> Accumulate(counters, Window(ids, w)),
                      misses   |-> s.misses + Misses(Window(ids, w), resident),
                      lines    |-> s.lines \cup
                                   (IF Boundary(w) < maxToken
                                    THEN {<<Boundary(w), resident>>} ELSE {})]
    IN  walk[Windows(ids)]

=============================================================================
