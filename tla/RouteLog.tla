------------------------------ MODULE RouteLog ------------------------------
(***************************************************************************)
(* The route log of a run, and the programs that rank experts and predict  *)
(* misses and leases from it (research/rs053, ob1, ob1b, ob3 and ob5a).    *)
(*                                                                         *)
(* A file is a sequence of rows, one per layer and token, in the order the *)
(* engine computed them; the ids of a row are in router rank order.  Bytes *)
(* are counted in slices (PER_EXPERT).  A program is an operator from the  *)
(* files it is given to the numbers it prints, or to Refused when it ends  *)
(* with a message or a traceback instead.                                  *)
(***************************************************************************)
EXTENDS ResidencyPolicy, SequencesExt

CONSTANTS
    L,      \* layers
    T       \* tokens of the run (the programs' "budget")

ASSUME LogAssumption == L \in Nat \ {0} /\ T \in Nat \ {0}

Layers == 0 .. (L - 1)
Refused == [ok |-> FALSE]
OverLayers(f(_)) == Total([l \in Layers |-> f(l)])

----------------------------------------------------------------------------
(* The loader they share, by copy.                                         *)

\* The rows of a layer, in file order.
RowsOf(file, l) ==
    LET rows[n \in 0 .. Len(file)] ==
            IF n = 0 THEN <<>>
            ELSE IF file[n].layer = l THEN Append(rows[n - 1], file[n]) ELSE rows[n - 1]
    IN  rows[Len(file)]
IdsOf(file) ==
    [l \in Layers |-> LET rows == RowsOf(file, l) IN [i \in DOMAIN rows |-> rows[i].ids]]

\* Tokens 0 .. n-1 of a layer, in file order.
InOrder(rows, n) == Len(rows) = n /\ \A i \in 1 .. n : rows[i].token = i - 1

\* Slip: every token is there once, in whatever order.
LoadsUnordered(file) ==
    /\ Len(file) = L * T
    /\ \A i \in DOMAIN file : ToSet(file[i].ids) \subseteq Experts
    /\ \A l \in Layers : {r.token : r \in ToSet(RowsOf(file, l))} = 0 .. T - 1

\* load_route_log: the shape, the ids' range, and each layer's order.
Loads(file) ==
    /\ Len(file) = L * T
    /\ \A i \in DOMAIN file : ToSet(file[i].ids) \subseteq Experts
    /\ \A l \in Layers : InOrder(RowsOf(file, l), T)

\* Picks of the rows ids, counted with multiplicity, and the distinct ones of
\* the tokens lo .. hi-1.
PicksIn(ids, S) == Cardinality({p \in (DOMAIN ids) \X (1 .. Picks) : ids[p[1]][p[2]] \in S})
Outside(ids, S) == Len(ids) * Picks - PicksIn(ids, S)
DistinctIn(ids, lo, hi) == UNION {ToSet(ids[i]) : i \in lo + 1 .. hi}

----------------------------------------------------------------------------
(* Ranking.                                                                *)

\* histogram: for each layer, the picks of each expert.
CountsOf(ids) == [e \in Experts |-> PicksIn(ids, {e})]
Histogram(file) == [l \in Layers |-> CountsOf(IdsOf(file)[l])]
FullRows(hist) == \A l \in Layers : Total(hist[l]) = T * Picks

\* The first k experts of the order (-count, id).
TopOf(counts, k) == {e \in Experts : Rank(counts, e) < k}

\* rank_sets: the sets of every layer, for every k asked for.
RankSets(hist, ks) == [k \in ks |-> [l \in Layers |-> TopOf(hist[l], k)]]

\* resident_sets.py, for its fixed list of k: the document others are given.
ResidentSets(file, ks) ==
    LET hist == Histogram(file)
    IN  IF ~Loads(file) \/ ~FullRows(hist) THEN Refused
        ELSE [ok |-> TRUE, E |-> E, L |-> L, budget |-> T, source |-> file,
              hist |-> hist, sets |-> RankSets(hist, ks), pool |-> [k \in ks |-> k * L]]

\* resident_sets_knee.py: k is an argument, and 0 keeps nothing resident.
ResidentSetsKnee(file, ks) ==
    IF ~ks \subseteq 0 .. E THEN Refused
    ELSE LET doc == ResidentSets(file, ks \ {0})
         IN  IF ~doc.ok THEN Refused
             ELSE [doc EXCEPT !.sets = [k \in ks |-> IF k = 0 THEN [l \in Layers |-> {}] ELSE @[k]],
                              !.pool = [k \in ks |-> k * L]]

\* resident_sets_ob3.py set-mix: the sum of two logs' histograms is ranked.
SetMix(file, other, ks) ==
    LET one == Histogram(file)
        two == Histogram(other)
        mix == [l \in Layers |-> [e \in Experts |-> one[l][e] + two[l][e]]]
    IN  IF ~Loads(file) \/ ~Loads(other) \/ ~FullRows(one) \/ ~FullRows(two) THEN Refused
        ELSE [ok |-> TRUE, hist |-> mix, sets |-> RankSets(mix, ks)]

\* gate2_sets.py: sets re-ranked from a document's histogram must give its own
\* sets for the k it was banked with (rc 3) and nest (rc 4).
Gate2Sets(doc, banked, ks) ==
    LET sets   == RankSets(doc.hist, ks)
        Mass(k) == OverLayers(LAMBDA l : Total([e \in sets[k][l] |-> doc.hist[l][e]]))
    IN  IF DOMAIN doc.hist # 0 .. doc.L - 1 THEN [ok |-> FALSE, rc |-> 2]
        ELSE IF banked \in ks /\ sets[banked] # doc.sets[banked] THEN [ok |-> FALSE, rc |-> 3]
        ELSE IF \E a, b \in ks : a < b /\ \E l \in Layers : ~sets[a][l] \subseteq sets[b][l]
             THEN [ok |-> FALSE, rc |-> 4]
        ELSE [ok |-> TRUE, rc |-> 0, sets |-> sets, hit |-> [k \in ks |-> Mass(k)]]

\* verify_sets_120b.py: the limbs of a document that do not re-derive from a
\* source log: its digest, histogram, sets and pool.
VerifySets(file, doc, k) ==
    LET hist == Histogram(file)
    IN  IF ~Loads(file) \/ ~FullRows(hist) THEN Refused
        ELSE [ok |-> TRUE,
              failures |-> {f \in {<<"digest", file = doc.source>>,
                                   <<"histogram", hist = doc.hist>>,
                                   <<"sets", RankSets(hist, {k})[k] = doc.sets[k]>>,
                                   <<"pool", k * L = doc.pool[k]>>} : ~f[2]}]

----------------------------------------------------------------------------
(* Misses and leases, predicted for a resident set per layer.              *)

\* sim_miss.py, for one k.
SimMiss(file, resident, k) ==
    LET ids == IdsOf(file)
    IN  IF ~Loads(file) THEN Refused
        ELSE [ok |-> TRUE, misses |-> IF k = 0 THEN L * T * Picks
                                      ELSE OverLayers(LAMBDA l : Outside(ids[l], resident[l]))]

\* sim_predict.py: the same from a document, which must be the model's.
MissRate(file, doc, k) ==
    LET ids == IdsOf(file)
    IN  IF doc.E # E \/ doc.L # L \/ ~Loads(file) THEN Refused
        ELSE [ok |-> TRUE, misses |-> OverLayers(LAMBDA l : Outside(ids[l], doc.sets[k][l]))]

\* Slip: leases are counted pick by pick.
ChunkLeasesByPick(ids, resident, chunk, c) ==
    Outside(SubSeq(ids, (c - 1) * chunk + 1, c * chunk), resident)

\* predict: a chunk leases the distinct experts routed in it that are not
\* resident; a last chunk that is not whole is left out.
ChunkLeases(ids, resident, chunk, c) ==
    Cardinality(DistinctIn(ids, (c - 1) * chunk, c * chunk) \ resident)

\* predict_leases.py, for one k.
PredictLeases(file, resident, k, chunk) ==
    LET ids    == IdsOf(file)
        leases == [p \in Layers \X (1 .. T \div chunk) |->
                      ChunkLeases(ids[p[1]], resident[p[1]], chunk, p[2])]
        peak   == Max({0} \cup {leases[p] : p \in DOMAIN leases})
    IN  IF ~Loads(file) THEN Refused
        ELSE [ok |-> TRUE, events |-> Total(leases),
              peak |-> peak, matches_rule |-> peak = E - k]

\* predict and acct of predict_120b.py: the events of each layer as well, and
\* the bytes accounted for, in slices beside the model's trunk.
Predict120(file, resident, k, chunk) ==
    LET ids   == IdsOf(file)
        Of(l) == [c \in 1 .. T \div chunk |-> ChunkLeases(ids[l], resident[l], chunk, c)]
        layer == [l \in Layers |-> Total(Of(l))]
        peak  == Max({0} \cup UNION {{Of(l)[c] : c \in 1 .. T \div chunk} : l \in Layers})
    IN  IF ~Loads(file) THEN Refused
        ELSE [ok |-> TRUE, per_layer |-> layer, events |-> Total(layer),
              peak |-> peak, acct |-> k * L + peak]

----------------------------------------------------------------------------
(* Locality, over windows of W tokens.                                     *)

Windowed(W) == 1 .. T \div W

\* rs053-metrics.py: popularity (M1, M2) and windows (M3, M6).
PHalf(hist) == [l \in Layers |-> LET half == TopOf(hist[l], E \div 2)
                                 IN  Total([e \in half |-> hist[l][e]])]
Dead(hist) == [l \in Layers |-> Cardinality({e \in Experts : 100 * hist[l][e] < T * Picks})]

WindowMetrics(ids, W) ==
    LET at == [l \in Layers |-> [w \in Windowed(W) |-> DistinctIn(ids[l], (w - 1) * W, w * W)]]
    IN  [distinct |-> [l \in Layers |-> [w \in Windowed(W) |-> Cardinality(at[l][w])]],
         pooled   |-> [w \in Windowed(W) |-> OverLayers(LAMBDA l : Cardinality(at[l][w]))]]

Metrics(file, sizes) ==
    LET hist == Histogram(file)
        ids  == IdsOf(file)
    IN  IF ~Loads(file) \/ ~FullRows(hist) \/ \E W \in sizes : T % W # 0 THEN Refused
        ELSE [ok |-> TRUE, E |-> E, L |-> L, histogram |-> hist, p_half |-> PHalf(hist),
              collapse |-> [l \in Layers |-> 100 * PHalf(hist)[l] >= 95 * T * Picks
                                             /\ Dead(hist)[l] > E \div 2],
              distinct |-> [W \in sizes |-> WindowMetrics(ids, W).distinct],
              pooled   |-> [W \in sizes |-> WindowMetrics(ids, W).pooled]]

\* rs053-cross.py: how far the two corpora's popular experts are apart, and in
\* picks their histograms (which it divides by the picks of a layer).  An expert
\* that is never picked is in no top set.
TopSet(counts, n) == {e \in Experts : counts[e] > 0 /\ Rank(counts, e) < n}
Cross(prose, code, n) ==
    IF prose.E # code.E \/ prose.L # code.L THEN Refused
    ELSE LET p(l) == TopSet(prose.histogram[l], n)
             c(l) == TopSet(code.histogram[l], n)
         IN  [ok |-> TRUE,
              j_top |-> [l \in Layers |-> <<Cardinality(p(l) \cap c(l)), Cardinality(p(l) \cup c(l))>>],
              l1    |-> [l \in Layers |->
                           Total([e \in Experts |->
                                     LET d == prose.histogram[l][e] - code.histogram[l][e]
                                     IN  IF d < 0 THEN 0 - d ELSE d])]]

=============================================================================
