----------------------------- MODULE RouteGates -----------------------------
(***************************************************************************)
(* The gate and acceptance programs of research/ob5b1 and route_compare.py *)
(* of research/ob5b2: they re-derive, each in its own way, from a run's    *)
(* route log what the engine counted and what the programs of RouteLog     *)
(* print, and compare the logs of two schedules.                           *)
(*                                                                         *)
(* A run has a prompt of n_prompt tokens, prefilled in pieces of at most   *)
(* ub tokens, and decodes n_gen tokens one by one; resident[l] is the set  *)
(* it holds in layer l.                                                    *)
(***************************************************************************)
EXTENDS RouteLog, TLC

Most(S) == Max({0} \cup S)
ValidRow(r) == r.layer \in Layers /\ ToSet(r.ids) \subseteq Experts
NonRes(r, resident) == ToSet(r.ids) \ resident[r.layer]
MissOf(r, resident) == Outside(<<r.ids>>, resident[r.layer])
Repeats(r) == Cardinality(ToSet(r.ids)) < Picks

----------------------------------------------------------------------------
(* The format check of research/rs053.                                     *)

\* validate-route-logs.py: what it prints OK for, and the lines with a repeated
\* id, which it only counts.
Validate(file) ==
    LET seen == {r.layer : r \in ToSet(file)}
        rows == [l \in seen |-> RowsOf(file, l)]
    IN  [layers  |-> seen = Layers,
         tokens  |-> \A l \in seen : /\ Len(rows[l]) = T
                                     /\ Max({r.token : r \in ToSet(rows[l])}) = T - 1,
         range   |-> \A i \in DOMAIN file : ToSet(file[i].ids) \subseteq Experts,
         lines   |-> Len(file) = L * T,
         repeats |-> Cardinality({i \in DOMAIN file : Repeats(file[i])})]
Valid(v) == v.layers /\ v.tokens /\ v.range /\ v.lines

----------------------------------------------------------------------------
(* Gate 0: the banked sets against a banked log.                           *)

\* keep-previous: the picks of the token before are still held.
HeldMisses(ids, resident, i) ==
    Outside(<<ids[i]>>, resident \cup (IF i = 1 THEN {} ELSE ToSet(ids[i - 1])))

\* The token misses of a run in ascending order, and the rank (from 0) that
\* np.percentile takes for p with method "nearest": a tie goes to the even one.
Ascending(misses) == SortSeq(misses, <)
NearestRank(n, p) ==
    LET q == (p * (n - 1)) \div 100
        r == (p * (n - 1)) % 100
    IN  IF r < 50 \/ (r = 50 /\ q % 2 = 0) THEN q ELSE q + 1

\* The rank at which accept_gate0_cells.py reads the same cell: s[len(s)//2] and
\* s[int(0.95*len(s))].
RereadRank(n, p) == (p * n) \div 100

\* gate0_top8.py: L and T are what the log shows, and must be what the sets
\* document declares; a repeated id refuses the log.
Gate0Top8(file, doc, k, sweep) ==
    LET seenL == Max({r.layer : r \in ToSet(file)}) + 1
        seenT == Len(RowsOf(file, 0))
        ids   == IdsOf(file)
        hist  == Histogram(file)
        R     == doc.sets[k]
    IN  IF \/ \E r \in ToSet(file) : \E e \in ToSet(r.ids) : e >= doc.E
           \/ seenL # doc.L \/ seenT # doc.budget
           \/ \E l \in Layers : ~InOrder(RowsOf(file, l), seenT)
           \/ \E i \in DOMAIN file : Repeats(file[i])
        THEN Refused
        ELSE [ok |-> TRUE, rederives |-> [l \in Layers |-> TopOf(hist[l], k)] = R,
              hits   |-> OverLayers(LAMBDA l : PicksIn(ids[l], R[l])),
              misses |-> [t \in 1 .. T |-> OverLayers(LAMBDA l : Outside(<<ids[l][t]>>, R[l]))],
              keep   |-> [t \in 1 .. T |-> OverLayers(LAMBDA l : HeldMisses(ids[l], R[l], t))],
              layer_hits |-> [l \in Layers |-> PicksIn(ids[l], R[l])],
              ksweep |-> [j \in sweep |-> OverLayers(LAMBDA l : PicksIn(ids[l], TopOf(hist[l], j)))]]

\* gate0_window.py: distinct experts per window, resident or not.
Gate0Window(file, resident, W) ==
    LET at == [p \in Layers \X Windowed(W) |-> DistinctIn(IdsOf(file)[p[1]], (p[2] - 1) * W, p[2] * W)]
    IN  IF \/ \E l \in Layers : ~InOrder(RowsOf(file, l), T)
           \/ \E r \in ToSet(file) : ~ToSet(r.ids) \subseteq Experts
        THEN Refused
        ELSE [ok |-> TRUE,
              nonresident |-> [w \in Windowed(W) |->
                                  OverLayers(LAMBDA l : Cardinality(at[<<l, w>>] \ resident[l]))]]

\* gate2_window_mass.py: hits and decisions per window.  Nothing is checked; a
\* row's ids are taken as a set.
WindowMass(file, resident, W) ==
    [w \in {r.token \div W : r \in ToSet(file)} |->
        LET rows == {i \in DOMAIN file : file[i].token \div W = w}
        IN  [hits |-> Total([i \in rows |-> Cardinality(ToSet(file[i].ids) \cap resident[file[i].layer])]),
             dec  |-> Total([i \in rows |-> Cardinality(ToSet(file[i].ids))])]]

----------------------------------------------------------------------------
(* Gates 1 and 2: a run's own log against the engine's counters.           *)

\* gate1_route_check.py: model A leases every miss; model B leases each expert
\* once in the prefill, and every miss of the decode.  The picks of the
\* token before are not held in a phase of one token.  Rows of other layers are
\* not looked at; a phase of no tokens is a division by zero.
Gate1RouteCheck(file, resident, n_prompt, n_gen) ==
    LET ids  == IdsOf(file)
        n    == n_prompt + n_gen
        Phase(l, lo, hi) == SubSeq(ids[l], lo + 1, hi)
        DropUse(lo, hi)  == OverLayers(LAMBDA l : Outside(Phase(l, lo, hi), resident[l]))
        Keep(lo, hi) ==
            IF hi - lo = 1 THEN DropUse(lo, hi)
            ELSE OverLayers(LAMBDA l : Total(
                                [i \in lo + 1 .. hi |-> HeldMisses(ids[l], resident[l], i)]))
        Distinct     == OverLayers(LAMBDA l : Cardinality(DistinctIn(ids[l], 0, n_prompt) \ resident[l]))
    IN  IF (\E l \in Layers : ~InOrder(RowsOf(file, l), n)) \/ n_prompt = 0 \/ n_gen = 0
           \/ \E l \in Layers : ~UNION {ToSet(ids[l][i]) : i \in DOMAIN ids[l]} \subseteq Experts
        THEN Refused
        ELSE [ok |-> TRUE, modelA |-> DropUse(0, n_prompt) + DropUse(n_prompt, n),
              modelB |-> Distinct + DropUse(n_prompt, n),
              keep   |-> Keep(0, n_prompt) + Keep(n_prompt, n)]

\* Slip: the decode calls are numbered from the whole pieces of the prompt only.
CallOfWholePieces(t, n_prompt, ub) ==
    IF t < n_prompt THEN t \div ub ELSE (n_prompt \div ub) + (t - n_prompt)

\* call_of: the llama_decode call that computed token t.
CallOf(t, n_prompt, ub) ==
    IF t < n_prompt THEN t \div ub ELSE ((n_prompt + ub - 1) \div ub) + (t - n_prompt)

\* What each token misses, over its rows' distinct ids (per_token_miss).
TokenMisses(file, resident, n) ==
    [t \in 0 .. n - 1 |-> Total([i \in {j \in DOMAIN file : file[j].token = t} |->
                                    Cardinality(NonRes(file[i], resident))])]

\* gate2_decode_acct.py: needs of each (call, layer), hits and decisions over a
\* row's distinct ids.  Order and completeness are not checked.
Gate2DecodeAcct(file, resident, n_prompt, n_gen, ub) ==
    LET n         == n_prompt + n_gen
        prefill   == (n_prompt + ub - 1) \div ub
        Call(i)   == CallOf(file[i].token, n_prompt, ub)
        keys      == {<<Call(i), file[i].layer>> : i \in DOMAIN file}
        need      == [c \in keys |-> Cardinality(UNION {NonRes(file[i], resident) :
                          i \in {j \in DOMAIN file : <<Call(j), file[j].layer>> = c}})]
        decode    == {c \in keys : c[1] >= prefill}
    IN  IF (\E r \in ToSet(file) : r.token >= n \/ r.layer \notin Layers) \/ n_gen = 0 THEN Refused
        ELSE [ok |-> TRUE, lease_pred |-> Total(need),
              decode_leases |-> Total(Restrict(need, decode)),
              whole_peak  |-> Most({need[c] : c \in keys}),
              decode_peak |-> Most({need[c] : c \in decode}),
              misses |-> TokenMisses(file, resident, n)]

\* Slip: the first n_gen entries.
FirstCallsTimed(chunks, n_gen) == SubSeq(chunks, 1, Lower(n_gen, Len(chunks)))

\* The tail of that program, on the run's chunk_ns: "decode calls timed".
DecodeCallsTimed(chunks, n_gen) ==
    IF Len(chunks) >= n_gen THEN SubSeq(chunks, Len(chunks) - n_gen + 1, Len(chunks)) ELSE chunks

----------------------------------------------------------------------------
(* Acceptance: the same figures by a second implementation.                *)

\* Slip: a layer has every token, in whatever order.
TokensThere(file, n) == \A l \in Layers : {r.token : r \in ToSet(RowsOf(file, l))} = 0 .. n - 1

\* Each layer's tokens are expected to come in order.
OrderOk(file, n) == \A l \in Layers : InOrder(RowsOf(file, l), n)

\* accept_route.py, counts_and_order (a row out of range is an IndexError).
CountsAndOrder(file) ==
    LET hist == Histogram(file)
        n    == Len(RowsOf(file, 0))
    IN  IF \E r \in ToSet(file) : ~ValidRow(r) THEN Refused
        ELSE [ok |-> TRUE, counts |-> hist, T |-> n,
              order_ok |-> OrderOk(file, n),
              dup |-> Cardinality({i \in DOMAIN file : Repeats(file[i])})]

\* What the rows of a layer miss of a set, and their hits (per_layer_hit).
RowsAt(file, l) == {i \in DOMAIN file : file[i].layer = l}
LayerMiss(file, l, S) == Total([i \in RowsAt(file, l) |-> Outside(<<file[i].ids>>, S)])
LayerHit(file, l, S) == Total([i \in RowsAt(file, l) |-> Picks - Outside(<<file[i].ids>>, S)])

\* accept_route.py, gate0 with mass_and_miss.
AcceptGate0(file, doc, k, sweep) ==
    LET c == CountsAndOrder(file)
        Hit(sets) == OverLayers(LAMBDA l : LayerHit(file, l, sets[l]))
        Own(j)    == [l \in Layers |-> TopOf(c.counts[l], j)]
    IN  IF ~c.ok \/ (c.ok /\ \E r \in ToSet(file) : r.token >= c.T) THEN Refused
        ELSE [ok |-> TRUE, order_ok |-> c.order_ok, dup |-> c.dup,
              rederives |-> Own(k) = doc.sets[k], hits |-> Hit(doc.sets[k]),
              misses |-> [t \in 1 .. c.T |-> Total([i \in {j \in DOMAIN file : file[j].token = t - 1} |->
                                                       MissOf(file[i], doc.sets[k])])],
              ksweep |-> [j \in sweep |-> Hit(Own(j))]]

\* accept_gate0_cells.py: the cells of the tables that gate 0 printed that do
\* not come out of the log again, with a percentile read at RereadRank.
\* It checks neither order nor repeats; a row of a token that layer 0 does not
\* have is an IndexError.
GateCells(file, doc, k, sweep, printed) ==
    LET n     == Len(RowsOf(file, 0))
        hist  == Histogram(file)
        Own(j)  == [l \in Layers |-> TopOf(hist[l], j)]
        mine    == Ascending([t \in 1 .. n |->
                        Total([i \in {j \in DOMAIN file : file[j].token = t - 1} |->
                                  MissOf(file[i], doc.sets[k])])])
        theirs  == Ascending(printed.misses)
        AtRank(p) == mine[RereadRank(n, p) + 1] = theirs[NearestRank(T, p) + 1]
        Swept(j)  ==
            /\ OverLayers(LAMBDA l : LayerHit(file, l, Own(j)[l])) = printed.ksweep[j]
            /\ OverLayers(LAMBDA l : LayerMiss(file, l, Own(j)[l])) = L * T * Picks - printed.ksweep[j]
    IN  IF n = 0 \/ \E r \in ToSet(file) : ~ValidRow(r) \/ r.token >= n THEN Refused
        ELSE [ok |-> TRUE,
              disagree |-> {f \in {<<"tokens", n = T>>,
                                   <<"layers", [l \in Layers |-> LayerHit(file, l, doc.sets[k][l])]
                                                  = printed.layer_hits>>,
                                   <<"mean", Total(mine) = Total(theirs)>>,
                                   <<"extremes", mine[1] = theirs[1] /\ mine[n] = theirs[T]>>,
                                   <<"p50", AtRank(50)>>, <<"p95", AtRank(95)>>,
                                   <<"rederives", (Own(k) = doc.sets[k]) = printed.rederives>>,
                                   <<"sweep", \A j \in sweep : Swept(j)>>} : ~f[2]}]

\* A piece begins where the layer column returns to 0 from another layer.
PieceOf(file, i) == 1 + Cardinality({j \in 2 .. i : file[j].layer = 0 /\ file[j - 1].layer # 0})

\* accept_route.py, phase_split_metrics: pieces are recovered from the order of
\* the rows; a piece is decode when all its tokens at the layer are generated.
PhaseSplit(file, resident, n_prompt) ==
    LET piece   == [i \in DOMAIN file |-> PieceOf(file, i)]
        keys    == {<<piece[i], file[i].layer>> : i \in DOMAIN file}
        At(c)   == {i \in DOMAIN file : <<piece[i], file[i].layer>> = c}
        need    == [c \in keys |-> Cardinality(UNION {NonRes(file[i], resident) : i \in At(c)})]
        decode  == {c \in keys : \A i \in At(c) : file[i].token >= n_prompt}
        tail    == {i \in DOMAIN file : file[i].token >= n_prompt}
    IN  [pieces |-> Most({piece[i] : i \in DOMAIN file}),
         lease_events |-> Total(need),
         peak_all     |-> Most({need[c] : c \in keys}),
         peak_decode  |-> Most({need[c] : c \in decode}),
         decode_misses |-> Total([i \in tail |-> MissOf(file[i], resident)])]

\* accept_route.py, gate12: the comparisons that disagree with the engine.
Gate12(file, resident, n_prompt, engine) ==
    LET m == PhaseSplit(file, resident, n_prompt)
    IN  {f \in {<<"lease_events", m.lease_events = engine.lease_events>>,
                <<"peak", m.peak_all = engine.peak>>} : ~f[2]}

\* accept_gate3.py: the receipt's identities and the same derivation; the decode
\* peak is held to the picks of one token.
AcceptGate3(file, resident, n_prompt, engine) ==
    LET m == PhaseSplit(file, resident, n_prompt)
    IN  {f \in {<<"leases", m.lease_events = engine.lease_events>>,
                <<"bytes", engine.lease_events = engine.bytes_read>>,
                <<"resident", engine.resident = K * L>>,
                <<"peak", m.peak_all = engine.peak>>,
                <<"decode_peak", m.peak_decode = Picks>>} : ~f[2]}

\* accept_chunk.py: how many entries of chunk_ns it takes for the prefill, which
\* it adds up (no more than two of them), and what it leaves for decode.
AcceptChunk(chunks, n_gen) ==
    LET pieces == Len(chunks) - n_gen + 1
    IN  [pieces |-> pieces,
         head   |-> IF pieces = 1 THEN SubSeq(chunks, 1, 1) ELSE SubSeq(chunks, 1, 2),
         decode |-> Tail(chunks)]

\* accept_arith.py, per run: the identities of the counters, and the entry it
\* takes off the decode seconds as the first decode call's own time.
AcceptArith(chunks, k, engine) ==
    [disagree |-> {f \in {<<"bytes", engine.lease_events = engine.bytes_read>>,
                          <<"resident", k * L = engine.resident>>} : ~f[2]},
     first_decode |-> chunks[1]]

----------------------------------------------------------------------------
(* Two logs of the same prompt, at two schedules.                          *)

Key(r) == <<r.layer, r.token>>
Keys(file) == {Key(r) : r \in ToSet(file)}
KeyBefore(a, b) == a[1] < b[1] \/ (a[1] = b[1] /\ a[2] < b[2])

\* A log as a map: the last row of a key wins.
AsMap(file) == [k \in Keys(file) |-> file[Max({i \in DOMAIN file : Key(file[i]) = k})].ids]

\* Slip: sorted by token alone.
ByToken(file) ==
    LET at == SortSeq([i \in DOMAIN file |-> i],
                      LAMBDA i, j : file[i].token < file[j].token \/ (file[i].token = file[j].token /\ i < j))
    IN  [n \in DOMAIN file |-> file[at[n]]]

\* The rows in (layer, token) order; equal keys stay in file order.
Canonical(file) ==
    LET at == SortSeq([i \in DOMAIN file |-> i],
                      LAMBDA i, j : KeyBefore(Key(file[i]), Key(file[j])) \/ (Key(file[i]) = Key(file[j]) /\ i < j))
    IN  [n \in DOMAIN file |-> file[at[n]]]

\* Rows that differ where both logs have one.
Differing(a, b) == {i \in 1 .. Lower(Len(a), Len(b)) : a[i] # b[i]}

\* accept_cross.py: each phase in canonical order.
AcceptCross(a, b, n_prompt) ==
    LET Phase(f, decode) == Canonical(SelectSeq(f, LAMBDA r : (r.token >= n_prompt) = decode))
    IN  [identical |-> a = b,
         prefill |-> Cardinality(Differing(Phase(a, FALSE), Phase(b, FALSE))),
         decode  |-> Cardinality(Differing(Phase(a, TRUE), Phase(b, TRUE)))]

\* accept_sched.py: as a multiset of rows, as a map, in canonical order, and as
\* files.
AcceptSched(a, b, n_prompt) ==
    LET ma    == AsMap(a)
        mb    == AsMap(b)
        diffs == {k \in DOMAIN ma : k \notin DOMAIN mb \/ (k \in DOMAIN mb /\ ma[k] # mb[k])}
        Copies(f, r) == Cardinality({i \in DOMAIN f : f[i] = r})
    IN  [multiset |-> \A r \in ToSet(a) \cup ToSet(b) : Copies(a, r) = Copies(b, r),
         keys |-> DOMAIN ma = DOMAIN mb, diffs |-> diffs,
         prefill |-> {k \in diffs : k[2] < n_prompt}, decode |-> {k \in diffs : k[2] >= n_prompt},
         canonical |-> Canonical(a) = Canonical(b), posdiff |-> Cardinality(Differing(a, b))]

\* route_compare.py: the same question over the keys both logs have.
RouteCompare(a, b) ==
    LET ma == AsMap(a)
        mb == AsMap(b)
        common == DOMAIN ma \cap DOMAIN mb
    IN  [order |-> [i \in DOMAIN a |-> Key(a[i])] = [i \in DOMAIN b |-> Key(b[i])],
         keys  |-> DOMAIN ma = DOMAIN mb,
         diff  |-> {k \in common : ma[k] # mb[k]},
         same_picks |-> Total([k \in common |-> Cardinality(ToSet(ma[k]) \cap ToSet(mb[k]))]),
         canonical  |-> ma = mb]

=============================================================================
