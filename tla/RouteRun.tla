------------------------------ MODULE RouteRun ------------------------------
(***************************************************************************)
(* A run of the engine with leased experts, as the programs of RouteGates  *)
(* take it to be: one llama_decode call per piece of the prompt and per    *)
(* generated token; in a call one route call per layer, which appends the  *)
(* layer's rows to the log, gives back what the layer before leased and    *)
(* leases what this one needs.  Then a fault in the file that was kept.    *)
(***************************************************************************)
EXTENDS RouteGates

VARIABLES
    stage,          \* "idle", "running", "done", "damaged"
    routing,        \* routing[l]: the ids of each token, as the router ranks them
    resident,       \* resident[l]: the set held through the run
    shape,          \* n_prompt, n_gen, ub
    first, il,      \* the call's first token, the layer whose turn it is
    file,           \* the route log
    lease_events,   \* per layer
    peak_leased,    \* experts, the largest route call
    decode_leased,  \* and the largest of the decode calls, which the engine does not print
    chunks,         \* chunk_ns: the tokens computed between two layer-0 route calls
    doc,            \* what resident_sets_knee.py made of the finished log
    fault           \* what happened to the file since

runVars == <<stage, routing, resident, shape, first, il, file, lease_events,
             peak_leased, decode_leased, chunks, doc, fault>>

RunInit ==
    /\ stage = "idle" /\ fault = "none"
    /\ routing = <<>> /\ resident = <<>> /\ shape = <<>> /\ doc = Refused
    /\ first = 0 /\ il = 0 /\ file = <<>> /\ chunks = <<>>
    /\ lease_events = [l \in Layers |-> 0] /\ peak_leased = 0 /\ decode_leased = 0

Launch(ids, sets, n_prompt, ub) ==
    /\ stage = "idle" /\ stage' = "running"
    /\ routing' = ids /\ resident' = sets
    /\ shape' = [n_prompt |-> n_prompt, n_gen |-> T - n_prompt, ub |-> ub]
    /\ UNCHANGED <<first, il, file, lease_events, peak_leased, decode_leased, chunks, doc, fault>>

CallEnd(lo) == IF lo < shape.n_prompt THEN Lower(lo + shape.ub, shape.n_prompt) ELSE lo + 1
Emit(l, lo, hi) ==
    [i \in 1 .. hi - lo |-> [layer |-> l, token |-> lo + i - 1, ids |-> routing[l][lo + i]]]

RunCall ==
    /\ stage = "running"
    /\ LET hi   == CallEnd(first)
           need == Cardinality(DistinctIn(routing[il], first, hi) \ resident[il])
           ends == hi = T /\ il = L - 1
           log  == file \o Emit(il, first, hi)
       IN  /\ file' = log
           /\ lease_events' = [lease_events EXCEPT ![il] = @ + need]
           /\ peak_leased' = Max({peak_leased, need})
           /\ decode_leased' = IF first < shape.n_prompt THEN decode_leased ELSE Max({decode_leased, need})
           /\ chunks' = IF il > 0 \/ first = 0 THEN chunks
                        ELSE Append(chunks, <<IF chunks = <<>> THEN 0 ELSE Last(chunks)[2], first>>)
           /\ il' = (il + 1) % L
           /\ first' = IF il = L - 1 THEN hi ELSE first
           /\ stage' = IF ends THEN "done" ELSE "running"
           /\ doc' = IF ends THEN ResidentSetsKnee(log, 0 .. E) ELSE doc
    /\ UNCHANGED <<routing, resident, shape, fault>>

----------------------------------------------------------------------------
(* The file is damaged: cut short by a full disk or a kill, edited, or      *)
(* written twice because a second run found it there.                       *)

Rewritten(i, row) == ReplaceAt(file, i, row)
Reids(i, ids) == Rewritten(i, [file[i] EXCEPT !.ids = ids])

DamagedFile(f, i) ==
    CASE f = "lost"       -> RemoveAt(file, i)
      [] f = "doubled"    -> InsertAt(file, i, file[i])
      [] f = "truncated"  -> SubSeq(file, 1, i)
      [] f = "twice"      -> file \o file
      [] f = "swapped"    -> [file EXCEPT ![i] = file[i + 1], ![i + 1] = file[i]]
      [] f = "renumbered" -> Rewritten(i, [file[i] EXCEPT !.token = (@ + 1) % T])
      [] f = "no expert"  -> Reids(i, [file[i].ids EXCEPT ![1] = E])
      [] f = "repeated"   -> Reids(i, [file[i].ids EXCEPT ![Picks] = file[i].ids[1]])
      [] f = "rerouted"   -> Reids(i, [file[i].ids EXCEPT ![Picks] = Min(Experts \ ToSet(file[i].ids))])

Faults == {"lost", "doubled", "truncated", "twice", "swapped", "renumbered",
           "no expert", "repeated", "rerouted"}

Damage(f, i) ==
    /\ stage = "done" /\ i \in 1 .. Len(file) - 1
    /\ stage' = "damaged" /\ fault' = f
    /\ file' = DamagedFile(f, i)
    /\ UNCHANGED <<routing, resident, shape, first, il, lease_events, peak_leased,
                   decode_leased, chunks, doc>>

----------------------------------------------------------------------------
(* Every run: a row's picks are Picks experts in some order, the layers hold *)
(* as many experts each.                                                    *)

Rankings == {r \in [1 .. Picks -> Experts] : \A i, j \in 1 .. Picks : r[i] = r[j] => i = j}
EvenSets == {sets \in [Layers -> SUBSET Experts] :
                \A l \in Layers : Cardinality(sets[l]) = Cardinality(sets[0])}

RunNext ==
    \/ \E routes \in [Layers -> [1 .. T -> Rankings]], sets \in EvenSets,
          n_prompt \in 1 .. T, ub \in Nat \ {0} : Launch(routes, sets, n_prompt, ub)
    \/ RunCall
    \/ \E f \in Faults, i \in 1 .. Len(file) - 1 : Damage(f, i)
RunSpec == RunInit /\ [][RunNext]_runVars

----------------------------------------------------------------------------
(* Properties.                                                             *)

Kept == stage \in {"done", "damaged"}
Intact == stage = "done"

\* What the engine prints at the end, in slices.
Counters ==
    [lease_events |-> Total(lease_events), bytes_read |-> Total(lease_events), peak |-> peak_leased,
     resident |-> OverLayers(LAMBDA l : Cardinality(resident[l]))]

\* The cells of gate 0's tables that are percentiles.
Percentile == [p50 |-> 50, p95 |-> 95]

\* Three implementations of gate 0, numpy columns, plain rows and the cells of
\* the printed tables, agree on every file that was kept: gate0_top8.py takes it
\* exactly when accept_route.py finds it in order and without repeats, and then
\* they and the miss predictors give the same figures, token by token and for
\* every k.  Of the cells only a percentile can come out otherwise, and only at
\* a length at which the acceptance reads the entry after the one that numpy
\* takes: the median at 6 tokens; at 12, and at the 65536 of the banked log, the
\* 95th percentile.
GatesAgree ==
    Kept =>
        LET g == Gate0Top8(file, doc, K, 0 .. E)
            a == AcceptGate0(file, doc, K, 0 .. E)
            m == MissRate(file, doc, K)
            s == SimMiss(file, doc.sets[K], K)
        IN  /\ g.ok <=> (a.ok /\ a.order_ok /\ a.dup = 0 /\ Len(file) = L * T)
            /\ g.ok => /\ g.hits = a.hits /\ g.misses = a.misses /\ g.ksweep = a.ksweep
                       /\ g.rederives = a.rederives /\ Total(g.layer_hits) = g.hits
                       /\ GateCells(file, doc, K, 1 .. E - 1, g).disagree
                            \subseteq {<<c, FALSE>> : c \in {d \in DOMAIN Percentile :
                                           RereadRank(T, Percentile[d])
                                               = NearestRank(T, Percentile[d]) + 1}}
                       /\ {m, s} = {[ok |-> TRUE, misses |-> Total(g.misses)]}
                       /\ g.hits + Total(g.misses) = L * T * Picks
                       /\ Total(g.keep) <= Total(g.misses)
                       /\ Total(Metrics(file, {2}).p_half) = g.ksweep[E \div 2]
                       /\ Gate2Sets(ResidentSets(file, 0 .. E), K, 0 .. E).hit = g.ksweep
                       /\ SetMix(file, file, 0 .. E).sets = ResidentSetsKnee(file, 0 .. E).sets

\* What a damaged log can do to the programs that trust the strict loader: it is
\* refused, or gives every layer the ids the engine logged, but for a row whose
\* ids were altered; of those a repeated id is refused by gate 0 and counted by
\* the format check, and a different one shows only where the log is compared
\* with what was made of it: verify_sets_120b.py, and two picks between the
\* histograms that rs053-cross.py subtracts.
DamageShows ==
    stage = "damaged" /\ Loads(file) =>
        LET cross == Cross(Metrics(doc.source, {}), Metrics(file, {}), 1)
        IN  /\ Valid(Validate(file)) /\ VerifySets(file, doc, K).failures # {}
            /\ fault # "rerouted" => IdsOf(file) = routing \/ fault = "repeated"
            /\ fault = "repeated" => ~Gate0Top8(file, doc, K, {}).ok /\ Validate(file).repeats > 0
            /\ Total(cross.l1) = IF fault \in {"repeated", "rerouted"} THEN 2 ELSE 0

\* The engine's counters are a function of the log: whatever the schedule, the
\* two derivations (calls from the shape, pieces from the order of the rows)
\* give its lease events, its peak and the decode peak it does not print, which
\* is at most one token's picks; gate 1's model B does for a one-piece prompt
\* and is a lower bound for others, as model A is an upper one.
LeasesRederived ==
    Intact =>
        LET events == Counters.lease_events
            n      == shape.n_prompt
            two == Gate2DecodeAcct(file, resident, n, shape.n_gen, shape.ub)
            one == Gate1RouteCheck(file, resident, n, shape.n_gen)
            m   == PhaseSplit(file, resident, n)
        IN  /\ Gate12(file, resident, n, Counters) = {}
            /\ m.peak_decode = decode_leased /\ decode_leased <= Picks
            /\ Cardinality(resident[0]) = K =>
                 /\ AcceptGate3(file, resident, n, Counters) \subseteq {<<"decode_peak", FALSE>>}
                 /\ shape.n_gen > 0 => AcceptArith(chunks, K, Counters).disagree = {}
            /\ two.ok =>
                 /\ two.lease_pred = events /\ two.whole_peak = peak_leased
                 /\ two.decode_peak = decode_leased /\ two.decode_leases = m.decode_misses
                 /\ two.misses = [t \in 0 .. T - 1 |-> OverLayers(
                                     LAMBDA l : Cardinality(ToSet(routing[l][t + 1]) \ resident[l]))]
            /\ one.ok =>
                 /\ one.modelB <= events /\ events <= one.modelA /\ one.keep <= one.modelA
                 /\ n <= shape.ub => one.modelB = events

\* The predictors, on a log that is all prompt: lease events of each layer and
\* the peak, when the chunk they are given is the run's and divides it; the
\* distinct experts per window are those that the locality programs report.
LeasesPredicted ==
    Intact /\ shape.n_gen = 0 =>
        LET p == PredictLeases(file, resident, K, shape.ub)
            q == Predict120(file, resident, K, shape.ub)
            w == Gate0Window(file, resident, shape.ub)
        IN  /\ p.events = q.events /\ p.peak = q.peak /\ p.events = Total(w.nonresident)
            /\ \A l \in Layers : q.per_layer[l] <= lease_events[l]
            /\ T % shape.ub = 0 => q.per_layer = lease_events /\ q.peak = peak_leased
            /\ p.matches_rule /\ T % shape.ub = 0 => peak_leased = E - K
            /\ Total([t \in DOMAIN WindowMass(file, resident, shape.ub) |->
                        WindowMass(file, resident, shape.ub)[t].dec
                        - WindowMass(file, resident, shape.ub)[t].hits])
                 = SimMiss(file, resident, Cardinality(resident[0])).misses
            /\ resident[0] = {} /\ T % shape.ub = 0 =>
                 w.nonresident = Metrics(file, {shape.ub}).pooled[shape.ub]

\* chunk_ns and the programs that read it: one entry per call but the last; the
\* entries accept_chunk.py takes for the prefill are it (when it had no more
\* than two pieces), and gate 2's "decode calls timed" has one call of it in.
\* The entry accept_arith.py takes for the first decode call is the prefill's.
ChunksRead ==
    Intact /\ shape.n_gen > 0 =>
        LET a == AcceptChunk(chunks, shape.n_gen)
            timed == DecodeCallsTimed(chunks, shape.n_gen)
        IN  /\ a.pieces = Cardinality({i \in DOMAIN chunks : chunks[i][1] < shape.n_prompt})
            /\ a.pieces <= 2 => Last(a.head)[2] = shape.n_prompt
            /\ AcceptArith(chunks, K, Counters).first_decode[1] < shape.n_prompt
            /\ timed[1][2] = shape.n_prompt /\ Last(timed)[2] = T - 1

=============================================================================
