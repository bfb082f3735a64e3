----------------------------- MODULE EngineWalk -----------------------------
(***************************************************************************)
(* The engine-shaped walk of research/ob2/engine_walk_check.py.            *)
(*                                                                         *)
(* The engine is handed one micro-batch per layer in graph order (every    *)
(* layer of micro-batch 0, then every layer of micro-batch 1, ...).  A     *)
(* route call cuts its micro-batch at the recompute boundaries inside it;  *)
(* one iteration of that loop is the action Piece, the memory accounting   *)
(* that ends the call is the action Settle.                                *)
(*                                                                         *)
(* The route log is an input.  It is chosen one piece at a time, when the  *)
(* walk reads it; log is the part read so far.                             *)
(***************************************************************************)
EXTENDS ResidencyPolicy

CONSTANTS
    L,             \* number of layers
    Budget,        \* tokens in the route log of a layer
    Ubatch,        \* tokens of a micro-batch
    MaxToken       \* boundaries at or after this token are not traced

ASSUME WalkAssumption ==
    /\ L \in Nat \ {0}
    /\ Budget \in Nat
    /\ Ubatch \in Nat \ {0}
    /\ MaxToken \in Nat

Layers == 0 .. (L - 1)

VARIABLES
    cnt, res, phys, tok,           \* per layer, carried from call to call
    lo, il, t, runion, need,       \* the loops' position and a call's locals
    misses, picks, churn, boundaries,
    lease_events, evict_events, promote_events, trans_events,
    physneed_max, physneed_sum, physneed_n,
    lines,     \* the trace: <<layer, boundary, resident set>>
    log        \* log[l]: the rows of layer l read so far

policyStats == <<misses, picks, churn, boundaries>>
memoryStats == <<lease_events, evict_events, promote_events, trans_events,
                 physneed_max, physneed_sum, physneed_n>>
vars == <<cnt, res, phys, tok, lo, il, t, runion, need, misses, picks,
          churn, boundaries, lease_events, evict_events, promote_events,
          trans_events, physneed_max, physneed_sum, physneed_n, lines, log>>

\* The outer loop has a micro-batch left (lo is its first token, the code's
\* ub * ubatch), and how many tokens that micro-batch holds.
Running == lo < Budget
NTokens == Lower(Budget, lo + Ubatch) - lo

Init ==
    /\ cnt = [l \in Layers |-> NoCounts]
    /\ res = [l \in Layers |-> ColdSet]
    /\ phys = [l \in Layers |-> ColdSet]
    /\ tok = [l \in Layers |-> 0]
    /\ lo = 0 /\ il = 0 /\ t = 0
    /\ runion = {} /\ need = {}
    /\ misses = 0 /\ picks = 0 /\ churn = 0 /\ boundaries = 0
    /\ lease_events = 0 /\ evict_events = 0 /\ promote_events = 0 /\ trans_events = 0
    /\ physneed_max = 0 /\ physneed_sum = 0 /\ physneed_n = 0
    /\ lines = {}
    /\ log = [l \in Layers |-> <<>>]

----------------------------------------------------------------------------
(* The piece a route call is at: the tokens from AbsT up to the next       *)
(* recompute boundary or the end of the micro-batch.                       *)

AbsT == tok[il] + t

\* Slip: boundaries are counted from the start of the micro-batch.
AtLocalBoundary == t % H = 0

AtBoundary == AbsT % H = 0

\* Slip: the whole rest of the micro-batch.
SpanOfMicroBatch == NTokens - t

Span == Lower(H - (AbsT % H), NTokens - t)

\* The counters and the resident set the piece is served with.
PieceCounters == IF AtBoundary /\ AbsT > 0 THEN Decay(cnt[il]) ELSE cnt[il]
PieceResident == IF ~AtBoundary THEN res[il]
                 ELSE IF AbsT > 0 THEN TopK(PieceCounters) ELSE ColdSet

\* One iteration of the loop over the pieces of a micro-batch.
Piece ==
    /\ Running /\ t < NTokens
    /\ \E seg \in [1 .. Span -> Rows] :
        /\ cnt' = [cnt EXCEPT ![il] = Accumulate(PieceCounters, seg)]
        /\ misses' = misses + Misses(seg, PieceResident)
        /\ need' = need \cup UNION {seg[i] : i \in 1 .. Span}
        /\ log' = [log EXCEPT ![il] = @ \o seg]
    /\ res' = [res EXCEPT ![il] = PieceResident]
    /\ churn' = churn + (IF AtBoundary /\ AbsT > 0
                         THEN Cardinality(SymmetricDifference(res[il], PieceResident)) ELSE 0)
    /\ boundaries' = boundaries + (IF AtBoundary THEN 1 ELSE 0)
    /\ lines' = lines \cup (IF AtBoundary /\ AbsT < MaxToken
                            THEN {<<il, AbsT, PieceResident>>} ELSE {})
    /\ runion' = runion \cup PieceResident
    /\ picks' = picks + Span * Picks
    /\ t' = t + Span
    /\ UNCHANGED <<phys, tok, lo, il>>
    /\ UNCHANGED memoryStats

\* What the call needed in memory at once, and what that makes it evict, lease
\* in and, once the layer is computed, drop.
PNeed     == runion \cup need
Evicted   == phys[il] \ PNeed

\* Slips: loads counted against the policy's set; everything loaded again.
LeasedFromPolicy == PNeed \ res[il]
LeasedAgain      == PNeed

LeasedIn  == PNeed \ (phys[il] \ Evicted)
InMemory  == (phys[il] \ Evicted) \cup LeasedIn

\* Slip: only what this call loaded is dropped.
TransientOfCall == LeasedIn \ res[il]

Transient == InMemory \ res[il]

\* The end of a route call: evict, lease in, drop the transients, and hand the
\* next layer (or the first layer of the next micro-batch) its turn.
Settle ==
    /\ Running /\ t = NTokens
    /\ physneed_sum' = physneed_sum + Cardinality(PNeed)
    /\ physneed_n' = physneed_n + 1
    /\ physneed_max' = IF Cardinality(PNeed) > physneed_max
                       THEN Cardinality(PNeed) ELSE physneed_max
    /\ evict_events' = evict_events + Cardinality(Evicted)
    /\ lease_events' = lease_events + Cardinality(LeasedIn)
    /\ promote_events' = promote_events + Cardinality(LeasedIn \cap res[il])
    /\ trans_events' = trans_events + Cardinality(Transient)
    /\ phys' = [phys EXCEPT ![il] = InMemory \ Transient]
    /\ tok' = [tok EXCEPT ![il] = @ + NTokens]
    /\ t' = 0 /\ runion' = {} /\ need' = {}
    /\ il' = IF il = L - 1 THEN 0 ELSE il + 1
    /\ lo' = IF il = L - 1 THEN lo + Ubatch ELSE lo
    /\ UNCHANGED <<cnt, res, lines, log>>
    /\ UNCHANGED policyStats

Next == Piece \/ Settle

Spec == Init /\ [][Next]_vars

----------------------------------------------------------------------------
(* Properties.                                                             *)

Stats == {misses, picks, churn, boundaries, lease_events, evict_events,
          promote_events, trans_events, physneed_max, physneed_sum, physneed_n}

\* Types of the carried state, the call's locals and the counters.
TypeOK ==
    /\ cnt \in [Layers -> [Experts -> Nat]]
    /\ res \in [Layers -> SUBSET Experts]
    /\ phys \in [Layers -> SUBSET Experts]
    /\ tok \in [Layers -> Nat]
    /\ lo \in Nat /\ il \in Layers /\ t \in Nat
    /\ runion \in SUBSET Experts /\ need \in SUBSET Experts
    /\ Stats \subseteq Nat

\* The policy always keeps exactly K experts of every layer: engine_walk may
\* never leave a boundary with a short or an overfull resident set.
KResident == \A l \in Layers : IsFiniteSet(res[l]) /\ Cardinality(res[l]) = K

\* Between two route calls of a layer its memory holds the resident set it
\* was left with and nothing else: every transient load was dropped, every
\* promoted expert was kept, and no layer's turn disturbs another layer.
PhysIsResident ==
    \A l \in Layers : (l = il /\ t > 0) \/ phys[l] = res[l]

\* Every load that engine_walk counts is paid back: it ends in an eviction or
\* a transient drop, whatever the micro-batch shape and the routing were.
LeaseLedger == lease_events = evict_events + trans_events

\* A load the new residency keeps (a promotion) replaces another expert, so
\* the policy's churn counts it twice; a call in progress already shows in
\* churn the difference its Settle will have to load.
PromotionsAreChurn ==
    2 * promote_events + Cardinality(SymmetricDifference(phys[il], res[il])) <= churn

\* engine_walk is an implementation of the decay policy: layer l has consumed
\* tok[l] tokens, and t more if its route call is in progress.
Policy == INSTANCE DecayPolicy WITH
            pos <- [l \in Layers |-> tok[l] + (IF l = il THEN t ELSE 0)]
ImplementsDecayPolicy == Policy!Spec

=============================================================================
