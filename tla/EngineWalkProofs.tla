-------------------------- MODULE EngineWalkProofs --------------------------
(***************************************************************************)
(* The safety properties of EngineWalk, its agreement with the simulators  *)
(* (MCEngineWalk) and its refinement of DecayPolicy,                       *)
(* for every number of layers and experts, every K and H, and every budget *)
(* and micro-batch size.                                                   *)
(***************************************************************************)
EXTENDS MCEngineWalk, ResidencyProofs

(* The facts about a route call in progress on which the invariants rest:  *)
(* the memory of a layer has the size of its resident set; once a piece is *)
(* done the resident set in force is part of what the call needs; and a    *)
(* layer that has read nothing still has the cold-start set, which is why  *)
(* the walk may leave boundary 0 out of churn.                             *)
CallInv ==
    /\ \A l \in Layers : Cardinality(phys[l]) = K
    /\ t > 0 => res[il] \subseteq runion
    /\ \A l \in Layers : tok[l] = 0 /\ (l = il => t = 0) => res[l] = ColdSet

IInv ==
    /\ TypeOK
    /\ KResident
    /\ PhysIsResident
    /\ CallInv
    /\ LeaseLedger
    /\ PromotionsAreChurn

----------------------------------------------------------------------------
(* Facts about one piece.                                                  *)

(* A piece is not empty and does not cross a recompute boundary.           *)
LEMMA PieceSpan ==
    ASSUME TypeOK, Running, t < NTokens
    PROVE  /\ AbsT \in Nat
           /\ Span \in 1 .. H
           /\ (AbsT % H) + Span <= H
           /\ t + Span <= NTokens
<1>1. AbsT \in Nat /\ NTokens \in Int /\ t \in Nat
    BY WalkAssumption DEF TypeOK, AbsT, NTokens, Lower
<1>2. AbsT % H \in 0 .. (H - 1)
    BY <1>1, PolicyAssumption
<1>3. H - (AbsT % H) \in 1 .. H /\ NTokens - t \in Nat \ {0}
    <2>1. NTokens - t \in Nat \ {0}
        BY <1>1
    <2>2. H - (AbsT % H) \in 1 .. H
        BY <1>2, PolicyAssumption
    <2>3. QED BY <2>1, <2>2
<1>4. Span \in 1 .. H /\ Span <= NTokens - t /\ Span <= H - (AbsT % H)
    BY <1>3, PolicyAssumption DEF Span, Lower
<1>5. QED BY <1>1, <1>2, <1>4, PolicyAssumption

(* The resident set a piece is served with has exactly K experts.          *)
LEMMA PieceResidentSize ==
    ASSUME TypeOK, KResident
    PROVE  /\ PieceCounters \in [Experts -> Nat]
           /\ PieceResident \in SUBSET Experts
           /\ Cardinality(PieceResident) = K
<1>1. cnt[il] \in [Experts -> Nat] /\ res[il] \in SUBSET Experts /\ Cardinality(res[il]) = K
    BY DEF TypeOK, KResident
<1>2. Decay(cnt[il]) \in [Experts -> Nat]
    BY <1>1 DEF Decay
<1>3. PieceCounters \in [Experts -> Nat]
    BY <1>1, <1>2 DEF PieceCounters
<1>4. TopK(PieceCounters) \in SUBSET Experts /\ Cardinality(TopK(PieceCounters)) = K
    BY <1>3, TopKSize
<1>5. QED BY <1>1, <1>3, <1>4, ColdSetSize DEF PieceResident

(* Symmetric difference is a metric on the sets of experts.                *)
LEMMA DifferenceTriangle ==
    ASSUME NEW A \in SUBSET Experts, NEW B \in SUBSET Experts, NEW C \in SUBSET Experts
    PROVE  /\ Cardinality(SymmetricDifference(A, B)) \in Nat
           /\ Cardinality(SymmetricDifference(A, A)) = 0
           /\ Cardinality(SymmetricDifference(A, C)) <=
                 Cardinality(SymmetricDifference(A, B)) + Cardinality(SymmetricDifference(B, C))
<1> DEFINE AB == SymmetricDifference(A, B)
           BC == SymmetricDifference(B, C)
           AC == SymmetricDifference(A, C)
<1>1. AB \in SUBSET Experts /\ BC \in SUBSET Experts /\ AC \in SUBSET Experts
    BY DEF SymmetricDifference
<1>2. AC \in SUBSET (AB \cup BC) /\ SymmetricDifference(A, A) = {}
    BY DEF SymmetricDifference
<1> HIDE DEF AB, BC, AC
<1>3. /\ IsFiniteSet(AB) /\ IsFiniteSet(BC)
      /\ Cardinality(AB) \in Nat /\ Cardinality(BC) \in Nat /\ Cardinality(AC) \in Nat
    BY <1>1, ExpertSetsFinite
<1>4. /\ IsFiniteSet(AB \cup BC)
      /\ Cardinality(AB \cup BC) = Cardinality(AB) + Cardinality(BC) - Cardinality(AB \cap BC)
    BY <1>3, FS_Union
<1>5. Cardinality(AB \cap BC) \in Nat
    <2>1. AB \cap BC \in SUBSET Experts
        BY <1>1
    <2>2. QED BY <2>1, ExpertSetsFinite
<1>6. Cardinality(AC) <= Cardinality(AB \cup BC)
    BY <1>2, <1>4, FS_Subset
<1>7. Cardinality(AC) <= Cardinality(AB) + Cardinality(BC)
    BY <1>3, <1>4, <1>5, <1>6
<1>8. Cardinality({}) = 0
    BY FS_EmptySet
<1>9. QED BY <1>2, <1>3, <1>7, <1>8 DEF AB, BC, AC

----------------------------------------------------------------------------
(* The invariant.                                                          *)

(* The cold start satisfies it.                                            *)
LEMMA InitIInv == Init => IInv
<1> SUFFICES ASSUME Init PROVE IInv
    OBVIOUS
<1> USE DEF Init
<1>1. IsFiniteSet(ColdSet)
    BY ColdSetSize, ExpertSetsFinite
<1>2. TypeOK
    <2>1. 0 \in Layers
        BY WalkAssumption DEF Layers
    <2>2. NoCounts \in [Experts -> Nat]
        BY DEF NoCounts
    <2>3. QED BY <2>1, <2>2, ColdSetSize DEF TypeOK, Stats
<1>3. KResident
    BY <1>1, ColdSetSize DEF KResident
<1>4. PhysIsResident
    BY DEF PhysIsResident
<1>5. CallInv
    BY ColdSetSize DEF CallInv
<1>6. LeaseLedger
    BY DEF LeaseLedger
<1>7. PromotionsAreChurn
    <2>1. phys[il] = res[il] /\ res[il] = ColdSet
        BY <1>2 DEF TypeOK
    <2>2. Cardinality(SymmetricDifference(ColdSet, ColdSet)) = 0
        BY ColdSetSize, DifferenceTriangle
    <2>3. QED BY <2>1, <2>2 DEF PromotionsAreChurn
<1>8. QED BY <1>2, <1>3, <1>4, <1>5, <1>6, <1>7 DEF IInv

(* A piece keeps the invariant: it moves residency and policy counters.    *)
LEMMA PieceIInv == IInv /\ Piece => IInv'
<1> SUFFICES ASSUME IInv, Piece PROVE IInv'
    OBVIOUS
<1>1. /\ TypeOK /\ KResident /\ PhysIsResident /\ CallInv /\ LeaseLedger /\ PromotionsAreChurn
      /\ Running /\ t < NTokens
    BY DEF IInv, Piece
<1>2. PICK seg \in [1 .. Span -> Rows] :
        /\ cnt' = [cnt EXCEPT ![il] = Accumulate(PieceCounters, seg)]
        /\ misses' = misses + Misses(seg, PieceResident)
        /\ need' = need \cup UNION {seg[i] : i \in 1 .. Span}
    BY DEF Piece
<1>3. /\ res' = [res EXCEPT ![il] = PieceResident]
      /\ churn' = churn + (IF AtBoundary /\ AbsT > 0
                           THEN Cardinality(SymmetricDifference(res[il], PieceResident)) ELSE 0)
      /\ boundaries' = boundaries + (IF AtBoundary THEN 1 ELSE 0)
      /\ runion' = runion \cup PieceResident
      /\ picks' = picks + Span * Picks
      /\ t' = t + Span
      /\ UNCHANGED <<phys, tok, lo, il>> /\ UNCHANGED memoryStats
    BY DEF Piece
<1>4. /\ AbsT \in Nat /\ Span \in 1 .. H /\ Span \in Nat /\ H \in Nat
      /\ il \in Layers /\ t \in Nat
    BY <1>1, PieceSpan, PolicyAssumption DEF TypeOK
<1>5. /\ PieceCounters \in [Experts -> Nat]
      /\ PieceResident \in SUBSET Experts
      /\ Cardinality(PieceResident) = K
      /\ IsFiniteSet(PieceResident)
    BY <1>1, PieceResidentSize, ExpertSetsFinite
<1>6. res[il] \in SUBSET Experts /\ phys[il] \in SUBSET Experts /\ res'[il] = PieceResident
    BY <1>1, <1>3, <1>4 DEF TypeOK
<1>7. Cardinality(SymmetricDifference(res[il], PieceResident)) \in Nat
    BY <1>5, <1>6, DifferenceTriangle
<1>8. t' \in Nat /\ t' > 0
    BY <1>3, <1>4
<1>9. TypeOK'
    <2>1. Accumulate(PieceCounters, seg) \in [Experts -> Nat] /\ Misses(seg, PieceResident) \in Nat
        BY <1>4, <1>5, CountersAreNaturals, MissesAreNaturals
    <2>2. need' \in SUBSET Experts
        <3>1. \A i \in 1 .. Span : seg[i] \in SUBSET Experts
            BY DEF Rows
        <3>2. QED BY <1>1, <1>2, <3>1 DEF TypeOK
    <2>3. Stats' \subseteq Nat
        <3>0. misses \in Nat /\ picks \in Nat /\ churn \in Nat /\ boundaries \in Nat
            BY <1>1 DEF TypeOK, Stats
        <3>1. misses' \in Nat
            BY <1>2, <2>1, <3>0
        <3>2. picks' \in Nat
            <4>1. Span * Picks \in Nat
                BY <1>4, PolicyAssumption
            <4>2. QED BY <1>3, <3>0, <4>1
        <3>3. churn' \in Nat /\ boundaries' \in Nat
            BY <1>3, <1>7, <3>0
        <3>4. QED BY <1>1, <1>3, <3>1, <3>2, <3>3 DEF TypeOK, Stats, memoryStats
    <2>4. cnt' \in [Layers -> [Experts -> Nat]] /\ res' \in [Layers -> SUBSET Experts]
        BY <1>1, <1>2, <1>3, <1>5, <2>1 DEF TypeOK
    <2>5. QED BY <1>1, <1>3, <1>5, <1>8, <2>2, <2>3, <2>4 DEF TypeOK
<1>10. KResident'
    BY <1>1, <1>3, <1>5 DEF KResident, TypeOK
<1>11. PhysIsResident'
    BY <1>1, <1>3, <1>8 DEF PhysIsResident, TypeOK
<1>12. CallInv'
    <2>1. res'[il'] \subseteq runion'
        BY <1>3, <1>6
    <2>2. ASSUME NEW l \in Layers, tok'[l] = 0, l = il' => t' = 0 PROVE res'[l] = ColdSet
        <3>1. l # il
            BY <1>3, <1>8, <2>2
        <3>2. res'[l] = res[l] /\ tok[l] = 0
            BY <1>1, <1>3, <2>2, <3>1 DEF TypeOK
        <3>3. QED BY <1>1, <3>1, <3>2 DEF CallInv
    <2>3. QED BY <1>1, <1>3, <2>1, <2>2 DEF CallInv
<1>13. LeaseLedger'
    BY <1>1, <1>3 DEF LeaseLedger, memoryStats
<1>14. PromotionsAreChurn'
    <2>1. Cardinality(SymmetricDifference(phys[il], PieceResident)) <=
             Cardinality(SymmetricDifference(phys[il], res[il]))
             + Cardinality(SymmetricDifference(res[il], PieceResident))
        BY <1>5, <1>6, DifferenceTriangle
    <2>2. ~(AtBoundary /\ AbsT > 0) => res[il] = PieceResident
        <3>1. CASE ~AtBoundary
            BY <3>1 DEF PieceResident
        <3>2. CASE AtBoundary /\ ~(AbsT > 0)
            <4>1. AbsT = 0 /\ tok[il] = 0 /\ t = 0
                BY <1>1, <1>4, <3>2 DEF AbsT, TypeOK
            <4>2. QED BY <1>1, <1>4, <3>2, <4>1 DEF PieceResident, CallInv
        <3>3. QED BY <3>1, <3>2
    <2>3. Cardinality(SymmetricDifference(phys[il], PieceResident)) \in Nat
          /\ Cardinality(SymmetricDifference(phys[il], res[il])) \in Nat
        BY <1>5, <1>6, DifferenceTriangle
    <2>4. 2 * promote_events + Cardinality(SymmetricDifference(phys[il], PieceResident)) <= churn'
        <3>1. promote_events \in Nat /\ churn \in Nat
            BY <1>1 DEF TypeOK, Stats
        <3>2. 2 * promote_events + Cardinality(SymmetricDifference(phys[il], res[il])) <= churn
            BY <1>1 DEF PromotionsAreChurn
        <3>3. CASE AtBoundary /\ AbsT > 0
            BY <1>3, <1>7, <2>1, <2>3, <3>1, <3>2, <3>3
        <3>4. CASE ~(AtBoundary /\ AbsT > 0)
            BY <1>3, <2>2, <3>1, <3>2, <3>4
        <3>5. QED BY <3>3, <3>4
    <2>5. QED BY <1>3, <1>6, <2>4 DEF PromotionsAreChurn, memoryStats
<1>15. QED BY <1>9, <1>10, <1>11, <1>12, <1>13, <1>14 DEF IInv

(* What a call does to the memory of its layer: it ends with the resident  *)
(* set, and its loads are its evictions plus its transient drops.          *)
LEMMA SettledCall ==
    ASSUME IInv, Running, t = NTokens
    PROVE  /\ InMemory \ Transient = res[il]
           /\ Cardinality(LeasedIn) = Cardinality(Evicted) + Cardinality(Transient)
           /\ 2 * Cardinality(LeasedIn \cap res[il]) =
                 Cardinality(SymmetricDifference(phys[il], res[il]))
           /\ \A S \in {PNeed, Evicted, LeasedIn, LeasedIn \cap res[il], Transient} :
                 Cardinality(S) \in Nat
<1> DEFINE held == phys[il]
           keep == res[il]
<1>1. TypeOK /\ KResident /\ CallInv
    BY DEF IInv
<1>2. t > 0
    BY <1>1, WalkAssumption DEF TypeOK, Running, NTokens, Lower
<1>3. /\ il \in Layers
      /\ held \in SUBSET Experts /\ keep \in SUBSET Experts /\ PNeed \in SUBSET Experts
      /\ keep \subseteq PNeed
      /\ Cardinality(held) = K /\ Cardinality(keep) = K
    BY <1>1, <1>2 DEF TypeOK, KResident, CallInv, PNeed
<1>4. /\ Evicted = held \ PNeed
      /\ LeasedIn = PNeed \ held
      /\ Transient = PNeed \ keep
      /\ LeasedIn \cap keep = keep \ held
      /\ InMemory \ Transient = keep
    BY <1>3 DEF Evicted, LeasedIn, Transient, InMemory
<1> HIDE DEF held, keep
<1>5. /\ IsFiniteSet(held) /\ IsFiniteSet(PNeed)
      /\ Cardinality(PNeed) \in Nat /\ Cardinality(held \cap PNeed) \in Nat
    <2>1. held \cap PNeed \in SUBSET Experts
        BY <1>3
    <2>2. QED BY <1>3, <2>1, ExpertSetsFinite
<1>6. Cardinality(held \ PNeed) = K - Cardinality(held \cap PNeed)
    BY <1>3, <1>5, FS_Difference
<1>7. Cardinality(PNeed \ held) = Cardinality(PNeed) - Cardinality(held \cap PNeed)
    <2>1. Cardinality(PNeed \ held) = Cardinality(PNeed) - Cardinality(PNeed \cap held)
        BY <1>5, FS_Difference
    <2>2. PNeed \cap held = held \cap PNeed
        OBVIOUS
    <2>3. QED BY <2>1, <2>2
<1>8. Cardinality(PNeed \ keep) = Cardinality(PNeed) - K
    <2>1. Cardinality(PNeed \ keep) = Cardinality(PNeed) - Cardinality(PNeed \cap keep)
        BY <1>5, FS_Difference
    <2>2. PNeed \cap keep = keep
        BY <1>3
    <2>3. QED BY <1>3, <2>1, <2>2
<1>9. K \in Int
    BY PolicyAssumption
<1>10. Cardinality(PNeed \ held) = Cardinality(held \ PNeed) + Cardinality(PNeed \ keep)
    BY <1>5, <1>6, <1>7, <1>8, <1>9
<1>11. 2 * Cardinality(keep \ held) = Cardinality(SymmetricDifference(held, keep))
    BY <1>3, EqualSizeDifference
<1>12. \A S \in {PNeed, held \ PNeed, PNeed \ held, keep \ held, PNeed \ keep} :
          Cardinality(S) \in Nat
    <2>1. \A S \in {PNeed, held \ PNeed, PNeed \ held, keep \ held, PNeed \ keep} :
             S \in SUBSET Experts
        BY <1>3
    <2>2. QED BY <2>1, ExpertSetsFinite
<1>13. QED BY <1>4, <1>10, <1>11, <1>12 DEF held, keep

(* The end of a call keeps the invariant: it moves memory and its ledger.  *)
LEMMA SettleIInv == IInv /\ Settle => IInv'
<1> SUFFICES ASSUME IInv, Settle PROVE IInv'
    OBVIOUS
<1>1. /\ TypeOK /\ KResident /\ PhysIsResident /\ CallInv /\ LeaseLedger /\ PromotionsAreChurn
      /\ Running /\ t = NTokens
    BY DEF IInv, Settle
<1>2. /\ physneed_sum' = physneed_sum + Cardinality(PNeed)
      /\ physneed_n' = physneed_n + 1
      /\ physneed_max' = IF Cardinality(PNeed) > physneed_max
                         THEN Cardinality(PNeed) ELSE physneed_max
      /\ evict_events' = evict_events + Cardinality(Evicted)
      /\ lease_events' = lease_events + Cardinality(LeasedIn)
      /\ promote_events' = promote_events + Cardinality(LeasedIn \cap res[il])
      /\ trans_events' = trans_events + Cardinality(Transient)
      /\ phys' = [phys EXCEPT ![il] = res[il]]
      /\ tok' = [tok EXCEPT ![il] = @ + NTokens]
      /\ t' = 0 /\ runion' = {} /\ need' = {}
      /\ il' = IF il = L - 1 THEN 0 ELSE il + 1
      /\ lo' = IF il = L - 1 THEN lo + Ubatch ELSE lo
      /\ cnt' = cnt /\ res' = res /\ UNCHANGED policyStats
    BY <1>1, SettledCall DEF Settle
<1>3. /\ Cardinality(LeasedIn) = Cardinality(Evicted) + Cardinality(Transient)
      /\ 2 * Cardinality(LeasedIn \cap res[il]) =
            Cardinality(SymmetricDifference(phys[il], res[il]))
      /\ Cardinality(PNeed) \in Nat /\ Cardinality(Evicted) \in Nat
      /\ Cardinality(LeasedIn) \in Nat /\ Cardinality(LeasedIn \cap res[il]) \in Nat
      /\ Cardinality(Transient) \in Nat
    BY <1>1, SettledCall
<1>4. /\ misses \in Nat /\ picks \in Nat /\ churn \in Nat /\ boundaries \in Nat
      /\ lease_events \in Nat /\ evict_events \in Nat /\ promote_events \in Nat
      /\ trans_events \in Nat /\ physneed_max \in Nat /\ physneed_sum \in Nat
      /\ physneed_n \in Nat
    BY <1>1 DEF TypeOK, Stats
<1>5. il \in Layers /\ il' \in Layers /\ NTokens \in Nat \ {0}
    BY <1>1, <1>2, WalkAssumption DEF TypeOK, Layers, NTokens, Running, Lower
<1>6. TypeOK'
    <2>1. /\ lease_events' \in Nat /\ evict_events' \in Nat /\ promote_events' \in Nat
          /\ trans_events' \in Nat /\ physneed_sum' \in Nat /\ physneed_n' \in Nat
          /\ physneed_max' \in Nat
        BY <1>2, <1>3, <1>4
    <2>2. Stats' \subseteq Nat
        BY <1>2, <1>4, <2>1 DEF Stats, policyStats
    <2>3. phys' \in [Layers -> SUBSET Experts] /\ tok' \in [Layers -> Nat] /\ lo' \in Nat
        BY <1>1, <1>2, <1>5, WalkAssumption DEF TypeOK
    <2>4. QED BY <1>1, <1>2, <1>5, <2>2, <2>3 DEF TypeOK
<1>7. KResident'
    BY <1>1, <1>2 DEF KResident
<1>8. \A l \in Layers : phys'[l] = res'[l]
    BY <1>1, <1>2, <1>5 DEF PhysIsResident, TypeOK
<1>9. PhysIsResident'
    BY <1>8 DEF PhysIsResident
<1>10. CallInv'
    <2>1. \A l \in Layers : Cardinality(phys'[l]) = K
        BY <1>1, <1>2, <1>8 DEF KResident
    <2>2. ASSUME NEW l \in Layers, tok'[l] = 0, l = il' => t' = 0 PROVE res'[l] = ColdSet
        <3>1. l # il
            BY <1>1, <1>2, <1>5, <2>2 DEF TypeOK
        <3>2. tok[l] = 0 /\ res'[l] = res[l]
            BY <1>1, <1>2, <2>2, <3>1 DEF TypeOK
        <3>3. QED BY <1>1, <3>1, <3>2 DEF CallInv
    <2>3. QED BY <1>2, <2>1, <2>2 DEF CallInv
<1>11. LeaseLedger'
    BY <1>1, <1>2, <1>3, <1>4 DEF LeaseLedger
<1>12. PromotionsAreChurn'
    <2>1. phys'[il'] = res'[il'] /\ res'[il'] \in SUBSET Experts
        BY <1>1, <1>2, <1>5, <1>8 DEF TypeOK
    <2>2. Cardinality(SymmetricDifference(phys'[il'], res'[il'])) = 0
        BY <2>1, DifferenceTriangle
    <2>3. 2 * promote_events + 2 * Cardinality(LeasedIn \cap res[il]) <= churn
        BY <1>1, <1>3 DEF PromotionsAreChurn
    <2>4. 2 * promote_events' <= churn /\ promote_events' \in Nat
        BY <1>2, <1>3, <1>4, <2>3
    <2>5. QED BY <1>2, <2>2, <2>4 DEF PromotionsAreChurn, policyStats
<1>13. QED BY <1>6, <1>7, <1>9, <1>10, <1>11, <1>12 DEF IInv

(* The invariant holds in every reachable state of the walk.               *)
THEOREM WalkInvariant == Spec => []IInv
<1>1. IInv /\ UNCHANGED vars => IInv'
    <2> SUFFICES ASSUME IInv, UNCHANGED vars PROVE IInv'
        OBVIOUS
    <2>1. QED BY DEF IInv, vars, TypeOK, Stats, KResident, PhysIsResident, CallInv,
                     LeaseLedger, PromotionsAreChurn
<1>2. IInv /\ [Next]_vars => IInv'
    BY <1>1, PieceIInv, SettleIInv DEF Next
<1>3. QED BY <1>2, InitIInv, PTL DEF Spec

(* Types of the walk's state.                                              *)
THEOREM TypeCorrect == Spec => []TypeOK
<1>1. IInv => TypeOK
    BY DEF IInv
<1>2. QED BY <1>1, WalkInvariant, PTL

(* engine_walk keeps exactly K experts resident per layer.                 *)
THEOREM AlwaysKResident == Spec => []KResident
<1>1. IInv => KResident
    BY DEF IInv
<1>2. QED BY <1>1, WalkInvariant, PTL

(* Between route calls a layer's memory is exactly its resident set.       *)
THEOREM MemoryIsResident == Spec => []PhysIsResident
<1>1. IInv => PhysIsResident
    BY DEF IInv
<1>2. QED BY <1>1, WalkInvariant, PTL

(* Loads equal evictions plus transient drops.                             *)
THEOREM LoadsArePaidBack == Spec => []LeaseLedger
<1>1. IInv => LeaseLedger
    BY DEF IInv
<1>2. QED BY <1>1, WalkInvariant, PTL

(* Promotions never exceed half the churn.                                 *)
THEOREM PromotionsBoundedByChurn == Spec => []PromotionsAreChurn
<1>1. IInv => PromotionsAreChurn
    BY DEF IInv
<1>2. QED BY <1>1, WalkInvariant, PTL

----------------------------------------------------------------------------
(* Refinement.                                                             *)

(* DecayPolicy is instantiated with the constants of the walk, so the      *)
(* operators it takes from ResidencyPolicy are those of the walk.          *)
LEMMA SameOperators ==
    /\ Policy!NoCounts = NoCounts
    /\ Policy!ColdSet = ColdSet
    /\ Policy!Rows = Rows
    /\ \A c : Policy!Decay(c) = Decay(c) /\ Policy!TopK(c) = TopK(c)
    /\ \A c, seg : Policy!Accumulate(c, seg) = Accumulate(c, seg)
<1>0. ASSUME NEW S PROVE Policy!Cardinality(S) = Cardinality(S)
    BY DEF Policy!Cardinality, Cardinality, Policy!IsFiniteSet, IsFiniteSet
<1>1. Policy!Experts = Experts
    BY DEF Policy!Experts, Experts
<1>2. Policy!NoCounts = NoCounts
    BY <1>1 DEF Policy!NoCounts, NoCounts
<1>3. Policy!ColdSet = ColdSet
    BY DEF Policy!ColdSet, ColdSet
<1>4. Policy!Rows = Rows
    <2>1. \A row : row \in Policy!Rows <=> row \in Rows
        BY <1>0, <1>1 DEF Policy!Rows, Rows
    <2>2. QED BY <2>1
<1>5. ASSUME NEW c PROVE Policy!Decay(c) = Decay(c)
    BY <1>1 DEF Policy!Decay, Decay
<1>6. ASSUME NEW c, NEW e PROVE Policy!Rank(c, e) = Rank(c, e)
    <2>1. ASSUME NEW f PROVE Policy!Before(c, f, e) <=> Before(c, f, e)
        BY DEF Policy!Before, Before
    <2>2. {f \in Policy!Experts : Policy!Before(c, f, e)} = {f \in Experts : Before(c, f, e)}
        BY <1>1, <2>1
    <2>3. QED BY <1>0, <2>2 DEF Policy!Rank, Rank
<1>7. ASSUME NEW c PROVE Policy!TopK(c) = TopK(c)
    BY <1>1, <1>6 DEF Policy!TopK, TopK
<1>8. ASSUME NEW c, NEW seg PROVE Policy!Accumulate(c, seg) = Accumulate(c, seg)
    <2>1. ASSUME NEW e PROVE Policy!PicksOf(seg, e) = PicksOf(seg, e)
        BY <1>0 DEF Policy!PicksOf, PicksOf
    <2>2. QED BY <1>1, <2>1 DEF Policy!Accumulate, Accumulate
<1>9. QED BY <1>2, <1>3, <1>4, <1>5, <1>7, <1>8

\* The abstract position of every layer.
Pos == [l \in Layers |-> tok[l] + (IF l = il THEN t ELSE 0)]

(* A piece is one Consume step of its layer in the decay policy.           *)
LEMMA PieceConsumes == IInv /\ Piece => Policy!Next
<1> SUFFICES ASSUME IInv, Piece PROVE Policy!Next
    OBVIOUS
<1>1. TypeOK /\ Running /\ t < NTokens
    BY DEF IInv, Piece
<1>2. PICK seg \in [1 .. Span -> Rows] : cnt' = [cnt EXCEPT ![il] = Accumulate(PieceCounters, seg)]
    BY DEF Piece
<1>3. /\ res' = [res EXCEPT ![il] = PieceResident]
      /\ t' = t + Span /\ tok' = tok /\ il' = il
    BY DEF Piece
<1>4. /\ AbsT \in Nat /\ Span \in 1 .. H /\ (AbsT % H) + Span <= H /\ il \in Layers
      /\ t \in Nat /\ tok \in [Layers -> Nat] /\ res \in [Layers -> SUBSET Experts]
    BY <1>1, PieceSpan DEF TypeOK
<1>5. Len(seg) = Span
    BY <1>4
<1>6. Pos[il] = AbsT
    BY <1>4 DEF Pos, AbsT
<1>7. Pos' = [Pos EXCEPT ![il] = @ + Len(seg)]
    <2>1. \A l \in Layers : Pos'[l] = [Pos EXCEPT ![il] = @ + Len(seg)][l]
        BY <1>3, <1>4, <1>5 DEF Pos
    <2>2. QED BY <2>1 DEF Pos
<1>8. cnt' = [cnt EXCEPT ![il] =
                Accumulate(IF Pos[il] % H = 0 /\ Pos[il] > 0 THEN Decay(cnt[il]) ELSE cnt[il], seg)]
    BY <1>2, <1>6 DEF PieceCounters, AtBoundary
<1>9. res' = [res EXCEPT ![il] =
                IF Pos[il] % H = 0 /\ Pos[il] > 0
                THEN TopK(IF Pos[il] % H = 0 /\ Pos[il] > 0 THEN Decay(cnt[il]) ELSE cnt[il])
                ELSE @]
    <2>1. CASE AtBoundary /\ AbsT > 0
        BY <1>3, <1>6, <2>1 DEF PieceResident, PieceCounters, AtBoundary
    <2>2. CASE ~AtBoundary
        BY <1>3, <1>6, <2>2 DEF PieceResident, AtBoundary
    <2>3. CASE AtBoundary /\ ~(AbsT > 0)
        <3>1. AbsT = 0 /\ tok[il] = 0 /\ t = 0
            BY <1>4, <2>3 DEF AbsT
        <3>2. res[il] = ColdSet
            BY <1>4, <3>1 DEF IInv, CallInv
        <3>3. PieceResident = ColdSet
            BY <2>3 DEF PieceResident
        <3>4. ~(Pos[il] > 0)
            BY <1>6, <2>3
        <3>5. QED BY <1>3, <3>2, <3>3, <3>4
    <2>4. QED BY <2>1, <2>2, <2>3
<1>10. Policy!Consume(il, seg)
    <2>1. (Pos[il] % H) + Len(seg) <= H
        BY <1>4, <1>5, <1>6
    <2>2. QED BY <2>1, <1>7, <1>8, <1>9, SameOperators DEF Policy!Consume, Pos
<1>11. seg \in [1 .. Span -> Policy!Rows]
    BY SameOperators
<1>12. QED BY <1>4, <1>10, <1>11 DEF Policy!Next

(* The end of a call is invisible to the policy.                           *)
LEMMA SettleStutters == IInv /\ Settle => UNCHANGED <<cnt, res, Pos>>
<1> SUFFICES ASSUME IInv, Settle PROVE UNCHANGED <<cnt, res, Pos>>
    OBVIOUS
<1>1. /\ TypeOK /\ t = NTokens
      /\ tok' = [tok EXCEPT ![il] = @ + NTokens] /\ t' = 0
      /\ cnt' = cnt /\ res' = res
    BY DEF IInv, Settle
<1>2. \A l \in Layers :
         tok'[l] + (IF l = il' THEN t' ELSE 0) = tok[l] + (IF l = il THEN t ELSE 0)
    BY <1>1 DEF TypeOK
<1>3. Pos' = Pos
    BY <1>2 DEF Pos
<1>4. QED BY <1>1, <1>3

(* engine_walk implements the decay policy: cutting the log into           *)
(* micro-batches, interleaving the layers and moving experts in and out of *)
(* memory changes no residency decision.                                   *)
THEOREM WalkImplementsDecayPolicy == Spec => ImplementsDecayPolicy
<1>1. Init => Policy!Init
    <2> SUFFICES ASSUME Init PROVE Policy!Init
        OBVIOUS
    <2>1. Pos = [l \in Layers |-> 0]
        BY DEF Init, Pos
    <2>2. QED BY <2>1, SameOperators DEF Init, Policy!Init, Pos
<1>2. IInv /\ [Next]_vars => [Policy!Next]_<<cnt, res, Pos>>
    <2>1. UNCHANGED vars => UNCHANGED <<cnt, res, Pos>>
        BY DEF vars, Pos
    <2>2. QED BY <2>1, PieceConsumes, SettleStutters DEF Next
<1>3. QED BY <1>1, <1>2, WalkInvariant, PTL
          DEF Spec, ImplementsDecayPolicy, Policy!Spec, Policy!policyVars, Pos

----------------------------------------------------------------------------
(* Agreement with the simulators.                                          *)

LEMMA LayersFinite == IsFiniteSet(Layers)
BY FS_Interval, WalkAssumption DEF Layers

\* A layer's counters and resident set are the simulators', for the rows it read.
SimInv ==
    /\ log \in [Layers -> Seq(Rows)]
    /\ \A l \in Layers :
          /\ Len(log[l]) = Pos[l]
          /\ cnt[l] = SimP2(log[l]).counters
          /\ res[l] = SimP2(log[l]).resident
          /\ cnt[l] = TraceP2(log[l], MaxToken).counters
    /\ AgreesWithSimulator

LEMMA InitSimInv == Init => SimInv
<1> SUFFICES ASSUME Init PROVE SimInv
    OBVIOUS
<1> USE DEF Init
<1>1. log \in [Layers -> Seq(Rows)] /\ \A l \in Layers : log[l] = <<>>
    OBVIOUS
<1>2. \A l \in Layers : Len(log[l]) = Pos[l]
    BY <1>1 DEF Pos
<1>3. \A l \in Layers :
         /\ SimP2(log[l]).counters = NoCounts /\ SimP2(log[l]).resident = ColdSet
         /\ SimP2(log[l]).misses = 0 /\ SimP2(log[l]).churn = 0
         /\ TraceP2(log[l], MaxToken).counters = NoCounts
         /\ TraceP2(log[l], MaxToken).lines = {}
    BY <1>1, NothingRead
<1>0. ASSUME NEW f, f \in [Layers -> Nat], \A l \in Layers : f[l] = 0 PROVE Total(f) = 0
    BY <1>0, LayersFinite, TotalOfZeros
<1>4. Total([l \in Layers |-> SimP2(log[l]).misses]) = 0
    BY <1>0, <1>3
<1>5. Total([l \in Layers |-> SimP2(log[l]).churn]) = 0
    BY <1>0, <1>3
<1>6. Total([l \in Layers |-> Picks * Len(log[l])]) = 0
    <2>1. \A l \in Layers : Picks * Len(log[l]) = 0
        BY <1>1, PolicyAssumption
    <2> QED BY <1>0, <2>1
<1>7. UNION {{<<l, line[1], line[2]>> : line \in TraceP2(log[l], MaxToken).lines} : l \in Layers} = {}
    BY <1>3
<1>8. AgreesWithSimulator
    BY <1>4, <1>5, <1>6, <1>7 DEF AgreesWithSimulator
<1> QED BY <1>1, <1>2, <1>3, <1>8 DEF SimInv

\* The simulators of the layer have read seg more: their counters and resident
\* set are the walk's, their totals rose as the walk's did, and so did the trace.
GrewBy(seg, m, d) ==
    LET ids  == log[il]
        next == SimP2(ids \o seg)
    IN  /\ ids \o seg \in Seq(Rows) /\ Len(ids \o seg) = AbsT + Span
        /\ log' = [log EXCEPT ![il] = ids \o seg]
        /\ cnt'[il] = next.counters /\ res'[il] = next.resident
        /\ TraceP2(ids \o seg, MaxToken).counters = next.counters
        /\ misses' = misses + m /\ next.misses = SimP2(ids).misses + m
        /\ churn' = churn + d /\ next.churn = SimP2(ids).churn + d
        /\ TraceP2(ids \o seg, MaxToken).lines = TraceP2(ids, MaxToken).lines \cup
              (IF AtBoundary /\ AbsT < MaxToken THEN {<<AbsT, PieceResident>>} ELSE {})

(* A piece is one segment more for the simulators of its layer: they serve *)
(* it with the counters and the resident set the walk serves it with.      *)
LEMMA PieceGrowsSim ==
    ASSUME IInv, SimInv, Piece
    PROVE  \E seg \in [1 .. Span -> Rows], m, d \in Nat : GrewBy(seg, m, d)
<1> DEFINE ids == log[il]
           s == SimP2(ids)
           R == PieceResident
<1>1. TypeOK /\ KResident /\ CallInv /\ Running /\ t < NTokens
    BY DEF IInv, Piece
<1>2. PICK seg \in [1 .. Span -> Rows] :
        /\ cnt' = [cnt EXCEPT ![il] = Accumulate(PieceCounters, seg)]
        /\ misses' = misses + Misses(seg, PieceResident)
        /\ log' = [log EXCEPT ![il] = @ \o seg]
    BY DEF Piece
<1>3. /\ res' = [res EXCEPT ![il] = PieceResident]
      /\ churn' = churn + (IF AtBoundary /\ AbsT > 0
                           THEN Cardinality(SymmetricDifference(res[il], PieceResident)) ELSE 0)
    BY DEF Piece
<1>4. /\ AbsT \in Nat /\ Span \in Nat \ {0} /\ (AbsT % H) + Span <= H /\ il \in Layers
      /\ t \in Nat /\ tok \in [Layers -> Nat] /\ misses \in Nat /\ churn \in Nat
    <2>1. /\ AbsT \in Nat /\ Span \in 1 .. H /\ (AbsT % H) + Span <= H
        BY <1>1, PieceSpan
    <2>2. Span \in Nat \ {0}
        BY <2>1
    <2>3. misses \in Nat /\ churn \in Nat
        BY <1>1 DEF TypeOK, Stats
    <2>4. il \in Layers /\ t \in Nat /\ tok \in [Layers -> Nat]
        BY <1>1 DEF TypeOK
    <2> QED BY <2>1, <2>2, <2>3, <2>4
<1>5. ids \in Seq(Rows) /\ Len(ids) = AbsT
    BY <1>4 DEF SimInv, Pos, AbsT
<1>6. /\ cnt[il] = s.counters /\ res[il] = s.resident
      /\ cnt[il] = TraceP2(ids, MaxToken).counters
    BY <1>4 DEF SimInv
<1>7. GrownCounters(s, ids) = PieceCounters
      /\ GrownCounters(TraceP2(ids, MaxToken), ids) = PieceCounters
    BY <1>5, <1>6 DEF GrownCounters, PieceCounters, AtBoundary
<1>8. BoundaryResident(s, ids) = BoundaryResident(TraceP2(ids, MaxToken), ids)
      /\ (AtBoundary => BoundaryResident(s, ids) = R)
      /\ (~AtBoundary => s.resident = R)
    BY <1>5, <1>6, <1>7 DEF BoundaryResident, PieceResident
<1>9. AtBoundary <=> Len(ids) % H = 0
    BY <1>5 DEF AtBoundary
<1>10. AtBoundary /\ ~(AbsT > 0) => res[il] = R
    <2> SUFFICES ASSUME AtBoundary, ~(AbsT > 0) PROVE res[il] = R
        OBVIOUS
    <2>1. AbsT = 0 /\ tok[il] = 0 /\ t = 0
        BY <1>4 DEF AbsT
    <2>2. res[il] = ColdSet
        BY <1>1, <1>4, <2>1 DEF CallInv
    <2> QED BY <2>1, <2>2 DEF PieceResident
<1>11. R \in SUBSET Experts /\ res[il] \in SUBSET Experts
    BY <1>1, <1>4, PieceResidentSize DEF TypeOK
<1>12. /\ Cardinality(SymmetricDifference(res[il], R)) \in Nat
       /\ res[il] = R => Cardinality(SymmetricDifference(res[il], R)) = 0
    BY <1>11, DifferenceTriangle
<1> HIDE DEF ids, s, R
<1>13. Misses(seg, R) \in Nat
    BY <1>4, MissesAreNaturals
<1>14. /\ ids \o seg \in Seq(Rows) /\ Len(ids \o seg) = AbsT + Span
    BY <1>4, <1>5, Extended
<1>15. R = IF Len(ids) % H = 0 THEN BoundaryResident(s, ids) ELSE s.resident
    BY <1>8, <1>9
<1>16. /\ Typed(Sim, s)
       /\ SimP2(ids \o seg) =
            [counters |-> Accumulate(GrownCounters(s, ids), seg),
             resident |-> R,
             misses   |-> s.misses + Misses(seg, R),
             churn    |-> s.churn + (IF Len(ids) % H = 0
                                     THEN Cardinality(SymmetricDifference(s.resident, R))
                                     ELSE 0)]
    <2>1. (Len(ids) % H) + Span <= H /\ s = SimP2(ids)
        BY <1>4, <1>5 DEF s
    <2> QED BY <1>4, <1>5, <1>15, <2>1, SimGrows
<1> DEFINE next == SimP2(ids \o seg)
           d == IF AtBoundary THEN Cardinality(SymmetricDifference(res[il], R)) ELSE 0
<1>17. /\ next.counters = Accumulate(PieceCounters, seg) /\ next.resident = R
       /\ next.misses = s.misses + Misses(seg, R)
       /\ next.churn = s.churn + d
    BY <1>6, <1>7, <1>9, <1>16
<1>18. /\ TraceP2(ids \o seg, MaxToken).counters = Accumulate(PieceCounters, seg)
       /\ TraceP2(ids \o seg, MaxToken).lines = TraceP2(ids, MaxToken).lines \cup
             (IF AtBoundary /\ AbsT < MaxToken THEN {<<AbsT, R>>} ELSE {})
    <2> DEFINE tr == TraceP2(ids, MaxToken)
    <2>1. /\ TraceP2(ids \o seg, MaxToken).counters = Accumulate(GrownCounters(tr, ids), seg)
          /\ TraceP2(ids \o seg, MaxToken).lines = tr.lines \cup
                (IF Len(ids) % H = 0 /\ Len(ids) < MaxToken
                 THEN {<<Len(ids), BoundaryResident(tr, ids)>>} ELSE {})
        <3>1. (Len(ids) % H) + Span <= H /\ tr = TraceP2(ids, MaxToken)
            BY <1>4, <1>5
        <3> HIDE DEF tr
        <3> QED BY <1>4, <1>5, <3>1, TraceGrows
    <2>2. GrownCounters(tr, ids) = PieceCounters
        BY <1>7
    <2>3. AtBoundary => BoundaryResident(tr, ids) = R
        BY <1>8
    <2> HIDE DEF tr
    <2> QED BY <1>5, <1>9, <2>1, <2>2, <2>3 DEF tr
<1>19. churn' = churn + d /\ d \in Nat
    BY <1>3, <1>4, <1>10, <1>12 DEF R
<1>20. /\ cnt'[il] = next.counters /\ res'[il] = next.resident
       /\ misses' = misses + Misses(seg, R)
    <2>1. cnt \in [Layers -> [Experts -> Nat]] /\ res \in [Layers -> SUBSET Experts]
        BY <1>1 DEF TypeOK
    <2>2. misses' = misses + Misses(seg, R)
        BY <1>2 DEF R
    <2>3. res'[il] = R
        BY <1>3, <1>4, <2>1 DEF R
    <2>4. cnt'[il] = Accumulate(PieceCounters, seg)
        BY <1>2, <1>4, <2>1
    <2> HIDE DEF next
    <2> QED BY <1>17, <2>2, <2>3, <2>4
<1>21. log' = [log EXCEPT ![il] = ids \o seg]
    BY <1>2 DEF ids
<1>22. TraceP2(ids \o seg, MaxToken).counters = next.counters
    BY <1>17, <1>18
<1> HIDE DEF d
<1>23. GrewBy(seg, Misses(seg, R), d)
    BY <1>14, <1>17, <1>18, <1>19, <1>20, <1>21, <1>22 DEF GrewBy, ids, s, R, next
<1> QED BY <1>13, <1>19, <1>23


(* Hence a piece keeps the walk and the simulators in agreement.           *)
LEMMA PieceSimInv == IInv /\ SimInv /\ Piece => SimInv'
<1> SUFFICES ASSUME IInv, SimInv, Piece PROVE SimInv'
    OBVIOUS
<1>1. PICK seg \in [1 .. Span -> Rows], m \in Nat, d \in Nat : GrewBy(seg, m, d)
    BY PieceGrowsSim
<1> DEFINE new == log[il] \o seg
           sim == SimP2(new)
<1>2. TypeOK /\ Running /\ t < NTokens
    BY DEF IInv, Piece
<1>3. /\ AbsT \in Nat /\ Span \in Nat /\ il \in Layers /\ tok \in [Layers -> Nat] /\ t \in Nat
      /\ log \in [Layers -> Seq(Rows)] /\ Len(log[il]) = AbsT
    BY <1>2, PieceSpan DEF TypeOK, SimInv, Pos, AbsT
<1>4. /\ res' = [res EXCEPT ![il] = PieceResident]
      /\ \E c : cnt' = [cnt EXCEPT ![il] = c]
      /\ lines' = lines \cup (IF AtBoundary /\ AbsT < MaxToken
                              THEN {<<il, AbsT, PieceResident>>} ELSE {})
      /\ picks' = picks + Span * Picks
      /\ t' = t + Span /\ tok' = tok /\ il' = il
    BY DEF Piece
<1>5. /\ new \in Seq(Rows) /\ Len(new) = AbsT + Span /\ log' = [log EXCEPT ![il] = new]
      /\ cnt'[il] = sim.counters /\ res'[il] = sim.resident
      /\ TraceP2(new, MaxToken).counters = sim.counters
      /\ misses' = misses + m /\ sim.misses = SimP2(log[il]).misses + m
      /\ churn' = churn + d /\ sim.churn = SimP2(log[il]).churn + d
      /\ TraceP2(new, MaxToken).lines = TraceP2(log[il], MaxToken).lines \cup
            (IF AtBoundary /\ AbsT < MaxToken THEN {<<AbsT, PieceResident>>} ELSE {})
    BY <1>1 DEF GrewBy
<1> HIDE DEF new
<1>6. log' \in [Layers -> Seq(Rows)] /\ log'[il] = new
      /\ \A l \in Layers \ {il} : log'[l] = log[l]
    BY <1>3, <1>5
<1>7. ASSUME NEW l \in Layers
      PROVE  /\ Len(log'[l]) = Pos'[l]
             /\ cnt'[l] = SimP2(log'[l]).counters
             /\ res'[l] = SimP2(log'[l]).resident
             /\ cnt'[l] = TraceP2(log'[l], MaxToken).counters
    <2>1. Pos'[l] = tok[l] + (IF l = il THEN t + Span ELSE 0)
        BY <1>4 DEF Pos
    <2>2. CASE l = il
        <3>1. Pos'[l] = AbsT + Span
            BY <1>3, <2>1, <2>2 DEF AbsT
        <3> QED BY <1>5, <1>6, <2>2, <3>1
    <2>3. CASE l # il
        <3>1. log'[l] = log[l] /\ cnt'[l] = cnt[l] /\ res'[l] = res[l]
            BY <1>2, <1>4, <1>6, <2>3 DEF TypeOK
        <3>2. tok[l] \in Nat
            BY <1>3
        <3>3. Pos'[l] = Pos[l]
            BY <2>1, <2>3, <3>2 DEF Pos
        <3> QED BY <3>1, <3>3 DEF SimInv
    <2> QED BY <2>2, <2>3
<1>8. \A ids \in Seq(Rows) : SimP2(ids).misses \in Nat /\ SimP2(ids).churn \in Nat
    BY SimTyped DEF Typed, Sim
<1>9. misses' = Total([l \in Layers |-> SimP2(log'[l]).misses])
    <2> DEFINE f == [l \in Layers |-> SimP2(log[l]).misses]
               r == [l \in Layers |-> SimP2(log'[l]).misses]
    <2>1. /\ f \in [Layers -> Nat] /\ r \in [Layers -> Nat]
          /\ r[il] = f[il] + m /\ \A l \in Layers \ {il} : r[l] = f[l]
        <3>1. \A l \in Layers : SimP2(log[l]).misses \in Nat /\ SimP2(log'[l]).misses \in Nat
            BY <1>3, <1>6, <1>8
        <3>2. /\ SimP2(log'[il]).misses = SimP2(log[il]).misses + m
              /\ \A l \in Layers \ {il} : SimP2(log'[l]) = SimP2(log[l])
            BY <1>5, <1>6
        <3> QED BY <1>3, <3>1, <3>2
    <2>2. misses = Total(f)
        BY DEF SimInv, AgreesWithSimulator
    <2> HIDE DEF f, r
    <2>3. Total(r) = Total(f) + m
        <3>1. il \in Layers /\ m \in Nat
            BY <1>3
        <3> QED BY <2>1, <3>1, LayersFinite, RaisedTotal
    <2> QED BY <1>5, <2>2, <2>3 DEF r
<1>10. churn' = Total([l \in Layers |-> SimP2(log'[l]).churn])
    <2> DEFINE f == [l \in Layers |-> SimP2(log[l]).churn]
               r == [l \in Layers |-> SimP2(log'[l]).churn]
    <2>1. /\ f \in [Layers -> Nat] /\ r \in [Layers -> Nat]
          /\ r[il] = f[il] + d /\ \A l \in Layers \ {il} : r[l] = f[l]
        <3>1. \A l \in Layers : SimP2(log[l]).churn \in Nat /\ SimP2(log'[l]).churn \in Nat
            BY <1>3, <1>6, <1>8
        <3>2. /\ SimP2(log'[il]).churn = SimP2(log[il]).churn + d
              /\ \A l \in Layers \ {il} : SimP2(log'[l]) = SimP2(log[l])
            BY <1>5, <1>6
        <3> QED BY <1>3, <3>1, <3>2
    <2>2. churn = Total(f)
        BY DEF SimInv, AgreesWithSimulator
    <2> HIDE DEF f, r
    <2>3. Total(r) = Total(f) + d
        <3>1. il \in Layers /\ d \in Nat
            BY <1>3
        <3> QED BY <2>1, <3>1, LayersFinite, RaisedTotal
    <2> QED BY <1>5, <2>2, <2>3 DEF r
<1>11. picks' = Total([l \in Layers |-> Picks * Len(log'[l])])
    <2> DEFINE f == [l \in Layers |-> Picks * Len(log[l])]
               r == [l \in Layers |-> Picks * Len(log'[l])]
    <2>1. \A ids \in Seq(Rows) : Picks * Len(ids) \in Nat
        BY PolicyAssumption
    <2>2. Picks * (AbsT + Span) = Picks * AbsT + Span * Picks /\ Span * Picks \in Nat
        BY <1>3, PolicyAssumption
    <2>3. /\ f \in [Layers -> Nat] /\ r \in [Layers -> Nat]
          /\ \A l \in Layers \ {il} : r[l] = f[l]
        BY <1>3, <1>6, <2>1
    <2>4. r[il] = Picks * (AbsT + Span) /\ f[il] = Picks * AbsT
        BY <1>3, <1>5, <1>6
    <2>5. picks = Total(f)
        BY DEF SimInv, AgreesWithSimulator
    <2> HIDE DEF f, r
    <2>6. r[il] = f[il] + Span * Picks
        BY <2>2, <2>4
    <2>7. Total(r) = Total(f) + Span * Picks
        <3> DEFINE n == Span * Picks
        <3>1. il \in Layers /\ n \in Nat /\ r[il] = f[il] + n
            BY <1>3, <2>2, <2>6
        <3> HIDE DEF n
        <3>2. Total(r) = Total(f) + n
            BY <2>3, <3>1, LayersFinite, RaisedTotal
        <3> QED BY <3>2 DEF n
    <2> QED BY <1>4, <2>5, <2>7 DEF r
<1> DEFINE Lines(ids, l) == {<<l, line[1], line[2]>> : line \in TraceP2(ids, MaxToken).lines}
<1>12. lines' = UNION {Lines(log'[l], l) : l \in Layers}
    <2> DEFINE x == IF AtBoundary /\ AbsT < MaxToken THEN {<<il, AbsT, PieceResident>>} ELSE {}
    <2>1. lines = UNION {Lines(log[l], l) : l \in Layers} /\ lines' = lines \cup x
        BY <1>4 DEF SimInv, AgreesWithSimulator
    <2>2. Lines(new, il) = Lines(log[il], il) \cup x
        <3>1. CASE AtBoundary /\ AbsT < MaxToken
            <4> DEFINE e == <<AbsT, PieceResident>>
                       A == TraceP2(log[il], MaxToken).lines
                       B == TraceP2(new, MaxToken).lines
            <4>1. x = {<<il, e[1], e[2]>>} /\ B = A \cup {e}
                BY <1>5, <3>1
            <4>2. /\ Lines(new, il) = {<<il, line[1], line[2]>> : line \in B}
                  /\ Lines(log[il], il) = {<<il, line[1], line[2]>> : line \in A}
                OBVIOUS
            <4> HIDE DEF e, A, B, x, Lines
            <4> QED BY <4>1, <4>2
        <3>2. CASE ~(AtBoundary /\ AbsT < MaxToken)
            BY <1>5, <3>2
        <3> QED BY <3>1, <3>2
    <2> HIDE DEF Lines, x
    <2>3. /\ Lines(log'[il], il) = Lines(log[il], il) \cup x
          /\ \A l \in Layers \ {il} : Lines(log'[l], l) = Lines(log[l], l)
        BY <1>6, <2>2
    <2> DEFINE F(l) == Lines(log[l], l)
               G(l) == Lines(log'[l], l)
    <2>4. /\ G(il) = F(il) \cup x /\ \A l \in Layers \ {il} : G(l) = F(l)
          /\ lines = UNION {F(l) : l \in Layers} /\ lines' = lines \cup x
        BY <2>1, <2>3
    <2> HIDE DEF F, G
    <2>5. lines' = UNION {G(l) : l \in Layers}
        BY <1>3, <2>4
    <2> QED BY <2>5 DEF G
<1>13. AgreesWithSimulator'
    BY <1>9, <1>10, <1>11, <1>12 DEF AgreesWithSimulator
<1> QED BY <1>6, <1>7, <1>13 DEF SimInv

(* The end of a call changes nothing the agreement is about.               *)
LEMMA SettleSimInv == IInv /\ SimInv /\ Settle => SimInv'
<1> SUFFICES ASSUME IInv, SimInv, Settle PROVE SimInv'
    OBVIOUS
<1>1. UNCHANGED <<cnt, res, Pos>>
    BY SettleStutters
<1>2. UNCHANGED <<lines, log, misses, churn, picks>>
    BY DEF Settle, policyStats
<1> QED BY <1>1, <1>2 DEF SimInv, AgreesWithSimulator

LEMMA SimInvariant == Spec => []SimInv
<1>1. SimInv /\ UNCHANGED vars => SimInv'
    <2> SUFFICES ASSUME SimInv, UNCHANGED vars PROVE SimInv'
        OBVIOUS
    <2> QED BY DEF SimInv, AgreesWithSimulator, Pos, vars
<1>2. IInv /\ SimInv /\ [Next]_vars => SimInv'
    BY <1>1, PieceSimInv, SettleSimInv DEF Next
<1> QED BY <1>2, InitSimInv, WalkInvariant, PTL DEF Spec

(* engine_walk counts the misses, the churn and the picks that             *)
(* sim_residency.py computes for the rows read so far, and makes the       *)
(* decisions sim_trace.py writes, however the log is cut into micro-batches *)
(* and the layers interleaved.                                             *)
THEOREM AgreesAlways == Spec => []AgreesWithSimulator
<1>1. SimInv => AgreesWithSimulator
    BY DEF SimInv
<1> QED BY <1>1, SimInvariant, PTL

=============================================================================
