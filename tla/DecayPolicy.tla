---------------------------- MODULE DecayPolicy ----------------------------
(***************************************************************************)
(* What the P2 decay-counter policy promises for every layer, whatever     *)
(* loop drives it: routing decisions are consumed in pieces that never     *)
(* cross a recompute boundary, and the resident set changes only when the  *)
(* first piece of a window is consumed, to the top K of the counters of    *)
(* the history strictly before the boundary, halved.                       *)
(*                                                                         *)
(* Nothing here depends on how a window is cut into pieces, on the order   *)
(* in which the layers take turns, or on what is held in memory.           *)
(***************************************************************************)
EXTENDS ResidencyPolicy

CONSTANT Layers    \* the mixture-of-experts layers

VARIABLES
    cnt,    \* cnt[l][e]: decayed count of the picks of expert e
    res,    \* res[l]: the resident set in force
    pos     \* pos[l]: tokens consumed

policyVars == <<cnt, res, pos>>

Init ==
    /\ cnt = [l \in Layers |-> NoCounts]
    /\ res = [l \in Layers |-> ColdSet]
    /\ pos = [l \in Layers |-> 0]

\* Consume the routing decisions seg of layer l.
Consume(l, seg) ==
    LET opens    == pos[l] % H = 0 /\ pos[l] > 0
        counters == IF opens THEN Decay(cnt[l]) ELSE cnt[l]
    IN  /\ (pos[l] % H) + Len(seg) <= H
        /\ res' = [res EXCEPT ![l] = IF opens THEN TopK(counters) ELSE @]
        /\ cnt' = [cnt EXCEPT ![l] = Accumulate(counters, seg)]
        /\ pos' = [pos EXCEPT ![l] = @ + Len(seg)]

Next == \E l \in Layers, n \in 1 .. H : \E seg \in [1 .. n -> Rows] : Consume(l, seg)

Spec == Init /\ [][Next]_policyVars

=============================================================================
