------------------------------ MODULE BoxLock ------------------------------
(***************************************************************************)
(* What the house runlock promises the legs that share the box: at most    *)
(* one leg is inside at a time, and a leg enters only an empty box.        *)
(***************************************************************************)
CONSTANT Legs
VARIABLE inside    \* the legs that are inside

Init == inside = {}

Enter(l) == inside = {} /\ inside' = {l}
Leave(l) == inside = {l} /\ inside' = {}

Next == \E l \in Legs : Enter(l) \/ Leave(l)

Spec == Init /\ [][Next]_inside

=============================================================================
