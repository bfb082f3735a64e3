----------------------------- MODULE MCRunLock -----------------------------
(***************************************************************************)
(* Model checking of RunLock with one leg of each kind.  A tick stands for *)
(* the 30 s of the slow poll: the 5 s poll is rounded up to one tick, the  *)
(* 75 s yield down to two, and the waiting limits are cut to a few polls.  *)
(***************************************************************************)
EXTENDS RunLock

CONSTANTS ob1b, ob2, ob3, gate1    \* legs named after their wrapper

PollOf  == [l \in Legs |-> 1]
LimitOf == [l \in Legs |-> IF l = ob2 THEN 2 ELSE 3]
YieldOf == [l \in Legs |-> IF l \in {ob1b, gate1} THEN 2 ELSE 0]
RunsOf  == [l \in Legs |-> 2]

=============================================================================
