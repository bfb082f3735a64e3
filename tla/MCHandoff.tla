----------------------------- MODULE MCHandoff -----------------------------
(***************************************************************************)
(* Model checking of Handoff.  A tick stands for 15 s: the looks every 30, *)
(* 10 and 60 s take 2, 1 and 4 ticks, the gap of 2 s between the kills is  *)
(* rounded up to one, the look at the lock follows 65 s or 5 ticks later,  *)
(* the courtesy yield is 75 s or 5, the digest of 63 GB takes 30 s or 2 at *)
(* the very least.                                                         *)
(***************************************************************************)
EXTENDS Handoff

RowsOf == [c \in Clients |-> IF c \in {"matrix", "resume"} THEN 2 ELSE 1]

=============================================================================
