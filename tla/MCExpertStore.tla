--------------------------- MODULE MCExpertStore ---------------------------
(***************************************************************************)
(* Model checking of ExpertStore with two builds of libzstd that make      *)
(* blobs of other lengths and containers of the same length: 4 and 2 cells *)
(* for the two rows of an expert, or 3 and 3.                              *)
(***************************************************************************)
EXTENDS ExpertStore, TLC

SizeOf == 1 :> [scale |-> 1, mantissa |-> 2, whole |-> 1]
       @@ 2 :> [scale |-> 1, mantissa |-> 1, whole |-> 2]

=============================================================================
