--------------------------- MODULE MCExpertBytes ----------------------------
(***************************************************************************)
(* A model file of two layers, laid out the way the published files are,   *)
(* and what MaxFaults faults of a download or of a converter make of it;   *)
(* then, if both manifests accept it, the engine that loads it and serves  *)
(* up to MaxCalls route calls.                                             *)
(***************************************************************************)
EXTENDS PageCommit

CONSTANTS
    Gate, Down,             \* bytes of a slice of the two expert tensors
    MaxFaults, MaxCalls

VARIABLES faults, calls

vars == <<file, allocVars, faults, calls>>

\* The table in file order: block, suffix, bytes.
Layout == <<<<-1, "embd", 8>>,
            <<0, "gate", E * Gate>>, <<0, "attn", 3>>, <<0, "down", E * Down>>,
            <<1, "gate", E * Gate>>, <<1, "attn", 3>>, <<1, "down", E * Down>>,
            <<-1, "head", 8>>, <<-1, "norm", 2>>>>

OffsetIn(i) == SumOf(LAMBDA j : Layout[j][3], 1 .. (i - 1))

Published ==
    [header |-> 5, align |-> 4, size |-> 8 + OffsetIn(Len(Layout) + 1),
     tensors |-> [i \in 1 .. Len(Layout) |->
        [block |-> Layout[i][1], suffix |-> Layout[i][2], offset |-> OffsetIn(i),
         exps |-> Layout[i][2] \in ExpertSuffixes]]]

Init == file = Published /\ faults = 0 /\ calls = 0 /\ AllocInit

\* A fault in the file, before anything reads it.
Faulty(f) ==
    /\ turn = -1 /\ faults < MaxFaults
    /\ faults' = faults + 1 /\ file' = f
    /\ UNCHANGED <<allocVars, calls>>

\* The end is missing, or followed by something.
Resize == \E n \in {-2, -1, 1} : Faulty([file EXCEPT !.size = @ + n])

\* The header is shorter or longer: within its padding, or beyond it.
Reheader == \E n \in {-1, 4} :
    Faulty([file EXCEPT !.header = @ + n,
                        !.size = @ + DataStartOf([file EXCEPT !.header = @ + n]) - DataStartOf(file)])

\* The tensors after one are moved, and it gets longer or shorter with that.
Stretch == \E i \in Slots(file), n \in {-3, 1, 3} :
    /\ Span(file, i) + n >= 0
    /\ Faulty([file EXCEPT !.size = @ + n,
            !.tensors = [j \in Slots(file) |->
                [@[j] EXCEPT !.offset = @ + (IF j \in After(file, i) THEN n ELSE 0)]]])

\* A name the readers do not look for: of another layer, of another kind, or
\* one that only looks like an expert's.
Rename == \E i \in Slots(file), block \in {-1, 0, L}, suffix \in {"gate", "attn", "scale"} :
    Faulty([file EXCEPT !.tensors[i] =
        [@ EXCEPT !.block = block, !.suffix = suffix, !.exps = suffix \in {"gate", "scale"}]])

\* A tensor of a layer that block_count does not count.
Extra == \E suffix \in {"gate", "attn", "scale"}, n \in {3, 6} :
    Faulty([file EXCEPT !.size = @ + n,
            !.tensors = Append(@, [block |-> L, suffix |-> suffix, offset |-> DataBytes(file),
                                   exps |-> suffix # "attn"])])

\* The output projection is the embedding.
Tie == \E i, j \in Slots(file) :
    /\ file.tensors[i].suffix = "embd" /\ file.tensors[j].suffix = "head"
    /\ Faulty([file EXCEPT !.tensors[j].offset = file.tensors[i].offset])

Serve ==
    /\ calls < MaxCalls /\ calls' = calls + 1
    /\ \E routed \in (SUBSET Experts) \ {{}} : RouteCall(routed)
    /\ UNCHANGED faults

Next ==
    \/ Resize \/ Reheader \/ Stretch \/ Rename \/ Extra \/ Tie
    \/ Load /\ UNCHANGED <<faults, calls>>
    \/ Serve

Spec == Init /\ [][Next]_vars

=============================================================================
