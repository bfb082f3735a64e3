------------------------------ MODULE Manifest ------------------------------
(***************************************************************************)
(* The three readers of a GGUF file's tensor table, and the two manifests  *)
(* of byte ranges that leases and digests are made by:                     *)
(*   research/ob1/gguf_expert_manifest.py   one row per expert slice       *)
(*   research/ob3t/trunk_manifest.py        one row per trunk lease unit   *)
(*   research/rs053/gguf-expert-bytes.py    the totals both are held to    *)
(*                                                                         *)
(* A file is its header length, its alignment, its length and its tensor   *)
(* table.  The table does not say how long a tensor is: all three readers  *)
(* take the distance to the next offset, padding included.                 *)
(***************************************************************************)
EXTENDS Integers, Sequences, FiniteSetsExt

CONSTANTS
    E, L,                  \* expert_count and block_count of the file's KV
    ExpertSuffixes,        \* SUFFIXES
    PerLayerCount,         \* the trunk suffixes a layer is known to have
    TokenEmbd, Output, OutputNorm,  \* the global tensors
    Vocab, EB, HT,         \* rows of the embedding, rows per block, head tiles
    NonExpertBytes,        \* the literals of an earlier reading
    DataStart,
    ResidentAlways

ASSUME ManifestAssumption ==
    /\ {E, L, Vocab, EB, HT} \subseteq Nat \ {0}
    /\ Vocab % EB = 0 /\ Vocab % HT = 0
    /\ TokenEmbd # Output /\ TokenEmbd # OutputNorm /\ Output # OutputNorm
    /\ IsFiniteSet(ExpertSuffixes)

Blocks == 0 .. (L - 1)
SumOf(f(_), S) == MapThenSumSet(f, S)

----------------------------------------------------------------------------
(* The tensor table.  A tensor has a block (-1 for a global one), a        *)
(* suffix, and an offset from the end of the header.                       *)

Slots(file) == DOMAIN file.tensors
Name(file, i) == <<file.tensors[i].block, file.tensors[i].suffix>>

\* The header's length rounded up to the alignment.
DataStartOf(file) == file.header + ((-file.header) % file.align)
DataBytes(file) == file.size - DataStartOf(file)

\* sorted() by offset, which keeps the table's order among equals.
After(file, i) ==
    {j \in Slots(file) : \/ file.tensors[j].offset > file.tensors[i].offset
                         \/ file.tensors[j].offset = file.tensors[i].offset /\ j > i}

Span(file, i) ==
    (IF After(file, i) = {} THEN DataBytes(file)
     ELSE Min({file.tensors[j].offset : j \in After(file, i)})) - file.tensors[i].offset

AbsOffset(file, i) == DataStartOf(file) + file.tensors[i].offset
Spans(file, slots) == SumOf(LAMBDA i : Span(file, i), slots)

\* The slot a name leads to: by_name keeps the last one.
Named(file, name) == {i \in Slots(file) : Name(file, i) = name}
Slot(file, name) ==
    CHOOSE i \in Named(file, name) : Named(file, name) \cap After(file, i) = {}

\* Reading a range from the file yields as many bytes as asked for.
Readable(file, from, n) == n >= 0 /\ from + n <= file.size

----------------------------------------------------------------------------
(* gguf-expert-bytes.py                                                    *)

\* Everything that is not a tensor with "_exps" in its name.
ReportedNonExpert(file) ==
    DataBytes(file) - Spans(file, {i \in Slots(file) : file.tensors[i].exps})

----------------------------------------------------------------------------
(* gguf_expert_manifest.py: expert e has the e-th equal share of the span. *)

ExpertNames == Blocks \X ExpertSuffixes

\* Slip: the remainder of the division is not looked at.
Undivided(file, i) == TRUE

Divisible(file, i) == Span(file, i) % E = 0

Share(file, name) == Span(file, Slot(file, name)) \div E
LayerBytes(file, l) == SumOf(LAMBDA s : E * Share(file, <<l, s>>), ExpertSuffixes)

ExpertsAccepted(file) ==
    /\ \A name \in ExpertNames :
        /\ Named(file, name) # {}
        /\ Divisible(file, Slot(file, name))
        /\ Readable(file, AbsOffset(file, Slot(file, name)), Span(file, Slot(file, name)))
    /\ \A l \in Blocks : LayerBytes(file, l) = LayerBytes(file, 0)

ExpertRows(file) ==
    {[block |-> name[1], suffix |-> name[2], expert |-> e, len |-> Share(file, name),
      lo |-> AbsOffset(file, Slot(file, name)) + e * Share(file, name)] :
        name \in ExpertNames, e \in 0 .. (E - 1)}

----------------------------------------------------------------------------
(* trunk_manifest.py                                                       *)

IsExpert(file, i) == file.tensors[i].block # -1 /\ file.tensors[i].suffix \in ExpertSuffixes

Trunk(file) == {i \in Slots(file) : ~IsExpert(file, i)}
Glob(file) == {i \in Trunk(file) : file.tensors[i].block = -1}
PerLayerSuffixes(file) == {file.tensors[i].suffix : i \in Trunk(file) \ Glob(file)}

Global(file, name) == Slot(file, <<-1, name>>)
RowBytes(file) == Span(file, Global(file, TokenEmbd)) \div Vocab

\* n equal lease units that start where a tensor does.
Units(file, i, n, len) == {[lo |-> AbsOffset(file, i) + k * len, len |-> len] : k \in 0 .. (n - 1)}

PerLayerSlots(file) ==
    {Slot(file, name) : name \in Blocks \X PerLayerSuffixes(file)}

TrunkRows(file) ==
    (UNION {Units(file, i, 1, Span(file, i)) : i \in PerLayerSlots(file) \cup {Global(file, OutputNorm)}})
        \cup Units(file, Global(file, TokenEmbd), Vocab \div EB, EB * RowBytes(file))
        \cup Units(file, Global(file, Output), HT, (Vocab \div HT) * RowBytes(file))

\* Bytes the rows stand for: what the last assertion compares.
Covered(file) ==
    Spans(file, PerLayerSlots(file)) + Span(file, Global(file, OutputNorm))
        + 2 * Vocab * RowBytes(file) = Spans(file, Trunk(file))

Reconciled(file) ==
    LET firstBlock == {i \in Trunk(file) : file.tensors[i].block = 0}
        perLayer   == L * Spans(file, firstBlock)
    IN  /\ Spans(file, Trunk(file)) = NonExpertBytes
        /\ DataStartOf(file) = DataStart
        /\ Spans(file, Trunk(file)) + DataStartOf(file) = ResidentAlways
        /\ Spans(file, Glob(file)) + perLayer + DataStartOf(file) = ResidentAlways

TrunkAccepted(file) ==
    /\ Reconciled(file)
    /\ Cardinality(Glob(file)) = 3 /\ Cardinality(PerLayerSuffixes(file)) = PerLayerCount
    /\ \A name \in {TokenEmbd, Output, OutputNorm} : Named(file, <<-1, name>>) # {}
    /\ \A name \in Blocks \X PerLayerSuffixes(file) : Named(file, name) # {}
    /\ Span(file, Global(file, TokenEmbd)) % Vocab = 0
    /\ Span(file, Global(file, Output)) = Span(file, Global(file, TokenEmbd))
    /\ \A row \in TrunkRows(file) : Readable(file, row.lo, row.len)
    /\ Covered(file)

\* What the census reports of a trunk: per layer it reads block 0 alone.
Receipt(file) ==
    [global   |-> Spans(file, Glob(file)),
     perLayer |-> L * Spans(file, {i \in Trunk(file) : file.tensors[i].block = 0}),
     tied     |-> file.tensors[Global(file, TokenEmbd)].offset
                     = file.tensors[Global(file, Output)].offset]

----------------------------------------------------------------------------
(* Properties of a file, and of the manifests made from it.                *)

Bytes(row) == row.lo .. (row.lo + row.len - 1)

\* When both manifests are made, every row lies in the file's data, no byte
\* of it has two rows, and one that has none belongs to an expert tensor of a block beyond
\* block_count; and the third reader's total, which they are reconciled with,
\* differs from theirs by the trunk tensors with "_exps" in their name.  The
\* per-layer total, read off block 0, is that of all blocks; and embedding and
\* output projection are never one tensor.
Accounted(file) ==
    LET rows   == {[lo |-> r.lo, len |-> r.len] : r \in ExpertRows(file)} \cup TrunkRows(file)
        strays == {i \in Slots(file) : IsExpert(file, i) /\ file.tensors[i].block \notin Blocks}
        Tensor(i) == [lo |-> AbsOffset(file, i), len |-> Span(file, i)]
        data   == DataStartOf(file) .. (file.size - 1)
    IN  ExpertsAccepted(file) /\ TrunkAccepted(file) =>
            /\ \A r, s \in rows : r # s => Bytes(r) \cap Bytes(s) = {}
            /\ UNION {Bytes(r) : r \in rows} \subseteq data
            /\ data \subseteq UNION {Bytes(r) : r \in rows \cup {Tensor(i) : i \in strays}}
            /\ ReportedNonExpert(file)
                 + Spans(file, {i \in Trunk(file) : file.tensors[i].exps}) = NonExpertBytes
            /\ Receipt(file).perLayer = Spans(file, Trunk(file) \ Glob(file))
            /\ ~Receipt(file).tied

=============================================================================
