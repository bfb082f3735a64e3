---------------------------- MODULE ExpertStore ----------------------------
(***************************************************************************)
(* The compressed expert store of research/ob4: build_store.py encodes     *)
(* every row of the expert manifest in a pool of workers and appends the   *)
(* blobs to the container, then writes the index; verify_store.py decodes  *)
(* all rows through the index, verify_sample256.py a sample of them.  The  *)
(* container is rewritten in place, so a build that stops half way leaves  *)
(* it beside the index of an earlier build.                                *)
(*                                                                         *)
(* A row is its canonical index.  The files are sequences of cells: the    *)
(* 64 bytes of a header, the length field of a blob and each piece of a    *)
(* zstd frame are one cell each, so that a blob read with a wrong offset   *)
(* or length holds the wrong cells.  A frame decodes to its row only if it *)
(* is whole, whatever libzstd encoded it.                                  *)
(***************************************************************************)
EXTENDS Integers, Sequences, FiniteSets

CONSTANTS
    L, E, T,        \* layers, experts of a layer, tensor kinds
    Split,          \* the kinds stored in two frames (the .weight kinds)
    Versions,       \* builds of libzstd that were installed at some time
    Size,           \* Size[v][part]: cells of the frame that v makes of a part
    ChunkSize,      \* rows of a task of the pool
    NWORKERS,
    SampleN,        \* rows of the sample
    MaxBuilds       \* builds the operator starts (bound of the model)

Parts == {"scale", "mantissa", "whole"}

ASSUME StoreAssumption ==
    /\ {L, E, T, ChunkSize, NWORKERS} \subseteq Nat \ {0}
    /\ Split \subseteq 0 .. T - 1
    /\ Versions # {} /\ Versions \subseteq Nat /\ Size \in [Versions -> [Parts -> Nat \ {0}]]
    /\ SampleN \in 0 .. L * E * T /\ MaxBuilds \in Nat

NRows == L * E * T
Rows  == 0 .. NRows - 1
Kind(ci) == ci % T
ChunkOf(ci) == ci \div ChunkSize
Chunks == {ChunkOf(ci) : ci \in Rows}

VARIABLES
    zstd,        \* the installed libzstd
    builds,      \* builds started
    builder,     \* where build_store.py is
    taken,       \* chunks handed to a worker
    chunks,      \* what has become of each chunk
    recs,        \* index_rows: offset and length of the blobs written
    off,         \* the offset of the next blob
    container, index,      \* the files
    built,       \* store-build.json exists and no build was started since
    verdict, sampled       \* how the verifiers ended since the last build

pool == <<taken, chunks>>
files == <<container, index>>
checks == <<verdict, sampled>>
vars == <<zstd, builds, builder, taken, chunks, recs, off, container, index,
          built, verdict, sampled>>

Init ==
    /\ zstd \in Versions /\ builds = 0 /\ builder = "off"
    /\ taken = 0 /\ chunks = [c \in Chunks |-> "waiting"]
    /\ recs = <<>> /\ off = 0
    /\ container = <<>> /\ index = <<>>
    /\ built = FALSE /\ verdict = "none" /\ sampled = "none"

----------------------------------------------------------------------------
(* The codec.                                                              *)

Frame(ci, part, v) == [i \in 1 .. Size[v][part] |-> <<part, ci, v, i>>]
LengthField(frame) == <<"length", -1, 0, Len(frame)>>

\* encode_row, for a row whose bytes have the manifest's digest.
Blob(ci, v) ==
    IF Kind(ci) \in Split
    THEN <<LengthField(Frame(ci, "scale", v))>> \o Frame(ci, "scale", v) \o Frame(ci, "mantissa", v)
    ELSE <<LengthField(Frame(ci, "whole", v))>> \o Frame(ci, "whole", v)

DecodesTo(cells, part, ci) == \E v \in Versions : cells = Frame(ci, part, v)

----------------------------------------------------------------------------
(* build_store.py.                                                         *)

Header == <<"header", NRows, 0, 0>>

\* The container is truncated and its header written; the pool is started.
StartBuild ==
    /\ builder = "off" /\ builds < MaxBuilds
    /\ builds' = builds + 1 /\ builder' = "encode"
    /\ taken' = 0 /\ chunks' = [c \in Chunks |-> "waiting"]
    /\ recs' = <<>> /\ off' = 1
    /\ container' = <<Header>>
    /\ built' = FALSE /\ verdict' = "none" /\ sampled' = "none"
    /\ UNCHANGED <<zstd, index>>

Busy == {c \in Chunks : chunks[c] = "busy"}

\* A free worker takes the next chunk.
Take ==
    /\ builder = "encode" /\ taken \in Chunks /\ Cardinality(Busy) < NWORKERS
    /\ taken' = taken + 1 /\ chunks' = [chunks EXCEPT ![taken] = "busy"]
    /\ UNCHANGED <<zstd, builds, builder, recs, off, files, built, checks>>

\* Slip: a worker swallows the exception of a row it cannot use.
EncodeOrForget(c) ==
    /\ builder = "encode" /\ chunks[c] = "busy"
    /\ \E outcome \in {"encoded", "waiting"} : chunks' = [chunks EXCEPT ![c] = outcome]
    /\ UNCHANGED <<zstd, builds, builder, taken, recs, off, files, built, checks>>

\* Its rows are read, checked against the manifest and encoded; a short or a
\* wrong read of one row raises for the whole chunk.
Encode(c) ==
    /\ builder = "encode" /\ chunks[c] = "busy"
    /\ \E outcome \in {"encoded", "failed"} : chunks' = [chunks EXCEPT ![c] = outcome]
    /\ UNCHANGED <<zstd, builds, builder, taken, recs, off, files, built, checks>>

\* A worker process is killed: the pool replaces it but not its chunk.
LoseWorker(c) ==
    /\ builder = "encode" /\ chunks[c] = "busy"
    /\ chunks' = [chunks EXCEPT ![c] = "lost"]
    /\ UNCHANGED <<zstd, builds, builder, taken, recs, off, files, built, checks>>

AppendBlob(ci) ==
    /\ container' = container \o Blob(ci, zstd)
    /\ recs' = [r \in DOMAIN recs \cup {ci} |->
                  IF r = ci THEN <<off, Len(Blob(ci, zstd))>> ELSE recs[r]]
    /\ off' = off + Len(Blob(ci, zstd))
    /\ UNCHANGED <<zstd, builds, builder, pool, index, built, checks>>

\* Slip: the rows are written as they come (imap_unordered).
WriteAnyRow ==
    /\ builder = "encode"
    /\ \E ci \in Rows \ DOMAIN recs : chunks[ChunkOf(ci)] = "encoded" /\ AppendBlob(ci)

\* imap hands the rows over in canonical order, or raises.
NextRow == Cardinality(DOMAIN recs)
WriteRow ==
    /\ builder = "encode" /\ NextRow \in Rows /\ chunks[ChunkOf(NextRow)] = "encoded"
    /\ AppendBlob(NextRow)
Abort ==
    /\ builder = "encode" /\ NextRow \in Rows /\ chunks[ChunkOf(NextRow)] = "failed"
    /\ builder' = "off"
    /\ UNCHANGED <<zstd, builds, pool, recs, off, files, built, checks>>

\* The container is closed; a size other than expected raises.
Seal ==
    /\ builder = "encode" /\ DOMAIN recs = Rows
    /\ builder' = IF Len(container) = off THEN "sealed" ELSE "off"
    /\ UNCHANGED <<zstd, builds, pool, recs, off, files, built, checks>>

FullIndex == <<<<NRows, Len(container), 0>>>>
                \o [i \in 1 .. NRows |-> <<i - 1, recs[i - 1][1], recs[i - 1][2]>>]

OpenIndex ==
    /\ builder = "sealed"
    /\ builder' = "index" /\ index' = <<>>
    /\ UNCHANGED <<zstd, builds, pool, recs, off, container, built, checks>>
WriteIndex ==
    /\ builder = "index"
    /\ builder' = "indexed" /\ index' = FullIndex
    /\ UNCHANGED <<zstd, builds, pool, recs, off, container, built, checks>>
WriteReceipt ==
    /\ builder = "indexed"
    /\ builder' = "off" /\ built' = TRUE
    /\ UNCHANGED <<zstd, builds, pool, recs, off, files, checks>>

\* The build is killed: what its buffers held of the open file is lost.
Kill ==
    /\ builder # "off"
    /\ builder' = "off"
    /\ IF builder = "encode"
       THEN \E n \in 0 .. Len(container) : container' = SubSeq(container, 1, n)
       ELSE UNCHANGED container
    /\ IF builder = "index"
       THEN \E n \in 0 .. Len(FullIndex) : index' = SubSeq(FullIndex, 1, n)
       ELSE UNCHANGED index
    /\ UNCHANGED <<zstd, builds, pool, recs, off, built, checks>>

\* Between two builds libzstd is upgraded.
Upgrade ==
    /\ builder = "off" /\ zstd' \in Versions \ {zstd}
    /\ UNCHANGED <<builds, builder, pool, recs, off, files, built, checks>>

----------------------------------------------------------------------------
(* verify_store.py and verify_sample256.py.                                *)

Read(from, n) == SubSeq(container, from + 1, from + n)

\* Slip: a row that can be read in full is taken for good.
RowIsThere(rec) == rec[2] + rec[3] <= Len(container)

\* verify_row: whether there is a second frame is seen from the lengths alone.
RowOK(rec) ==
    /\ rec[2] + rec[3] <= Len(container)
    /\ LET blob == Read(rec[2], rec[3])
           n == blob[1][4]
       IN /\ blob[1][1] = "length" /\ n < rec[3]
          /\ IF n = rec[3] - 1
             THEN DecodesTo(Tail(blob), "whole", rec[1])
             ELSE /\ DecodesTo(SubSeq(blob, 2, n + 1), "scale", rec[1])
                  /\ DecodesTo(SubSeq(blob, n + 2, rec[3]), "mantissa", rec[1])

\* What both read first: headers and sizes.
HeadersAgree ==
    /\ index # <<>> /\ index[1][2] = Len(container)

\* The records are all there, in canonical order, and tile the container.
Canonical ==
    /\ Len(index) - 1 = index[1][1]
    /\ container # <<>> /\ container[1] = <<"header", index[1][1], 0, 0>>
    /\ \A i \in 2 .. Len(index) :
        /\ index[i][1] = i - 2
        /\ index[i][2] = IF i = 2 THEN 1 ELSE index[i-1][2] + index[i-1][3]
    /\ index[Len(index)][2] + index[Len(index)][3] = Len(container)

\* A bad row is reported or raises, depending on what it decodes to.
Outcomes(sound, rows) ==
    IF ~sound THEN {"raised"}
    ELSE IF \A i \in rows : RowOK(index[i]) THEN {"PASS"} ELSE {"FAIL", "raised"}

Verify ==
    /\ builder = "off"
    /\ verdict' \in Outcomes(HeadersAgree /\ Canonical, 2 .. Len(index))
    /\ UNCHANGED <<zstd, builds, builder, pool, recs, off, files, built, sampled>>

VerifySample ==
    /\ builder = "off"
    /\ \E sample \in SUBSET (2 .. NRows + 1) :
        /\ Cardinality(sample) = SampleN
        /\ sampled' \in Outcomes(HeadersAgree /\ index[1][1] = NRows
                                  /\ sample \subseteq DOMAIN index, sample)
    /\ UNCHANGED <<zstd, builds, builder, pool, recs, off, files, built, verdict>>

----------------------------------------------------------------------------
Build == \/ Take \/ WriteRow \/ Abort \/ Seal \/ OpenIndex \/ WriteIndex \/ WriteReceipt
         \/ \E c \in Chunks : Encode(c)

Next == \/ StartBuild \/ Build \/ Kill \/ Upgrade \/ Verify \/ VerifySample
        \/ \E c \in Chunks : LoseWorker(c)

Spec == Init /\ [][Next]_vars

\* A started build goes on, and so does each of its workers.
FairSpec == Spec /\ WF_vars(Build) /\ \A c \in Chunks : WF_vars(Encode(c))

----------------------------------------------------------------------------
(* Properties.                                                             *)

\* A build that ran to its end is accepted by both verifiers, in whatever order
\* the workers finished and whatever an earlier build left behind.
CompletedBuildVerifies ==
    built => {verdict, sampled} \subseteq {"none", "PASS"}

\* The engine finds a row at its canonical index.  A store that verify_store.py
\* accepts serves it every row, whichever builds of which libzstd were killed
\* between the container and the index it was given.
Serves(ci) ==
    /\ ci + 2 \in DOMAIN index
    /\ \E v \in Versions : Read(index[ci+2][2], index[ci+2][3]) = Blob(ci, v)
AcceptedStoreServes == verdict = "PASS" => \A ci \in Rows : Serves(ci)

\* A build ends, also if a row cannot be read, unless one of its workers was
\* killed: then imap waits for the lost chunk.
BuildEnds ==
    builder = "encode" ~> (builder # "encode" \/ \E c \in Chunks : chunks[c] = "lost")

=============================================================================
