---------------------------- MODULE StoreProofs ----------------------------
(***************************************************************************)
(* Proofs about ExpertStore, for any layers, experts and tensor kinds, any *)
(* builds of libzstd and sizes of their frames, any pool and any number of *)
(* builds: a build that ran to its end is accepted, and a store that       *)
(* verify_store.py accepts serves every row.                               *)
(***************************************************************************)
EXTENDS ExpertStore, SequenceTheorems, FiniteSetTheorems, TLAPS

----------------------------------------------------------------------------
(* The codec.                                                              *)

Cell == (Parts \cup {"header", "length"}) \X Int \X Int \X Int

(* There are rows.                                                         *)
LEMMA RowCount == NRows \in Nat \ {0}
<1>1. \A a, b \in Nat \ {0} : a * b \in Nat \ {0}
    OBVIOUS
<1>2. L * E \in Nat \ {0}
    BY <1>1, StoreAssumption
<1>3. QED BY <1>1, <1>2, StoreAssumption DEF NRows

(* A frame is a sequence of its cells, and not empty.                      *)
LEMMA FrameCells ==
    ASSUME NEW ci \in Int, NEW part \in Parts, NEW v \in Versions
    PROVE  /\ Frame(ci, part, v) \in Seq(Cell)
           /\ Len(Frame(ci, part, v)) = Size[v][part] /\ Size[v][part] \in Nat \ {0}
           /\ \A i \in 1 .. Size[v][part] : Frame(ci, part, v)[i] = <<part, ci, v, i>>
<1>1. Size[v][part] \in Nat \ {0} /\ v \in Int
    BY StoreAssumption
<1>2. \A i \in 1 .. Size[v][part] : <<part, ci, v, i>> \in Cell
    BY <1>1 DEF Cell
<1>3. Frame(ci, part, v) \in Seq(Cell)
    BY <1>1, <1>2 DEF Frame
<1>4. Len(Frame(ci, part, v)) = Size[v][part]
    BY <1>1 DEF Frame
<1>5. \A i \in 1 .. Size[v][part] : Frame(ci, part, v)[i] = <<part, ci, v, i>>
    BY DEF Frame
<1>6. QED BY <1>1, <1>3, <1>4, <1>5

(* A length field is a sequence of one cell.                               *)
LEMMA LengthCell ==
    ASSUME NEW n \in Nat
    PROVE  /\ <<<<"length", -1, 0, n>>>> \in Seq(Cell)
           /\ Len(<<<<"length", -1, 0, n>>>>) = 1
<1>1. <<"length", -1, 0, n>> \in Cell
    BY DEF Cell
<1>2. QED BY <1>1

(* The cells of two sequences, one behind the other.                       *)
LEMMA Concatenation ==
    ASSUME NEW s \in Seq(Cell), NEW t \in Seq(Cell)
    PROVE  /\ s \o t \in Seq(Cell) /\ Len(s \o t) = Len(s) + Len(t)
           /\ \A i \in 1 .. Len(s) + Len(t) :
                 (s \o t)[i] = IF i <= Len(s) THEN s[i] ELSE t[i - Len(s)]
BY ConcatProperties, Zenon

(* The blob of a row in two frames.                                        *)
LEMMA SplitBlob ==
    ASSUME NEW ci \in Int, NEW v \in Versions, Kind(ci) \in Split
    PROVE  LET a == Size[v]["scale"]
               b == Size[v]["mantissa"]
           IN /\ Blob(ci, v) \in Seq(Cell) /\ Len(Blob(ci, v)) = 1 + a + b
              /\ Blob(ci, v)[1] = <<"length", -1, 0, a>>
              /\ \A i \in 1 .. a : Blob(ci, v)[1 + i] = <<"scale", ci, v, i>>
              /\ \A i \in 1 .. b : Blob(ci, v)[1 + a + i] = <<"mantissa", ci, v, i>>
<1> DEFINE a == Size[v]["scale"]
           b == Size[v]["mantissa"]
           s1 == <<<<"length", -1, 0, a>>>>
           s2 == Frame(ci, "scale", v)
           s3 == Frame(ci, "mantissa", v)
<1>1. /\ s2 \in Seq(Cell) /\ Len(s2) = a /\ a \in Nat \ {0}
      /\ \A i \in 1 .. a : s2[i] = <<"scale", ci, v, i>>
    BY FrameCells DEF Parts
<1>2. /\ s3 \in Seq(Cell) /\ Len(s3) = b /\ b \in Nat \ {0}
      /\ \A i \in 1 .. b : s3[i] = <<"mantissa", ci, v, i>>
    BY FrameCells DEF Parts
<1>3. s1 \in Seq(Cell) /\ Len(s1) = 1 /\ s1[1] = <<"length", -1, 0, a>>
    BY <1>1, LengthCell
<1>4. Blob(ci, v) = (s1 \o s2) \o s3
    BY <1>1 DEF Blob, LengthField
<1> HIDE DEF a, b, s1, s2, s3
<1>5. /\ s1 \o s2 \in Seq(Cell) /\ Len(s1 \o s2) = 1 + a
      /\ \A i \in 1 .. 1 + a : (s1 \o s2)[i] = IF i <= 1 THEN s1[i] ELSE s2[i - 1]
    <2>1. s1 \in Seq(Cell) /\ s2 \in Seq(Cell)
        BY <1>1, <1>3
    <2>2. /\ s1 \o s2 \in Seq(Cell) /\ Len(s1 \o s2) = Len(s1) + Len(s2)
          /\ \A i \in 1 .. Len(s1) + Len(s2) :
                (s1 \o s2)[i] = IF i <= Len(s1) THEN s1[i] ELSE s2[i - Len(s1)]
        BY <2>1, Concatenation, Zenon
    <2>3. Len(s1) = 1 /\ Len(s2) = a
        BY <1>1, <1>3
    <2>4. QED BY <2>2, <2>3
<1>6. /\ Blob(ci, v) \in Seq(Cell) /\ Len(Blob(ci, v)) = 1 + a + b
      /\ \A i \in 1 .. 1 + a + b :
            Blob(ci, v)[i] = IF i <= 1 + a THEN (s1 \o s2)[i] ELSE s3[i - (1 + a)]
    <2>1. (s1 \o s2) \in Seq(Cell) /\ s3 \in Seq(Cell)
        BY <1>2, <1>5
    <2>2. /\ (s1 \o s2) \o s3 \in Seq(Cell) /\ Len((s1 \o s2) \o s3) = Len((s1 \o s2)) + Len(s3)
          /\ \A i \in 1 .. Len((s1 \o s2)) + Len(s3) :
                ((s1 \o s2) \o s3)[i] = IF i <= Len((s1 \o s2)) THEN (s1 \o s2)[i] ELSE s3[i - Len((s1 \o s2))]
        BY <2>1, Concatenation, Zenon
    <2>3. Len((s1 \o s2)) = 1 + a /\ Len(s3) = b
        BY <1>2, <1>5
    <2>4. QED BY <2>2, <2>3, <1>4
<1>7. Blob(ci, v)[1] = <<"length", -1, 0, a>>
    BY <1>1, <1>2, <1>3, <1>5, <1>6
<1>8. ASSUME NEW i \in 1 .. a PROVE Blob(ci, v)[1 + i] = <<"scale", ci, v, i>>
    <2>0. i \in Nat /\ 1 <= i /\ i <= a /\ a \in Nat /\ b \in Nat
        BY <1>1, <1>2
    <2> DEFINE j == 1 + i
    <2>1. j \in 1 .. 1 + a /\ ~ (j <= 1) /\ j - 1 = i /\ j \in 1 .. 1 + a + b /\ j <= 1 + a
        BY <2>0
    <2>2. Blob(ci, v)[j] = s2[i]
        <3> HIDE DEF j
        <3>1. Blob(ci, v)[j] = (s1 \o s2)[j]
            BY <1>6, <2>1
        <3>2. (s1 \o s2)[j] = s2[j - 1]
            BY <1>5, <2>1
        <3>3. QED BY <2>1, <3>1, <3>2
    <2>3. QED BY <1>1, <2>2
<1>9. ASSUME NEW i \in 1 .. b PROVE Blob(ci, v)[1 + a + i] = <<"mantissa", ci, v, i>>
    <2>1. 1 + a + i \in 1 .. 1 + a + b /\ ~ (1 + a + i <= 1 + a) /\ (1 + a + i) - (1 + a) = i
        BY <1>1, <1>2
    <2>2. Blob(ci, v)[1 + a + i] = s3[i]
        BY <1>6, <2>1
    <2>3. QED BY <1>2, <2>2
<1>10. QED BY <1>6, <1>7, <1>8, <1>9 DEF a, b

(* The blob of a row in one frame.                                         *)
LEMMA WholeBlob ==
    ASSUME NEW ci \in Int, NEW v \in Versions, Kind(ci) \notin Split
    PROVE  LET a == Size[v]["whole"]
           IN /\ Blob(ci, v) \in Seq(Cell) /\ Len(Blob(ci, v)) = 1 + a
              /\ Blob(ci, v)[1] = <<"length", -1, 0, a>>
              /\ \A i \in 1 .. a : Blob(ci, v)[1 + i] = <<"whole", ci, v, i>>
<1> DEFINE a == Size[v]["whole"]
           s1 == <<<<"length", -1, 0, a>>>>
           s2 == Frame(ci, "whole", v)
<1>1. /\ s2 \in Seq(Cell) /\ Len(s2) = a /\ a \in Nat \ {0}
      /\ \A i \in 1 .. a : s2[i] = <<"whole", ci, v, i>>
    BY FrameCells DEF Parts
<1>2. s1 \in Seq(Cell) /\ Len(s1) = 1 /\ s1[1] = <<"length", -1, 0, a>>
    BY <1>1, LengthCell
<1>3. Blob(ci, v) = s1 \o s2
    BY <1>1 DEF Blob, LengthField
<1> HIDE DEF a, s1, s2
<1>4. /\ Blob(ci, v) \in Seq(Cell) /\ Len(Blob(ci, v)) = 1 + a
      /\ \A i \in 1 .. 1 + a : Blob(ci, v)[i] = IF i <= 1 THEN s1[i] ELSE s2[i - 1]
    <2>1. s1 \in Seq(Cell) /\ s2 \in Seq(Cell)
        BY <1>1, <1>2
    <2>2. /\ s1 \o s2 \in Seq(Cell) /\ Len(s1 \o s2) = Len(s1) + Len(s2)
          /\ \A i \in 1 .. Len(s1) + Len(s2) :
                (s1 \o s2)[i] = IF i <= Len(s1) THEN s1[i] ELSE s2[i - Len(s1)]
        BY <2>1, Concatenation, Zenon
    <2>3. Len(s1) = 1 /\ Len(s2) = a
        BY <1>1, <1>2
    <2>4. QED BY <2>2, <2>3, <1>3
<1>5. ASSUME NEW i \in 1 .. a PROVE Blob(ci, v)[1 + i] = <<"whole", ci, v, i>>
    <2>1. 1 + i \in 1 .. 1 + a /\ ~ (1 + i <= 1) /\ (1 + i) - 1 = i
        BY <1>1
    <2>2. QED BY <1>1, <1>4, <2>1
<1>6. Blob(ci, v)[1] = <<"length", -1, 0, a>>
    BY <1>1, <1>2, <1>4
<1>7. QED BY <1>4, <1>5, <1>6 DEF a

(* The cells that one build of libzstd puts into a container.              *)
CellsOf(v) ==
    {Header} \cup UNION {{Blob(ci, v)[i] : i \in 1 .. Len(Blob(ci, v))} : ci \in Rows}

(* The blobs of the first k rows, as one build of libzstd makes them, tile *)
(* the container behind its header, and recs says where they are.          *)
Written(v, k) ==
    /\ k \in 0 .. NRows /\ DOMAIN recs = 0 .. k - 1
    /\ \A ci \in 0 .. k - 1 :
        /\ recs[ci][1] \in Nat /\ recs[ci][2] = Len(Blob(ci, v))
        /\ recs[ci][1] = IF ci = 0 THEN 1 ELSE recs[ci - 1][1] + recs[ci - 1][2]
        /\ recs[ci][1] + recs[ci][2] <= off
        /\ Read(recs[ci][1], recs[ci][2]) = Blob(ci, v)
    /\ off \in Nat \ {0} /\ off = IF k = 0 THEN 1 ELSE recs[k - 1][1] + recs[k - 1][2]
    /\ container \in Seq(CellsOf(v)) /\ Len(container) = off

TypeOK ==
    /\ zstd \in Versions /\ builds \in Nat
    /\ builder \in {"off", "encode", "sealed", "index", "indexed"}
    /\ taken \in Nat
    /\ chunks \in [Chunks -> {"waiting", "busy", "encoded", "failed", "lost"}]
    /\ index \in Seq(Nat \X Nat \X Nat) /\ \A i \in 2 .. Len(index) : index[i][3] > 0
    /\ built \in BOOLEAN
    /\ {verdict, sampled} \subseteq {"none", "raised", "FAIL", "PASS"}

(* What a running build has written, and what a finished one has left.     *)
BuildInOrder ==
    /\ builder = "encode" => \E k \in 0 .. NRows : Written(zstd, k)
    /\ builder \in {"sealed", "index", "indexed"} => Written(zstd, NRows)
    /\ builder = "indexed" => index = FullIndex
    /\ built => builder = "off" /\ index = FullIndex /\ \E v \in Versions : Written(v, NRows)

(* However a build ended, its container holds cells of one libzstd behind  *)
(* the header.                                                             *)
OneLibzstd ==
    /\ \E v \in Versions : container \in Seq(CellsOf(v))
    /\ container # <<>> => container[1] = Header

(* A verdict is about the files that are there.                            *)
VerdictIsLast == verdict # "none" \/ sampled # "none" => builder = "off"

IInv ==
    /\ TypeOK
    /\ BuildInOrder
    /\ OneLibzstd
    /\ VerdictIsLast
    /\ CompletedBuildVerifies
    /\ AcceptedStoreServes

----------------------------------------------------------------------------
(* The cells of a container.                                               *)

(* What a cell of a blob says of the row and the libzstd it comes from.    *)
Form(c, v) ==
    /\ c[1] = "length" => c = <<"length", -1, 0, c[4]>> /\ c[4] \in Nat
    /\ c[1] = "whole" => c[3] = v /\ Kind(c[2]) \notin Split
    /\ c[1] \in {"scale", "mantissa"} => c[3] = v /\ Kind(c[2]) \in Split

(* Where a cell of a blob comes from.                                      *)
LEMMA BlobForm ==
    ASSUME NEW ci \in Rows, NEW v \in Versions
    PROVE  /\ Blob(ci, v) \in Seq(Cell)
           /\ \A i \in 1 .. Len(Blob(ci, v)) : Form(Blob(ci, v)[i], v)
<1>1. ci \in Int /\ \A part \in Parts : Size[v][part] \in Nat \ {0}
    BY RowCount, StoreAssumption DEF Rows
<1>2. CASE Kind(ci) \in Split
    <2> DEFINE a == Size[v]["scale"]
               b == Size[v]["mantissa"]
    <2>1. a \in Nat /\ b \in Nat
        BY <1>1 DEF Parts
    <2>2. /\ Blob(ci, v) \in Seq(Cell) /\ Len(Blob(ci, v)) = 1 + a + b
          /\ Blob(ci, v)[1] = <<"length", -1, 0, a>>
          /\ \A i \in 1 .. a : Blob(ci, v)[1 + i] = <<"scale", ci, v, i>>
          /\ \A i \in 1 .. b : Blob(ci, v)[1 + a + i] = <<"mantissa", ci, v, i>>
        BY <1>1, <1>2, SplitBlob
    <2> HIDE DEF a, b
    <2>3. ASSUME NEW i \in 1 .. Len(Blob(ci, v)) PROVE Form(Blob(ci, v)[i], v)
        <3>1. CASE i = 1
            BY <2>1, <2>2, <3>1 DEF Form
        <3>2. CASE i \in 2 .. 1 + a
            <4>1. i - 1 \in 1 .. a /\ 1 + (i - 1) = i
                BY <2>1, <3>2
            <4>2. Blob(ci, v)[i] = <<"scale", ci, v, i - 1>>
                BY <2>2, <4>1
            <4>3. QED BY <1>2, <4>2 DEF Form
        <3>3. CASE i > 1 + a
            <4>1. i - 1 - a \in 1 .. b /\ 1 + a + (i - 1 - a) = i
                BY <2>1, <2>2, <3>3
            <4>2. Blob(ci, v)[i] = <<"mantissa", ci, v, i - 1 - a>>
                BY <2>2, <4>1
            <4>3. QED BY <1>2, <4>2 DEF Form
        <3>4. QED BY <2>1, <2>2, <3>1, <3>2, <3>3
    <2>4. QED BY <2>2, <2>3
<1>3. CASE Kind(ci) \notin Split
    <2> DEFINE a == Size[v]["whole"]
    <2>1. a \in Nat
        BY <1>1 DEF Parts
    <2>2. /\ Blob(ci, v) \in Seq(Cell) /\ Len(Blob(ci, v)) = 1 + a
          /\ Blob(ci, v)[1] = <<"length", -1, 0, a>>
          /\ \A i \in 1 .. a : Blob(ci, v)[1 + i] = <<"whole", ci, v, i>>
        BY <1>1, <1>3, WholeBlob
    <2> HIDE DEF a
    <2>3. ASSUME NEW i \in 1 .. Len(Blob(ci, v)) PROVE Form(Blob(ci, v)[i], v)
        <3>1. CASE i = 1
            BY <2>1, <2>2, <3>1 DEF Form
        <3>2. CASE i > 1
            <4>1. i - 1 \in 1 .. a /\ 1 + (i - 1) = i
                BY <2>1, <2>2, <3>2
            <4>2. Blob(ci, v)[i] = <<"whole", ci, v, i - 1>>
                BY <2>2, <4>1
            <4>3. QED BY <1>3, <4>2 DEF Form
        <3>3. QED BY <2>1, <2>2, <3>1, <3>2
    <2>4. QED BY <2>2, <2>3
<1>4. QED BY <1>2, <1>3

(* Where a cell of a container comes from.                                 *)
LEMMA CellForm ==
    ASSUME NEW v \in Versions, NEW c \in CellsOf(v)
    PROVE  c \in Cell /\ Form(c, v)
<1>1. CASE c = Header
    BY <1>1, RowCount DEF Header, Form, Cell
<1>2. CASE \E ci \in Rows : \E i \in 1 .. Len(Blob(ci, v)) : c = Blob(ci, v)[i]
    <2>1. PICK ci \in Rows : \E i \in 1 .. Len(Blob(ci, v)) : c = Blob(ci, v)[i]
        BY <1>2
    <2>2. PICK i \in 1 .. Len(Blob(ci, v)) : c = Blob(ci, v)[i]
        BY <2>1
    <2>3. Blob(ci, v) \in Seq(Cell) /\ Form(c, v)
        BY <2>2, BlobForm
    <2>4. c \in Cell
        BY <2>2, <2>3, ElementOfSeq
    <2>5. QED BY <2>3, <2>4
<1>3. QED BY <1>1, <1>2 DEF CellsOf

(* A blob goes into the container.                                         *)
LEMMA BlobInContainer ==
    ASSUME NEW ci \in Rows, NEW v \in Versions
    PROVE  Blob(ci, v) \in Seq(CellsOf(v)) /\ Len(Blob(ci, v)) \in Nat \ {0}
<1>1. Blob(ci, v) \in Seq(Cell)
    BY BlobForm
<1>2. Blob(ci, v) \in [1 .. Len(Blob(ci, v)) -> Cell] /\ Len(Blob(ci, v)) \in Nat
    BY <1>1, LenProperties
<1>3. \A i \in 1 .. Len(Blob(ci, v)) : Blob(ci, v)[i] \in CellsOf(v)
    BY DEF CellsOf
<1>4. Blob(ci, v) \in [1 .. Len(Blob(ci, v)) -> CellsOf(v)]
    BY <1>2, <1>3
<1>5. Blob(ci, v) \in Seq(CellsOf(v))
    BY <1>2, <1>4, SeqDef
<1>6. Len(Blob(ci, v)) # 0
    <2>1. ci \in Int /\ \A part \in Parts : Size[v][part] \in Nat \ {0}
        BY RowCount, StoreAssumption DEF Rows
    <2>2. CASE Kind(ci) \in Split
        BY <2>1, <2>2, SplitBlob DEF Parts
    <2>3. CASE Kind(ci) \notin Split
        BY <2>1, <2>3, WholeBlob DEF Parts
    <2>4. QED BY <2>2, <2>3
<1>7. QED BY <1>2, <1>5, <1>6

----------------------------------------------------------------------------
(* The verifier.                                                           *)

(* What a read within the container returns.                               *)
LEMMA ReadCells ==
    ASSUME NEW v \in Versions, container \in Seq(CellsOf(v)),
           NEW from \in Nat, NEW n \in Nat, from + n <= Len(container)
    PROVE  /\ Read(from, n) \in Seq(CellsOf(v)) /\ Len(Read(from, n)) = n
           /\ \A i \in 1 .. n : Read(from, n)[i] = container[from + i]
<1>1. from + 1 \in Int /\ from + n \in Int /\ Len(container) \in Nat
    BY LenProperties
<1>2. \A i \in from + 1 .. from + n : container[i] \in CellsOf(v)
    BY <1>1, ElementOfSeq
<1>3. Read(from, n) \in Seq(CellsOf(v)) /\ Len(Read(from, n)) = n
    BY <1>1, <1>2, SubSeqProperties DEF Read
<1>4. \A i \in 1 .. n : Read(from, n)[i] = container[from + i]
    BY <1>1 DEF Read
<1>5. QED BY <1>3, <1>4

(* A piece of a blob.                                                      *)
LEMMA Piece ==
    ASSUME NEW S, NEW s \in Seq(S), NEW m \in Nat \ {0}, NEW n \in Nat, m <= n + 1, n <= Len(s)
    PROVE  /\ SubSeq(s, m, n) \in Seq(S) /\ Len(SubSeq(s, m, n)) = n - m + 1
           /\ \A i \in 1 .. n - m + 1 : SubSeq(s, m, n)[i] = s[m + i - 1]
<1>1. Len(SubSeq(s, m, n)) = n - m + 1
    OBVIOUS
<1>2. \A i \in 1 .. n - m + 1 : SubSeq(s, m, n)[i] = s[m + i - 1]
    OBVIOUS
<1>3. SubSeq(s, m, n) \in Seq(S)
    OBVIOUS
<1>4. QED BY <1>1, <1>2, <1>3

(* The bytes of a frame tell its part, its row and the libzstd.            *)
LEMMA PieceIsFrame ==
    ASSUME NEW v \in Versions, NEW s \in Seq(CellsOf(v)), NEW m \in Nat \ {0}, NEW n \in Nat,
           m <= n + 1, n <= Len(s),
           NEW ci \in Int, NEW part \in Parts, DecodesTo(SubSeq(s, m, n), part, ci)
    PROVE  /\ n - m + 1 = Size[v][part]
           /\ \A i \in 1 .. n - m + 1 : s[m + i - 1] = <<part, ci, v, i>>
           /\ part = "whole" <=> Kind(ci) \notin Split
<1>1. PICK u \in Versions : SubSeq(s, m, n) = Frame(ci, part, u)
    BY DEF DecodesTo
<1>2. /\ Len(SubSeq(s, m, n)) = n - m + 1
      /\ \A i \in 1 .. n - m + 1 : SubSeq(s, m, n)[i] = s[m + i - 1]
    BY Piece
<1>3. /\ Len(Frame(ci, part, u)) = Size[u][part] /\ Size[u][part] \in Nat \ {0}
      /\ \A i \in 1 .. Size[u][part] : Frame(ci, part, u)[i] = <<part, ci, u, i>>
    BY FrameCells
<1>4. n - m + 1 = Size[u][part]
    BY <1>1, <1>2, <1>3
<1>5. \A i \in 1 .. n - m + 1 : s[m + i - 1] = <<part, ci, u, i>>
    BY <1>1, <1>2, <1>3, <1>4
<1>6. 1 \in 1 .. n - m + 1 /\ m + 1 - 1 = m /\ m \in 1 .. Len(s)
    <2>1. Len(s) \in Nat
        BY LenProperties
    <2>2. QED BY <1>3, <1>4, <2>1
<1>7. s[m] = <<part, ci, u, 1>> /\ s[m] \in CellsOf(v)
    BY <1>5, <1>6, ElementOfSeq
<1>8. Form(<<part, ci, u, 1>>, v)
    BY <1>7, CellForm
<1>9. u = v /\ (part = "whole" <=> Kind(ci) \notin Split)
    BY <1>8 DEF Form, Parts
<1>10. QED BY <1>4, <1>5, <1>9

(* Sequences with the same cells are the same.                             *)
LEMMA SameCells ==
    ASSUME NEW S, NEW S2, NEW s \in Seq(S), NEW t \in Seq(S2), Len(s) = Len(t),
           \A i \in 1 .. Len(s) : s[i] = t[i]
    PROVE  s = t
<1>1. s \in [1 .. Len(s) -> S] /\ t \in [1 .. Len(t) -> S2]
    BY LenProperties
<1>2. QED BY <1>1

(* A row that verify_row accepts is the blob that the container's libzstd  *)
(* made of it: the two frames of one row cannot come from two builds.      *)
LEMMA AcceptedRowServed ==
    ASSUME NEW v \in Versions, container \in Seq(CellsOf(v)),
           NEW rec \in Nat \X Nat \X Nat, rec[3] > 0, RowOK(rec)
    PROVE  Read(rec[2], rec[3]) = Blob(rec[1], v)
<1> DEFINE s == Read(rec[2], rec[3])
           ci == rec[1]
           n == s[1][4]
<1>1. ci \in Int /\ rec[2] \in Nat /\ rec[3] \in Nat \ {0} /\ rec[2] + rec[3] <= Len(container)
    BY DEF RowOK
<1>2. s \in Seq(CellsOf(v)) /\ Len(s) = rec[3]
    BY <1>1, ReadCells
<1>3. s[1][1] = "length" /\ n < rec[3]
    BY DEF RowOK
<1>4. /\ n = rec[3] - 1 => DecodesTo(Tail(s), "whole", ci)
      /\ n # rec[3] - 1 => /\ DecodesTo(SubSeq(s, 2, n + 1), "scale", ci)
                           /\ DecodesTo(SubSeq(s, n + 2, rec[3]), "mantissa", ci)
    BY DEF RowOK
<1> HIDE DEF s, ci
<1>5. \A i \in 1 .. Len(s) : s[i] \in CellsOf(v)
    BY <1>2, ElementOfSeq
<1>6. s[1] = <<"length", -1, 0, n>> /\ n \in Nat
    <2>1. Form(s[1], v)
        BY <1>1, <1>2, <1>5, CellForm
    <2>2. QED BY <1>3, <2>1 DEF Form
<1> HIDE DEF n
<1>10. ASSUME NEW m \in Nat \ {0}, NEW k \in Nat, m <= k + 1, k <= Len(s),
              NEW part \in Parts, DecodesTo(SubSeq(s, m, k), part, ci)
       PROVE  /\ k - m + 1 = Size[v][part]
              /\ \A i \in 1 .. k - m + 1 : s[m + i - 1] = <<part, ci, v, i>>
              /\ part = "whole" <=> Kind(ci) \notin Split
    <2>1. s \in Seq(CellsOf(v)) /\ ci \in Int
        BY <1>1, <1>2
    <2>2. QED BY <1>10, <2>1, PieceIsFrame, Zenon
<1>7. CASE n = rec[3] - 1
    <2> DEFINE a == Size[v]["whole"]
    <2>1. Tail(s) = SubSeq(s, 2, rec[3])
        <3>1. s # <<>>
            BY <1>1, <1>2
        <3>2. QED BY <1>2, <3>1, TailIsSubSeq
    <2>2. DecodesTo(SubSeq(s, 2, rec[3]), "whole", ci)
        BY <1>4, <1>7, <2>1
    <2>3. /\ rec[3] - 2 + 1 = a
          /\ \A i \in 1 .. rec[3] - 2 + 1 : s[2 + i - 1] = <<"whole", ci, v, i>>
          /\ Kind(ci) \notin Split
        <3>1. 2 \in Nat \ {0} /\ 2 <= rec[3] + 1 /\ rec[3] <= Len(s) /\ rec[3] \in Nat /\ "whole" \in Parts
            BY <1>1, <1>2 DEF Parts
        <3>2. /\ rec[3] - 2 + 1 = Size[v]["whole"]
              /\ \A i \in 1 .. rec[3] - 2 + 1 : s[2 + i - 1] = <<"whole", ci, v, i>>
              /\ "whole" = "whole" <=> Kind(ci) \notin Split
            BY <1>10, <2>2, <3>1
        <3>3. QED BY <3>2
    <2>4. /\ Blob(ci, v) \in Seq(Cell) /\ Len(Blob(ci, v)) = 1 + a
          /\ Blob(ci, v)[1] = <<"length", -1, 0, a>>
          /\ \A i \in 1 .. a : Blob(ci, v)[1 + i] = <<"whole", ci, v, i>>
        BY <1>1, <2>3, WholeBlob
    <2> HIDE DEF a
    <2>5. a = rec[3] - 1 /\ n = a
        BY <1>1, <1>7, <2>3
    <2>6. ASSUME NEW i \in 1 .. Len(s) PROVE s[i] = Blob(ci, v)[i]
        <3>1. CASE i = 1
            BY <1>6, <2>4, <2>5, <3>1
        <3>2. CASE i # 1
            <4>1. i - 1 \in 1 .. a /\ 2 + (i - 1) - 1 = i /\ 1 + (i - 1) = i
                BY <1>1, <1>2, <2>5, <3>2
            <4>2. s[i] = <<"whole", ci, v, i - 1>> /\ Blob(ci, v)[i] = <<"whole", ci, v, i - 1>>
                BY <2>3, <2>4, <4>1
            <4>3. QED BY <4>2
        <3>3. QED BY <3>1, <3>2
    <2>7. Len(s) = Len(Blob(ci, v))
        <3>1. Len(s) = rec[3] /\ Len(Blob(ci, v)) = 1 + a /\ a = rec[3] - 1
            BY <1>2, <2>4, <2>5
        <3>2. rec[3] \in Nat
            BY <1>1
        <3>3. QED BY <3>1, <3>2
    <2>8. QED BY <1>2, <2>4, <2>6, <2>7, SameCells DEF s, ci
<1>8. CASE n # rec[3] - 1
    <2> DEFINE a == Size[v]["scale"]
               b == Size[v]["mantissa"]
    <2>0. n + 2 <= rec[3]
        BY <1>1, <1>3, <1>6, <1>8 DEF n
    <2>1. /\ n = a
          /\ \A i \in 1 .. n : s[1 + i] = <<"scale", ci, v, i>>
          /\ Kind(ci) \in Split
        <3> DEFINE k == n + 1
        <3>1. DecodesTo(SubSeq(s, 2, k), "scale", ci)
            BY <1>4, <1>8
        <3>2. "scale" \in Parts /\ 2 \in Nat \ {0} /\ k \in Nat /\ 2 <= k + 1 /\ k <= Len(s)
            BY <1>1, <1>2, <1>6, <2>0 DEF Parts
        <3> HIDE DEF k
        <3>3. /\ k - 2 + 1 = Size[v]["scale"]
              /\ \A i \in 1 .. k - 2 + 1 : s[2 + i - 1] = <<"scale", ci, v, i>>
              /\ "scale" = "whole" <=> Kind(ci) \notin Split
            BY <1>10, <3>1, <3>2
        <3>4. n = k - 2 + 1 /\ \A i \in 1 .. n : 2 + i - 1 = 1 + i
            BY <1>6 DEF k
        <3>5. QED BY <3>3, <3>4
    <2>2. /\ rec[3] - (n + 2) + 1 = b
          /\ \A i \in 1 .. rec[3] - (n + 2) + 1 : s[n + 2 + i - 1] = <<"mantissa", ci, v, i>>
        <3>1. DecodesTo(SubSeq(s, n + 2, rec[3]), "mantissa", ci)
            BY <1>4, <1>8
        <3>2. "mantissa" \in Parts /\ n + 2 \in Nat \ {0} /\ rec[3] \in Nat
              /\ n + 2 <= rec[3] + 1 /\ rec[3] <= Len(s)
            BY <1>1, <1>2, <1>6, <2>0 DEF Parts
        <3> DEFINE m == n + 2
        <3>3. m \in Nat \ {0} /\ DecodesTo(SubSeq(s, m, rec[3]), "mantissa", ci)
            BY <3>1, <3>2
        <3>4. rec[3] \in Nat /\ m <= rec[3] + 1 /\ rec[3] <= Len(s)
            BY <3>2
        <3> HIDE DEF m
        <3>5. /\ rec[3] - m + 1 = Size[v]["mantissa"]
              /\ \A i \in 1 .. rec[3] - m + 1 : s[m + i - 1] = <<"mantissa", ci, v, i>>
            BY <1>10, <3>2, <3>3, <3>4
        <3>6. QED BY <3>5 DEF m
    <2>3. /\ Blob(ci, v) \in Seq(Cell) /\ Len(Blob(ci, v)) = 1 + a + b
          /\ Blob(ci, v)[1] = <<"length", -1, 0, a>>
          /\ \A i \in 1 .. a : Blob(ci, v)[1 + i] = <<"scale", ci, v, i>>
          /\ \A i \in 1 .. b : Blob(ci, v)[1 + a + i] = <<"mantissa", ci, v, i>>
        BY <1>1, <2>1, SplitBlob
    <2> HIDE DEF a, b
    <2>4. n = a /\ rec[3] = 1 + a + b /\ a \in Nat
        <3> DEFINE r == rec[3]
        <3>1. r - (n + 2) + 1 = b /\ n = a
            BY <2>1, <2>2
        <3>2. r \in Nat /\ n \in Nat
            BY <1>1, <1>6
        <3> HIDE DEF r
        <3>3. n = a /\ r = 1 + a + b /\ a \in Nat
            BY <3>1, <3>2
        <3>4. QED BY <3>3 DEF r
    <2>5. ASSUME NEW i \in 1 .. Len(s) PROVE s[i] = Blob(ci, v)[i]
        <3>1. CASE i = 1
            BY <1>6, <2>3, <2>4, <3>1
        <3>2. CASE i \in 2 .. 1 + a
            <4>1. i - 1 \in 1 .. n /\ i - 1 \in 1 .. a /\ 1 + (i - 1) = i
                BY <2>4, <3>2
            <4>2. s[i] = <<"scale", ci, v, i - 1>> /\ Blob(ci, v)[i] = <<"scale", ci, v, i - 1>>
                BY <2>1, <2>3, <4>1
            <4>3. QED BY <4>2
        <3>3. CASE i > 1 + a
            <4> DEFINE j == i - 1 - a
            <4>0. /\ a \in Nat /\ n = a /\ rec[3] \in Nat /\ rec[3] - (n + 2) + 1 = b
                  /\ rec[3] = 1 + a + b /\ i \in Nat /\ i <= rec[3]
                <5>1. Len(s) = rec[3] /\ rec[3] \in Nat
                    BY <1>1, <1>2
                <5>2. i \in Nat /\ i <= rec[3]
                    BY <5>1
                <5>3. QED BY <2>2, <2>4, <5>1, <5>2
            <4>1. j \in 1 .. rec[3] - (n + 2) + 1 /\ j \in 1 .. b
                  /\ n + 2 + j - 1 = i /\ 1 + a + j = i
                <5> HIDE DEF n, s
                <5>1. j \in Int /\ 1 <= j /\ j <= b /\ b \in Int
                    BY <3>3, <4>0
                <5>2. QED BY <3>3, <4>0, <5>1
            <4> HIDE DEF j
            <4>2. s[i] = <<"mantissa", ci, v, j>> /\ Blob(ci, v)[i] = <<"mantissa", ci, v, j>>
                BY <2>2, <2>3, <4>1
            <4>3. QED BY <4>2
        <3>4. QED BY <1>1, <1>2, <2>4, <3>1, <3>2, <3>3
    <2>6. Len(s) = Len(Blob(ci, v))
        BY <1>2, <2>3, <2>4
    <2>7. QED BY <1>2, <2>3, <2>5, <2>6, SameCells DEF s, ci
<1>9. QED BY <1>7, <1>8

(* A piece that holds a frame's cells decodes to the frame's row.          *)
LEMMA FrameDecodes ==
    ASSUME NEW ci \in Int, NEW v \in Versions, NEW part \in Parts, NEW s \in Seq(Cell),
           NEW m \in Nat \ {0}, NEW n \in Nat, n <= Len(s), n - m + 1 = Size[v][part],
           \A i \in 1 .. Size[v][part] : s[m + i - 1] = <<part, ci, v, i>>
    PROVE  DecodesTo(SubSeq(s, m, n), part, ci)
<1>1. /\ Frame(ci, part, v) \in Seq(Cell)
      /\ Len(Frame(ci, part, v)) = Size[v][part] /\ Size[v][part] \in Nat \ {0}
      /\ \A i \in 1 .. Size[v][part] : Frame(ci, part, v)[i] = <<part, ci, v, i>>
    BY FrameCells
<1>2. m <= n + 1
    BY <1>1
<1>3. /\ Len(SubSeq(s, m, n)) = n - m + 1
      /\ \A i \in 1 .. n - m + 1 : SubSeq(s, m, n)[i] = s[m + i - 1]
    BY <1>2, Piece
<1>4. SubSeq(s, m, n) \in Seq(Cell)
    BY <1>2
<1>5. \A i \in 1 .. Len(SubSeq(s, m, n)) : SubSeq(s, m, n)[i] = Frame(ci, part, v)[i]
    BY <1>1, <1>3
<1>6. Len(SubSeq(s, m, n)) = Len(Frame(ci, part, v))
    BY <1>1, <1>3
<1>7. SubSeq(s, m, n) = Frame(ci, part, v)
    BY <1>1, <1>4, <1>5, <1>6, SameCells
<1>8. QED BY <1>7 DEF DecodesTo

(* verify_row accepts a row that the container holds.                      *)
LEMMA WrittenRowAccepted ==
    ASSUME NEW v \in Versions, NEW rec \in Nat \X Nat \X Nat, rec[1] \in Rows,
           rec[3] = Len(Blob(rec[1], v)), rec[2] + rec[3] <= Len(container),
           Read(rec[2], rec[3]) = Blob(rec[1], v)
    PROVE  RowOK(rec)
<1> DEFINE ci == rec[1]
           s == Blob(ci, v)
<1>1. ci \in Int /\ \A part \in Parts : Size[v][part] \in Nat \ {0}
    BY RowCount, StoreAssumption DEF Rows
<1>2. CASE Kind(ci) \in Split
    <2> DEFINE a == Size[v]["scale"]
               b == Size[v]["mantissa"]
    <2>1. /\ a \in Nat \ {0} /\ Size[v]["scale"] = a /\ "scale" \in Parts
          /\ b \in Nat \ {0} /\ Size[v]["mantissa"] = b /\ "mantissa" \in Parts
        BY <1>1 DEF Parts
    <2>2. /\ s \in Seq(Cell) /\ Len(s) = 1 + a + b
          /\ s[1] = <<"length", -1, 0, a>>
          /\ \A i \in 1 .. a : s[1 + i] = <<"scale", ci, v, i>>
          /\ \A i \in 1 .. b : s[1 + a + i] = <<"mantissa", ci, v, i>>
        BY <1>1, <1>2, SplitBlob
    <2> HIDE DEF a, b
    <2>3. DecodesTo(SubSeq(s, 2, a + 1), "scale", ci)
        <3> HIDE DEF ci, s
        <3>1. ASSUME NEW i \in 1 .. Size[v]["scale"] PROVE s[2 + i - 1] = <<"scale", ci, v, i>>
            <4>1. 2 + i - 1 = 1 + i /\ i \in 1 .. a
                BY <2>1
            <4>2. s[1 + i] = <<"scale", ci, v, i>>
                BY <2>2, <4>1
            <4>3. QED BY <4>1, <4>2
        <3>2. a + 1 \in Nat /\ a + 1 <= Len(s) /\ (a + 1) - 2 + 1 = Size[v]["scale"] /\ 2 \in Nat \ {0}
            BY <2>1, <2>2
        <3>3. QED BY <1>1, <2>1, <2>2, <3>1, <3>2, FrameDecodes
    <2>4. DecodesTo(SubSeq(s, a + 2, 1 + a + b), "mantissa", ci)
        <3> HIDE DEF ci, s
        <3>1. ASSUME NEW i \in 1 .. Size[v]["mantissa"] PROVE s[(a + 2) + i - 1] = <<"mantissa", ci, v, i>>
            <4>1. (a + 2) + i - 1 = 1 + a + i /\ i \in 1 .. b
                BY <2>1
            <4>2. s[1 + a + i] = <<"mantissa", ci, v, i>>
                BY <2>2, <4>1
            <4>3. QED BY <4>1, <4>2
        <3>2. /\ a + 2 \in Nat \ {0} /\ 1 + a + b \in Nat /\ 1 + a + b <= Len(s)
              /\ (1 + a + b) - (a + 2) + 1 = Size[v]["mantissa"]
            BY <2>1, <2>2
        <3>3. QED BY <1>1, <2>1, <2>2, <3>1, <3>2, FrameDecodes
    <2>5. rec[3] = 1 + a + b
        BY <2>2
    <2> HIDE DEF s, ci
    <2>6. s[1][4] = a /\ s[1][1] = "length" /\ a < rec[3] /\ a # rec[3] - 1
        BY <2>1, <2>2, <2>5
    <2>7. QED BY <2>3, <2>4, <2>5, <2>6 DEF RowOK, s, ci
<1>3. CASE Kind(ci) \notin Split
    <2> DEFINE a == Size[v]["whole"]
    <2>1. a \in Nat \ {0} /\ Size[v]["whole"] = a /\ "whole" \in Parts
        BY <1>1 DEF Parts
    <2>2. /\ s \in Seq(Cell) /\ Len(s) = 1 + a
          /\ s[1] = <<"length", -1, 0, a>>
          /\ \A i \in 1 .. a : s[1 + i] = <<"whole", ci, v, i>>
        BY <1>1, <1>3, WholeBlob
    <2> HIDE DEF a
    <2>3. DecodesTo(SubSeq(s, 2, 1 + a), "whole", ci)
        <3> HIDE DEF ci, s
        <3>1. ASSUME NEW i \in 1 .. Size[v]["whole"] PROVE s[2 + i - 1] = <<"whole", ci, v, i>>
            <4>1. 2 + i - 1 = 1 + i /\ i \in 1 .. a
                BY <2>1
            <4>2. s[1 + i] = <<"whole", ci, v, i>>
                BY <2>2, <4>1
            <4>3. QED BY <4>1, <4>2
        <3>2. 1 + a \in Nat /\ 1 + a <= Len(s) /\ (1 + a) - 2 + 1 = Size[v]["whole"] /\ 2 \in Nat \ {0}
            BY <2>1, <2>2
        <3>3. QED BY <1>1, <2>1, <2>2, <3>1, <3>2, FrameDecodes
    <2>4. rec[3] = 1 + a
        BY <2>2
    <2> HIDE DEF s, ci
    <2>5. Tail(s) = SubSeq(s, 2, 1 + a)
        <3>1. s # <<>>
            BY <2>1, <2>2
        <3>2. QED BY <2>2, <3>1, TailIsSubSeq
    <2>6. s[1][4] = a /\ s[1][1] = "length" /\ a < rec[3] /\ a = rec[3] - 1
        BY <2>1, <2>2, <2>4
    <2>7. QED BY <2>3, <2>5, <2>6 DEF RowOK, s, ci
<1>4. QED BY <1>2, <1>3

----------------------------------------------------------------------------
(* The builder.                                                            *)

(* imap hands over the rows in order: the next one is the first missing.   *)
LEMMA NextIsMissing ==
    ASSUME NEW v, NEW k \in 0 .. NRows, Written(v, k)
    PROVE  NextRow = k /\ (k < NRows <=> NextRow \in Rows) /\ (DOMAIN recs = Rows => k = NRows)
<1>1. k \in Nat /\ NRows \in Nat \ {0}
    BY RowCount
<1>2. Cardinality(0 .. k - 1) = k
    <2>1. Cardinality(0 .. k - 1) = IF 0 > k - 1 THEN 0 ELSE (k - 1) - 0 + 1
        BY <1>1, FS_Interval
    <2>2. QED BY <1>1, <2>1
<1>3. NextRow = k
    BY <1>2 DEF NextRow, Written
<1>4. DOMAIN recs = Rows => k = NRows
    <2> SUFFICES ASSUME 0 .. k - 1 = 0 .. NRows - 1 PROVE k = NRows
        BY DEF Written, Rows
    <2>1. NRows - 1 \in 0 .. NRows - 1 /\ (k > 0 => k - 1 \in 0 .. k - 1)
        BY <1>1
    <2>2. QED BY <1>1, <2>1
<1>5. QED BY <1>1, <1>3, <1>4 DEF Rows

(* A container of k rows and the next blob is one of k + 1 rows.           *)
LEMMA AppendKeeps ==
    ASSUME NEW v \in Versions, zstd = v,
           NEW k \in 0 .. NRows, k < NRows, Written(v, k), AppendBlob(k)
    PROVE  Written(v, k + 1)'
<1> DEFINE C == CellsOf(v)
           blob == Blob(k, v)
<1>1. k \in Nat /\ NRows \in Nat \ {0} /\ k \in Rows
    BY RowCount DEF Rows
<1>2. blob \in Seq(C) /\ Len(blob) \in Nat \ {0}
    BY <1>1, BlobInContainer
<1>3. container \in Seq(C) /\ Len(container) = off /\ off \in Nat \ {0}
    BY DEF Written
<1>4. container' = container \o blob /\ off' = off + Len(blob)
    BY DEF AppendBlob
<1>5. /\ DOMAIN recs' = 0 .. k
      /\ \A ci \in 0 .. k - 1 : recs'[ci] = recs[ci]
      /\ recs'[k] = <<off, Len(blob)>>
    <2>1. recs' = [r \in DOMAIN recs \cup {k} |-> IF r = k THEN <<off, Len(blob)>> ELSE recs[r]]
        BY DEF AppendBlob
    <2>2. DOMAIN recs = 0 .. k - 1
        BY DEF Written
    <2>3. (0 .. k - 1) \cup {k} = 0 .. k
        BY <1>1
    <2> HIDE DEF blob
    <2>4. QED BY <1>1, <2>1, <2>2, <2>3
<1>6. \A ci \in 0 .. k - 1 :
        /\ recs[ci][1] \in Nat /\ recs[ci][2] = Len(Blob(ci, v))
        /\ recs[ci][1] = IF ci = 0 THEN 1 ELSE recs[ci - 1][1] + recs[ci - 1][2]
        /\ recs[ci][1] + recs[ci][2] <= off
        /\ Read(recs[ci][1], recs[ci][2]) = Blob(ci, v)
    BY DEF Written
<1>7. off = IF k = 0 THEN 1 ELSE recs[k - 1][1] + recs[k - 1][2]
    BY DEF Written
<1> HIDE DEF C, blob
<1>8. container' \in Seq(C) /\ Len(container') = off'
    BY <1>2, <1>3, <1>4, ConcatProperties
<1>9. ASSUME NEW ci \in 0 .. k
      PROVE  /\ recs'[ci][1] \in Nat /\ recs'[ci][2] = Len(Blob(ci, v))
             /\ recs'[ci][1] = IF ci = 0 THEN 1 ELSE recs'[ci - 1][1] + recs'[ci - 1][2]
             /\ recs'[ci][1] + recs'[ci][2] <= off'
             /\ SubSeq(container', recs'[ci][1] + 1, recs'[ci][1] + recs'[ci][2]) = Blob(ci, v)
    <2>1. CASE ci = k
        <3>1. recs'[ci][1] = off /\ recs'[ci][2] = Len(blob)
            BY <1>5, <2>1
        <3>2. off = IF ci = 0 THEN 1 ELSE recs'[ci - 1][1] + recs'[ci - 1][2]
            <4>1. ci # 0 => ci - 1 \in 0 .. k - 1
                BY <1>1, <2>1
            <4>2. QED BY <1>5, <1>7, <2>1, <4>1
        <3>3. SubSeq(container', off + 1, off + Len(blob)) = blob
            <4>1. /\ off + 1 \in Len(container) + 1 .. Len(container) + Len(blob)
                  /\ off + Len(blob) \in Len(container) + 1 .. Len(container) + Len(blob)
                BY <1>2, <1>3
            <4>2. SubSeq(container \o blob, off + 1, off + Len(blob))
                    = SubSeq(blob, (off + 1) - Len(container), (off + Len(blob)) - Len(container))
                BY <1>2, <1>3, <4>1, SubSeqOfConcat2
            <4>3. (off + 1) - Len(container) = 1 /\ (off + Len(blob)) - Len(container) = Len(blob)
                BY <1>2, <1>3
            <4>4. SubSeq(blob, 1, Len(blob)) = blob
                BY <1>2, SubSeqFull
            <4>5. QED BY <1>4, <4>2, <4>3, <4>4
        <3>4. off + Len(blob) <= off' /\ off \in Nat
            BY <1>2, <1>3, <1>4
        <3>5. blob = Blob(ci, v)
            BY <2>1 DEF blob
        <3>6. QED BY <3>1, <3>2, <3>3, <3>4, <3>5
    <2>2. CASE ci # k
        <3>1. ci \in 0 .. k - 1 /\ (ci # 0 => ci - 1 \in 0 .. k - 1) /\ ci \in Rows
            BY <1>1, <2>2 DEF Rows
        <3>2. recs'[ci] = recs[ci] /\ (ci # 0 => recs'[ci - 1] = recs[ci - 1])
            BY <1>5, <3>1
        <3> DEFINE o == recs[ci][1]
                   n == recs[ci][2]
        <3>3. o \in Nat /\ n \in Nat \ {0} /\ o + n <= off
            <4>1. Len(Blob(ci, v)) \in Nat \ {0}
                BY <3>1, BlobInContainer
            <4>2. QED BY <1>6, <3>1, <4>1
        <3>4. SubSeq(container, o + 1, o + n) = Blob(ci, v)
            BY <1>6, <3>1 DEF Read
        <3> HIDE DEF o, n
        <3>5. SubSeq(container', o + 1, o + n) = SubSeq(container, o + 1, o + n)
            <4>1. o + 1 \in 1 .. Len(container) /\ o + n \in 1 .. Len(container)
                BY <1>3, <3>3
            <4>2. SubSeq(container \o blob, o + 1, o + n) = SubSeq(container, o + 1, o + n)
                BY <1>2, <1>3, <4>1, SubSeqOfConcat1
            <4>3. QED BY <1>4, <4>2
        <3>6. recs'[ci][1] = o /\ recs'[ci][2] = n
            BY <3>2 DEF o, n
        <3>7. n = Len(Blob(ci, v)) /\ o = IF ci = 0 THEN 1 ELSE recs'[ci - 1][1] + recs'[ci - 1][2]
            BY <1>6, <3>1, <3>2 DEF o, n
        <3>8. o + n <= off'
            BY <1>2, <1>3, <1>4, <3>3
        <3>9. QED BY <3>3, <3>4, <3>5, <3>6, <3>7, <3>8
    <2>3. QED BY <2>1, <2>2
<1>10. k + 1 \in 0 .. NRows /\ (k + 1) - 1 = k
    BY <1>1
<1>11. off' \in Nat \ {0} /\ off' = IF k + 1 = 0 THEN 1 ELSE recs'[k][1] + recs'[k][2]
    BY <1>1, <1>2, <1>3, <1>4, <1>5
<1>12. container' \in Seq(CellsOf(v)) /\ Len(container') = off'
    BY <1>8 DEF C
<1>13. \A ci \in 0 .. (k + 1) - 1 :
        /\ recs'[ci][1] \in Nat /\ recs'[ci][2] = Len(Blob(ci, v))
        /\ recs'[ci][1] = IF ci = 0 THEN 1 ELSE recs'[ci - 1][1] + recs'[ci - 1][2]
        /\ recs'[ci][1] + recs'[ci][2] <= off'
        /\ Read(recs[ci][1], recs[ci][2])' = Blob(ci, v)
    BY <1>9, <1>10 DEF Read
<1>14. DOMAIN recs' = 0 .. (k + 1) - 1
    BY <1>5, <1>10
<1>15. QED BY <1>10, <1>11, <1>12, <1>13, <1>14 DEF Written

(* The index of a complete container: a header and one record per row.     *)
LEMMA IndexRecords ==
    ASSUME NEW v \in Versions, Written(v, NRows)
    PROVE  /\ FullIndex \in Seq(Nat \X Nat \X Nat) /\ Len(FullIndex) = NRows + 1
           /\ FullIndex[1] = <<NRows, Len(container), 0>>
           /\ \A i \in 2 .. NRows + 1 :
                /\ FullIndex[i] = <<i - 2, recs[i - 2][1], recs[i - 2][2]>>
                /\ FullIndex[i][3] > 0
<1> DEFINE R == Nat \X Nat \X Nat
           h == <<<<NRows, Len(container), 0>>>>
           t == [i \in 1 .. NRows |-> <<i - 1, recs[i - 1][1], recs[i - 1][2]>>]
<1>1. NRows \in Nat \ {0} /\ Len(container) \in Nat
    BY RowCount DEF Written
<1>2. \A ci \in 0 .. NRows - 1 : recs[ci][1] \in Nat /\ recs[ci][2] \in Nat \ {0}
    <2> TAKE ci \in 0 .. NRows - 1
    <2>1. ci \in Rows
        BY DEF Rows
    <2>2. recs[ci][1] \in Nat /\ recs[ci][2] = Len(Blob(ci, v))
        BY DEF Written
    <2>3. QED BY <2>1, <2>2, BlobInContainer
<1>3. h \in Seq(R) /\ Len(h) = 1 /\ h[1] = <<NRows, Len(container), 0>>
    BY <1>1
<1>4. /\ t \in Seq(R) /\ Len(t) = NRows
      /\ \A i \in 1 .. NRows : t[i] = <<i - 1, recs[i - 1][1], recs[i - 1][2]>>
    <2>1. \A i \in 1 .. NRows : <<i - 1, recs[i - 1][1], recs[i - 1][2]>> \in R
        <3> TAKE i \in 1 .. NRows
        <3>1. i - 1 \in 0 .. NRows - 1 /\ i - 1 \in Nat
            BY <1>1
        <3>2. QED BY <1>2, <3>1
    <2> HIDE DEF R
    <2>2. t \in [1 .. NRows -> R]
        BY <2>1
    <2>3. QED BY <1>1, <2>2
<1>5. FullIndex = h \o t
    BY DEF FullIndex
<1> HIDE DEF R, h, t
<1>6. /\ h \o t \in Seq(R) /\ Len(h \o t) = Len(h) + Len(t)
      /\ \A i \in 1 .. Len(h) + Len(t) :
            (h \o t)[i] = IF i <= Len(h) THEN h[i] ELSE t[i - Len(h)]
    <2>1. h \in Seq(R) /\ t \in Seq(R)
        BY <1>3, <1>4
    <2>2. QED BY <2>1, ConcatProperties, Zenon
<1>7. FullIndex \in Seq(R) /\ Len(FullIndex) = NRows + 1
    BY <1>1, <1>3, <1>4, <1>5, <1>6
<1>8. FullIndex[1] = <<NRows, Len(container), 0>>
    BY <1>1, <1>3, <1>4, <1>5, <1>6
<1>9. ASSUME NEW i \in 2 .. NRows + 1
      PROVE  /\ FullIndex[i] = <<i - 2, recs[i - 2][1], recs[i - 2][2]>>
             /\ FullIndex[i][3] > 0
    <2>1. i - 1 \in 1 .. NRows /\ (i - 1) - 1 = i - 2 /\ i - 2 \in 0 .. NRows - 1
        BY <1>1
    <2>2. FullIndex[i] = t[i - 1]
        BY <1>1, <1>3, <1>4, <1>5, <1>6
    <2>3. t[i - 1] = <<i - 2, recs[i - 2][1], recs[i - 2][2]>>
        BY <1>4, <2>1
    <2>4. recs[i - 2][2] > 0
        BY <1>2, <2>1
    <2>5. QED BY <2>2, <2>3, <2>4
<1>10. QED BY <1>7, <1>8, <1>9 DEF R

(* Both verifiers accept a complete container with its index.              *)
LEMMA CompleteStoreAccepted ==
    ASSUME NEW v \in Versions, Written(v, NRows), index = FullIndex, container[1] = Header
    PROVE  /\ HeadersAgree /\ Canonical /\ index[1][1] = NRows /\ DOMAIN index = 1 .. NRows + 1
           /\ \A i \in 2 .. Len(index) : RowOK(index[i])
<1>1. /\ index \in Seq(Nat \X Nat \X Nat) /\ Len(index) = NRows + 1
      /\ index[1] = <<NRows, Len(container), 0>>
      /\ \A i \in 2 .. NRows + 1 : index[i] = <<i - 2, recs[i - 2][1], recs[i - 2][2]>>
    BY IndexRecords
<1>2. NRows \in Nat \ {0} /\ Len(container) = off /\ off \in Nat \ {0}
    BY RowCount DEF Written
<1>3. DOMAIN index = 1 .. NRows + 1
    BY <1>1, LenProperties
<1>4. HeadersAgree
    BY <1>1, <1>2 DEF HeadersAgree
<1>5. \A ci \in 0 .. NRows - 1 :
        /\ recs[ci][1] \in Nat /\ recs[ci][2] = Len(Blob(ci, v))
        /\ recs[ci][1] = IF ci = 0 THEN 1 ELSE recs[ci - 1][1] + recs[ci - 1][2]
        /\ recs[ci][1] + recs[ci][2] <= off
        /\ Read(recs[ci][1], recs[ci][2]) = Blob(ci, v)
    BY DEF Written
<1>6. off = recs[NRows - 1][1] + recs[NRows - 1][2]
    BY <1>2 DEF Written
<1>7. Canonical
    <2>1. Len(index) - 1 = index[1][1]
        BY <1>1, <1>2
    <2>2. container # <<>> /\ container[1] = <<"header", index[1][1], 0, 0>>
        BY <1>1, <1>2 DEF Header
    <2>3. ASSUME NEW i \in 2 .. Len(index)
          PROVE  /\ index[i][1] = i - 2
                 /\ index[i][2] = IF i = 2 THEN 1 ELSE index[i - 1][2] + index[i - 1][3]
        <3>1. i \in 2 .. NRows + 1 /\ i - 2 \in 0 .. NRows - 1
            BY <1>1, <1>2
        <3>2. index[i] = <<i - 2, recs[i - 2][1], recs[i - 2][2]>>
            BY <1>1, <3>1
        <3>3. CASE i = 2
            BY <1>5, <3>1, <3>2, <3>3
        <3>4. CASE i # 2
            <4> DEFINE j == i - 1
                       ci == i - 2
                       cj == i - 3
            <4>1. j \in 2 .. NRows + 1 /\ j - 2 = cj /\ ci \in 0 .. NRows - 1 /\ ci # 0 /\ ci - 1 = cj
                BY <1>2, <3>1, <3>4
            <4>2. index[i] = <<ci, recs[ci][1], recs[ci][2]>> /\ ci = i - 2
                BY <3>2
            <4>3. index[i - 1] = index[j]
                OBVIOUS
            <4> HIDE DEF j, ci, cj
            <4>4. index[j] = <<j - 2, recs[j - 2][1], recs[j - 2][2]>>
                BY <1>1, <4>1
            <4>5. index[j] = <<cj, recs[cj][1], recs[cj][2]>>
                BY <4>1, <4>4
            <4>6. recs[ci][1] = recs[cj][1] + recs[cj][2]
                BY <1>5, <4>1
            <4>7. index[i][2] = index[i - 1][2] + index[i - 1][3]
                BY <4>2, <4>3, <4>5, <4>6
            <4>8. QED BY <3>4, <4>2, <4>7
        <3>5. QED BY <3>3, <3>4
    <2>4. index[Len(index)][2] + index[Len(index)][3] = Len(container)
        <3>1. Len(index) \in 2 .. NRows + 1 /\ Len(index) - 2 = NRows - 1
            BY <1>1, <1>2
        <3>2. index[Len(index)] = <<NRows - 1, recs[NRows - 1][1], recs[NRows - 1][2]>>
            BY <1>1, <3>1
        <3>3. QED BY <1>2, <1>6, <3>2
    <2>5. QED BY <2>1, <2>2, <2>3, <2>4 DEF Canonical
<1>8. ASSUME NEW i \in 2 .. Len(index) PROVE RowOK(index[i])
    <2> DEFINE rec == index[i]
               ci == i - 2
    <2>1. i \in 2 .. NRows + 1 /\ ci \in 0 .. NRows - 1 /\ ci \in Rows
        BY <1>1, <1>2 DEF Rows
    <2>2. rec = <<ci, recs[ci][1], recs[ci][2]>>
        BY <1>1, <2>1
    <2>3. rec \in Nat \X Nat \X Nat
        BY <1>1, ElementOfSeq
    <2>4. /\ recs[ci][2] = Len(Blob(ci, v)) /\ recs[ci][1] + recs[ci][2] <= Len(container)
          /\ Read(recs[ci][1], recs[ci][2]) = Blob(ci, v)
        BY <1>2, <1>5, <2>1
    <2> HIDE DEF rec, ci
    <2>5. rec[1] = ci /\ rec[2] = recs[ci][1] /\ rec[3] = recs[ci][2]
        BY <2>2
    <2>6. RowOK(rec)
        BY <2>1, <2>3, <2>4, <2>5, WrittenRowAccepted
    <2>7. QED BY <2>6 DEF rec
<1>9. QED BY <1>1, <1>3, <1>4, <1>7, <1>8

----------------------------------------------------------------------------
(* The steps.                                                              *)

(* What is written does not depend on anything but the container and recs. *)
LEMMA WrittenKept ==
    ASSUME NEW v, NEW k, Written(v, k), UNCHANGED <<recs, off, container>>
    PROVE  Written(v, k)'
BY DEF Written, Read

(* A build that writes with v has written with v.                          *)
LEMMA WrittenByZstd ==
    ASSUME NEW v, NEW k, Written(v, k)', zstd' = v
    PROVE  Written(zstd, k)'
BY DEF Written

(* What the index has to be depends on the records and the container only. *)
LEMMA FullIndexKept ==
    ASSUME UNCHANGED <<recs, container>>
    PROVE  FullIndex' = FullIndex
BY DEF FullIndex

(* A container that holds a row or none has its header.                    *)
LEMMA HeaderIsThere ==
    ASSUME NEW v, NEW k, Written(v, k), OneLibzstd
    PROVE  container # <<>> /\ container[1] = Header
<1>1. container # <<>>
    BY DEF Written
<1>2. QED BY <1>1 DEF OneLibzstd

(* A new container is one of no rows.                                      *)
LEMMA StartWrites == ASSUME zstd \in Versions, StartBuild PROVE Written(zstd, 0)'
<1>1. NRows \in Nat \ {0}
    BY RowCount
<1>2. Header \in CellsOf(zstd)
    BY DEF CellsOf
<1>3. container' \in Seq(CellsOf(zstd)) /\ Len(container') = 1
    BY <1>2 DEF StartBuild
<1>4. recs' = <<>> /\ off' = 1 /\ zstd' = zstd
    BY DEF StartBuild
<1>5. DOMAIN recs' = 0 .. 0 - 1
    BY <1>4
<1>6. QED BY <1>1, <1>3, <1>4, <1>5 DEF Written

(* Every step keeps the types.                                             *)
LEMMA StepTypeOK == TypeOK /\ BuildInOrder /\ Next => TypeOK'
<1> SUFFICES ASSUME TypeOK, BuildInOrder, Next PROVE TypeOK'
    OBVIOUS
<1> USE DEF TypeOK, pool, files, checks
<1>1. CASE StartBuild
    <2>1. chunks' \in [Chunks -> {"waiting", "busy", "encoded", "failed", "lost"}]
        BY <1>1 DEF StartBuild
    <2>2. /\ zstd' \in Versions /\ builds' \in Nat /\ builder' = "encode" /\ taken' \in Nat
          /\ index' = index /\ built' = FALSE /\ verdict' = "none" /\ sampled' = "none"
        BY <1>1 DEF StartBuild
    <2>3. {verdict', sampled'} \subseteq {"none", "raised", "FAIL", "PASS"}
        BY <2>2
    <2>4. index' \in Seq(Nat \X Nat \X Nat) /\ \A i \in 2 .. Len(index') : index'[i][3] > 0
        BY <2>2
    <2> HIDE DEF TypeOK
    <2>5. QED BY <2>1, <2>2, <2>3, <2>4 DEF TypeOK
<1>2. CASE Take
    BY <1>2 DEF Take
<1>3. CASE WriteRow
    BY <1>3 DEF WriteRow, AppendBlob
<1>4. CASE Abort
    BY <1>4 DEF Abort
<1>5. CASE Seal
    BY <1>5 DEF Seal
<1>6. CASE OpenIndex
    BY <1>6 DEF OpenIndex
<1>7. CASE WriteIndex
    <2>1. Written(zstd, NRows)
        BY <1>7 DEF WriteIndex, BuildInOrder
    <2>2. /\ FullIndex \in Seq(Nat \X Nat \X Nat) /\ Len(FullIndex) = NRows + 1
          /\ \A i \in 2 .. NRows + 1 : FullIndex[i][3] > 0
        BY <2>1, IndexRecords
    <2> HIDE DEF TypeOK
    <2>3. index' \in Seq(Nat \X Nat \X Nat) /\ \A i \in 2 .. Len(index') : index'[i][3] > 0
        BY <1>7, <2>2 DEF WriteIndex
    <2>4. QED BY <1>7, <2>3 DEF WriteIndex, TypeOK
<1>8. CASE WriteReceipt
    BY <1>8 DEF WriteReceipt
<1>9. ASSUME NEW c \in Chunks, Encode(c) PROVE TypeOK'
    BY <1>9 DEF Encode
<1>10. CASE Kill
    <2>1. index' \in Seq(Nat \X Nat \X Nat) /\ \A i \in 2 .. Len(index') : index'[i][3] > 0
        <3>1. CASE builder = "index"
            <4>1. Written(zstd, NRows)
                BY <3>1 DEF BuildInOrder
            <4>2. /\ FullIndex \in Seq(Nat \X Nat \X Nat) /\ Len(FullIndex) = NRows + 1
                  /\ \A i \in 2 .. NRows + 1 : FullIndex[i][3] > 0
                BY <4>1, IndexRecords
            <4>3. PICK n \in 0 .. Len(FullIndex) : index' = SubSeq(FullIndex, 1, n)
                BY <1>10, <3>1 DEF Kill
            <4>4. n \in Nat /\ NRows \in Nat /\ n <= Len(FullIndex) /\ 1 <= n + 1 /\ 1 \in Nat \ {0}
                BY <4>2, RowCount
            <4>5. /\ Len(index') = n - 1 + 1
                  /\ \A i \in 1 .. n - 1 + 1 : index'[i] = FullIndex[1 + i - 1]
                BY <4>2, <4>3, <4>4, Piece
            <4>6. index' \in Seq(Nat \X Nat \X Nat)
                BY <4>2, <4>3, <4>4, Piece
            <4>7. Len(index') = n /\ \A i \in 1 .. n : index'[i] = FullIndex[i]
                BY <4>4, <4>5
            <4>8. ASSUME NEW i \in 2 .. n PROVE index'[i][3] > 0
                <5>1. i \in 1 .. n /\ i \in 2 .. NRows + 1
                    BY <4>2, <4>4
                <5>2. QED BY <4>2, <4>7, <5>1
            <4>9. QED BY <4>6, <4>7, <4>8
        <3>2. CASE builder # "index"
            BY <1>10, <3>2 DEF Kill
        <3>3. QED BY <3>1, <3>2
    <2> HIDE DEF TypeOK
    <2>2. QED BY <1>10, <2>1 DEF Kill, TypeOK
<1>11. CASE Upgrade
    BY <1>11 DEF Upgrade
<1>12. CASE Verify
    BY <1>12 DEF Verify, Outcomes
<1>13. CASE VerifySample
    BY <1>13 DEF VerifySample, Outcomes
<1>14. ASSUME NEW c \in Chunks, LoseWorker(c) PROVE TypeOK'
    BY <1>14 DEF LoseWorker
<1>15. QED
    BY <1>1, <1>2, <1>3, <1>4, <1>5, <1>6, <1>7, <1>8, <1>9, <1>10, <1>11, <1>12, <1>13, <1>14
       DEF Next, Build

(* A running build has written the rows up to the next one, a finished one *)
(* all rows and their index.                                               *)
LEMMA StepBuildInOrder ==
    TypeOK /\ BuildInOrder /\ OneLibzstd /\ Next => BuildInOrder'
<1> SUFFICES ASSUME TypeOK, BuildInOrder, OneLibzstd, Next PROVE BuildInOrder'
    OBVIOUS
<1> USE DEF pool, files, checks
<1>1. zstd \in Versions /\ NRows \in Nat \ {0}
    BY RowCount DEF TypeOK
<1>2. ASSUME UNCHANGED <<zstd, builder, recs, off, container, index, built>> PROVE BuildInOrder'
    <2>1. \A k : Written(zstd, k) => Written(zstd, k)'
        BY <1>2, WrittenKept, WrittenByZstd
    <2>2. \A v : Written(v, NRows) => Written(v, NRows)'
        BY <1>2, WrittenKept
    <2>3. FullIndex' = FullIndex
        BY <1>2, FullIndexKept
    <2>4. QED BY <1>2, <2>1, <2>2, <2>3 DEF BuildInOrder
<1>3. ASSUME builder # "off" PROVE ~built
    BY <1>3 DEF BuildInOrder
<1>4. CASE StartBuild
    <2>1. Written(zstd, 0)' /\ 0 \in 0 .. NRows
        BY <1>1, <1>4, StartWrites
    <2>2. builder' = "encode" /\ built' = FALSE
        BY <1>4 DEF StartBuild
    <2>3. QED BY <2>1, <2>2 DEF BuildInOrder
<1>5. CASE Take
    BY <1>2, <1>5 DEF Take
<1>6. CASE WriteRow
    <2>1. PICK k \in 0 .. NRows : Written(zstd, k)
        BY <1>6 DEF WriteRow, BuildInOrder
    <2>2. NextRow = k /\ k < NRows
        BY <1>6, <2>1, NextIsMissing DEF WriteRow
    <2>3. AppendBlob(k)
        BY <1>6, <2>2 DEF WriteRow
    <2>4. zstd' = zstd /\ builder' = "encode" /\ built' = built
        BY <1>6, <2>3 DEF WriteRow, AppendBlob
    <2>5. PICK v \in Versions : zstd = v
        BY <1>1
    <2>6. Written(v, k + 1)'
        BY <2>1, <2>2, <2>3, <2>5, AppendKeeps
    <2>7. Written(zstd, k + 1)'
        BY <2>4, <2>5, <2>6, WrittenByZstd
    <2>8. k + 1 \in 0 .. NRows
        BY <1>1, <2>2
    <2>9. QED BY <1>3, <1>6, <2>4, <2>7, <2>8 DEF BuildInOrder, WriteRow
<1>7. CASE Abort
    BY <1>3, <1>7 DEF Abort, BuildInOrder
<1>8. CASE Seal
    <2>1. PICK k \in 0 .. NRows : Written(zstd, k)
        BY <1>8 DEF Seal, BuildInOrder
    <2>2. Written(zstd, NRows)
        BY <1>8, <2>1, NextIsMissing DEF Seal
    <2>3. Written(zstd, NRows)'
        BY <1>8, <2>2, WrittenKept, WrittenByZstd DEF Seal
    <2>4. builder' \in {"sealed", "off"} /\ built' = built /\ ~built
        BY <1>3, <1>8 DEF Seal
    <2>5. QED BY <2>3, <2>4 DEF BuildInOrder
<1>9. CASE OpenIndex
    <2>1. Written(zstd, NRows)
        BY <1>9 DEF OpenIndex, BuildInOrder
    <2>2. Written(zstd, NRows)'
        BY <1>9, <2>1, WrittenKept, WrittenByZstd DEF OpenIndex
    <2>3. builder' = "index" /\ built' = built /\ ~built
        BY <1>3, <1>9 DEF OpenIndex
    <2>4. QED BY <2>2, <2>3 DEF BuildInOrder
<1>10. CASE WriteIndex
    <2>1. Written(zstd, NRows)
        BY <1>10 DEF WriteIndex, BuildInOrder
    <2>2. Written(zstd, NRows)'
        BY <1>10, <2>1, WrittenKept, WrittenByZstd DEF WriteIndex
    <2>3. builder' = "indexed" /\ built' = built /\ ~built /\ index' = FullIndex
        BY <1>3, <1>10 DEF WriteIndex
    <2>4. FullIndex' = FullIndex
        BY <1>10, FullIndexKept DEF WriteIndex
    <2>5. QED BY <2>2, <2>3, <2>4 DEF BuildInOrder
<1>11. CASE WriteReceipt
    <2>1. PICK v \in Versions : Written(v, NRows)
        BY <1>1, <1>11 DEF WriteReceipt, BuildInOrder
    <2>2. Written(v, NRows)'
        BY <1>11, <2>1, WrittenKept DEF WriteReceipt
    <2>3. FullIndex' = FullIndex /\ index' = index /\ index = FullIndex
        BY <1>11, FullIndexKept DEF WriteReceipt, BuildInOrder
    <2>4. builder' = "off"
        BY <1>11 DEF WriteReceipt
    <2>5. QED BY <2>2, <2>3, <2>4 DEF BuildInOrder
<1>12. ASSUME NEW c \in Chunks, Encode(c) \/ LoseWorker(c) PROVE BuildInOrder'
    BY <1>2, <1>12 DEF Encode, LoseWorker
<1>13. CASE Kill
    <2>1. builder' = "off" /\ built' = built /\ ~built
        BY <1>3, <1>13 DEF Kill
    <2>2. QED BY <2>1 DEF BuildInOrder
<1>14. CASE Upgrade
    <2>1. \A v : Written(v, NRows) => Written(v, NRows)'
        BY <1>14, WrittenKept DEF Upgrade
    <2>2. FullIndex' = FullIndex
        BY <1>14, FullIndexKept DEF Upgrade
    <2>3. builder' = "off" /\ built' = built /\ index' = index
        BY <1>14 DEF Upgrade
    <2>4. QED BY <2>1, <2>2, <2>3 DEF BuildInOrder
<1>15. CASE Verify \/ VerifySample
    BY <1>2, <1>15 DEF Verify, VerifySample
<1>16. QED
    BY <1>4, <1>5, <1>6, <1>7, <1>8, <1>9, <1>10, <1>11, <1>12, <1>13, <1>14, <1>15
       DEF Next, Build

(* What a container holds comes from one libzstd, also after a build was   *)
(* killed: a new build starts from an empty one.                           *)
LEMMA StepOneLibzstd ==
    TypeOK /\ BuildInOrder /\ OneLibzstd /\ Next => OneLibzstd'
<1> SUFFICES ASSUME TypeOK, BuildInOrder, OneLibzstd, Next PROVE OneLibzstd'
    OBVIOUS
<1> USE DEF pool, files, checks
<1>1. zstd \in Versions /\ NRows \in Nat \ {0}
    BY RowCount DEF TypeOK
<1>2. ASSUME UNCHANGED container PROVE OneLibzstd'
    BY <1>2 DEF OneLibzstd
<1>3. CASE StartBuild
    <2>1. PICK v \in Versions : zstd = v
        BY <1>1
    <2>2. container' = <<Header>> /\ Header \in CellsOf(v)
        BY <1>3 DEF StartBuild, CellsOf
    <2>3. container' \in Seq(CellsOf(v)) /\ container'[1] = Header
        BY <2>2
    <2>4. QED BY <2>3 DEF OneLibzstd
<1>4. CASE WriteRow
    <2>1. PICK k \in 0 .. NRows : Written(zstd, k)
        BY <1>4 DEF WriteRow, BuildInOrder
    <2>2. PICK v \in Versions : zstd = v
        BY <1>1
    <2>3. NextRow = k /\ k \in Rows /\ container' = container \o Blob(k, v)
        BY <1>4, <2>1, <2>2, NextIsMissing DEF WriteRow, AppendBlob
    <2>4. container \in Seq(CellsOf(v)) /\ Len(container) \in Nat \ {0}
        BY <2>1, <2>2 DEF Written
    <2>5. Blob(k, v) \in Seq(CellsOf(v)) /\ Len(Blob(k, v)) \in Nat \ {0}
        BY <2>3, BlobInContainer
    <2>6. container # <<>> /\ container[1] = Header
        BY <2>1, HeaderIsThere
    <2> DEFINE C == CellsOf(v)
               blob == Blob(k, v)
    <2> HIDE DEF C, blob
    <2>7. /\ container \o blob \in Seq(C)
          /\ \A i \in 1 .. Len(container) + Len(blob) :
                (container \o blob)[i] = IF i <= Len(container) THEN container[i]
                                                                ELSE blob[i - Len(container)]
        <3>1. container \in Seq(C) /\ blob \in Seq(C)
            BY <2>4, <2>5 DEF C, blob
        <3>2. QED BY <3>1, ConcatProperties, Zenon
    <2>8. (container \o blob)[1] = Header
        <3>1. Len(blob) \in Nat
            BY <2>5 DEF blob
        <3>2. 1 \in 1 .. Len(container) + Len(blob) /\ 1 <= Len(container)
            BY <2>4, <3>1
        <3>3. QED BY <2>6, <2>7, <3>2
    <2>9. container' \in Seq(C) /\ container'[1] = Header
        BY <2>3, <2>7, <2>8 DEF blob
    <2>10. QED BY <2>9 DEF OneLibzstd, C
<1>5. CASE Kill
    <2>1. CASE builder = "encode"
        <3>1. PICK n \in 0 .. Len(container) : container' = SubSeq(container, 1, n)
            BY <1>5, <2>1 DEF Kill
        <3>2. PICK v \in Versions : container \in Seq(CellsOf(v))
            BY DEF OneLibzstd
        <3>3. n \in Nat /\ 1 <= n + 1 /\ n <= Len(container) /\ 1 \in Nat \ {0}
            BY <3>2
        <3> DEFINE C == CellsOf(v)
        <3> HIDE DEF C
        <3>4. container \in Seq(C)
            BY <3>2 DEF C
        <3>5. /\ container' \in Seq(C) /\ Len(container') = n - 1 + 1
              /\ \A i \in 1 .. n - 1 + 1 : container'[i] = container[1 + i - 1]
            BY <3>1, <3>3, <3>4, Piece
        <3>6. container' # <<>> => container'[1] = Header
            <4> SUFFICES ASSUME container' # <<>> PROVE container'[1] = Header
                OBVIOUS
            <4>1. n # 0
                BY <3>3, <3>5
            <4>2. container'[1] = container[1]
                BY <3>3, <3>5, <4>1
            <4>3. container # <<>>
                BY <3>3, <4>1
            <4>4. QED BY <4>2, <4>3 DEF OneLibzstd
        <3>7. QED BY <3>5, <3>6 DEF OneLibzstd, C
    <2>2. CASE builder # "encode"
        BY <1>2, <1>5, <2>2 DEF Kill
    <2>3. QED BY <2>1, <2>2
<1>6. CASE Take \/ Abort \/ Seal \/ OpenIndex \/ WriteIndex \/ WriteReceipt
    BY <1>2, <1>6 DEF Take, Abort, Seal, OpenIndex, WriteIndex, WriteReceipt
<1>7. ASSUME NEW c \in Chunks, Encode(c) \/ LoseWorker(c) PROVE OneLibzstd'
    BY <1>2, <1>7 DEF Encode, LoseWorker
<1>8. CASE Upgrade \/ Verify \/ VerifySample
    BY <1>2, <1>8 DEF Upgrade, Verify, VerifySample
<1>9. QED BY <1>3, <1>4, <1>5, <1>6, <1>7, <1>8 DEF Next, Build

(* The verifiers run between two builds, and a build forgets what they     *)
(* said.                                                                   *)
LEMMA StepVerdictIsLast == VerdictIsLast /\ Next => VerdictIsLast'
<1> SUFFICES ASSUME VerdictIsLast, Next PROVE VerdictIsLast'
    OBVIOUS
<1> USE DEF VerdictIsLast, pool, files, checks
<1>1. CASE StartBuild
    BY <1>1 DEF StartBuild
<1>2. CASE Take \/ WriteRow \/ Abort \/ Seal
    BY <1>2 DEF Take, WriteRow, AppendBlob, Abort, Seal
<1>3. CASE OpenIndex \/ WriteIndex \/ WriteReceipt
    BY <1>3 DEF OpenIndex, WriteIndex, WriteReceipt
<1>4. ASSUME NEW c \in Chunks, Encode(c) \/ LoseWorker(c) PROVE VerdictIsLast'
    BY <1>4 DEF Encode, LoseWorker
<1>5. CASE Kill \/ Upgrade \/ Verify \/ VerifySample
    BY <1>5 DEF Kill, Upgrade, Verify, VerifySample
<1>6. QED BY <1>1, <1>2, <1>3, <1>4, <1>5 DEF Next, Build

(* Between two builds the verifiers find what the last one left.           *)
LEMMA StepCompleted ==
    TypeOK /\ BuildInOrder /\ OneLibzstd /\ VerdictIsLast /\ CompletedBuildVerifies /\ Next
        => CompletedBuildVerifies'
<1> SUFFICES ASSUME TypeOK, BuildInOrder, OneLibzstd, VerdictIsLast, CompletedBuildVerifies, Next
             PROVE  CompletedBuildVerifies'
    OBVIOUS
<1> USE DEF pool, files, checks
<1>1. CASE builder # "off" \/ StartBuild
    <2>1. StartBuild => built' = FALSE
        BY DEF StartBuild
    <2>2. builder # "off" => verdict = "none" /\ sampled = "none"
        BY DEF VerdictIsLast
    <2>3. builder # "off" => UNCHANGED checks
        BY DEF Next, Build, StartBuild, Take, WriteRow, AppendBlob, Abort, Seal, OpenIndex,
               WriteIndex, WriteReceipt, Encode, LoseWorker, Kill, Upgrade, Verify, VerifySample
    <2>4. QED BY <1>1, <2>1, <2>2, <2>3 DEF CompletedBuildVerifies
<1>2. CASE Upgrade
    BY <1>2 DEF Upgrade, CompletedBuildVerifies
<1>3. CASE Verify \/ VerifySample
    <2> SUFFICES ASSUME built' PROVE {verdict', sampled'} \subseteq {"none", "PASS"}
        BY DEF CompletedBuildVerifies
    <2>1. built /\ {verdict, sampled} \subseteq {"none", "PASS"}
        BY <1>3 DEF Verify, VerifySample, CompletedBuildVerifies
    <2>2. PICK v \in Versions : Written(v, NRows)
        BY <2>1 DEF BuildInOrder
    <2>3. index = FullIndex /\ container[1] = Header
        BY <2>1, <2>2, HeaderIsThere DEF BuildInOrder
    <2>4. /\ HeadersAgree /\ Canonical /\ index[1][1] = NRows /\ DOMAIN index = 1 .. NRows + 1
          /\ \A i \in 2 .. Len(index) : RowOK(index[i])
        BY <2>2, <2>3, CompleteStoreAccepted
    <2>5. CASE Verify
        <3>1. Outcomes(HeadersAgree /\ Canonical, 2 .. Len(index)) = {"PASS"}
            BY <2>4 DEF Outcomes
        <3>2. QED BY <2>1, <2>5, <3>1 DEF Verify
    <2>6. CASE VerifySample
        <3>1. PICK sample \in SUBSET (2 .. NRows + 1) :
                sampled' \in Outcomes(HeadersAgree /\ index[1][1] = NRows
                                        /\ sample \subseteq DOMAIN index, sample)
            BY <2>6 DEF VerifySample
        <3>2. NRows \in Nat /\ Len(index) = NRows + 1
            BY <2>2, <2>3, IndexRecords, RowCount
        <3>3. sample \subseteq DOMAIN index /\ \A i \in sample : RowOK(index[i])
            <4>1. \A i \in sample : i \in 1 .. NRows + 1 /\ i \in 2 .. Len(index)
                BY <3>2
            <4>2. QED BY <2>4, <4>1
        <3>4. sampled' = "PASS"
            BY <2>4, <3>1, <3>3 DEF Outcomes
        <3>5. QED BY <2>1, <2>6, <3>4 DEF VerifySample
    <2>7. QED BY <1>3, <2>5, <2>6
<1>4. ASSUME builder = "off", ~ StartBuild, ~ Upgrade, ~ Verify, ~ VerifySample PROVE FALSE
    BY <1>4 DEF Next, Build, Take, WriteRow, Abort, Seal, OpenIndex, WriteIndex, WriteReceipt,
           Encode, LoseWorker, Kill
<1>5. QED BY <1>1, <1>2, <1>3, <1>4

(* What verify_store.py accepts is served, whatever was written in which   *)
(* build: every record passes, and the cells are of one libzstd.           *)
LEMMA PassServes ==
    TypeOK /\ OneLibzstd /\ Verify /\ verdict' = "PASS" => \A ci \in Rows : Serves(ci)
<1> SUFFICES ASSUME TypeOK, OneLibzstd, Verify, verdict' = "PASS", NEW ci \in Rows
             PROVE  Serves(ci)
    OBVIOUS
<1>1. /\ HeadersAgree /\ Canonical
      /\ \A i \in 2 .. Len(index) : RowOK(index[i])
    <2>1. verdict' \in Outcomes(HeadersAgree /\ Canonical, 2 .. Len(index))
        BY DEF Verify
    <2>2. QED BY <2>1 DEF Outcomes
<1>2. PICK v \in Versions : container \in Seq(CellsOf(v))
    BY DEF OneLibzstd
<1>3. Len(index) = NRows + 1
    <2>1. Len(index) - 1 = index[1][1] /\ container # <<>>
          /\ container[1] = <<"header", index[1][1], 0, 0>>
        BY <1>1 DEF Canonical
    <2>2. container[1] = <<"header", NRows, 0, 0>>
        BY <2>1 DEF OneLibzstd, Header
    <2>3. Len(index) \in Nat /\ NRows \in Nat
        BY RowCount, LenProperties DEF TypeOK
    <2>4. QED BY <2>1, <2>2, <2>3
<1> DEFINE i == ci + 2
           rec == index[i]
<1>4. i \in 2 .. Len(index) /\ i \in DOMAIN index /\ i - 2 = ci
    <2>1. DOMAIN index = 1 .. Len(index)
        BY LenProperties DEF TypeOK
    <2>2. QED BY <1>3, <2>1, RowCount DEF Rows
<1> HIDE DEF i
<1>5. rec \in Nat \X Nat \X Nat /\ rec[3] > 0 /\ RowOK(rec)
    <2>1. rec[3] > 0 /\ RowOK(rec)
        BY <1>1, <1>4 DEF TypeOK
    <2>2. i \in 1 .. Len(index)
        BY <1>4
    <2>3. rec \in Nat \X Nat \X Nat
        BY <2>2, ElementOfSeq DEF TypeOK
    <2>4. QED BY <2>1, <2>3
<1>6. rec[1] = ci
    BY <1>1, <1>4 DEF Canonical
<1> HIDE DEF rec
<1>7. Read(rec[2], rec[3]) = Blob(ci, v)
    BY <1>2, <1>5, <1>6, AcceptedRowServed
<1>8. QED BY <1>4, <1>7 DEF Serves, rec, i

(* Neither verifier's verdict outlives the files that it is about.         *)
LEMMA StepServes ==
    TypeOK /\ OneLibzstd /\ VerdictIsLast /\ AcceptedStoreServes /\ Next => AcceptedStoreServes'
<1> SUFFICES ASSUME TypeOK, OneLibzstd, VerdictIsLast, AcceptedStoreServes, Next,
                    verdict' = "PASS"
             PROVE  (\A ci \in Rows : Serves(ci))'
    BY DEF AcceptedStoreServes
<1> USE DEF pool, files, checks
<1>1. ASSUME UNCHANGED <<container, index>>, \A ci \in Rows : Serves(ci)
      PROVE  (\A ci \in Rows : Serves(ci))'
    BY <1>1 DEF Serves, Read
<1>2. CASE Verify
    BY <1>1, <1>2, PassServes DEF Verify
<1>3. CASE Upgrade \/ VerifySample
    BY <1>1, <1>3 DEF Upgrade, VerifySample, AcceptedStoreServes
<1>4. CASE StartBuild
    BY <1>4 DEF StartBuild
<1>5. ASSUME ~ StartBuild, ~ Verify, ~ Upgrade, ~ VerifySample
      PROVE  FALSE
    <2>1. builder # "off" /\ verdict' = verdict
        BY <1>5 DEF Next, Build, Take, WriteRow, AppendBlob, Abort, Seal, OpenIndex, WriteIndex,
               WriteReceipt, Encode, LoseWorker, Kill
    <2>2. QED BY <2>1 DEF VerdictIsLast
<1>6. QED BY <1>2, <1>3, <1>4, <1>5

(* No files and no build satisfy it.                                       *)
LEMMA InitIInv == Init => IInv
<1> SUFFICES ASSUME Init PROVE IInv
    OBVIOUS
<1>1. TypeOK
    <2>1. chunks \in [Chunks -> {"waiting", "busy", "encoded", "failed", "lost"}]
        BY DEF Init
    <2>2. index \in Seq(Nat \X Nat \X Nat) /\ \A i \in 2 .. Len(index) : index[i][3] > 0
        BY DEF Init
    <2>3. QED BY <2>1, <2>2 DEF Init, TypeOK
<1>2. OneLibzstd
    BY StoreAssumption DEF Init, OneLibzstd
<1>3. BuildInOrder /\ VerdictIsLast /\ CompletedBuildVerifies /\ AcceptedStoreServes
    BY DEF Init, BuildInOrder, VerdictIsLast, CompletedBuildVerifies, AcceptedStoreServes
<1>4. QED BY <1>1, <1>2, <1>3 DEF IInv

(* Every step keeps it.                                                    *)
LEMMA StepIInv == IInv /\ [Next]_vars => IInv'
<1> SUFFICES ASSUME IInv, [Next]_vars PROVE IInv'
    OBVIOUS
<1>1. CASE Next
    BY <1>1, StepTypeOK, StepBuildInOrder, StepOneLibzstd, StepVerdictIsLast, StepCompleted,
       StepServes DEF IInv
<1>2. CASE UNCHANGED vars
    <2> USE <1>2 DEF vars, IInv
    <2>1. TypeOK' /\ OneLibzstd' /\ VerdictIsLast' /\ CompletedBuildVerifies'
        BY DEF TypeOK, OneLibzstd, VerdictIsLast, CompletedBuildVerifies
    <2>2. AcceptedStoreServes'
        BY DEF AcceptedStoreServes, Serves, Read
    <2>3. BuildInOrder'
        <3>1. \A v, k : Written(v, k) => Written(v, k)'
            BY WrittenKept
        <3>2. \A k : Written(zstd, k) => Written(zstd, k)'
            BY WrittenKept, WrittenByZstd
        <3>3. FullIndex' = FullIndex
            BY FullIndexKept
        <3>4. QED BY <3>1, <3>2, <3>3 DEF BuildInOrder
    <2>4. QED BY <2>1, <2>2, <2>3
<1>3. QED BY <1>1, <1>2

(* The inductive invariant holds in every behaviour.                       *)
THEOREM InductiveInvariant == Spec => []IInv
<1>1. QED BY InitIInv, StepIInv, PTL DEF Spec

(* The files, the pool and the verdicts keep their types (TypeOK).         *)
THEOREM TypeCorrect == Spec => []TypeOK
<1>1. IInv => TypeOK
    BY DEF IInv
<1>2. QED BY <1>1, InductiveInvariant, PTL

(* A build of build_store.py that ran to its end is accepted by            *)
(* verify_store.py and by every sample of verify_sample256.py, in whatever *)
(* order the workers finished and whatever an earlier build left behind.   *)
THEOREM CompletedVerifies == Spec => []CompletedBuildVerifies
<1>1. IInv => CompletedBuildVerifies
    BY DEF IInv
<1>2. QED BY <1>1, InductiveInvariant, PTL

(* A store that verify_store.py accepts serves the engine every row, from  *)
(* one build of libzstd, whichever builds were killed before.              *)
THEOREM AcceptedServes == Spec => []AcceptedStoreServes
<1>1. IInv => AcceptedStoreServes
    BY DEF IInv
<1>2. QED BY <1>1, InductiveInvariant, PTL

=============================================================================
