----------------------------- MODULE PageCommit -----------------------------
(***************************************************************************)
(* What the reserve/commit allocator does to the pages of the weights      *)
(* buffer, as research/ob5a reads and bounds it: commit_census.py states   *)
(* the two rounding rules and the census of edges and islands,             *)
(* analyze_alloc.py the life of a lease and the bars on the counters.  The *)
(* allocator itself is in the engine, which is not in this repository.     *)
(*                                                                         *)
(* The buffer holds the data of a file whose manifests were accepted; the  *)
(* slices are the manifest's rows.                                         *)
(***************************************************************************)
EXTENDS Manifest

CONSTANTS
    PAGE,       \* bytes of a page
    ALIGN,      \* TENSOR_ALIGNMENT: what is known of the buffer's base
    K           \* experts kept resident per layer

ASSUME PageAssumption == PAGE \in Nat \ {0} /\ ALIGN \in 1 .. PAGE /\ K \in 0 .. E

VARIABLES
    file,           \* the model file
    slices, trunk,  \* the manifests' rows, as <<address, bytes>> in the buffer
    resident,       \* per block, the experts loaded for good
    committed,      \* pages
    active,         \* slices <<block, suffix, expert>> leased by the last call
    turn,           \* the block whose route call is next; -1 before the load
    commit_calls, decommit_calls, lease_events,
    peak_lease, peak  \* bytes leased by one call, and committed, at most so far

allocVars == <<slices, trunk, resident, committed, active, turn, commit_calls,
               decommit_calls, lease_events, peak_lease, peak>>

Experts == 0 .. (E - 1)
Bases   == {a \in 0 .. (PAGE - 1) : a % ALIGN = 0}
Slices  == Blocks \X ExpertSuffixes \X Experts

----------------------------------------------------------------------------
(* Rounding.                                                               *)

Floor(a) == a \div PAGE
Ceil(a)  == (a + PAGE - 1) \div PAGE

\* The pages that [lo, lo+len) touches, and the pages that lie inside it.
Outward(lo, len) == Floor(lo) .. (Ceil(lo + len) - 1)
Inward(lo, len)  == Ceil(lo) .. (Floor(lo + len) - 1)

SlicePages(s) == Outward(slices[s][1], slices[s][2])
TrunkPages    == UNION {Outward(t[1], t[2]) : t \in trunk}

SlicesOf(l, experts) == {s \in Slices : s[1] = l /\ s[3] \in experts}
BytesOf(set) == SumOf(LAMBDA s : slices[s][2], set)
Residents == UNION {SlicesOf(l, resident[l]) : l \in Blocks}

----------------------------------------------------------------------------

AllocInit ==
    /\ slices = <<>> /\ trunk = {} /\ resident = [l \in Blocks |-> {}]
    /\ committed = {} /\ active = {} /\ turn = -1
    /\ commit_calls = 0 /\ decommit_calls = 0 /\ lease_events = 0
    /\ peak_lease = 0 /\ peak = 0

CommitPages(pages) ==
    /\ committed' = pages
    /\ peak' = Max({peak, PAGE * Cardinality(pages)})

\* The loader lays the data out from some base and commits the trunk tensor by
\* tensor and the resident slices.
Load ==
    /\ turn = -1 /\ ExpertsAccepted(file) /\ TrunkAccepted(file)
    /\ UNCHANGED <<file, active, decommit_calls, lease_events, peak_lease>>
    /\ \E base \in Bases :
        /\ trunk' = {<<base + file.tensors[i].offset, Span(file, i)>> : i \in Trunk(file)}
        /\ slices' = [s \in Slices |->
                LET name == <<s[1], s[2]>>
                IN  <<base + file.tensors[Slot(file, name)].offset + s[3] * Share(file, name),
                      Share(file, name)>>]
    /\ resident' \in [Blocks -> {S \in SUBSET Experts : Cardinality(S) = K}]
    /\ CommitPages(TrunkPages' \cup UNION {SlicePages(s)' : s \in Residents'})
    /\ commit_calls' = Cardinality(Trunk(file)) + Cardinality(Residents')
    /\ turn' = 0

\* Slips: the edge pages go too; the leases of a call stay for good; a slice is
\* given back in two halves, each rounded inward.
DropOutward(s) == SlicePages(s)
DropNothing(s) == {}
DropHalves(s) ==
    LET lo == slices[s][1]  len == slices[s][2]  half == slices[s][2] \div 2
    IN  Inward(lo, half) \cup Inward(lo + half, len - half)

\* ob1_drop: a page a neighbour still owns a part of is left alone.
Dropped(s) == Inward(slices[s][1], slices[s][2])

\* Slip: whatever is routed is leased.
LeasesOfAll(routed) == SlicesOf(turn, routed)

Leases(routed) == SlicesOf(turn, routed \ resident[turn])

\* One route call: the leases of the call before are released, then the routed
\* experts that are not resident are leased, six slices to an expert.
RouteCall(routed) ==
    LET leases == Leases(routed)
    IN  /\ turn >= 0
        /\ CommitPages((committed \ UNION {Dropped(s) : s \in active})
                          \cup UNION {SlicePages(s) : s \in leases})
        /\ active' = leases
        /\ decommit_calls' = decommit_calls + Cardinality(active)
        /\ commit_calls' = commit_calls + Cardinality(leases)
        /\ lease_events' = lease_events + Cardinality(routed \ resident[turn])
        /\ peak_lease' = Max({peak_lease, BytesOf(leases)})
        /\ turn' = (turn + 1) % L
        /\ UNCHANGED <<file, slices, trunk, resident>>

\* The allocator on a file that is what a reader of its header can meet.
FileOK(f) ==
    /\ f.header \in Nat /\ f.align \in Nat \ {0} /\ f.size \in Nat
    /\ \E n \in Nat : Slots(f) = 1 .. n
    /\ \A i \in Slots(f) : f.tensors[i].offset \in Nat
    /\ \A i \in Slots(f) : IsExpert(f, i) => f.tensors[i].exps

AllocNext == Load \/ \E routed \in SUBSET Experts : RouteCall(routed)

AllocSpec == FileOK(file) /\ AllocInit /\ [][AllocNext]_<<file, allocVars>>

----------------------------------------------------------------------------
(* The census.                                                             *)

\* Expert boundaries of a tensor that fall strictly inside a page.
Straddles(at, len) == Cardinality({e \in 1 .. (E - 1) : (at + e * len) % PAGE # 0})

MaxStraddles(suffix) == Max({Straddles(at, slices[<<0, suffix, 0>>][2]) : at \in Bases})

\* tot_max, over all layers.
EdgeCensus == L * SumOf(MaxStraddles, ExpertSuffixes)

\* Maximal runs of consecutive ids.
Islands(ids) == Cardinality({e \in ids : e - 1 \notin ids})

ResidentIslands == SumOf(LAMBDA l : Islands(resident[l]), Blocks)
WorstIslands == Cardinality(ExpertSuffixes) * (ResidentIslands + E - K)

\* read_manifest: the census reads a manifest whose slices have one length per
\* suffix.
CensusReads ==
    \A s, r \in Slices : s[2] = r[2] => slices[s][2] = slices[r][2]

----------------------------------------------------------------------------
(* The bars of the analysis.                                               *)

\* P2a re-derived from the buffer, in bytes: what the buffer holds besides the
\* experts, the pool, the largest lease, and the edge census.
BufTrunk == DataBytes(file) - BytesOf(Slices)
P2aBar == BufTrunk + BytesOf(Residents) + peak_lease + PAGE * EdgeCensus

\* P4d: the decommits and the commits that the lease events imply.
P4d ==
    /\ decommit_calls + Cardinality(active) = Cardinality(ExpertSuffixes) * lease_events
    /\ commit_calls - Cardinality(Residents) - Cardinality(ExpertSuffixes) * lease_events
         = Cardinality(Trunk(file))

----------------------------------------------------------------------------
(* Properties.                                                             *)

Owned == Residents \cup active

\* Every byte of a slice that is resident or leased lies on a committed page,
\* and so does every byte of the trunk: taking a lease's pages back never takes
\* a neighbour's.
NeighbourKept ==
    turn >= 0 => TrunkPages \cup UNION {SlicePages(s) : s \in Owned} \subseteq committed

EdgePage(p) ==
    \E s \in Slices : \E a \in {slices[s][1], slices[s][1] + slices[s][2]} :
        PAGE * p < a /\ a < PAGE * (p + 1)

\* Runs of pages that are committed for the sake of experts.
CommittedIslands == Islands(committed \ TrunkPages)

\* A lease that was released leaves nothing behind but the pages that the ends
\* of its slices are strictly inside of: what stays does not grow with the
\* experts that were ever leased ...
LeftoversAreEdges ==
    turn >= 0 =>
        \A p \in committed : EdgePage(p) \/ p \in TrunkPages \cup UNION {SlicePages(s) : s \in Owned}

\* ... and splits the buffer into no more runs than the census's worst case and
\* one for each other expert of the layers besides the one whose leases the
\* census counts.
OnlyEdgesStay ==
    turn >= 0 =>
        /\ LeftoversAreEdges
        /\ CommittedIslands <= WorstIslands + Cardinality(ExpertSuffixes) *
                ((L - 1) * (E - K) + (IF K = 0 THEN L ELSE 0))

\* P2a: the peak of committed bytes is at most the trunk, the pool, the largest
\* lease and the census of edges; in no term the bytes of all experts.  This is
\* not the bar of the analysis itself, which a layout can exceed: the census
\* counts the boundaries between experts only, so that the two ends of each
\* expert tensor come on top, a page each, and so do the two ends of the data.
PeakWithinBar ==
    turn >= 0 /\ CensusReads => peak <= P2aBar + 2 * PAGE * (Cardinality(ExpertNames) + 1)

\* P4d: every lease is six commits, and six decommits unless it is still out;
\* what is left of the commits is the trunk and the pool.
CallsBalance == turn >= 0 => P4d

\* Whatever became of the file, what its manifests say of it is true of it.
FileAccounted == turn = -1 => Accounted(file)

=============================================================================
