---------------------------- MODULE DecodeReplay ----------------------------
(***************************************************************************)
(* The replay harness of research/ob5b2/decode_replay.py, for one layer: a *)
(* banked route log is turned into a residency schedule, and the schedule  *)
(* is charged for the leases of one route call per micro-batch of ubatch   *)
(* tokens.                                                                 *)
(*                                                                         *)
(* When a recompute boundary falls inside a micro-batch the call has two   *)
(* readings (the modes of lease_counts_layer).  The harness counts them in *)
(* two passes over the log; the model counts both in one.                  *)
(***************************************************************************)
EXTENDS ResidencyPolicy, SequencesExt

CONSTANTS
    Budget,     \* tokens in the route log
    Ubatches,   \* the micro-batch shapes asked for (--ubatch)
    Slidings    \* the history lengths of the sliding-window policies

ASSUME ReplayAssumption ==
    /\ Budget \in Nat \ {0}
    /\ Ubatches \subseteq Nat \ {0}
    /\ Slidings \subseteq Nat \ {0}

Modes == {"window-start", "sub-window"}

\* --policy: P0-STATIC with any frozen set of K experts and P0-EMPTY with none,
\* P1-SLIDING-W<n>, P2-DECAY.
Policies ==
    {<<"P0", frozen>> : frozen \in {{}} \cup {S \in SUBSET Experts : Cardinality(S) = K}}
        \cup {<<"P1", W>> : W \in Slidings}
        \cup {<<"P2">>}

VARIABLES
    ids,            \* the rows of the layer, as load_route_log returns them
    policy,
    bounds, sets,   \* the schedule: sets[i] is in force from token bounds[i]
    counters,       \* the decayed counts of P2
    phase,          \* "schedule", "replay"
    ubatch,         \* the shape being replayed
    t,              \* tokens scheduled, then tokens replayed
    events, peak, pick_misses     \* per mode

input == <<ids, policy>>
schedule == <<bounds, sets, counters>>
counts == <<events, peak, pick_misses>>
vars == <<ids, policy, bounds, sets, counters, phase, ubatch, t, events, peak, pick_misses>>

Zero == [m \in Modes |-> 0]

Init ==
    /\ ids \in [1 .. Budget -> Rows]
    /\ policy \in Policies
    /\ bounds = <<>> /\ sets = <<>> /\ counters = NoCounts
    /\ phase = "schedule" /\ ubatch = 0 /\ t = 0
    /\ events = Zero /\ peak = Zero /\ pick_misses = Zero

----------------------------------------------------------------------------
(* The schedule.                                                           *)

Sched(resident, next) ==
    /\ bounds' = Append(bounds, t)
    /\ sets' = Append(sets, resident)
    /\ t' = next
    /\ UNCHANGED <<phase, ubatch>> /\ UNCHANGED input /\ UNCHANGED counts

Scheduling(kind) == phase = "schedule" /\ t < Budget /\ policy[1] = kind

\* sched_p0_static: one set for the whole log.
SchedStatic ==
    /\ Scheduling("P0")
    /\ Sched(policy[2], Budget)
    /\ UNCHANGED counters

\* One window of sched_p1_sliding.
SchedSliding ==
    /\ Scheduling("P1")
    /\ LET lo == IF t > policy[2] THEN t - policy[2] ELSE 0
       IN  Sched(IF t = 0 THEN ColdSet ELSE TopK(BinCount(SubSeq(ids, lo + 1, t))),
                 Lower(Budget, t + H))
    /\ UNCHANGED counters

\* Slip: the window is counted before residency is read off the counters.
DecayedEarly == Decay(Accumulate(counters, SubSeq(ids, t + 1, Lower(Budget, t + H))))

Decayed == IF t > 0 THEN Decay(counters) ELSE counters

\* One window of sched_p2_decay.
SchedDecay ==
    /\ Scheduling("P2")
    /\ Sched(IF t = 0 THEN ColdSet ELSE TopK(Decayed), Lower(Budget, t + H))
    /\ counters' = Accumulate(Decayed, SubSeq(ids, t + 1, Lower(Budget, t + H)))

\* The schedule is complete; it is replayed at one of the shapes asked for.
StartReplay ==
    /\ phase = "schedule" /\ t = Budget
    /\ phase' = "replay" /\ t' = 0
    /\ ubatch' \in Ubatches
    /\ UNCHANGED input /\ UNCHANGED schedule /\ UNCHANGED counts

----------------------------------------------------------------------------
(* Lease accounting.                                                       *)

\* The set in force at a token: a binary search for the last boundary at or
\* before it.
ResidentAt(tok) ==
    LET Span == 1 .. Len(bounds)
        find[r \in Span \X Span] ==
            LET mid == (r[1] + r[2] + 1) \div 2
            IN  IF r[1] >= r[2] THEN r[1]
                ELSE IF bounds[mid] <= tok THEN find[<<mid, r[2]>>]
                ELSE find[<<r[1], mid - 1>>]
    IN  sets[find[<<1, Len(bounds)>>]]

\* Slip: the piece after the last boundary of the call is lost.
CutsWithoutEnd(m, lo, hi) ==
    LET inside == {b \in ToSet(bounds) : m = "sub-window" /\ lo < b /\ b < hi}
    IN  {lo} \cup (IF inside = {} THEN {hi} ELSE inside)

\* Where a call on the tokens lo .. hi-1 is cut, and the pieces that leaves.
Cuts(m, lo, hi) ==
    {lo, hi} \cup {b \in ToSet(bounds) : m = "sub-window" /\ lo < b /\ b < hi}
Pieces(m, lo, hi) ==
    {p \in Cuts(m, lo, hi) \X Cuts(m, lo, hi) :
        p[1] < p[2] /\ \A c \in Cuts(m, lo, hi) : c <= p[1] \/ c >= p[2]}

\* The experts a piece leases: routed in it and not resident.
Leased(a, b) == (UNION {ids[i] : i \in a + 1 .. b}) \ ResidentAt(a)

CallEvents(m, lo, hi) ==
    Total([p \in Pieces(m, lo, hi) |-> Cardinality(Leased(p[1], p[2]))])
CallMisses(m, lo, hi) ==
    Total([p \in Pieces(m, lo, hi) |-> Misses(SubSeq(ids, p[1] + 1, p[2]), ResidentAt(p[1]))])

\* One iteration of lease_counts_layer, for both readings.
RouteCall ==
    /\ phase = "replay" /\ t < Budget
    /\ LET hi == Lower(Budget, t + ubatch)
       IN  /\ events' = [m \in Modes |-> events[m] + CallEvents(m, t, hi)]
           /\ peak' = [m \in Modes |-> Max({peak[m], CallEvents(m, t, hi)})]
           /\ pick_misses' = [m \in Modes |-> pick_misses[m] + CallMisses(m, t, hi)]
           /\ t' = hi
    /\ UNCHANGED <<phase, ubatch>> /\ UNCHANGED input /\ UNCHANGED schedule

Next == SchedStatic \/ SchedSliding \/ SchedDecay \/ StartReplay \/ RouteCall

Spec == Init /\ [][Next]_vars

----------------------------------------------------------------------------
(* Properties.                                                             *)

Replaying == phase = "replay"

\* What the simulator of research/ob2 computes for the policy over rows.
Simulated(rows) ==
    CASE policy[1] = "P0" -> SimP0(rows, policy[2])
      [] policy[1] = "P1" -> SimP1(rows, policy[2])
      [] policy[1] = "P2" -> SimP2(rows)

\* The churn of the schedule at the boundaries before token tok.
ChurnBefore(tok) ==
    Total([i \in {j \in 2 .. Len(sets) : bounds[j] < tok} |->
              Cardinality(SymmetricDifference(sets[i - 1], sets[i]))])

\* The binary search of resident_at finds, for every token of the log, the set
\* of the window the token is in.
ResidentAtIsInForce ==
    \A tok \in 0 .. Budget - 1 : ResidentAt(tok) = sets[IF policy[1] = "P0" THEN 1 ELSE (tok \div H) + 1]

\* "At U=1 a pick-level miss is a lease event": at the decode shape the lease
\* counter of either reading is the miss counter.
DecodeShape == ubatch = 1 => \A m \in Modes : events[m] = pick_misses[m]

\* "There is no prefetch term": a call read at its first token never leases more
\* than the experts that are not resident, so peak_concurrent is at most one
\* layer's non-resident set.
PeakWithinNonResident ==
    peak["window-start"] <= E - Min({Cardinality(sets[i]) : i \in 1 .. Len(sets)})

\* Separating the schedule from the accounting changed neither: whatever the
\* micro-batch shape, the set in force at a token is its window's, the schedule
\* churns as the simulator does, the sub-window reading misses exactly the picks
\* that the simulator misses on the tokens replayed so far, and the window-start
\* reading does too when micro-batches tile the window; and what is counted of
\* leases agrees with it where the harness says so.
MatchesSimulator ==
    Replaying =>
        /\ ResidentAtIsInForce /\ DecodeShape /\ PeakWithinNonResident
        /\ ChurnBefore(Budget) = Simulated(ids).churn
        /\ \A m \in Modes :
            m = "sub-window" \/ H % ubatch = 0
              => pick_misses[m] = Simulated(SubSeq(ids, 1, t)).misses

\* How far the two readings of the same calls can be apart: the window-start
\* reading leases at most the experts that came into residency at the boundaries
\* it ignores on top of what the sub-window reading leases.
ReadingsDifferByChurn ==
    2 * events["window-start"] <= 2 * events["sub-window"] + ChurnBefore(t)

\* The module's own claim, "For a static policy, and for any U <= H, the two are
\* identical by construction".
ReadingsIdenticalUpToH ==
    Replaying /\ (policy[1] = "P0" \/ ubatch <= H) => events["window-start"] = events["sub-window"]

=============================================================================
