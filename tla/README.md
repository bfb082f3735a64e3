# Verification of remat

`remat` is a research repository about running mixture-of-experts models in less
memory than they need: which experts of a layer stay resident, which are leased
for a micro-batch, how experts are stored on disk, and how the long runs that
measure all this share one box. Its programs are Python scripts and shell
drivers. The inference engine itself is a patched llama.cpp that lives outside
the repository and is only built and started here; `engine_walk_check.py` is the
repository's own account of how it behaves.

This directory holds TLA+ models of those programs, TLC configurations that
check them, and proofs checked by TLAPS. Source paths below are relative to
`src/`.

## 1. Inventory

| Part | Source | State it keeps | Operations | What is hard | What makes it correct |
|---|---|---|---|---|---|
| residency policy | `research/ob2/sim_residency.py`, `sim_trace.py` | per layer: decayed counts, resident set; miss and churn totals | recompute at a window boundary, serve a window | ties between equal counts, order of decay / choice / accumulation | always exactly K residents; all programs that restate the policy agree |
| engine walk | `research/ob2/engine_walk_check.py` | per layer also the experts in memory, the position; lease ledgers | one route call per layer and micro-batch | micro-batches straddle boundaries; layers interleave | memory is the resident set between calls; loads are paid back; same result as the simulator |
| decode replay | `research/ob5b2/decode_replay.py` | schedule, lease counts in two readings | build a schedule, charge micro-batches | boundary arithmetic; two readings said to coincide | schedules are the simulators'; peak is bounded; how far the readings differ |
| run lock | `research/ob1b/locked-run.sh` and its siblings in `ob2`, `ob3`, `ob5a`, `ob5b1`, `ob5b2` | a directory, one shell per leg | ask, poll, give up, gate on RAM, run, release, yield | many scripts, each with its own polls and failure path | one model at a time; nobody starved, nobody waits for ever; lock released |
| handoff and chains | `research/ob1b/handoff-to-120b.sh`, `chain-*.sh`, `runs-*.sh`, `run-ob1b.sh` | process table, result files, the same directory | wait, kill, clear the lock, start the next leg | acts on stale looks at the process table; kills between two steps of others | no orphaned lock or run, no own leg beside another, siblings untouched |
| training supervisor | `lowint/moe0/train/run_stage2.sh`, `bobmoe0.py`, `watch_stage2b.sh` | checkpoints, digests, markers, PREEMPT; trainer, launcher and watcher processes | launch, gate, train, checkpoint, stop, resume, report | death at any point, resumes, markers of earlier segments | final bytes independent of interruptions; DONE means done; demos preempt |
| expert store | `research/ob4/build_store.py`, `verify_store.py`, `verify_sample256.py` | container file and index | build in parallel, verify, extract | a build that stops between container and index; ordered appends | what the verifier accepts is what was packed |
| byte ranges of a model file | `research/ob1/gguf_expert_manifest.py`, `ob3t/trunk_manifest.py`, `rs053/gguf-expert-bytes.py` | none: two manifests made from one tensor table | read spans, divide into slices and lease units, reconcile totals | lengths are only distances between offsets; tensors nobody looks for | every byte has one row, or the manifest is refused |
| page commitment | `research/ob5a/commit_census.py`, `analyze_alloc.py`, `predict_120b.py` | committed pages of a buffer, leases out, counters | commit outward, decommit inward, census, bars | slices are not page multiples; neighbours share pages | a neighbour's page is never taken; what is left is edges; bars hold |
| claims checker | `research/claims/claims_check.py` | blocks parsed so far | parse, per-block rules, rules over several blocks | unclosed blocks, rules that overlap | an accepted table is complete; a fault is refused under the rules it is about |
| route-log readers | `research/ob1/resident_sets.py`, `ob1b/resident_sets_knee.py`, `sim_miss.py`, `predict_leases.py`, `ob3/resident_sets_ob3.py`, `sim_predict.py`, `ob5a/verify_sets_120b.py`, `rs053/rs053-metrics.py`, `rs053-cross.py`, `validate-route-logs.py` | none: numbers from a file | load, count, rank, predict misses and leases | a file that is cut, doubled, edited; many copies of one loader | damage shows; predictions are the engine's counters |
| decode gates and acceptance | `research/ob5b1/gate*_*.py`, `accept_*.py`, `ob5b2/route_compare.py` | none | re-derive from a run's log what the engine counted; compare logs of two schedules | two implementations of everything; pieces recovered from row order; emission order depends on the schedule | they agree with each other and with the run |
| analyzers | `research/*/analyze*.py` | none | read finished files, print tables | - | arithmetic over counts defined elsewhere |
| low-integer packing, statistics | `lowint/moe0/train/g3_pack.py`, `route_stats.py`, `compress_curve.py` | arrays | numeric kernels | - | out of a model checker's reach |
| lease engine | outside the repository (`research/ob1b/build-ob1b.sh` builds it) | - | - | - | modelled only as far as `engine_walk_check.py` states it |

**How they interact.** The engine and the simulators never talk to each other: they are tied by the
claim that they decide alike, which `engine_walk_check.py` tests on banked logs. Legs (the drivers
of one experiment) share nothing but the lock directory and the free memory of the box. The route
log of a run is the one thing that all readers share: the predictors are run on it before the engine
run they predict, the gates after it, and acceptance re-derives the gates' figures by other code.
The two manifests are made from the same file by different programs; the leases of the engine are
rows of theirs, and the pages the allocator commits are the pages of those rows. The handoff and the
chain scripts learn what the others do from the process table and from files. Trainer, launcher and
watcher communicate through an exit code, marker files, checkpoint files and a log; the collector of
the final weights waits for `DONE`. The PREEMPT file is written by people who need the card.

The full list of hazards, each at its source line with the properties that would
catch it, is in `PROJECT.json`.

## 2. Modules

    ResidencyPolicy   top_k, the three simulators, the trace        (operators)
      DecayPolicy       abstract: windows of H tokens per layer
      EngineWalk        the engine's walk           refines DecayPolicy
        MCEngineWalk      agreement with the recursive simulators
      DecodeReplay      schedules and lease arithmetic
      RouteLog          the loader, ranking, predictors, locality    (operators)
        RouteGates        gates, acceptance, comparison of logs      (operators)
          RouteRun          the engine's run as they take it, and damage to its file
      MCDecodeReplay    DecodeReplay and RouteRun over the same log
      ResidencyProofs   the simulators as walks over windows
        EngineWalkProofs  extends MCEngineWalk as well
        DecodeProofs      extends MCDecodeReplay as well
    BoxLock           abstract: mutual exclusion
    RunLock           legs behind lock wrappers     refines BoxLock
      MCRunLock, RunLockProofs
    Handoff           matrix, handoff, chain, 120b leg, resume, sibling
      MCHandoff, HandoffProofs
    Segments          trainer, launcher, operator, box
      SegmentWatch      the same with the watcher beside it
      SegmentsProofs
    ExpertStore       builder, its pool, the two files, both verifiers
      MCExpertStore, StoreProofs
    Manifest          three readers of a tensor table, two manifests (operators)
      PageCommit        the pages of the rows while leases come and go
        MCExpertBytes     a file, its faults, then the allocator on it
      PageProofs
    ClaimsCheck       the author's edits and the checker
      MCClaimsCheck

Definitions carry the names of the code where they can. Operators marked *Slip*
are deliberate mistakes that the modules do not use: each is a plausible bug of
the definition it stands before, kept so that every property can be shown to
notice one (`PROJECT.json`, "mutants").

### 2.1 ResidencyPolicy, DecayPolicy, EngineWalk

`TopK(counters)` is `top_k`: experts sorted by count, ties by the lower number.
It is written as a rank (the number of experts that come before), not as a sort,
so that it can be reasoned about; `TopKSize` proves that exactly K are chosen.
`SimP0`, `SimP1`, `SimP2` and `TraceP2` are the committed simulators as
recursive functions over one layer's rows.

`EngineWalk` is `engine_walk`: `cnt`, `res`, `phys` and `tok` per layer are the
dictionaries of that name; `lo`, `il` and `t` are the loops' positions (first
token of the micro-batch, layer, token inside the micro-batch); `runion` and
`need` are the locals of a route call. `Piece` is one iteration of the loop that
cuts a micro-batch at recompute boundaries, `Settle` is the eviction, leasing and
dropping that ends the call. The route log is an input: each piece chooses its
rows, so TLC checks every log of the given length.

`DecayPolicy` says what the walk is for: each layer consumes its tokens window by
window, halving the counters and choosing the resident set at each boundary. It
knows no micro-batches, no interleaving of layers and no memory.

### 2.2 DecodeReplay

`Sched*` are the generators `sched_p0/p1/p2`, one window per step; `RouteCall` is
one iteration of `lease_counts_layer` for one micro-batch, counting both readings
(`window-start` and `sub-window`) side by side, where the code makes two passes.
`ResidentAt` is the binary search of `resident_at` by what it finds.

### 2.3 RunLock, BoxLock

One process per leg. `pc[l]` is the place in the script: `idle` (the driver's
loop), `precheck` (RAM bar before the lock, only `run-ob3.sh`), `ask` (the `mkdir`
loop), `gate` (RAM bar under the lock), `start`, `run`, `free` (after the run),
`refuse` (after a failed bar), `gone`, `crashed`. The wrappers differ in constants
only: `Poll`, `Limit`, `Yield`, `RamFirst` and `Unguarded` (under `set -e`, a
failing run ends the script before its `rmdir`). `stale` and `owed` are history
variables: has another model started since this leg read the free RAM, and what
kind of release it made past a waiting sibling.

*Time.* Polls and yields race each other, so time matters. It is counted in ticks
of `timer`s. Shell steps take no time: `Tick` waits until every leg is asleep,
inside a model run or gone. Model runs take any time.

### 2.4 Handoff

The night on which the 20b matrix is stopped in favour of the 120b leg. A client
(`matrix`, `leg120`, `resume`, `sibling`) is a driver with its wrapper and the job
the wrapper started; `place` is where it is, `row` the run it is making. `hand` is
the line `handoff-to-120b.sh` is at, `chain` the chain script that is waiting. The
kill of the driver and the kill of the wrapper are separate actions with a gap
between them; a killed wrapper leaves its lock and its job (`wrapped` = FALSE: the
job goes on, nobody will release for it); a killed driver does not go on when its
wrapper returns. `stats` and `landed` are the rows whose `ob1-stats.txt`, and whose
`identity.txt` as well, exist: the engine writes the first (`LandStats`) and lives on until it exits
(`EndEngine`), with or without it, and the copying of files comes after that. So the handoff's loop at
lines 31-33 has an engine to wait for.

The 120b leg's first run has an inline lock loop (slower poll, no RAM bar) and is
preceded by the digest of a 63 GB file, which takes at least `Hash` ticks and then any time. That matters
because the kill by the pattern `ob1b/locked-run.sh` would reach a wrapper of the 120b leg too: while the handoff
kills, that leg is still at its digest, and its first run has no wrapper. `KillWrapper` therefore is
about the matrix alone.

### 2.5 Segments, SegmentWatch

A *segment* is one start of `run_stage2.sh`; it trains the arm `moe`, then `dense`,
each in a `bobmoe0.py` process. The content of a training state is the sequence of
the steps applied to it: a state that equals `Straight(s)` is, byte for byte, what
the uninterrupted run holds after step `s` (the trainer turns deterministic
algorithms on; that torch keeps this promise is an assumption). `weights`,
`sidecar` and `banked` are the checkpoint files and the digest log, `markers` the
marker files of an arm's directory, `root` those of the run's directory.

The trainer takes one action per step and one per file written, so that `Die` (the
process) and `Reboot` (the box) come between any two of them and may leave the
file being written torn. `Launch` starts a segment from any checkpoint the operator
names; the launcher looks only at the existence of its files, so it may start from
a torn one, on which the trainer fails. `Demo` creates and removes PREEMPT at any
moment; samples of the card's temperature are arbitrary, including unreadable ones.
`SegmentWatch` adds `watch_stage2b.sh`, whose loop makes three separate looks.

### 2.6 ExpertStore

A row is its canonical index; the files are sequences of cells (a header, the
length field of a blob, each piece of a zstd frame), so a blob read with a stale
offset or length holds other cells than it should. `chunks` is what became of each
task of `pool.imap`: a worker encodes its rows, fails on one (short read, digest), or
is killed, in which case the pool replaces the worker and not the task. `WriteRow`
is the parent's loop, which sees the rows in canonical order (`NextRow`). `Kill` may
come between any two steps and leaves a prefix of the file then open; the container
is truncated at the start of a build and the index only at its end, so a new, partial
container can stand beside an old index. `Upgrade` changes libzstd between two
builds: frames of another length, for the same rows. The manifest is fixed and
complete (what `load_manifest` enforces) and a receipt is its verdict. A cell that is
not a length field is never mistaken for one that fits, and of the bytes that are not
a whole frame none decodes to a row: that is what the digests are for.

### 2.7 RouteLog, RouteGates, RouteRun, MCDecodeReplay

A route log is a sequence of rows, one per layer and token, in the order the engine
computed them. Every program that reads one is an operator from the files and numbers it
is given to the figures it prints, or to `Refused` when it ends with a message or a
traceback. Each follows its own program, not its neighbour: `Gate0Top8` reads columns and
infers the shape from the file, `AcceptGate0` walks the rows, `GateCells` derives the printed
tables a third time; `Gate2DecodeAcct` numbers the
calls from prompt and micro-batch (`CallOf`), `PhaseSplit` recovers them from where the
layer column returns to 0 (`PieceOf`). What the programs share by copy (`Loads`, `TopOf`)
is one definition. Bytes are counted in expert slices, rates and wording are left out.

`RouteRun` is the run that all of them describe: `RunCall` is one layer's turn in one
`llama_decode` call, which appends the layer's rows to the log and leases the distinct
experts that are not resident; `lease_events`, `peak_leased` and `chunks` are the counters
that the engine prints (`chunk_ns` with the time of a call replaced by the tokens it computed).
The engine is outside the repository, so these actions are external. Then `Damage` makes of
the file what a full disk, a kill, a second run or an editor makes of it. `RunSpec` is a run of any
routing and any resident sets of one size per layer; the proofs are about it.

`MCDecodeReplay` puts the two side by side: when `decode_replay.py` has replayed a log under
a static policy, the engine is launched on the same log with the same sets and micro-batch.
So the replay harness, the predictors, the gates and the acceptance readers are all held
against one run. Each of its steps is a step of `RunSpec` or none (`RunsOfTheLog`).

### 2.8 Manifest, PageCommit, MCExpertBytes

A file is its header length, its alignment, its length and its tensor table; an offset is
all that the table says of where a tensor lies, and `Span` is what the three readers make of
it. `ExpertsAccepted` and `TrunkAccepted` are the conjunctions of the two programs' assertions,
`ExpertRows` and `TrunkRows` the rows that they write. `NonExpertBytes`, `DataStart` and
`ResidentAlways` are the literals of an earlier reading that the trunk manifest is reconciled
with.

`PageCommit` is the allocator as `commit_census.py` and `analyze_alloc.py` read it: `Load`
places the data at some base and commits the trunk and the resident slices, `RouteCall` gives
back the pages that lie wholly inside the leases of the call before, and commits the pages that
the new leases touch. `EdgeCensus`, `WorstIslands`, `P2aBar` and `P4d` are the published
bounds. `MCExpertBytes` starts with a file, inflicts up to `MaxFaults` faults on it (a missing
end, trailing bytes, another header, a tensor stretched, renamed, added or tied) and, when both
manifests still accept it, serves route calls from it.

### 2.9 ClaimsCheck

A line of the table is what the parser tells apart: key line, continuation, terminator, blank,
comment, junk. A value is the class that the patterns put it in, with its numbers; `With`,
`ParseLine` and `Parse` are `parse_blocks`, and there is one operator per rule, X0 to X11, with
the exact quotients as integer arithmetic in units of the last decimal place. Around the
checker an author edits the table of record: a line removed, repeated or inserted, a value
replaced, the bytes soiled. The checker's verdict is accepted, refused with a set of rules, or
`raised`: a divisor of zero in a throughput or an exposure ends it with a traceback.

## 3. Runs

| Run | Configuration | Question |
|---|---|---|
| `engine_walk` | 2 layers, 3 experts, K = 2, windows of 2, micro-batches of 3; every log of 7 tokens in the first layer, the second follows it | memory, ledgers and trace of the walk; agreement with the simulators; refinement of DecayPolicy |
| `decode_replay` | every log of 6 tokens, 2 picks of 3 experts; all three policies; micro-batches of 1, 2, 3, 5, 7; then the engine on 81 of the logs, all prompt or two tokens generated, and nine kinds of damage to its file | schedules equal the simulators'; how far the two readings differ; gates, predictors and acceptance against the run, the replay and each other |
| `decode_claim` | windows of 3, micro-batches of 2 | *violation*: "for any U <= H the two are identical" |
| `run_lock` | `ob1b`, `ob3` and `gate1`, two runs each | mutual exclusion, valid RAM reading, courtesy, no endless wait, lock comes back |
| `run_lock_leak` | `ob1b` and `gate1` | *violation*: "house run discipline in full" |
| `handoff` | matrix of 2 rows (the first is the A/A run), 120b leg and sibling of 1 run, resume of what is left | no orphaned run or lock, own legs never compete, the 120b leg is started once the engine is gone |
| `handoff_lock` | the same | *violation*: "a sibling's lock is never touched" |
| `segments` | 2 arms, steps 2..5 after the anchor, checkpoints at 3 and 5, two segments, the second watched | exact resume, agreeing digests, equal budget, DONE, preemption, heat, reported failure |
| `segments_claim` | the same without the watcher | *violation*: ARM-DONE "when the arm reached step 15259" |
| `expert_store` | 2 layers of one expert with a weight and a bias, 2 workers, tasks of one row, 2 builds, samples of 2 rows | a completed build passes both verifiers; an accepted store serves every row; a build ends |
| `expert_bytes` | 2 layers, 3 experts, two expert tensors with slices of 19 and 22 bytes, pages of 4, every base; 2 faults, 3 route calls | one row for each byte; a neighbour's pages stay; only edges are left; both bars |
| `claims_check` | a ROW and a CLAIM of one leg, a surface quoting both; 2 edits out of every line operation and 39 values | an accepted table is complete and shows the worst cost; a fault is refused under the rules it is about |

### Why the bounds are enough

* *Walk.* With windows of 2 and micro-batches of 3 the calls start at 0, 3 and 6: in the
  middle of a window, at a boundary (where a call may evict, because no piece of it needs the
  set before), with a boundary inside, and the last one is short. Seven tokens hold three
  recomputes. The second layer's log is the first's, expert by expert or shifted by
  one: what one layer does to another's memory shows when they differ at all.
* *Replay.* The micro-batch sizes are: one token, exactly a window, one that
  straddles, one that holds two boundaries, one longer than the log.
* *Run.* The same micro-batches make prompts of one piece, of whole pieces and of a short
  last one. The engine runs the logs that end in two equal rows (what precedes is free); the
  second layer takes the log from its end, so no two layers route alike. A file is damaged in
  its first row, at the last row of a layer and near the end. Two picks of three experts are
  enough for a repeated, a foreign and a different id.
* *Bytes.* Neither slice is a multiple of the page nor of the other, so over the experts and the
  four bases every relation between a slice end and a page edge occurs, also pages shared by
  an expert and the trunk. The third call of a run releases what the second leased while the
  first's leftovers are committed. Two faults are enough for one to hide another from a total.
* *Claims.* Two edits can open a block and close it elsewhere, or break one rule while hiding
  it from another. ROW and CLAIM have all keys that a rule looks at; one key stands for the
  others of its kind.
* *Lock.* One leg of each kind, so each mix of polls and release paths meets; two
  runs each, so a leg can release and ask again. A tick is 30 s: the 5 s poll is
  rounded up to 1 tick, the 75 s yield down to 2, which is unfavourable to the
  courtesy in both places. The limits of 2 to 3 ticks are reached while a run lasts.
* *Handoff.* A tick is 15 s: looks every 30, 10 and 60 s are 2, 1 and 4 ticks, the
  2 s between the kills are rounded up to 1, the look at the lock follows 65 s or 5
  ticks later, the yield is 5, the digest takes 2 at least. One row besides the A/A run is enough for the matrix
  to be anywhere in its cycle at the moment of the kill and for the resume to have
  something to skip and something to do.
* *Segments.* Four steps with a checkpoint in the middle and one at the end give
  every relation between step, checkpoint and death; a corpus of three windows
  drawn two at a time wraps inside a step; two segments are the smallest chain in
  which markers and files of an earlier one meet a later one. `SegmentsProofs` has
  no such bounds.
* *Store.* Two experts put a row of each kind before and after a row of the other
  kind. The two versions of libzstd make blobs of 4 and 2 or of 3 and 3 cells: the
  containers have the same size, so the size in the index header does not tell them
  apart, while a record of the one reads across rows of the other. Two builds are the
  smallest chain in which a container and an index of different builds meet.

`CHECK_DEADLOCK FALSE` stands in every configuration because every one of these
programs ends.

### Fairness

* `RunLock`: WF of `Tick` and of each leg's shell steps. A model run may last for
  ever; `LockComesBack` says what follows *if* runs end, `NoEndlessWait` needs no
  such assumption because the wrappers give up.
* `Handoff`: WF of `Tick`, of the scripts and of each client's shell steps. Jobs
  (hashing, engine, copying) have none, so `HandsOver` holds although a sibling's
  run may never end. It says that the 120b leg is started once the A/A run's statistics are there and its
  engine is gone, not that it gets the lock; the engine may also stay for ever, and then so does the handoff.
* `SegmentWatch`: WF of the watcher's look only. Trainer, launcher and operator may
  stop at any time.

* `ExpertStore`: WF of the build (the parent or some worker goes on) and of each
  worker. The loss of a worker is excepted in `BuildEnds`, because `imap` then waits
  for ever for the task it held.

## 4. Proofs

Checked by TLAPS for every value of the constants that satisfies the modules'
named assumptions.

**EngineWalk** (`ResidencyProofs`, `EngineWalkProofs`). `TypeOK`, `KResident`,
`PhysIsResident`, `LeaseLedger`, `PromotionsAreChurn`, and `Spec => Policy!Spec`.
The properties between calls are not inductive: a call in progress has changed
`res[il]` but not `phys[il]`. The invariant `IInv` adds `CallInv`, what holds inside
a call: the memory of every layer holds K experts; once a piece is done the resident
set in force is part of what the call needs (`runion`); a layer that has read nothing
still has its cold-start set; and the churn of the pieces so far covers
the distance between memory and residency (the triangle inequality for symmetric
differences, `DifferenceTriangle`). Promotions are then half of that distance
because both sets have K elements (`EqualSizeDifference`, which needs `TopKSize`).
The refinement maps `Piece` to `Consume` and `Settle` to a stutter; what it rests
on is `PieceSpan`: a piece is never empty and never crosses a boundary.

`AgreesWithSimulator`: the walk and the simulators compute the same from the same rows. The
simulators are recursive functions over the windows of a log, so `ResidencyProofs` first says what
such a function is without recursion: a walk (`IsWalk`) has a state per window, each the `Step` of
the one before; walks exist (`WalksExist`), two logs with the same windows have the same walk
(`WalksAgree`), and `SimP2` and `TraceP2` are the ends of theirs (`SimIsWalk`, `TraceIsWalk`). The
inductions are least counterexamples on the number of windows. A log that grows inside its last
window changes only the last state (`GrownWindows`, `GrownWalk`), by as many misses, picks and
counts as the new rows have under the resident set in force (`MissesOfBoth`, `PicksOfBoth`,
`AccumulateBoth`); one that starts a new window first halves and chooses again. That is
`SimGrows` and `TraceGrows`, and `PieceGrowsSim` is the same for a piece of the walk, which by
`PieceSpan` lies inside one window. The invariant `SimInv` adds to the agreement that the
counters and the resident set of each layer are the simulator's for the rows the layer has read;
`main` compares only the totals, from which the next step could not be concluded. The totals are
sums over the layers: the size of a union of disjoint parts, one for each layer (`PartsAddUp`), so
a layer that goes up raises the total by as much (`SumRaised`).

**DecodeReplay** (`DecodeProofs`). `MatchesSimulator` and `ReadingsDifferByChurn`, for every log,
policy, micro-batch, history and window length, and for the composition `MCSpec` too, in which the
engine runs on the log meanwhile (`ComparedReplay`). The invariant has two halves. `SInv`: the
schedule so far is the first n sets of the policy's walk, each with its boundary, and P2's counters
are the walk's (`SlidingNext`, `DecayNext`). `ReplayInv` adds the counts: what a reading has counted
up to token t is the size of a set, of missed picks or of pairs of a piece and an expert, so that
one more call adds a disjoint part to it. The binary search finds the last boundary at or before a token
because the search space always holds it and shrinks (`SearchEnds`, `SearchFinds`). A call is cut
into pieces that tile it (`StretchesCover`, `PiecesCover`) and lie in one window each
(`PiecesInSpans`), so its misses are the simulator's for the same tokens; the window-start
reading has that only if the call lies in one window, which is what `H % U = 0` gives. An expert
that only the window-start reading leases came into residency at a boundary inside the call
(`CameIn`, `CrossedChurn`), and as boundaries are crossed once, the excess adds up to at most
half of the churn passed: sets of one size gain what they lose.

**RouteRun** (`DecodeProofs`). `ChunksRead`, `LeasesRederived` and `LeasesPredicted` for `RunSpec`: every
routing, all resident sets, every prompt of at most T tokens, micro-batch and number of layers above one. By
`RunsOfTheLog`, the implementation of `RunSpec` by the composition, they hold of the runs of `decode_replay`
as well, and there `ReplayPredictsRun` is proved on top of them.
`TimedInv`: the entries of `chunk_ns` tile the tokens computed so far, the first of them are the prompt's
(`SplitAt`), and each later one is a single token; a damaged file leaves them as they are.

`LeaseInv` says what a run under way has logged and counted. The file has the rows that have been computed,
each layer's in the order of its tokens, and the pieces that acceptance recovers from the layer column are
the calls that gate 2 derives from the shape (`LogIs`): a row opens a piece exactly when it is the
first layer's and does not follow that layer, which is why one layer is not enough. A layer's lease events
are as many as there are pairs of a call and an expert it leases (`LeasedIn`), so that one more call adds a
disjoint part (`LeasedGrows`), and the two peaks are the largest needs so far (`PeakIs`). `StepLease` has
the steps. When the run is over every layer is through (`Ended`), and the rest is about the programs,
each of which adds the same things up in another order: by key (call, layer) in gate 2
(`NeedsAddUp`, `PeaksAgain`, `DecodeAcctIs`), by piece in acceptance (`SplitIs`), by phase and layer
in gate 1, whose two models bracket the leases (`LeasesBetween`). `Reindexed` and `TotalOfSums`
say that a sum over finite sets does not depend on the order.

The predictors go over the windows of a log that is all prompt. Their loader accepts the log of a run and
reads each layer's routing in it (`LogLoads`), since every row has a place of its own (`RowPlaces`). Each of
the three then adds up one table, what every layer leases in every whole chunk (`Foretold`), row by row, layer
by layer or chunk by chunk (`SumsOver`), and a whole chunk is a call (`ChunkIsCall`), so they foretell at most
what a layer leases and exactly that when the chunk divides the log (`EventsOfLayer`, `PeakForetold`).
`WindowMass` and `SimMiss` count what every row misses (`WantedAt`) by two other routes. For the harness,
`StaticCounted` says of a static policy what `LeaseInv` says of the run: its lease events are as many as
there are pairs of a call and an expert it leases, its peak is some call's need. `Linked` ties the two together:
once launched, the run is of the log that the harness has finished with, at its micro-batch, with its
set in every layer. The log's layer then has the harness's pairs (`LayerOfLog`), and the other one, which
routes the rows from their end, misses as much (`LayerOfRun`).

**RunLock** (`RunLockProofs`). `LockHasHolder`, `RamCheckHolds`, `YieldGivesWay` and
`Spec => Box!Spec`, for any number of legs with any mix of polls, limits and yields.
Besides exclusion, the invariant says how the courtesy works: a waiter's timer never
exceeds its poll (`PollsInTime`), and while a courteous leg owes the lock to a sibling
it is in its yield, the lock is free, and some sibling will ask before the yield is
over (`DebtIsPaid`).

**Segments** (`SegmentsProofs`). `TypeOK`, `ResumeExact`, `BankedDigestsAgree`,
`CollectorSeesFinals` and `DemosPreempt`, for every cadence, every total, any number
of segments. The invariant `IInv` has four parts: every file is absent, torn or the
straight run's (`DiskOK`); the bookkeeping is in range (`ScalarsOK`); what the trainer
holds, and what it has already written at each of its places, is right (`TrainerOK`);
and what the launcher carries from arm to arm, namely that ARM-DONE and an arm
already passed imply good finals (`ChainOK`). `DemosPreempt` needs a further part,
`PreemptOK`: the `since` steps that a trainer has done under PREEMPT are steps of this
process, and no checkpoint lies before the last of them. It is stated for every number that leads from each step to a
checkpoint, not for the least one, so that no choice of a minimum is needed.

`HeatIsBounded` is proved under `Spaced`: two checkpoints at which the temperature is read are
more than `HotLimit` samples apart (`bobmoe0.py` has 1000 steps between checkpoints and 25
between samples). Without it a card could stay hot for ever: a checkpoint step skips the
look at the streak. The invariant `HeatOK` says that the hot samples in a row are the streak the
trainer counts, or one more and then that one was a checkpoint fewer samples ago than the
streak is long (`MissedAt`). `EqualBudget` rests on a closed form: after s steps window w was drawn
`(s * B + N - 1 - w) \div N` times. That the drawing loop computes it is shown by the least step
at which it would not, since an induction theorem cannot be instantiated here.

**Handoff** (`HandoffProofs`). `TypeOK`, `EngineGuarded`, `OrphanCleared` and `NeverCompete`, for
any number of rows and any polls and yields with `StatsPoll + Gap < Yield` and `EnginePoll + Gap < Yield`
(the literals are 30 s, 10 s, 2 s and 75 s) and a digest longer than the gap (`Gap < Hash`). Why no run
is orphaned is a race that the handoff wins, twice over. The statistics may land while it sleeps, and
the engine go in the same sleep: then the first look comes within `StatsPoll` of the release. Or it has seen the
statistics and finds the engine, and the engine goes while it sleeps `EnginePoll`. Either way the matrix copies files
or is in its yield when the kills begin. `HandInTime` says so: until the handoff has looked, the A/A run's engine
may live, and from the release on the yield left is longer than what the handoff still sleeps (`Left`); after
the look for the engine there is none. Without the bound on `EnginePoll` the next row's engine could start
under the sleeping handoff. `KilledCopying`: a wrapper is killed while it copies or not at all.
`DigestOutlasts`: the 120b leg, started by the first kill, does not ask for the lock before the second, which takes the
matrix out of the queue. `LockKept`: until the handoff removes it, the directory is that of the client
behind it, and one of the matrix has its wrapper behind it or a killed one; `ChainInOrder` and `DriverGone`, in
which order the legs start and that a matrix without its driver makes no further run.

`NeverCompete` counts a client from the queue to the end of its copying, when its wrapper gives the lock
back. It leaves one thing open, and says so: the 120b leg may find the lock of the wrapper that the
handoff has just killed, and waits for it until the same handoff looks at it.

**ExpertStore** (`StoreProofs`). `TypeOK`, `CompletedBuildVerifies` and `AcceptedStoreServes`, for
any number of layers, experts, workers, builds and versions of libzstd, any task size and any frame
lengths. The invariant: the first k rows' blobs tile the container and `recs` says where
(`Written`), the index of a build that got to it is the full one (`BuildInOrder`), all cells of a
container are of one libzstd (`OneLibzstd`), and a verdict is about the files that are there
(`VerdictIsLast`). The hard half is `AcceptedRowServed`: a pass of the verifier over *any* index
means that each row is served. Behind a length that fits, the pieces read are pieces of the container
(`ReadCells`, `Piece`), the digest says which row's frame they are, and since all cells are of one
libzstd they are that frame (`PieceIsFrame`, `SameCells`). The converse is `CompleteStoreAccepted`.

**PageCommit** (`PageProofs`). `NeighbourKept` and `LeftoversAreEdges` for `AllocSpec`: every
file that a reader of its header can meet (`FileOK`) and that both manifests accept, every page
size, base, number of layers and experts, every set of expert tensors, every choice of resident
experts and every sequence of route calls. The runs of `MCExpertBytes` put faults of the file
before the load; from there its steps are the same `Load` and `RouteCall`. `NeighbourKept` alone
is not inductive: a release is harmless because ranges do not overlap (`LayoutOK`) and because
what is leased is never resident too. That no two slices overlap rests on the
acceptance: an offset names one tensor (`LastNamed`, `SlotIsNamed`), a span ends where the next
tensor starts (`SpanEnds`), and E equal shares fill it (`Parts`). Two lemmas about rounding then
do the rest: a page inside a range is touched by no range apart from it
(`InwardMissesNeighbour`), and what an inward release leaves of an outward commit are pages with
an end of the slice strictly inside (`EdgeOfRange`). Least offsets come from
`LeastNat`, since an induction theorem cannot be instantiated here.

`CallsBalance` needs that a routed expert's lease is one slice per suffix (`LeaseCount`) and what the
counters say between calls (`CountsOK`). `PeakWithinBar` is proved for aligned files (`Aligned`: the page
and every tensor's offset are multiples of ALIGN, as `commit_census.py:25` says of the tensors' bases).
Its bar is the published one, with the trunk in bytes (`BufTrunk`, all that is not an expert's), and on
top of it a page for each end of each expert tensor and of the data, which the census leaves out. Files
are those of a writer of the format (`Written`). It is proved first by pages (`PeakStaysInPages`): the
bar is a sum, and sums over finite sets are folds of the community modules, whose value is a chosen
recursive function; `SumsExist` shows that there is one, and `UnionBound` that a union is as small as the
sum of the bounds of its parts. Committed pages are then trunk pages, pages inside what is resident or
leased, which their bytes pay for (`InsideBytes`), and pages that an end of a slice is inside of: at most
the boundaries that the census counts for the worst base, and two for each expert tensor (`FewEdges`,
`EdgesBound`). A released lease leaves only the last kind, so the peak does not grow. Then in bytes: a
trunk page that no end of an expert tensor or of the data is inside of consists of bytes of the data that
are no slice's (`PlainPage`), pages are disjoint (`PagesOfBytes`), the slices have as many bytes as their
sum says (`SliceBytesSize`), so those pages have no more bytes than the trunk (`PlainTrunkBytes`).

`OnlyEdgesStay` bounds the runs of committed pages. A run starts at a page that is marked for some
tensor (`CommittedMarked`); the first end of a slice that is not before the page below it
(`FirstEnd`) is the tensor's own start or follows an expert that is not resident, for else the page
below would be committed and not the trunk's (`StartHasEnd`); and no two runs have the same first end
(`OneStartPerEnd`). So there are no more runs than such ends: for each tensor one, and one for each
expert that is not resident (`RunsBound`). With experts resident every block has a run of
residents (`RunPerBlock`), which gives the bound in the census's own terms. `RunBase` adds to the
invariant that a tensor's slices follow each other, that no trunk tensor lies between them, and that
each block has K residents.

`FileAccounted`: no run but the fault injection of `MCExpertBytes` looks at more than one table, so this
is the theorem that says something of files in general. It is proved under `Written`, what a writer of
the format guarantees and none of the readers checks: no name twice, a tensor at the start of the data,
none that starts after their end, an embedding that is not empty. Without it the acceptance is not
enough: a second expert tensor of the same name hides the first, whose bytes then have no row, and a gap
before the first tensor is nobody's. (TLC's faulty files go beyond `Written`, but stay near the published
table.) Spans then tile the data (`TensorBytes`, `ByteHasTensor`), and a sum of spans is the number of
bytes of those tensors (`UnionSize`, `SpansSize`), so sums over disjoint sets of tensors add up
(`SpansAdd`). From the last assertion of `trunk_manifest.py` it follows that a trunk tensor without a row
is empty (`RestIsEmpty`), for its bytes are what the rows leave of the trunk's total. Every other tensor
is cut into equal units that fill it (`UnitsFill`: shares, blocks of embedding rows, head tiles or one
piece), the rows are those units (`RowsAreUnits`), and a byte's unit is its quotient (`UnitOfByte`).

**Only model-checked.** Liveness (`NoEndlessWait`, `LockComesBack`, `FailureIsReported`,
`HandsOver`, `BuildEnds`): beyond the prover. `DamageShows` and `SchedulesCompared`: each of these
programs sorts or folds a whole file, damaged ones included, and what they compute from every file
takes an induction over it for each of some twenty operators. `GatesAgree` ranks tokens by their
misses, which takes a theory of sorting; what it excepts, two readings of a percentile, is proved to
be one entry at most at every length (`RanksAdjacent`). `AcceptedIsComplete` is a statement about
the tables within two edits of the table of record, not about all: a KIND or a LEG that is folded
onto a second line is accepted too, and the rules that go by them do not see it. `EachFaultItsRule`
is about one table by its nature.

## 5. Assumptions

* Two launchers are never started at once, and nobody launches again after `DONE`;
  nothing in the scripts prevents either.
* A file whose writer completed survives a reboot. The trainer does not `fsync`; what
  a power failure does to completed writes is not modelled.
* The two digest lines of a checkpoint are banked together.
* `HeatIsBounded` is proved under `Spaced`: two checkpoints before the last are more than
  `HotLimit` samples apart; the recipe has 1000 steps between checkpoints and 25 between samples.
* `FileAccounted` is proved under `Written`, `ChunksRead` and `LeasesRederived` for prompts of 1 to T
  tokens (`PromptAssumption`; a run without a prompt has no prefill entry to take off), two layers at least
  (`RunAssumption`: with one, `accept_route.py` takes a whole run for one piece) and layers that hold
  as many experts each (`EvenSets`, as every resident-set file of the repository has it).
* `PeakWithinBar` is proved under `Written` and `Aligned`; a GGUF file whose tensors lie elsewhere would have
  boundaries that the census does not look at.
* A kill by pattern reaches the leg's own processes and no others; the digest of the 120b model takes longer than
  the 2 s between the kills (`Gap < Hash`), and a look of the handoff with that gap is shorter than a yield.
* `chain-resume.sh` is started when the 120b leg exists; started earlier it would not
  wait.
* The verifiers are run while no build is under way, and the installed libzstd does
  not change during a build.
* A wrapper's `sleep` is exact, and its shell steps are short compared to a tick.

## 6. Findings

1. `decode_claim`: `decode_replay.py` says that its two readings coincide for every
   `U <= H`; they do not when U does not divide H, and `main` computes only one of
   them on the strength of the claim. `ReadingsDifferByChurn` bounds the difference.
2. `run_lock_leak`: under `set -e`, a failing engine ends `gate1-120b.sh` between
   `mkdir` and `rmdir`; the lock stays.
3. `handoff_lock`: the handoff's test for "my own stale lock" looks once, at the end of
   its minute. A sibling that took the lock just before, and has not started its
   engine, loses it.
4. `segments_claim`: markers of a stop are never removed. An arm that was preempted,
   resumed and completed is reported as preempted again: no ARM-DONE, and the dense
   arm is not started.

### Met on the way

Smaller disagreements between code and text, or corners of the code, that no run is spent on:

* `locked-run.sh:12` promises a courtesy yield "after each release"; the release after a failed
  RAM bar (line 52) does not yield, and the driver asks again at once.
* `commit_census.py` prints a "worst case" of simultaneous committed islands that counts the leases
  of one layer; the edge pages of every layer's released leases stay committed, and each is an
  island. `OnlyEdgesStay` has the bound that holds. Its own banked peaks are above the printed one
  (`alloc_vma_peak=8850` in `ob5a/ANALYZE-ALLOC-1.txt`).
* The bar P2a counts boundaries between experts, not the two ends of an expert tensor; with no
  expert resident it is exceeded by those. `PeakWithinBar` adds them, and a page for each end of the data.
* An engine that has written its statistics and does not exit keeps `handoff-to-120b.sh:31` looking for ever:
  the matrix is not stopped and the 120b leg not started. `HandsOver` is about engines that exit.
* `gguf_expert_manifest.py:22-25` says that the total is compared with the prior reading of
  PER_EXPERT; the code prints both and compares nothing. It also accepts slices whose lengths
  differ between layers as long as the layers' totals agree, which the census then refuses.
* The tied-embedding answer of the trunk census can only be "no": a tied table has an empty
  span, and is refused before.
* `claims_check.py` takes any number of blank lines between blocks, though the rules ask for one,
  and ends with a traceback on a divisor of zero.
* `gate2_decode_acct.py` times the last `n_gen` entries of `chunk_ns`; there is one entry per call
  but the last, so the first of them is a call of the prefill (`ChunksRead`). `accept_chunk.py` adds
  at most two pieces, right for the prompts it was written for. `accept_arith.py:114` takes the first
  entry for the first decode call's own time, and subtracts it from the decode seconds; it is always a
  piece of the prefill, as `accept_chunk.py` itself found.
* Gate 0 prints its percentiles with numpy's nearest rank of `p (n - 1)`; `accept_gate0_cells.py`
  reads entry `p n`, rounded down. Where the second is the next entry the two cells may differ. For the median that
  is every even length that is no multiple of 4, for the 95th percentile 12 to 20, 31 to 40, and so on. `GatesAgree`
  allows exactly these. At the run's 6 tokens the median differs in some logs and the 95th percentile is the
  same entry; at the 65536 tokens of the banked log it is the other way round.
* `accept_route.py` recovers pieces from the return of the layer column to 0 from another layer: with
  one layer everything is one piece. `gate1_route_check.py` ignores rows of layers that it does not
  know and divides by zero for an empty phase; `gate2_decode_acct.py` checks neither order nor
  completeness. A predictor leaves a last partial chunk out.
* A row whose id was changed for another valid one passes every loader; only a comparison with a digest
  or a histogram made earlier notices (`DamageShows`).

## 7. Not modelled, and plan

Not modelled:

* The inference engine itself (a fork outside the repository): `EngineWalk`, `RouteRun` and
  `PageCommit` say what the repository's programs take it to do.
* Numeric kernels and statistics of `lowint/`: array arithmetic without control.
* The analyzers that print tables of finished files, and the acceptance of timings, rates and
  digests: there is no second derivation in the repository to hold them against.
* `extract.py` and `sweep.py` of `ob4`: single passes over files. `sim_p3_warmup` of `sim_residency.py`: two static
  segments, with no second program to agree with.
* Jaccard overlap and transfer between windows (M4, M6) of `rs053-metrics.py`; the key-value
  section of a GGUF header; the SHA-256 values of manifests (what they are made of is modelled).

Next, in this order:

1. The remaining lock wrappers (`ob4b/runbatch-ob4b.sh`, `ob5a/run-120b-night.sh`,
   `ob5b1/gate2-sweep.sh`, `gate3-*.sh`) as parameters of RunLock: which pairs of legs
   are mutually courteous.
2. Proofs: the parts of `GatesAgree` that do not rank tokens, from `LogLoads` and given that a sort
   returns a permutation.
