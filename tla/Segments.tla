------------------------------ MODULE Segments ------------------------------
(***************************************************************************)
(* The funded training run of lowint/moe0/train as a chain of segments.    *)
(*                                                                         *)
(* A segment is one start of the launcher run_stage2.sh.  It trains the    *)
(* moe arm and then the dense arm, each in a trainer process (bobmoe0.py)  *)
(* that resumes from a checkpoint and saves further ones.  Trainer,        *)
(* launcher or box may die at any point; an operator then starts the next  *)
(* segment from a checkpoint of his choice.                                *)
(*                                                                         *)
(* The state of a training run is the sequence of the steps applied to it: *)
(* two runs with equal sequences have equal bytes (the code asks torch for *)
(* deterministic algorithms), and Straight(s) is what the uninterrupted    *)
(* run holds after step s.                                                 *)
(***************************************************************************)
EXTENDS Integers, Sequences, FiniteSets

CONSTANTS
    Anchor,         \* step of the G1-CARD checkpoint an arm starts from
    Total,          \* the frozen number of steps
    CkptSteps,      \* the cadence
    ProgressEvery,  \* steps between two progress lines
    HotLimit,       \* hot samples in a row that stop the run
    N, B,           \* windows of the corpus, windows of a step
    MaxSegments     \* segments the operator starts (bound of the model)

ASSUME SegmentsAssumption ==
    /\ Anchor \in Nat /\ Total \in Nat /\ Anchor < Total
    /\ CkptSteps \subseteq (Anchor + 1) .. Total /\ Total \in CkptSteps
    /\ ProgressEvery \in Nat \ {0} /\ HotLimit \in Nat \ {0}
    /\ N \in Nat \ {0} /\ B \in 1 .. N
    /\ MaxSegments \in Nat

Arms     == {"moe", "dense"}
Tags     == {"cadence", "tempstop"}
Names    == (Anchor .. Total) \X Tags      \* stepNNNNNN[.tempstop].safetensors
Final    == <<Total, "cadence">>
Resumable == {"PREEMPTED", "TEMPSTOP"}

Straight(s) == [i \in 1 .. s |-> i]

\* A file is absent, torn (its writer died while writing it) or whole.
Absent  == [is |-> "absent", holds |-> <<>>]
Torn    == [is |-> "torn", holds |-> <<>>]
Whole(state) == [is |-> "whole", holds |-> state]

VARIABLES
    weights,           \* per arm: stepNNNNNN.safetensors, holding the weights
    sidecar,           \* per arm: stepNNNNNN.resume.pt, holding <<opt, step>>
    banked,            \* per arm: CKPT-DIGESTS.txt, <<name, weights, sidecar>>
    markers,           \* per arm: the marker files of its directory
    root,              \* the marker files of the run's root directory
    preempt,           \* does the PREEMPT file exist
    seg,               \* segments started
    launcher, arm,     \* where the launcher is, and the arm it is at
    failed,            \* the segments whose output has an ARM FAILED line
    trainer,           \* where the trainer is
    reason,            \* its stop_reason
    step, model, opt,  \* the last step done; the weights; the optimizer state
    hot,               \* hot samples in a row
    name,              \* the checkpoint resumed from, then the one being saved
    since,             \* history: steps done since PREEMPT exists
    heat               \* history: progress points in a row with a hot card

\* Where a trainer process can be, and where its state in memory counts.
Alive   == {"start", "train", "weights", "sidecar", "bank", "saved", "leaving"}
Running == Alive \ {"start"}

disk == <<weights, sidecar, banked, markers>>
memory == <<step, model, opt, hot, name, reason>>
run == <<root, preempt, seg, launcher, arm, failed>>
history == <<since, heat>>
vars == <<weights, sidecar, banked, markers, root, preempt, seg, launcher, arm,
          failed, trainer, reason, step, model, opt, hot, name, since, heat>>

Init ==
    /\ weights = [a \in Arms |-> [n \in Names |->
                    IF n = <<Anchor, "cadence">> THEN Whole(Straight(Anchor)) ELSE Absent]]
    /\ sidecar = [a \in Arms |-> [n \in Names |->
                    IF n = <<Anchor, "cadence">> THEN Whole(<<Straight(Anchor), Anchor>>) ELSE Absent]]
    /\ banked = [a \in Arms |-> {}] /\ markers = [a \in Arms |-> {}]
    /\ root = {} /\ preempt = FALSE
    /\ seg = 0 /\ launcher = "off" /\ arm = "moe" /\ failed = {}
    /\ trainer = "off" /\ reason = "COMPLETE"
    /\ step = 0 /\ model = <<>> /\ opt = <<>> /\ hot = 0 /\ name = Final
    /\ since = 0 /\ heat = 0

----------------------------------------------------------------------------
(* The trainer.                                                            *)

\* Slip: the slice perm[(s-1)*B : s*B], which ends with the permutation.
DrawSlice(s) == {i \in (s - 1) * B .. s * B - 1 : i < N}

\* The windows step s draws: the permutation cycles.
Draw(s) == {i % N : i \in (s - 1) * B .. s * B - 1}

\* Slips: the last saved step done again; the optimizer started afresh.
ResumeAtSaved ==
    /\ trainer = "start"
    /\ weights[arm][name].is = "whole" /\ sidecar[arm][name].is = "whole"
    /\ model' = weights[arm][name].holds
    /\ opt' = sidecar[arm][name].holds[1] /\ step' = sidecar[arm][name].holds[2] - 1
    /\ trainer' = "train" /\ hot' = 0 /\ heat' = 0 /\ reason' = "COMPLETE"
    /\ UNCHANGED <<disk, run, name, since>>
ResumeWithoutOpt ==
    /\ trainer = "start"
    /\ weights[arm][name].is = "whole" /\ sidecar[arm][name].is = "whole"
    /\ model' = weights[arm][name].holds
    /\ opt' = <<>> /\ step' = sidecar[arm][name].holds[2]
    /\ trainer' = "train" /\ hot' = 0 /\ heat' = 0 /\ reason' = "COMPLETE"
    /\ UNCHANGED <<disk, run, name, since>>

\* Load the weights and the sidecar.
Resume ==
    /\ trainer = "start"
    /\ weights[arm][name].is = "whole" /\ sidecar[arm][name].is = "whole"
    /\ model' = weights[arm][name].holds
    /\ opt' = sidecar[arm][name].holds[1] /\ step' = sidecar[arm][name].holds[2]
    /\ trainer' = "train" /\ hot' = 0 /\ heat' = 0 /\ reason' = "COMPLETE"
    /\ UNCHANGED <<disk, run, name, since>>

\* A sample of the card at a progress point.
Temperatures == {"hot", "cool", "unreadable"}
Warmed(count, temp) == IF temp = "hot" THEN count + 1 ELSE 0
AtProgress(s) == s % ProgressEvery = 0

\* Slip: one hot sample more than the rule allows.
TooHotLate(count) == count > HotLimit
TooHot(count) == count >= HotLimit

\* One optimizer step, and what the loop does after it.  A checkpoint step is
\* not sampled, whatever the card's temperature.
TrainStep ==
    /\ trainer = "train" /\ step < Total
    /\ step' = step + 1
    /\ model' = Append(model, step') /\ opt' = Append(opt, step')
    /\ since' = IF preempt THEN since + 1 ELSE 0
    /\ \E temp \in Temperatures :
        /\ heat' = IF AtProgress(step') THEN Warmed(heat, temp) ELSE heat
        /\ hot' = IF AtProgress(step') /\ step' \notin CkptSteps THEN Warmed(hot, temp) ELSE hot
    /\ IF step' \in CkptSteps
       THEN trainer' = "weights" /\ name' = <<step', "cadence">>
       ELSE IF TooHot(hot')
       THEN trainer' = "weights" /\ name' = <<step', "tempstop">>
       ELSE trainer' = "train" /\ name' = name
    /\ UNCHANGED <<disk, run, reason>>

SaveWeights ==
    /\ trainer = "weights"
    /\ weights' = [weights EXCEPT ![arm][name] = Whole(model)]
    /\ trainer' = "sidecar"
    /\ UNCHANGED <<sidecar, banked, markers, run, memory, history>>

SaveSidecar ==
    /\ trainer = "sidecar"
    /\ sidecar' = [sidecar EXCEPT ![arm][name] = Whole(<<opt, step>>)]
    /\ trainer' = "bank"
    /\ UNCHANGED <<weights, banked, markers, run, memory, history>>

BankDigests ==
    /\ trainer = "bank"
    /\ banked' = [banked EXCEPT ![arm] =
                    @ \cup {<<name, weights[arm][name], sidecar[arm][name]>>}]
    /\ trainer' = "saved"
    /\ UNCHANGED <<weights, sidecar, markers, run, memory, history>>

\* Slip: the PREEMPT file is not looked for.
KeepGoing ==
    /\ trainer = "saved"
    /\ trainer' = "train" /\ UNCHANGED <<markers, reason>>
    /\ UNCHANGED <<weights, sidecar, banked, run, step, model, opt, hot, name, history>>

\* After a checkpoint: stop for the temperature, stop for PREEMPT, or go on.
AfterSave ==
    /\ trainer = "saved"
    /\ \/ /\ name[2] = "tempstop"
          /\ reason' = "TEMPSTOP"
       \/ /\ name[2] = "cadence" /\ preempt
          /\ reason' = "PREEMPTED"
       \/ /\ name[2] = "cadence" /\ ~preempt
          /\ reason' = reason
    /\ IF reason' = "COMPLETE"
       THEN trainer' = "train" /\ UNCHANGED markers
       ELSE trainer' = "leaving" /\ markers' = [markers EXCEPT ![arm] = @ \cup {reason'}]
    /\ UNCHANGED <<weights, sidecar, banked, run, step, model, opt, hot, name, history>>

\* The loop is over: the process exits with code 0.
Leave ==
    /\ trainer = "leaving" \/ (trainer = "train" /\ step >= Total)
    /\ trainer' = "exited"
    /\ UNCHANGED <<disk, run, memory, history>>

\* What is on disk when the process dies: the file it was writing is torn.
TornFiles ==
    /\ weights' = IF trainer = "weights"
                  THEN [weights EXCEPT ![arm][name] = Torn] ELSE weights
    /\ sidecar' = IF trainer = "sidecar"
                  THEN [sidecar EXCEPT ![arm][name] = Torn] ELSE sidecar

\* The trainer dies between two of its steps, or raises on a torn file.
Die ==
    /\ trainer \in Alive
    /\ trainer' = "dead"
    /\ TornFiles \/ UNCHANGED <<weights, sidecar>>
    /\ UNCHANGED <<banked, markers, run, memory, history>>

Trainer == \/ Resume \/ TrainStep \/ SaveWeights \/ SaveSidecar \/ BankDigests
           \/ AfterSave \/ Leave

----------------------------------------------------------------------------
(* The launcher.                                                           *)

\* It starts an arm from checkpoint n, or refuses: rc 4.
StartArm(a, n) ==
    /\ arm' = a
    /\ IF weights[a][n].is # "absent" /\ sidecar[a][n].is # "absent"
       THEN launcher' = "gates" /\ name' = n
       ELSE launcher' = "off" /\ name' = name

\* The operator starts a segment.  PREEMPT present: nothing is started.
Launch ==
    /\ launcher = "off" /\ seg < MaxSegments /\ "DONE" \notin root
    /\ seg' = seg + 1
    /\ \/ preempt /\ UNCHANGED <<launcher, arm, name>>
       \/ ~preempt /\ \E n \in Names : StartArm("moe", n)
    /\ UNCHANGED <<disk, root, preempt, failed, trainer, reason, step, model, opt, hot, history>>

\* Gates L1 to L3 are passed, after any wait: the trainer process starts.
PassGates ==
    /\ launcher = "gates"
    /\ launcher' = "wait" /\ trainer' = "start"
    /\ UNCHANGED <<disk, root, preempt, seg, arm, failed, memory, history>>

\* Slip: the exit code is not looked at.
ArmDoneAnyway ==
    /\ launcher = "wait" /\ trainer \in {"exited", "dead"}
    /\ markers[arm] \cap Resumable = {} /\ weights[arm][Final].is # "absent"
    /\ markers' = [markers EXCEPT ![arm] = @ \cup {"ARM-DONE"}]
    /\ launcher' = "done" /\ trainer' = "off"
    /\ UNCHANGED <<weights, sidecar, banked, root, preempt, seg, arm, failed, memory, history>>

\* The trainer has exited: rc 1, 2 and 3, and rc 0.
ArmFailed ==
    /\ launcher = "wait" /\ trainer = "dead"
    /\ failed' = failed \cup {seg}
    /\ launcher' = "off" /\ trainer' = "off"
    /\ UNCHANGED <<disk, root, preempt, seg, arm, memory, history>>
ArmStopped ==
    /\ launcher = "wait" /\ trainer = "exited"
    /\ markers[arm] \cap Resumable # {} \/ weights[arm][Final].is = "absent"
    /\ launcher' = "off" /\ trainer' = "off"
    /\ UNCHANGED <<disk, root, preempt, seg, arm, failed, memory, history>>
ArmDone ==
    /\ launcher = "wait" /\ trainer = "exited"
    /\ markers[arm] \cap Resumable = {} /\ weights[arm][Final].is # "absent"
    /\ markers' = [markers EXCEPT ![arm] = @ \cup {"ARM-DONE"}]
    /\ launcher' = "done" /\ trainer' = "off"
    /\ UNCHANGED <<weights, sidecar, banked, root, preempt, seg, arm, failed, memory, history>>

\* The arm is done: on to dense unless preempted; after dense, DONE.
NextArm ==
    /\ launcher = "done"
    /\ \/ /\ arm = "moe" /\ preempt
          /\ root' = root \cup {"PREEMPTED-BETWEEN-ARMS"} /\ launcher' = "off"
          /\ UNCHANGED <<arm, name>>
       \/ /\ arm = "moe" /\ ~preempt
          /\ \E n \in Names : StartArm("dense", n)
          /\ UNCHANGED root
       \/ /\ arm = "dense"
          /\ root' = root \cup {"DONE"} /\ launcher' = "off"
          /\ UNCHANGED <<arm, name>>
    /\ UNCHANGED <<disk, preempt, seg, failed, trainer, reason, step, model, opt, hot, history>>

Launcher == PassGates \/ ArmFailed \/ ArmStopped \/ ArmDone \/ NextArm

----------------------------------------------------------------------------
(* The surroundings.                                                       *)

\* The box goes down: launcher and trainer with it.
Reboot ==
    /\ launcher # "off"
    /\ launcher' = "off" /\ trainer' = "off"
    /\ TornFiles \/ UNCHANGED <<weights, sidecar>>
    /\ UNCHANGED <<banked, markers, root, preempt, seg, arm, failed, memory, history>>

\* The PREEMPT file comes and goes.
Demo ==
    /\ preempt' = ~preempt /\ since' = 0
    /\ UNCHANGED <<disk, root, seg, launcher, arm, failed, trainer, memory, heat>>

\* Between two segments the operator may clear an arm's markers by hand.
Tidy(a) ==
    /\ launcher = "off" /\ markers[a] \cap Resumable # {}
    /\ markers' = [markers EXCEPT ![a] = @ \ Resumable]
    /\ UNCHANGED <<weights, sidecar, banked, root, preempt, seg, launcher, arm,
                   failed, trainer, memory, history>>

Next == Trainer \/ Die \/ Launch \/ Launcher \/ Reboot \/ Demo \/ \E a \in Arms : Tidy(a)

Spec == Init /\ [][Next]_vars

----------------------------------------------------------------------------
(* Properties.                                                             *)

TypeOK ==
    /\ \A a \in Arms, n \in Names :
        /\ weights[a][n].is \in {"absent", "torn", "whole"}
        /\ sidecar[a][n].is \in {"absent", "torn", "whole"}
    /\ markers \in [Arms -> SUBSET (Resumable \cup {"ARM-DONE"})]
    /\ root \subseteq {"DONE", "PREEMPTED-BETWEEN-ARMS"}
    /\ preempt \in BOOLEAN /\ seg \in 0 .. MaxSegments /\ failed \subseteq 1 .. MaxSegments
    /\ launcher \in {"off", "gates", "wait", "done"} /\ arm \in Arms
    /\ trainer \in Alive \cup {"off", "exited", "dead"}
    /\ reason \in Resumable \cup {"COMPLETE"}
    /\ step \in 0 .. Total /\ hot \in 0 .. HotLimit /\ name \in Names

\* "Final bytes are a pure function of (code, data pin, seeds), independent of
\* the preemption pattern": whatever was interrupted and resumed, the state in
\* memory and every whole file are those of the uninterrupted run.
ResumeExact ==
    /\ trainer \in Running => model = Straight(step) /\ opt = Straight(step)
    /\ \A a \in Arms, n \in Names :
        /\ weights[a][n].is = "whole" => weights[a][n].holds = Straight(n[1])
        /\ sidecar[a][n].is = "whole" => sidecar[a][n].holds = <<Straight(n[1]), n[1]>>

\* A checkpoint that a later segment saves again banks the digests it banked
\* the first time.
BankedDigestsAgree ==
    \A a \in Arms : \A x, y \in banked[a] : x[1] = y[1] => x = y

\* "Every step draws exactly B windows": wherever the epoch ended and the run was
\* interrupted, every window was drawn its share of the step * B draws, rounded
\* down or up.
Drawn(w) == Cardinality({i \in DOMAIN model : w \in Draw(model[i])})
EqualBudget ==
    trainer \in Running =>
        \A w \in 0 .. N - 1 : Drawn(w) \in {(step * B) \div N, (step * B + N - 1) \div N}

\* The collector's trigger: when DONE exists both final checkpoints are whole
\* and those of the uninterrupted run.
CollectorSeesFinals ==
    "DONE" \in root =>
        \A a \in Arms : /\ weights[a][Final] = Whole(Straight(Total))
                        /\ sidecar[a][Final] = Whole(<<Straight(Total), Total>>)

\* "Scheduled demos preempt": while the PREEMPT file exists no more steps are
\* done than lead to the next checkpoint, over all arms and segments: never more
\* than a number that leads from every step to a checkpoint.
Spacings == {g \in 1 .. Total :
                \A s \in Anchor .. Total - 1 : \E c \in CkptSteps : c \in s + 1 .. s + g}
DemosPreempt == \A g \in Spacings : since <= g

\* A card that stays hot stops the run at the HotLimit-th progress point, or
\* the one after if a checkpoint step, which takes no sample, lies between (two
\* checkpoints are more than HotLimit progress points apart).
HeatIsBounded == heat <= HotLimit + 1

\* The launcher's own words: "ARM-DONE this launcher, when the arm reached
\* step 15259".
CompletedArmIsDone ==
    [][ArmStopped /\ step = Total => reason # "COMPLETE"]_vars

=============================================================================
