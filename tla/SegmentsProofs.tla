--------------------------- MODULE SegmentsProofs ---------------------------
(***************************************************************************)
(* What holds of every chain of segments, whatever the cadence, the number *)
(* of steps and of segments, and wherever trainer and box die: the bytes   *)
(* are those of the straight run, the digests of a checkpoint never        *)
(* change, DONE means that both arms have their final checkpoint, a demo   *)
(* or a hot card stops the trainer in time, and every window is drawn as   *)
(* often as the others.                                                    *)
(***************************************************************************)
EXTENDS Segments, FiniteSetTheorems, WellFoundedInduction, TLAPS

\* The whole file a checkpoint named n has to be, in both its parts.
WeightsOf(n) == Whole(Straight(n[1]))
SidecarOf(n) == Whole(<<Straight(n[1]), n[1]>>)
Entry(n)     == <<n, WeightsOf(n), SidecarOf(n)>>
AllFiles     == {Absent, Torn} \cup {WeightsOf(n) : n \in Names} \cup {SidecarOf(n) : n \in Names}

Saving == {"weights", "sidecar", "bank", "saved"}

\* Whatever is on disk is absent, torn or right; an off-cadence checkpoint never
\* has the name of a cadence step; a banked digest is that of the right files.
DiskOK ==
    /\ weights \in [Arms -> [Names -> AllFiles]]
    /\ sidecar \in [Arms -> [Names -> AllFiles]]
    /\ \A a \in Arms, n \in Names :
        /\ weights[a][n] \in {Absent, Torn, WeightsOf(n)}
        /\ sidecar[a][n] \in {Absent, Torn, SidecarOf(n)}
        /\ n[1] \in CkptSteps /\ n[2] = "tempstop" => weights[a][n] = Absent
    /\ banked \in [Arms -> SUBSET {Entry(n) : n \in Names}]

\* The scalar variables.
ScalarsOK ==
    /\ markers \in [Arms -> SUBSET (Resumable \cup {"ARM-DONE"})]
    /\ root \subseteq {"DONE", "PREEMPTED-BETWEEN-ARMS"}
    /\ preempt \in BOOLEAN /\ seg \in 0 .. MaxSegments /\ failed \subseteq 1 .. MaxSegments
    /\ launcher \in {"off", "gates", "wait", "done"} /\ arm \in Arms
    /\ launcher # "off" => seg >= 1
    /\ trainer \in Alive \cup {"off", "exited", "dead"}
    /\ trainer # "off" <=> launcher = "wait"
    /\ reason \in Resumable \cup {"COMPLETE"}
    /\ step \in 0 .. Total /\ hot \in 0 .. HotLimit /\ name \in Names

FinalOn(a) == weights[a][Final] = WeightsOf(Final) /\ sidecar[a][Final] = SidecarOf(Final)

\* The trainer's memory, and how far the checkpoint it is saving has got.
TrainerOK ==
    /\ trainer \in Running => /\ step >= Anchor
                             /\ model = Straight(step) /\ opt = Straight(step)
    /\ trainer \in Saving =>
        /\ name[1] = step
        /\ name[2] = "cadence" <=> step \in CkptSteps
    /\ trainer \in {"sidecar", "bank", "saved"} => weights[arm][name] = WeightsOf(name)
    /\ trainer \in {"bank", "saved"} => sidecar[arm][name] = SidecarOf(name)
    /\ trainer \in {"train"} \cup Saving => reason = "COMPLETE"
    /\ trainer = "train" \/ (trainer \in Saving /\ name[2] = "cadence") => hot < HotLimit
    /\ trainer = "train" /\ step = Total => FinalOn(arm)
    /\ trainer = "leaving" => reason \in markers[arm] \cap Resumable
    /\ trainer = "exited" => \/ reason \in markers[arm] \cap Resumable
                             \/ step = Total /\ FinalOn(arm)

\* What the launcher may rely on from arm to arm.
ChainOK ==
    /\ launcher = "done" => FinalOn(arm)
    /\ launcher # "off" /\ arm = "dense" => FinalOn("moe")
    /\ "DONE" \in root => launcher = "off" /\ \A a \in Arms : FinalOn(a)

IInv == DiskOK /\ ScalarsOK /\ TrainerOK /\ ChainOK

----------------------------------------------------------------------------
\* What the three kinds of files are, told apart by their first field.
LEMMA FileFacts ==
    /\ Absent.is = "absent" /\ Torn.is = "torn" /\ Absent # Torn
    /\ \A x : /\ Whole(x).is = "whole" /\ Whole(x).holds = x
              /\ Whole(x) # Absent /\ Whole(x) # Torn
BY DEF Absent, Torn, Whole

\* One more step of the straight run.
LEMMA StraightStep ==
    ASSUME NEW s \in Nat PROVE Append(Straight(s), s + 1) = Straight(s + 1)
BY DEF Straight

(* The names of checkpoints and of steps.                                  *)
LEMMA NameFacts ==
    /\ Final \in Names /\ Final[1] = Total /\ Final[2] = "cadence"
    /\ \A n \in Names : /\ n[1] \in Anchor .. Total /\ n[1] \in Nat /\ n[2] \in Tags
                        /\ n = <<n[1], n[2]>>
    /\ \A s \in Anchor .. Total : \A tag \in Tags :
        <<s, tag>> \in Names /\ <<s, tag>>[1] = s /\ <<s, tag>>[2] = tag
<1>. USE SegmentsAssumption
<1>1. \A s \in Anchor .. Total : \A tag \in Tags :
        <<s, tag>> \in Names /\ <<s, tag>>[1] = s /\ <<s, tag>>[2] = tag
  BY DEF Names
<1>2. Total \in Anchor .. Total /\ "cadence" \in Tags
  BY DEF Tags
<1>4. Final \in Names /\ Final[1] = Total /\ Final[2] = "cadence"
  BY <1>1, <1>2 DEF Final
<1>3. ASSUME NEW n \in Names
      PROVE  n[1] \in Anchor .. Total /\ n[1] \in Nat /\ n[2] \in Tags /\ n = <<n[1], n[2]>>
  BY DEF Names
<1>. QED  BY <1>1, <1>3, <1>4

\* The anchor checkpoint of an arm has its name and its content.
LEMMA AnchorFacts ==
    LET n == <<Anchor, "cadence">>
    IN  /\ n \in Names /\ n[1] = Anchor /\ n[2] = "cadence"
        /\ WeightsOf(n) = Whole(Straight(Anchor))
        /\ SidecarOf(n) = Whole(<<Straight(Anchor), Anchor>>)
<1>1. Anchor \in Anchor .. Total /\ "cadence" \in Tags
  BY SegmentsAssumption DEF Tags
<1>. QED  BY <1>1, NameFacts DEF WeightsOf, SidecarOf

(* The directory before the first segment satisfies the invariant.         *)
LEMMA InitOK == Init => IInv
<1>. SUFFICES ASSUME Init PROVE IInv
  OBVIOUS
<1>2. DiskOK
  <2>. DEFINE n0 == <<Anchor, "cadence">>
  <2>1. \A a \in Arms, n \in Names :
          /\ weights[a][n] = IF n = n0 THEN WeightsOf(n0) ELSE Absent
          /\ sidecar[a][n] = IF n = n0 THEN SidecarOf(n0) ELSE Absent
    BY AnchorFacts DEF Init
  <2>2. n0 \in Names /\ n0[2] = "cadence"
    BY AnchorFacts
  <2>3. weights \in [Arms -> [Names -> AllFiles]] /\ sidecar \in [Arms -> [Names -> AllFiles]]
    <3>. HIDE DEF n0
    <3>1. {WeightsOf(n0), SidecarOf(n0), Absent} \subseteq AllFiles
      BY <2>2 DEF AllFiles
    <3>2. weights = [a \in Arms |-> [n \in Names |-> IF n = n0 THEN WeightsOf(n0) ELSE Absent]]
      BY AnchorFacts DEF Init, n0
    <3>3. sidecar = [a \in Arms |-> [n \in Names |-> IF n = n0 THEN SidecarOf(n0) ELSE Absent]]
      BY AnchorFacts DEF Init, n0
    <3>. QED  BY <3>1, <3>2, <3>3
  <2>4. \A a \in Arms, n \in Names :
          /\ weights[a][n] \in {Absent, Torn, WeightsOf(n)}
          /\ sidecar[a][n] \in {Absent, Torn, SidecarOf(n)}
          /\ n[1] \in CkptSteps /\ n[2] = "tempstop" => weights[a][n] = Absent
    <3>. HIDE DEF n0
    <3>. QED  BY <2>1, <2>2
  <2>5. banked \in [Arms -> SUBSET {Entry(n) : n \in Names}]
    BY DEF Init
  <2>. QED  BY <2>3, <2>4, <2>5 DEF DiskOK
<1>3. ScalarsOK
  <2>1. step \in 0 .. Total /\ hot \in 0 .. HotLimit /\ seg \in 0 .. MaxSegments
    BY SegmentsAssumption DEF Init
  <2>2. name \in Names
    BY NameFacts DEF Init
  <2>3. markers \in [Arms -> SUBSET (Resumable \cup {"ARM-DONE"})]
    BY DEF Init
  <2>. QED  BY <2>1, <2>2, <2>3 DEF Init, ScalarsOK, Arms, Alive
<1>4. TrainerOK /\ ChainOK
  BY DEF Init, TrainerOK, ChainOK, Running, Saving, Alive
<1>. QED  BY <1>2, <1>3, <1>4 DEF IInv

----------------------------------------------------------------------------
(* The steps of the trainer.                                               *)

\* A file that is whole is the right one, and a whole checkpoint of the last
\* step is the final one.
LEMMA WholeFiles ==
    ASSUME DiskOK, NEW a \in Arms, NEW n \in Names
    PROVE  /\ weights[a][n].is = "whole" => weights[a][n] = WeightsOf(n)
           /\ sidecar[a][n].is = "whole" => sidecar[a][n] = SidecarOf(n)
           /\ weights[a][n].is = "whole" /\ n[1] = Total => n = Final
<1>1. weights[a][n].is = "whole" => weights[a][n] = WeightsOf(n)
  BY FileFacts DEF DiskOK
<1>2. sidecar[a][n].is = "whole" => sidecar[a][n] = SidecarOf(n)
  BY FileFacts DEF DiskOK
<1>3. weights[a][n].is = "whole" /\ n[1] = Total => n = Final
  <2>. SUFFICES ASSUME weights[a][n].is = "whole", n[1] = Total PROVE n[2] = "cadence"
    BY NameFacts DEF Final
  <2>1. weights[a][n] # Absent
    BY FileFacts
  <2>2. Total \in CkptSteps
    BY SegmentsAssumption
  <2>. QED  BY <2>1, <2>2, NameFacts DEF DiskOK, Tags
<1>. QED  BY <1>1, <1>2, <1>3

(* The trainer's steps keep it. It resumes from a whole file, which is     *)
(* right.                                                                  *)
LEMMA ResumeStep == IInv /\ Resume => IInv'
<1>. SUFFICES ASSUME IInv, Resume PROVE IInv'
  OBVIOUS
<1>. USE DEF IInv
<1>0. arm \in Arms /\ name \in Names
  BY DEF ScalarsOK
<1>1. weights[arm][name] = WeightsOf(name) /\ sidecar[arm][name] = SidecarOf(name)
  BY <1>0, WholeFiles DEF Resume
<1>2. model' = Straight(name[1]) /\ opt' = Straight(name[1]) /\ step' = name[1]
  <2>1. WeightsOf(name).holds = Straight(name[1])
    BY FileFacts DEF WeightsOf
  <2>2. SidecarOf(name).holds = <<Straight(name[1]), name[1]>>
    BY FileFacts DEF SidecarOf
  <2>. QED  BY <1>1, <2>1, <2>2 DEF Resume
<1>3. name[1] \in 0 .. Total /\ name[1] >= Anchor
  BY <1>0, NameFacts, SegmentsAssumption
<1>4. step' = Total => name = Final
  BY <1>0, <1>2, WholeFiles DEF Resume
<1>5. hot' < HotLimit /\ hot' \in 0 .. HotLimit
  BY SegmentsAssumption DEF Resume
<1>6. DiskOK'
  BY DEF Resume, disk, DiskOK
<1>7. ScalarsOK'
  BY <1>2, <1>3, <1>5 DEF Resume, disk, run, ScalarsOK, Alive
<1>8. TrainerOK'
  BY <1>1, <1>2, <1>3, <1>4, <1>5 DEF Resume, disk, run, TrainerOK, Saving, FinalOn
<1>9. ChainOK'
  BY DEF Resume, disk, run, ChainOK, FinalOn
<1>. QED  BY <1>6, <1>7, <1>8, <1>9

(* One more step is applied to the state of the straight run.              *)
LEMMA TrainStepStep == IInv /\ TrainStep => IInv'
<1>. SUFFICES ASSUME IInv, TrainStep PROVE IInv'
  OBVIOUS
<1>. USE DEF IInv
<1>1. step \in Nat /\ step' = step + 1 /\ step' \in Anchor .. Total /\ step' \in 0 .. Total
  <2>1. step \in 0 .. Total /\ step >= Anchor /\ step < Total /\ step' = step + 1
    BY DEF ScalarsOK, TrainerOK, TrainStep, Running, Alive
  <2>. QED  BY <2>1, SegmentsAssumption
<1>2. model' = Straight(step') /\ opt' = Straight(step')
  <2>1. model = Straight(step) /\ opt = Straight(step)
    BY DEF TrainerOK, TrainStep, Running, Alive
  <2>. QED  BY <1>1, <2>1, StraightStep DEF TrainStep
<1>3. /\ hot' \in 0 .. HotLimit
      /\ step' \in CkptSteps \/ ~TooHot(hot') => hot' < HotLimit
  <2>1. hot \in 0 .. HotLimit /\ hot < HotLimit /\ HotLimit \in Nat
    BY SegmentsAssumption DEF TrainerOK, ScalarsOK, TrainStep
  <2>2. PICK temp \in Temperatures :
          hot' = IF AtProgress(step') /\ step' \notin CkptSteps THEN Warmed(hot, temp) ELSE hot
    BY DEF TrainStep
  <2>3. hot' = hot \/ (step' \notin CkptSteps /\ hot' \in {0, hot + 1})
    BY <2>2 DEF Warmed
  <2>. QED  BY <2>1, <2>3 DEF TooHot
<1>4. /\ trainer' \in {"train", "weights"} /\ name' \in Names
      /\ trainer' = "train" => step' \notin CkptSteps /\ ~TooHot(hot')
      /\ trainer' = "weights" => /\ name'[1] = step'
                                 /\ name'[2] = "cadence" <=> step' \in CkptSteps
  <2>1. /\ <<step', "cadence">> \in Names
        /\ <<step', "cadence">>[1] = step' /\ <<step', "cadence">>[2] = "cadence"
        /\ <<step', "tempstop">> \in Names
        /\ <<step', "tempstop">>[1] = step' /\ <<step', "tempstop">>[2] = "tempstop"
    <3>1. "cadence" \in Tags /\ "tempstop" \in Tags
      BY DEF Tags
    <3>. QED  BY <1>1, <3>1, NameFacts
  <2>2. name \in Names
    BY DEF ScalarsOK
  <2>. HIDE DEF IInv
  <2>3. CASE step' \in CkptSteps
    BY <2>1, <2>3 DEF TrainStep
  <2>4. CASE step' \notin CkptSteps /\ TooHot(hot')
    BY <2>1, <2>4 DEF TrainStep
  <2>5. CASE step' \notin CkptSteps /\ ~TooHot(hot')
    BY <2>2, <2>5 DEF TrainStep
  <2>. QED  BY <2>3, <2>4, <2>5
<1>5. DiskOK'
  BY DEF TrainStep, disk, DiskOK
<1>6. ScalarsOK'
  BY <1>1, <1>3, <1>4 DEF TrainStep, disk, run, ScalarsOK, Alive
<1>7. TrainerOK'
  <2>1. step' = Total => trainer' = "weights"
    BY <1>4, SegmentsAssumption
  <2>2. reason' = "COMPLETE"
    BY DEF TrainStep, TrainerOK
  <2>. QED  BY <1>1, <1>2, <1>3, <1>4, <2>1, <2>2 DEF TrainerOK, Saving
<1>8. ChainOK'
  BY DEF TrainStep, disk, run, ChainOK, FinalOn
<1>. QED  BY <1>5, <1>6, <1>7, <1>8

(* The weights written are the straight run's.                             *)
LEMMA SaveWeightsStep == IInv /\ SaveWeights => IInv'
<1>. SUFFICES ASSUME IInv, SaveWeights PROVE IInv'
  OBVIOUS
<1>. USE DEF IInv
<1>1. arm \in Arms /\ name \in Names /\ name[1] = step /\ model = Straight(step)
  BY DEF ScalarsOK, TrainerOK, SaveWeights, Saving, Running, Alive
<1>2. Whole(model) = WeightsOf(name) /\ WeightsOf(name) \in AllFiles
  BY <1>1 DEF WeightsOf, AllFiles
<1>3. name[2] = "cadence" <=> name[1] \in CkptSteps
  BY <1>1 DEF TrainerOK, SaveWeights, Saving
<1>4. /\ weights' \in [Arms -> [Names -> AllFiles]]
      /\ weights'[arm][name] = WeightsOf(name)
      /\ \A a \in Arms, n \in Names : weights'[a][n] = weights[a][n]
                                      \/ (a = arm /\ n = name /\ weights'[a][n] = WeightsOf(n))
  BY <1>1, <1>2 DEF DiskOK, SaveWeights
<1>5. DiskOK'
  BY <1>3, <1>4 DEF DiskOK, SaveWeights
<1>6. \A a \in Arms : FinalOn(a) => FinalOn(a)'
  BY <1>4, NameFacts DEF FinalOn, SaveWeights
<1>7. ScalarsOK'
  BY DEF ScalarsOK, SaveWeights, run, memory, Alive
<1>8. TrainerOK'
  BY <1>4 DEF TrainerOK, SaveWeights, run, memory, Saving, Running, Alive
<1>9. ChainOK'
  BY <1>1, <1>6 DEF ChainOK, SaveWeights, run, Arms
<1>. QED  BY <1>5, <1>7, <1>8, <1>9

(* So is the sidecar beside them.                                          *)
LEMMA SaveSidecarStep == IInv /\ SaveSidecar => IInv'
<1>. SUFFICES ASSUME IInv, SaveSidecar PROVE IInv'
  OBVIOUS
<1>. USE DEF IInv
<1>1. arm \in Arms /\ name \in Names /\ name[1] = step /\ opt = Straight(step)
  BY DEF ScalarsOK, TrainerOK, SaveSidecar, Saving, Running, Alive
<1>2. Whole(<<opt, step>>) = SidecarOf(name) /\ SidecarOf(name) \in AllFiles
  BY <1>1 DEF SidecarOf, AllFiles
<1>4. /\ sidecar' \in [Arms -> [Names -> AllFiles]]
      /\ sidecar'[arm][name] = SidecarOf(name)
      /\ \A a \in Arms, n \in Names : sidecar'[a][n] = sidecar[a][n]
                                      \/ (a = arm /\ n = name /\ sidecar'[a][n] = SidecarOf(n))
  BY <1>1, <1>2 DEF DiskOK, SaveSidecar
<1>5. DiskOK'
  BY <1>4 DEF DiskOK, SaveSidecar
<1>6. \A a \in Arms : FinalOn(a) => FinalOn(a)'
  BY <1>4, NameFacts DEF FinalOn, SaveSidecar
<1>7. ScalarsOK'
  BY DEF ScalarsOK, SaveSidecar, run, memory, Alive
<1>8. TrainerOK'
  BY <1>4 DEF TrainerOK, SaveSidecar, run, memory, Saving, Running, Alive
<1>9. ChainOK'
  BY <1>1, <1>6 DEF ChainOK, SaveSidecar, run, Arms
<1>. QED  BY <1>5, <1>7, <1>8, <1>9

(* Both files are right when their digests are banked.                     *)
LEMMA BankDigestsStep == IInv /\ BankDigests => IInv'
<1>. SUFFICES ASSUME IInv, BankDigests PROVE IInv'
  OBVIOUS
<1>. USE DEF IInv
<1>1. /\ arm \in Arms /\ name \in Names
      /\ weights[arm][name] = WeightsOf(name) /\ sidecar[arm][name] = SidecarOf(name)
  BY DEF ScalarsOK, TrainerOK, BankDigests
<1>2. <<name, weights[arm][name], sidecar[arm][name]>> \in {Entry(n) : n \in Names}
  BY <1>1 DEF Entry
<1>3. banked' \in [Arms -> SUBSET {Entry(n) : n \in Names}]
  BY <1>1, <1>2 DEF DiskOK, BankDigests
<1>4. DiskOK'
  BY <1>3 DEF DiskOK, BankDigests
<1>5. ScalarsOK'
  BY DEF ScalarsOK, BankDigests, run, memory, Alive
<1>6. TrainerOK'
  BY DEF TrainerOK, BankDigests, run, memory, Saving, Running, Alive
<1>7. ChainOK'
  BY DEF ChainOK, BankDigests, run, FinalOn
<1>. QED  BY <1>4, <1>5, <1>6, <1>7

(* A saved checkpoint ends the run or lets it go on.                       *)
LEMMA AfterSaveStep == IInv /\ AfterSave => IInv'
<1>. SUFFICES ASSUME IInv, AfterSave PROVE IInv'
  OBVIOUS
<1>. USE DEF IInv
<1>1. /\ arm \in Arms /\ name \in Names /\ name[1] = step
      /\ weights[arm][name] = WeightsOf(name) /\ sidecar[arm][name] = SidecarOf(name)
      /\ reason = "COMPLETE"
  BY DEF ScalarsOK, TrainerOK, AfterSave, Saving
<1>2. step = Total => FinalOn(arm)
  <2>. SUFFICES ASSUME step = Total PROVE name = Final
    BY <1>1 DEF FinalOn
  <2>1. name[2] = "cadence"
    BY SegmentsAssumption DEF TrainerOK, AfterSave, Saving
  <2>. QED  BY <1>1, <2>1, NameFacts DEF Final
<1>3. /\ reason' \in Resumable \cup {"COMPLETE"}
      /\ reason' = "COMPLETE" => name[2] = "cadence"
  BY <1>1 DEF AfterSave, Resumable
<1>4. /\ markers' \in [Arms -> SUBSET (Resumable \cup {"ARM-DONE"})]
      /\ reason' # "COMPLETE" => reason' \in markers'[arm] \cap Resumable
  BY <1>1, <1>3 DEF AfterSave, ScalarsOK
<1>5. DiskOK'
  BY DEF DiskOK, AfterSave
<1>6. ScalarsOK'
  BY <1>3, <1>4 DEF ScalarsOK, AfterSave, run, Alive
<1>7. TrainerOK'
  BY <1>2, <1>3, <1>4 DEF TrainerOK, AfterSave, run, Saving, Running, Alive, FinalOn
<1>8. ChainOK'
  BY DEF ChainOK, AfterSave, run, FinalOn
<1>. QED  BY <1>5, <1>6, <1>7, <1>8

(* The trainer's exit tells the launcher what became of the arm.           *)
LEMMA LeaveStep == IInv /\ Leave => IInv'
<1>. SUFFICES ASSUME IInv, Leave PROVE IInv'
  OBVIOUS
<1>. USE DEF IInv
<1>1. trainer = "train" => step = Total
  BY SegmentsAssumption DEF Leave, ScalarsOK
<1>2. DiskOK'
  BY DEF DiskOK, Leave, disk
<1>3. ScalarsOK'
  BY DEF ScalarsOK, Leave, disk, run, memory, Alive
<1>4. TrainerOK'
  BY <1>1 DEF TrainerOK, Leave, disk, run, memory, Saving, Running, Alive, FinalOn
<1>5. ChainOK'
  BY DEF ChainOK, Leave, disk, run, FinalOn
<1>. QED  BY <1>2, <1>3, <1>4, <1>5

----------------------------------------------------------------------------
(* Deaths, the launcher and the surroundings.                              *)

\* A torn file is the one being saved: no final checkpoint that somebody relies
\* on is touched, and a cadence step still has no off-cadence file.
LEMMA TornFilesOK ==
    ASSUME IInv, TornFiles \/ UNCHANGED <<weights, sidecar>>, UNCHANGED banked
    PROVE  /\ DiskOK'
           /\ \A a \in Arms : FinalOn(a) /\ (a # arm \/ trainer \notin Saving) => FinalOn(a)'
           /\ trainer \notin Saving => UNCHANGED <<weights, sidecar>>
<1>. USE DEF IInv
<1>1. arm \in Arms /\ name \in Names
  BY DEF ScalarsOK
<1>2. {Absent, Torn} \subseteq AllFiles
  BY DEF AllFiles
<1>3. trainer = "weights" => ~(name[1] \in CkptSteps /\ name[2] = "tempstop")
  BY DEF TrainerOK, Saving
<1>4. /\ weights' \in [Arms -> [Names -> AllFiles]]
      /\ \A a \in Arms, n \in Names :
            \/ weights'[a][n] = weights[a][n]
            \/ a = arm /\ n = name /\ trainer = "weights" /\ weights'[a][n] = Torn
  <2>1. weights \in [Arms -> [Names -> AllFiles]] /\ Torn \in AllFiles
    BY <1>2 DEF DiskOK
  <2>. HIDE DEF IInv
  <2>2. CASE weights' = weights
    BY <2>1, <2>2
  <2>3. CASE trainer = "weights" /\ weights' = [weights EXCEPT ![arm][name] = Torn]
    BY <1>1, <2>1, <2>3
  <2>. QED  BY <2>2, <2>3 DEF TornFiles
<1>5. /\ sidecar' \in [Arms -> [Names -> AllFiles]]
      /\ \A a \in Arms, n \in Names :
            \/ sidecar'[a][n] = sidecar[a][n]
            \/ a = arm /\ n = name /\ trainer = "sidecar" /\ sidecar'[a][n] = Torn
  <2>1. sidecar \in [Arms -> [Names -> AllFiles]] /\ Torn \in AllFiles
    BY <1>2 DEF DiskOK
  <2>. HIDE DEF IInv
  <2>2. CASE sidecar' = sidecar
    BY <2>1, <2>2
  <2>3. CASE trainer = "sidecar" /\ sidecar' = [sidecar EXCEPT ![arm][name] = Torn]
    BY <1>1, <2>1, <2>3
  <2>. QED  BY <2>2, <2>3 DEF TornFiles
<1>6. DiskOK'
  BY <1>3, <1>4, <1>5 DEF DiskOK
<1>7. \A a \in Arms : FinalOn(a) /\ (a # arm \/ trainer \notin Saving) => FinalOn(a)'
  BY <1>4, <1>5, NameFacts DEF FinalOn, Saving
<1>8. trainer \notin Saving => UNCHANGED <<weights, sidecar>>
  BY DEF TornFiles, Saving
<1>. QED  BY <1>6, <1>7, <1>8

(* A dying trainer may leave the file torn that it was writing.            *)
LEMMA DieStep == IInv /\ Die => IInv'
<1>. SUFFICES ASSUME IInv, Die PROVE IInv'
  OBVIOUS
<1>1. /\ DiskOK'
      /\ \A a \in Arms : FinalOn(a) /\ (a # arm \/ trainer \notin Saving) => FinalOn(a)'
  BY TornFilesOK DEF Die
<1>2. launcher = "wait"
  BY DEF IInv, ScalarsOK, Die, Alive
<1>3. ScalarsOK'
  BY <1>2 DEF IInv, ScalarsOK, Die, run, memory
<1>4. TrainerOK'
  BY DEF TrainerOK, Die, Saving, Running, Alive
<1>5. ChainOK'
  BY <1>1, <1>2 DEF IInv, ChainOK, Die, run, Arms
<1>. QED  BY <1>1, <1>3, <1>4, <1>5 DEF IInv

(* A reboot takes the launcher along.                                      *)
LEMMA RebootStep == IInv /\ Reboot => IInv'
<1>. SUFFICES ASSUME IInv, Reboot PROVE IInv'
  OBVIOUS
<1>1. DiskOK'
  BY TornFilesOK DEF Reboot
<1>2. ScalarsOK'
  BY DEF IInv, ScalarsOK, Reboot, memory
<1>3. TrainerOK'
  BY DEF TrainerOK, Reboot, Saving, Running, Alive
<1>4. ChainOK'
  BY DEF IInv, ChainOK, Reboot
<1>. QED  BY <1>1, <1>2, <1>3, <1>4 DEF IInv

(* The launcher's steps keep it.                                           *)
LEMMA LaunchStep == IInv /\ Launch => IInv'
<1>. SUFFICES ASSUME IInv, Launch PROVE IInv'
  OBVIOUS
<1>. USE DEF IInv
<1>1. /\ launcher = "off" /\ "DONE" \notin root /\ trainer = "off"
      /\ seg' \in 0 .. MaxSegments /\ seg' >= 1
  BY SegmentsAssumption DEF ScalarsOK, Launch
<1>2. /\ launcher' \in {"off", "gates"} /\ arm' \in Arms /\ name' \in Names
      /\ launcher' # "off" => arm' = "moe"
  BY <1>1 DEF ScalarsOK, Launch, StartArm, Arms
<1>3. DiskOK'
  BY DEF DiskOK, Launch, disk
<1>4. ScalarsOK'
  BY <1>1, <1>2 DEF ScalarsOK, Launch, disk
<1>5. TrainerOK'
  BY <1>1 DEF TrainerOK, Launch, Saving, Running, Alive
<1>6. ChainOK'
  BY <1>1, <1>2 DEF ChainOK, Launch
<1>. QED  BY <1>3, <1>4, <1>5, <1>6

(* A segment that passes its gates starts with the first arm.              *)
LEMMA PassGatesStep == IInv /\ PassGates => IInv'
<1>. SUFFICES ASSUME IInv, PassGates PROVE IInv'
  OBVIOUS
<1>. USE DEF IInv
<1>1. DiskOK'
  BY DEF DiskOK, PassGates, disk
<1>2. ScalarsOK'
  BY DEF ScalarsOK, PassGates, disk, memory, Alive
<1>3. TrainerOK'
  BY DEF TrainerOK, PassGates, Saving, Running, Alive
<1>4. ChainOK'
  BY DEF ChainOK, PassGates, disk, FinalOn
<1>. QED  BY <1>1, <1>2, <1>3, <1>4

(* A failed arm ends the segment.                                          *)
LEMMA ArmFailedStep == IInv /\ ArmFailed => IInv'
<1>. SUFFICES ASSUME IInv, ArmFailed PROVE IInv'
  OBVIOUS
<1>. USE DEF IInv
<1>1. seg \in 1 .. MaxSegments
  BY DEF ScalarsOK, ArmFailed
<1>2. DiskOK'
  BY DEF DiskOK, ArmFailed, disk
<1>3. ScalarsOK'
  BY <1>1 DEF ScalarsOK, ArmFailed, disk, memory
<1>4. TrainerOK'
  BY DEF TrainerOK, ArmFailed, Saving, Running, Alive
<1>5. ChainOK'
  BY DEF ChainOK, ArmFailed, disk, FinalOn
<1>. QED  BY <1>2, <1>3, <1>4, <1>5

(* So does an arm that was stopped.                                        *)
LEMMA ArmStoppedStep == IInv /\ ArmStopped => IInv'
<1>. SUFFICES ASSUME IInv, ArmStopped PROVE IInv'
  OBVIOUS
<1>. USE DEF IInv
<1>1. DiskOK'
  BY DEF DiskOK, ArmStopped, disk
<1>2. ScalarsOK'
  BY DEF ScalarsOK, ArmStopped, disk, memory
<1>3. TrainerOK'
  BY DEF TrainerOK, ArmStopped, Saving, Running, Alive
<1>4. ChainOK'
  BY DEF ChainOK, ArmStopped, disk, FinalOn
<1>. QED  BY <1>1, <1>2, <1>3, <1>4

\* The exit code is 0 and no marker of a stop is there: the trainer has finished.
LEMMA ArmDoneStep == IInv /\ ArmDone => IInv'
<1>. SUFFICES ASSUME IInv, ArmDone PROVE IInv'
  OBVIOUS
<1>. USE DEF IInv
<1>1. FinalOn(arm) /\ arm \in Arms
  BY DEF TrainerOK, ScalarsOK, ArmDone
<1>2. markers' \in [Arms -> SUBSET (Resumable \cup {"ARM-DONE"})]
  BY DEF ScalarsOK, ArmDone
<1>3. DiskOK'
  BY DEF DiskOK, ArmDone
<1>4. ScalarsOK'
  BY <1>2 DEF ScalarsOK, ArmDone, memory
<1>5. TrainerOK'
  BY DEF TrainerOK, ArmDone, Saving, Running, Alive
<1>6. ChainOK'
  BY <1>1 DEF ChainOK, ArmDone, FinalOn
<1>. QED  BY <1>3, <1>4, <1>5, <1>6

(* An arm left behind has its finals.                                      *)
LEMMA NextArmStep == IInv /\ NextArm => IInv'
<1>. SUFFICES ASSUME IInv, NextArm PROVE IInv'
  OBVIOUS
<1>. USE DEF IInv
<1>1. /\ launcher = "done" /\ trainer = "off" /\ arm \in Arms /\ FinalOn(arm)
      /\ seg >= 1 /\ "DONE" \notin root
  BY DEF ScalarsOK, ChainOK, NextArm
<1>2. UNCHANGED <<weights, sidecar, banked, markers, preempt, seg, failed, trainer,
                  reason, step, hot>>
  BY DEF NextArm, disk
<1>3. /\ launcher' \in {"off", "gates"} /\ arm' \in Arms /\ name' \in Names
      /\ root' \subseteq {"DONE", "PREEMPTED-BETWEEN-ARMS"}
      /\ launcher' # "off" => FinalOn("moe") /\ "DONE" \notin root'
      /\ "DONE" \in root' => arm = "dense" /\ launcher' = "off"
  <2>1. CASE arm = "moe" /\ preempt
    BY <1>1, <2>1 DEF NextArm, ScalarsOK
  <2>2. CASE arm = "moe" /\ ~preempt
    BY <1>1, <2>2 DEF NextArm, StartArm, ScalarsOK, Arms
  <2>3. CASE arm = "dense"
    BY <1>1, <2>3 DEF NextArm, ScalarsOK
  <2>. QED  BY <1>1, <2>1, <2>2, <2>3 DEF NextArm, Arms
<1>4. DiskOK'
  BY <1>2 DEF DiskOK
<1>5. ScalarsOK'
  BY <1>1, <1>2, <1>3 DEF ScalarsOK
<1>6. TrainerOK'
  BY <1>1, <1>2 DEF TrainerOK, Saving, Running, Alive
<1>7. ChainOK'
  BY <1>1, <1>2, <1>3 DEF ChainOK, FinalOn, Arms
<1>. QED  BY <1>4, <1>5, <1>6, <1>7

(* PREEMPT comes and goes without touching a checkpoint.                   *)
LEMMA DemoStep == IInv /\ Demo => IInv'
<1>. SUFFICES ASSUME IInv, Demo PROVE IInv'
  OBVIOUS
<1>. USE DEF IInv
<1>1. DiskOK'
  BY DEF DiskOK, Demo, disk
<1>2. ScalarsOK'
  BY DEF ScalarsOK, Demo, disk, memory
<1>3. TrainerOK'
  BY DEF TrainerOK, Demo, disk, memory, FinalOn
<1>4. ChainOK'
  BY DEF ChainOK, Demo, disk, FinalOn
<1>. QED  BY <1>1, <1>2, <1>3, <1>4

\* Markers are cleared only while no launcher runs.
LEMMA TidyStep == ASSUME NEW a \in Arms PROVE IInv /\ Tidy(a) => IInv'
<1>. SUFFICES ASSUME IInv, Tidy(a) PROVE IInv'
  OBVIOUS
<1>. USE DEF IInv
<1>1. trainer = "off"
  BY DEF ScalarsOK, Tidy
<1>2. markers' \in [Arms -> SUBSET (Resumable \cup {"ARM-DONE"})]
  BY DEF ScalarsOK, Tidy
<1>3. DiskOK'
  BY DEF DiskOK, Tidy
<1>4. ScalarsOK'
  BY <1>2 DEF ScalarsOK, Tidy, memory
<1>5. TrainerOK'
  BY <1>1 DEF TrainerOK, Tidy, Saving, Running, Alive
<1>6. ChainOK'
  BY DEF ChainOK, Tidy, FinalOn
<1>. QED  BY <1>3, <1>4, <1>5, <1>6

(* Nothing is lost while nothing happens.                                  *)
LEMMA StutterStep == IInv /\ UNCHANGED vars => IInv'
BY DEF IInv, DiskOK, ScalarsOK, TrainerOK, ChainOK, FinalOn, vars

----------------------------------------------------------------------------
(* The theorems.                                                           *)

\* The inductive invariant holds of every chain of segments.
THEOREM SegmentsInvariant == Spec => []IInv
<1>1. IInv /\ [Next]_vars => IInv'
  <2>. SUFFICES ASSUME IInv, [Next]_vars PROVE IInv'
    OBVIOUS
  <2>. USE ResumeStep, TrainStepStep, SaveWeightsStep, SaveSidecarStep, BankDigestsStep,
           AfterSaveStep, LeaveStep, DieStep, RebootStep, LaunchStep, PassGatesStep,
           ArmFailedStep, ArmStoppedStep, ArmDoneStep, NextArmStep, DemoStep, StutterStep
  <2>1. CASE Trainer
    BY <2>1 DEF Trainer
  <2>2. CASE Launcher
    BY <2>2 DEF Launcher
  <2>3. CASE Die \/ Launch \/ Reboot \/ Demo
    BY <2>3
  <2>4. CASE \E a \in Arms : Tidy(a)
    BY <2>4, TidyStep
  <2>5. CASE UNCHANGED vars
    BY <2>5
  <2>. QED  BY <2>1, <2>2, <2>3, <2>4, <2>5 DEF Next
<1>. QED  BY InitOK, <1>1, PTL DEF Spec

\* Types of the state.
THEOREM TypeCorrect == Spec => []TypeOK
<1>1. IInv => TypeOK
  <2>. SUFFICES ASSUME IInv PROVE TypeOK
    OBVIOUS
  <2>1. ASSUME NEW a \in Arms, NEW n \in Names
        PROVE  /\ weights[a][n].is \in {"absent", "torn", "whole"}
               /\ sidecar[a][n].is \in {"absent", "torn", "whole"}
    <3>1. /\ weights[a][n] \in {Absent, Torn, WeightsOf(n)}
          /\ sidecar[a][n] \in {Absent, Torn, SidecarOf(n)}
      BY DEF IInv, DiskOK
    <3>2. WeightsOf(n).is = "whole" /\ SidecarOf(n).is = "whole"
      BY FileFacts DEF WeightsOf, SidecarOf
    <3>. QED  BY <3>1, <3>2, FileFacts
  <2>. QED  BY <2>1 DEF TypeOK, IInv, ScalarsOK
<1>. QED  BY <1>1, SegmentsInvariant, PTL

\* Whatever was interrupted and resumed, the state in memory and every whole
\* file are those of the uninterrupted run (bobmoe0.py's resume and save).
THEOREM BytesAreStraight == Spec => []ResumeExact
<1>1. IInv => ResumeExact
  <2>. SUFFICES ASSUME IInv PROVE ResumeExact
    OBVIOUS
  <2>1. ASSUME NEW a \in Arms, NEW n \in Names
        PROVE  /\ weights[a][n].is = "whole" => weights[a][n].holds = Straight(n[1])
               /\ sidecar[a][n].is = "whole" => sidecar[a][n].holds = <<Straight(n[1]), n[1]>>
    <3>1. WeightsOf(n).holds = Straight(n[1]) /\ SidecarOf(n).holds = <<Straight(n[1]), n[1]>>
      BY FileFacts DEF WeightsOf, SidecarOf
    <3>. QED  BY <3>1, WholeFiles DEF IInv
  <2>2. trainer \in Running => model = Straight(step) /\ opt = Straight(step)
    BY DEF IInv, TrainerOK
  <2>. QED  BY <2>1, <2>2 DEF ResumeExact
<1>. QED  BY <1>1, SegmentsInvariant, PTL

\* A checkpoint saved twice, in two segments, banks the same digests twice.
THEOREM DigestsAgree == Spec => []BankedDigestsAgree
<1>1. IInv => BankedDigestsAgree
  <2>. SUFFICES ASSUME IInv, NEW a \in Arms, NEW x \in banked[a], NEW y \in banked[a],
                       x[1] = y[1]
                PROVE  x = y
    BY DEF BankedDigestsAgree
  <2>1. PICK n \in Names : x = Entry(n)
    BY DEF IInv, DiskOK
  <2>2. PICK m \in Names : y = Entry(m)
    BY DEF IInv, DiskOK
  <2>3. n = m
    BY <2>1, <2>2 DEF Entry
  <2>. QED  BY <2>1, <2>2, <2>3
<1>. QED  BY <1>1, SegmentsInvariant, PTL

\* When the launcher has written DONE, both arms have their final checkpoint.
THEOREM DoneMeansFinals == Spec => []CollectorSeesFinals
<1>1. IInv => CollectorSeesFinals
  <2>1. WeightsOf(Final) = Whole(Straight(Total)) /\ SidecarOf(Final) = Whole(<<Straight(Total), Total>>)
    BY NameFacts DEF WeightsOf, SidecarOf
  <2>. QED  BY <2>1 DEF IInv, ChainOK, FinalOn, CollectorSeesFinals
<1>. QED  BY <1>1, SegmentsInvariant, PTL

----------------------------------------------------------------------------
(* Scheduled demos preempt: the steps done while PREEMPT exists all lie     *)
(* between two checkpoints of one trainer process.                          *)

PreemptOK ==
    /\ since \in Nat
    /\ since > 0 => preempt /\ launcher # "gates" /\ trainer # "start"
    /\ trainer \in Running /\ since > 0 =>
        /\ step - since >= Anchor
        /\ \A c \in step - since + 1 .. step - 1 : c \notin CkptSteps
    /\ trainer = "train" /\ since > 0 => step \notin CkptSteps
    /\ DemosPreempt

\* One step more, when no checkpoint was reached since PREEMPT exists.
LEMMA PreemptTrainStep == IInv /\ PreemptOK /\ TrainStep => PreemptOK'
<1>. SUFFICES ASSUME IInv, PreemptOK, TrainStep PROVE PreemptOK'
  OBVIOUS
<1>1. /\ trainer = "train" /\ step \in Nat /\ step >= Anchor /\ step < Total
      /\ step' = step + 1 /\ launcher = "wait"
      /\ UNCHANGED <<preempt, launcher>> /\ since \in Nat
      /\ since' = IF preempt THEN since + 1 ELSE 0
  BY SegmentsAssumption DEF IInv, ScalarsOK, TrainerOK, TrainStep, Running, Alive, run, PreemptOK
<1>2. /\ trainer' \in {"train", "weights"}
      /\ trainer' = "train" => step' \notin CkptSteps
  <2>1. CASE step' \in CkptSteps
    BY <2>1 DEF TrainStep
  <2>2. CASE step' \notin CkptSteps /\ TooHot(hot')
    BY <2>2 DEF TrainStep
  <2>3. CASE step' \notin CkptSteps /\ ~TooHot(hot')
    BY <1>1, <2>3 DEF TrainStep
  <2>. QED  BY <2>1, <2>2, <2>3
<1>3. CASE ~preempt
  <2>1. since' = 0
    BY <1>1, <1>3
  <2>2. DemosPreempt'
    BY <2>1 DEF DemosPreempt, Spacings
  <2>. QED  BY <2>1, <2>2 DEF PreemptOK
<1>4. CASE preempt
  <2>1. since' = since + 1 /\ step' - since' = step - since /\ step - since >= Anchor
    BY <1>1, <1>4, SegmentsAssumption DEF PreemptOK, Running, Alive
  <2>2. \A c \in step - since + 1 .. step : c \notin CkptSteps
    <3>1. since > 0 => /\ step \notin CkptSteps
                       /\ \A c \in step - since + 1 .. step - 1 : c \notin CkptSteps
      BY <1>1 DEF PreemptOK, Running, Alive
    <3>2. \A c \in step - since + 1 .. step :
            since > 0 /\ (c = step \/ c \in step - since + 1 .. step - 1)
      BY <1>1
    <3>. QED  BY <3>1, <3>2
  <2>3. \A c \in step' - since' + 1 .. step' - 1 : c \notin CkptSteps
    BY <1>1, <2>1, <2>2
  <2>4. ASSUME NEW g \in Spacings PROVE since' <= g
    <3>1. g \in Nat /\ step - since \in Anchor .. Total - 1
      BY <1>1, <2>1, SegmentsAssumption DEF Spacings
    <3>2. PICK c \in CkptSteps : c \in (step - since) + 1 .. (step - since) + g
      BY <3>1 DEF Spacings
    <3>3. c \notin step - since + 1 .. step
      BY <2>2
    <3>. QED  BY <1>1, <2>1, <3>1, <3>2, <3>3
  <2>5. DemosPreempt'
    BY <2>4 DEF DemosPreempt, Spacings
  <2>. QED  BY <1>1, <1>2, <1>4, <2>1, <2>3, <2>5 DEF PreemptOK
<1>. QED  BY <1>3, <1>4

(* No other step adds to the steps done under PREEMPT.                     *)
LEMMA PreemptStep == IInv /\ PreemptOK /\ [Next]_vars => PreemptOK'
<1>. SUFFICES ASSUME IInv, PreemptOK, [Next]_vars PROVE PreemptOK'
  OBVIOUS
<1>. USE DEF PreemptOK, Running, Alive
<1>1. since' = since => (DemosPreempt <=> DemosPreempt')
  BY DEF DemosPreempt, Spacings
<1>2. CASE Resume
  BY <1>1, <1>2 DEF Resume, disk, run
<1>3. CASE TrainStep
  BY <1>3, PreemptTrainStep
<1>4. CASE SaveWeights \/ SaveSidecar \/ BankDigests
  BY <1>1, <1>4 DEF SaveWeights, SaveSidecar, BankDigests, run, memory, history
<1>5. CASE AfterSave
  <2>1. reason = "COMPLETE"
    BY <1>5 DEF IInv, TrainerOK, AfterSave, Saving
  <2>2. trainer' = "leaving" \/ (trainer' = "train" /\ ~preempt)
    BY <1>5, <2>1 DEF AfterSave
  <2>. QED  BY <1>1, <1>5, <2>2 DEF AfterSave, run, history
<1>6. CASE Leave \/ Die
  BY <1>1, <1>6 DEF Leave, Die, disk, run, memory, history
<1>7. CASE Launch
  BY <1>1, <1>7 DEF Launch, StartArm, disk, history
<1>8. CASE PassGates
  BY <1>1, <1>8 DEF PassGates, disk, memory, history
<1>9. CASE ArmFailed \/ ArmStopped \/ ArmDone
  BY <1>1, <1>9 DEF ArmFailed, ArmStopped, ArmDone, disk, memory, history
<1>10. CASE NextArm
  <2>1. trainer = "off"
    BY <1>10 DEF IInv, ScalarsOK, NextArm
  <2>. QED  BY <1>1, <1>10, <2>1 DEF NextArm, StartArm, disk, history
<1>11. CASE Reboot
  BY <1>1, <1>11 DEF Reboot, memory, history
<1>12. CASE Demo
  <2>1. DemosPreempt'
    BY <1>12 DEF Demo, DemosPreempt, Spacings
  <2>. QED  BY <1>12, <2>1 DEF Demo
<1>13. CASE \E a \in Arms : Tidy(a)
  BY <1>1, <1>13 DEF Tidy, memory, history
<1>14. CASE UNCHANGED vars
  BY <1>1, <1>14 DEF vars
<1>. QED  BY <1>2, <1>3, <1>4, <1>5, <1>6, <1>7, <1>8, <1>9, <1>10, <1>11, <1>12,
            <1>13, <1>14 DEF Next, Trainer, Launcher

\* Whatever the cadence, PREEMPT stops the run at the next checkpoint, and no
\* segment and no arm is started past it (bobmoe0.py's and run_stage2.sh's tests).
THEOREM DemosAlwaysPreempt == Spec => []DemosPreempt
<1>1. Init => PreemptOK
  BY DEF Init, PreemptOK, DemosPreempt, Spacings, Running, Alive
<1>2. PreemptOK => DemosPreempt
  BY DEF PreemptOK
<1>. QED  BY <1>1, <1>2, PreemptStep, SegmentsInvariant, PTL DEF Spec

----------------------------------------------------------------------------
(* A hot card stops the run.  heat counts every progress point of a streak, *)
(* hot only the sampled ones: they differ by the checkpoint steps that lie  *)
(* in the streak, of which there is at most one while the loop goes on.     *)

\* Two checkpoints that are progress points are more than HotLimit progress
\* points apart, the last of the run excepted (bobmoe0.py: one in 1000 steps,
\* against three samples 25 steps apart).
Spaced == \A c, d \in CkptSteps :
            AtProgress(c) /\ AtProgress(d) /\ c < d /\ d < Total => d - c > ProgressEvery * HotLimit

\* The streak holds a checkpoint step c, and at most hot sampled points since.
MissedAt(c) == AtProgress(c) /\ c <= step /\ step - c < ProgressEvery * (hot + 1)

HeatOK ==
    /\ heat \in Nat /\ HeatIsBounded
    /\ trainer \in {"train"} \cup Saving /\ step < Total =>
        heat <= hot \/ (heat = hot + 1 /\ \E c \in CkptSteps : MissedAt(c))

\* The progress points after a progress point are at multiples of their distance.
LEMMA NextProgress ==
    ASSUME NEW c \in Nat, NEW k \in Nat, AtProgress(c)
    PROVE  AtProgress(c + ProgressEvery * k)
<1>. DEFINE p == ProgressEvery
            q == c \div p
<1>1. p \in Nat /\ p > 0
  BY SegmentsAssumption
<1>2. c = p * q /\ q \in Int
  <2>. HIDE DEF p
  <2>. QED  BY <1>1 DEF AtProgress, p
<1>3. c + p * k = p * (q + k) + 0 /\ q + k \in Int
  <2>. HIDE DEF p, q
  <2>. QED  BY <1>1, <1>2
<1>4. (p * (q + k) + 0) % p = 0
  <2>. HIDE DEF p, q
  <2>1. ASSUME NEW m \in Int PROVE (p * m + 0) % p = 0
    BY <1>1
  <2>. QED  BY <1>3, <2>1
<1>. QED  BY <1>3, <1>4 DEF AtProgress

\* A step of the trainer, by what the step reaches: no progress point, a
\* sampled one, or a checkpoint at a progress point.
LEMMA HeatTrainStep == Spaced /\ IInv /\ HeatOK /\ TrainStep => HeatOK'
<1>. SUFFICES ASSUME Spaced, IInv, HeatOK, TrainStep PROVE HeatOK'
  OBVIOUS
<1>. DEFINE s == step + 1
            p == ProgressEvery
<1>1. /\ step \in Nat /\ s \in Nat /\ step < Total /\ step' = s /\ Total \in Nat
      /\ hot \in Nat /\ hot < HotLimit /\ HotLimit \in Nat
      /\ p \in Nat /\ p > 0 /\ heat \in Nat /\ trainer = "train"
      /\ \A c \in CkptSteps : c \in Nat
  BY SegmentsAssumption DEF IInv, ScalarsOK, TrainerOK, TrainStep, HeatOK
<1>2. heat <= hot \/ (heat = hot + 1 /\ \E c \in CkptSteps : MissedAt(c))
  BY <1>1 DEF HeatOK
<1>3. PICK temp \in Temperatures :
        /\ heat' = IF AtProgress(s) THEN Warmed(heat, temp) ELSE heat
        /\ hot' = IF AtProgress(s) /\ s \notin CkptSteps THEN Warmed(hot, temp) ELSE hot
  BY <1>1 DEF TrainStep
<1>. HIDE DEF s, p
<1>4. CASE ~AtProgress(s)
  <2>1. heat' = heat /\ hot' = hot
    BY <1>3, <1>4
  <2>2. ASSUME NEW c \in CkptSteps, MissedAt(c) PROVE MissedAt(c)'
    <3>1. AtProgress(c) /\ c <= step /\ step - c < p * (hot + 1) /\ c \in Nat
      BY <1>1, <2>2 DEF MissedAt, p
    <3>2. c + p * (hot + 1) # s
      <4>1. hot + 1 \in Nat /\ c \in Nat /\ AtProgress(c)
        BY <1>1, <3>1
      <4>2. AtProgress(c + p * (hot + 1))
        BY <4>1, NextProgress, Zenon DEF p
      <4>. QED  BY <1>4, <4>2
    <3>3. s - c < p * (hot + 1)
      <4>. DEFINE r == p * (hot + 1)
      <4>1. r \in Nat
        BY <1>1
      <4>. HIDE DEF r
      <4>2. step - c < r /\ c + r # s
        BY <3>1, <3>2 DEF r
      <4>3. s - c < r
        BY <1>1, <3>1, <4>1, <4>2 DEF s
      <4>. QED  BY <4>3 DEF r
    <3>. QED  BY <1>1, <2>1, <3>1, <3>3 DEF MissedAt, AtProgress, s, p
  <2>3. heat' <= HotLimit + 1 /\ heat' \in Nat
    BY <1>1, <2>1 DEF HeatOK, HeatIsBounded
  <2>. QED  BY <1>2, <2>1, <2>2, <2>3 DEF HeatOK, HeatIsBounded
<1>5. CASE AtProgress(s) /\ s \notin CkptSteps
  <2>1. CASE temp # "hot"
    <3>1. heat' = 0 /\ hot' = 0
      BY <1>3, <1>5, <2>1 DEF Warmed
    <3>. QED  BY <1>1, <3>1 DEF HeatOK, HeatIsBounded
  <2>2. CASE temp = "hot"
    <3>1. heat' = heat + 1 /\ hot' = hot + 1
      BY <1>3, <1>5, <2>2 DEF Warmed
    <3>2. ASSUME NEW c \in CkptSteps, MissedAt(c) PROVE MissedAt(c)'
      <4>1. AtProgress(c) /\ c <= step /\ step - c < p * (hot + 1) /\ c \in Nat
        BY <1>1, <3>2 DEF MissedAt, p
      <4>2. p * (hot + 2) = p * (hot + 1) + p
        BY <1>1
      <4>3. s - c < p * (hot + 2)
        <5>. DEFINE r == p * (hot + 1)
        <5>1. r \in Nat
          BY <1>1
        <5>. HIDE DEF r
        <5>2. step - c < r
          BY <4>1 DEF r
        <5>3. s - c < r + p
          BY <1>1, <4>1, <5>1, <5>2 DEF s
        <5>. QED  BY <4>2, <5>3 DEF r
      <4>4. hot' + 1 = hot + 2
        BY <1>1, <3>1
      <4>. QED  BY <1>1, <4>1, <4>3, <4>4 DEF MissedAt, AtProgress, s, p
    <3>3. heat' <= HotLimit + 1 /\ heat' \in Nat
      BY <1>1, <1>2, <3>1
    <3>4. heat' <= hot' \/ (heat' = hot' + 1 /\ \E c \in CkptSteps : MissedAt(c)')
      BY <1>1, <1>2, <3>1, <3>2
    <3>. QED  BY <3>3, <3>4 DEF HeatOK, HeatIsBounded
  <2>. QED  BY <2>1, <2>2
<1>6. CASE AtProgress(s) /\ s \in CkptSteps
  <2>1. hot' = hot
    BY <1>3, <1>6
  <2>2. CASE temp # "hot"
    <3>1. heat' = 0
      BY <1>3, <1>6, <2>2 DEF Warmed
    <3>. QED  BY <1>1, <2>1, <3>1 DEF HeatOK, HeatIsBounded
  <2>3. CASE temp = "hot"
    <3>1. heat' = heat + 1
      BY <1>3, <1>6, <2>3 DEF Warmed
    <3>2. heat' <= HotLimit + 1 /\ heat' \in Nat
      BY <1>1, <1>2, <3>1
    <3>3. s < Total => ~ \E c \in CkptSteps : MissedAt(c)
      <4>. SUFFICES ASSUME s < Total, NEW c \in CkptSteps, MissedAt(c) PROVE FALSE
        OBVIOUS
      <4>1. AtProgress(c) /\ c <= step /\ step - c < p * (hot + 1) /\ c \in Nat
        BY <1>1 DEF MissedAt, p
      <4>2. c < s
        BY <1>1, <4>1 DEF s
      <4>3. s - c > p * HotLimit
        BY <1>6, <4>1, <4>2 DEF Spaced, p
      <4>4. p * (hot + 1) <= p * HotLimit
        <5>1. PICK k \in Nat : HotLimit = (hot + 1) + k
          <6>1. HotLimit - (hot + 1) \in Nat /\ HotLimit = (hot + 1) + (HotLimit - (hot + 1))
            BY <1>1
          <6>. QED  BY <6>1
        <5>2. p * HotLimit = p * (hot + 1) + p * k /\ p * k \in Nat /\ p * (hot + 1) \in Nat
          BY <1>1, <5>1
        <5>. QED  BY <5>2
      <4>. DEFINE r == p * (hot + 1)
                  t == p * HotLimit
      <4>5. r \in Nat /\ t \in Nat
        BY <1>1
      <4>. HIDE DEF r, t
      <4>6. r <= t /\ step - c < r /\ s - c > t
        BY <4>1, <4>3, <4>4 DEF r, t
      <4>. QED  BY <1>1, <4>1, <4>5, <4>6 DEF s
    <3>4. ASSUME NEW c \in CkptSteps, c = s PROVE MissedAt(c)'
      <4>1. p * (hot + 1) > 0
        BY <1>1
      <4>2. AtProgress(c) /\ c <= s /\ s - c < p * (hot + 1)
        BY <1>1, <1>6, <3>4, <4>1
      <4>. QED  BY <1>1, <2>1, <4>2 DEF MissedAt, AtProgress, p
    <3>5. s < Total => heat' <= hot' + 1
      BY <1>1, <1>2, <2>1, <3>1, <3>3
    <3>6. s < Total => heat' <= hot' \/ (heat' = hot' + 1 /\ \E c \in CkptSteps : MissedAt(c)')
      <4>1. \E c \in CkptSteps : MissedAt(c)'
        BY <1>6, <3>4
      <4>2. \A x, y \in Nat : x <= y + 1 => x <= y \/ x = y + 1
        OBVIOUS
      <4>3. hot' \in Nat /\ heat' \in Nat
        BY <1>1, <2>1, <3>2
      <4>4. s < Total => heat' <= hot' \/ heat' = hot' + 1
        BY <3>5, <4>2, <4>3, Zenon
      <4>. QED  BY <4>1, <4>4, Zenon
    <3>. QED  BY <1>1, <3>2, <3>6 DEF HeatOK, HeatIsBounded
  <2>. QED  BY <2>2, <2>3
<1>. QED  BY <1>4, <1>5, <1>6

\* Apart from the training loop, a streak only ends: when a trainer resumes.
LEMMA HeatStep == Spaced /\ IInv /\ HeatOK /\ [Next]_vars => (Spaced /\ HeatOK)'
<1>. SUFFICES ASSUME Spaced, IInv, HeatOK, [Next]_vars PROVE HeatOK'
  BY DEF Spaced, AtProgress
<1>0. \A c : UNCHANGED <<step, hot>> /\ MissedAt(c) => MissedAt(c)'
  BY DEF MissedAt, AtProgress
<1>. USE DEF HeatOK, HeatIsBounded, Saving
<1>1. UNCHANGED <<heat, hot, step>> /\ (trainer' \in {"train"} \cup Saving => trainer \in {"train"} \cup Saving)
        => HeatOK'
  BY <1>0
<1>2. CASE Resume
  BY <1>2, SegmentsAssumption DEF Resume, IInv, ScalarsOK
<1>3. CASE TrainStep
  BY <1>3, HeatTrainStep
<1>4. CASE SaveWeights \/ SaveSidecar \/ BankDigests \/ AfterSave
  BY <1>1, <1>4 DEF SaveWeights, SaveSidecar, BankDigests, AfterSave, memory, history
<1>5. CASE Leave \/ Die
  BY <1>1, <1>5 DEF Leave, Die, memory, history
<1>6. CASE Launch \/ PassGates
  BY <1>1, <1>6 DEF Launch, PassGates, memory, history
<1>7. CASE ArmFailed \/ ArmStopped \/ ArmDone \/ NextArm
  BY <1>1, <1>7 DEF ArmFailed, ArmStopped, ArmDone, NextArm, memory, history
<1>8. CASE Reboot \/ Demo
  BY <1>1, <1>8 DEF Reboot, Demo, memory, history
<1>9. CASE \E a \in Arms : Tidy(a)
  BY <1>1, <1>9 DEF Tidy, memory, history
<1>10. CASE UNCHANGED vars
  BY <1>1, <1>10 DEF vars
<1>. QED  BY <1>2, <1>3, <1>4, <1>5, <1>6, <1>7, <1>8, <1>9, <1>10 DEF Next, Trainer, Launcher

\* Whatever the cadence, as long as its checkpoints are spaced, a card that
\* stays hot stops the run (bobmoe0.py's temperature stop).
THEOREM HotCardStops == Spaced /\ Spec => []HeatIsBounded
<1>1. Init => HeatOK
  BY SegmentsAssumption DEF Init, HeatOK, HeatIsBounded, Saving
<1>2. HeatOK => HeatIsBounded
  BY DEF HeatOK
<1>. QED  BY <1>1, <1>2, HeatStep, SegmentsInvariant, PTL DEF Spec

----------------------------------------------------------------------------
(* Every window gets its share of the draws.  Step after step the windows   *)
(* are drawn cyclically, so window w has been drawn as often as there are   *)
(* numbers below s * B that leave the remainder w.                          *)

\* A set of natural numbers has a least element.
LEMMA LeastNat ==
    ASSUME NEW S \in SUBSET Nat, S # {}
    PROVE  \E m \in S : \A x \in S : m <= x
<1>. DEFINE R == {ss \in Nat \X Nat : ss[1] < ss[2]}
<1>1. IsWellFoundedOn(R, Nat)
  BY NatLessThanWellFounded DEF OpToRel
<1>2. \A x, y \in Nat : y < x => <<y, x>> \in R
  OBVIOUS
<1>. HIDE DEF R
<1>3. PICK m \in S : \A y \in S : ~ (<<y, m>> \in R)
  BY <1>1, WFMin
<1>4. ASSUME NEW y \in S PROVE m <= y
  <2>1. m \in Nat /\ y \in Nat
    OBVIOUS
  <2>2. ~ (y < m)
    BY <2>1, <1>2, <1>3
  <2>. QED  BY <2>1, <2>2
<1>. QED  BY <1>4

\* What the quotient says of the dividend, and which number it is.
LEMMA Quotient ==
    ASSUME NEW a \in Int, NEW d \in Nat \ {0}
    PROVE  a \div d \in Int /\ d * (a \div d) <= a /\ a < d * (a \div d) + d
OBVIOUS

(* Between two neighbouring multiples of d the quotient is the lower one's *)
(* factor.                                                                 *)
LEMMA IsQuotient ==
    ASSUME NEW a \in Int, NEW d \in Nat \ {0}, NEW q \in Int, d * q <= a, a < d * q + d
    PROVE  a \div d = q
<1>. DEFINE r == a - d * q
<1>1. r \in 0 .. d - 1 /\ a = d * q + r
  <2>1. d * q \in Int
    OBVIOUS
  <2>. QED  BY <2>1
<1>. HIDE DEF r
<1>2. (d * q + r) \div d = q
  BY <1>1
<1>. QED  BY <1>1, <1>2

\* The numbers with remainder w are the N * m + w.
LEMMA Remainder ==
    ASSUME NEW w \in 0 .. N - 1, NEW i \in Nat
    PROVE  i % N = w <=> \E m \in Nat : i = N * m + w
<1>1. N \in Nat /\ N > 0 /\ w \in Nat /\ w < N
  BY SegmentsAssumption
<1>2. ASSUME NEW m \in Nat, i = N * m + w PROVE i % N = w
  <2>1. (N * m + w) % N = w
    BY <1>1
  <2>. QED  BY <1>2, <2>1
<1>3. i = N * (i \div N) + (i % N) /\ i \div N \in Nat
  BY <1>1
<1>. QED  BY <1>2, <1>3

\* The draws of window w in the first s steps.
DrawnBy(s, w) == {i \in 1 .. s : w \in Draw(i)}
Share(s, w)   == (s * B + N - 1 - w) \div N

\* Step s + 1 draws w when the next number with that remainder is among its B.
LEMMA DrawStep ==
    ASSUME NEW s \in Nat, NEW w \in 0 .. N - 1
    PROVE  /\ Share(s, w) \in Nat
           /\ Share(s + 1, w) = IF w \in Draw(s + 1) THEN Share(s, w) + 1 ELSE Share(s, w)
<1>. DEFINE a == s * B
            q == Share(s, w)
            t == N * q
<1>1. /\ N \in Nat \ {0} /\ N > 0 /\ w \in Nat /\ w < N /\ B \in Nat /\ 1 <= B /\ B <= N
      /\ a \in Nat
  BY SegmentsAssumption
<1>2. (s + 1) * B = a + B /\ ((s + 1) - 1) * B = a
  BY <1>1
<1>. HIDE DEF a
<1>3. q \in Int /\ t \in Int /\ t <= a + N - 1 - w /\ a + N - 1 - w < t + N
  BY <1>1, Quotient DEF Share, a
<1>4. q \in Nat
  <2>1. q < 0 => t + N <= 0
    <3>. SUFFICES ASSUME q < 0 PROVE t + N <= 0
      OBVIOUS
    <3>. HIDE DEF q
    <3>1. 0 - q - 1 \in Nat /\ N * (0 - q - 1) \in Nat /\ N * (0 - q - 1) = 0 - t - N
      BY <1>1, <1>3
    <3>. QED  BY <1>1, <1>3, <3>1
  <2>. HIDE DEF t, q
  <2>. QED  BY <1>1, <1>3, <2>1
<1>5. t \in Nat /\ N * (q + 1) = t + N
  BY <1>1, <1>4
<1>6. w \in Draw(s + 1) <=> \E i \in a .. a + B - 1 : i % N = w
  <2>. DEFINE j == s + 1
  <2>1. j \in Nat /\ j >= 1
    OBVIOUS
  <2>. HIDE DEF j
  <2>2. w \in Draw(j) <=> \E i \in (j - 1) * B .. j * B - 1 : i % N = w
    BY DEF Draw
  <2>3. (j - 1) * B = a /\ j * B = a + B
    BY <1>2 DEF j
  <2>4. (j - 1) * B .. j * B - 1 = a .. a + B - 1
    BY <1>1, <2>1, <2>3
  <2>5. w \in Draw(j) <=> \E i \in a .. a + B - 1 : i % N = w
    BY <2>2, <2>4
  <2>. QED  BY <2>5 DEF j
<1>7. w \in Draw(s + 1) <=> t + w <= a + B - 1
  <2>. HIDE DEF t, q
  <2>1. ASSUME t + w <= a + B - 1 PROVE w \in Draw(s + 1)
    <3>1. t + w \in a .. a + B - 1 /\ t + w \in Nat
      BY <1>1, <1>3, <1>4, <1>5, <2>1
    <3>2. (t + w) % N = w
      BY <1>4, <3>1, Remainder DEF t
    <3>. QED  BY <1>6, <3>1, <3>2
  <2>2. ASSUME w \in Draw(s + 1) PROVE t + w <= a + B - 1
    <3>1. PICK i \in a .. a + B - 1 : i % N = w
      BY <1>6, <2>2
    <3>2. i \in Nat /\ a <= i /\ i <= a + B - 1
      BY <1>1, <3>1
    <3>3. PICK m \in Nat : i = N * m + w
      BY <3>1, <3>2, Remainder
    <3>. DEFINE k == N * m
    <3>4. k \in Nat /\ i = k + w
      BY <1>1, <3>3
    <3>5. q <= m \/ m + 1 <= q
      BY <1>4
    <3>6. q <= m => t <= k
      <4>1. ASSUME q <= m PROVE t <= k
        <5>1. m - q \in Nat /\ N * (m - q) \in Nat /\ k = N * q + N * (m - q)
          BY <1>1, <1>4, <4>1
        <5>. HIDE DEF k
        <5>. QED  BY <1>5, <3>4, <5>1 DEF t
      <4>. QED  BY <4>1
    <3>7. ~ (m + 1 <= q)
      <4>. SUFFICES ASSUME m + 1 <= q PROVE FALSE
        OBVIOUS
      <4>1. q - (m + 1) \in Nat /\ N * (q - (m + 1)) \in Nat /\ N * q = N * m + N + N * (q - (m + 1))
        BY <1>1, <1>4
      <4>. HIDE DEF k
      <4>2. t >= k + N
        BY <1>1, <1>5, <3>4, <4>1 DEF t, k
      <4>. QED  BY <1>1, <1>3, <1>5, <3>2, <3>4, <4>2
    <3>. HIDE DEF k
    <3>. QED  BY <1>1, <1>5, <3>2, <3>4, <3>5, <3>6, <3>7
  <2>. QED  BY <2>1, <2>2
<1>. HIDE DEF t
<1>8. CASE t + w <= a + B - 1
  <2>1. N * (q + 1) <= a + B + N - 1 - w /\ a + B + N - 1 - w < N * (q + 1) + N
    <3>. HIDE DEF q
    <3>. QED  BY <1>1, <1>3, <1>5, <1>8
  <2>. HIDE DEF q
  <2>2. (a + B + N - 1 - w) \div N = q + 1
    BY <1>1, <1>4, <2>1, IsQuotient
  <2>. QED  BY <1>2, <1>4, <1>7, <1>8, <2>2 DEF q, Share
<1>9. CASE ~ (t + w <= a + B - 1)
  <2>. HIDE DEF q
  <2>1. t <= a + B + N - 1 - w /\ a + B + N - 1 - w < t + N
    BY <1>1, <1>3, <1>5, <1>9
  <2>2. (a + B + N - 1 - w) \div N = q
    BY <1>1, <1>4, <2>1, IsQuotient DEF t
  <2>. QED  BY <1>2, <1>4, <1>7, <1>9, <2>2 DEF q, Share
<1>. QED  BY <1>8, <1>9

(* Before the first draw no window has been drawn.                         *)
LEMMA FirstShare == ASSUME NEW w \in 0 .. N - 1 PROVE DrawnBy(0, w) = {} /\ Share(0, w) = 0
<1>1. N \in Nat \ {0} /\ w \in Nat /\ w <= N - 1 /\ B \in Nat
  BY SegmentsAssumption
<1>2. 0 * B + N - 1 - w = N - 1 - w /\ N - 1 - w \in Int /\ N * 0 = 0
  BY <1>1
<1>3. (N - 1 - w) \div N = 0
  BY <1>1, <1>2, IsQuotient
<1>. QED  BY <1>2, <1>3 DEF Share, DrawnBy

\* The step adds itself to the draws of w, or leaves them.
LEMMA NextDraws ==
    ASSUME NEW s \in Nat, NEW w \in 0 .. N - 1,
           IsFiniteSet(DrawnBy(s, w)), Cardinality(DrawnBy(s, w)) = Share(s, w)
    PROVE  IsFiniteSet(DrawnBy(s + 1, w)) /\ Cardinality(DrawnBy(s + 1, w)) = Share(s + 1, w)
<1>1. CASE w \in Draw(s + 1)
  <2>1. DrawnBy(s + 1, w) = DrawnBy(s, w) \cup {s + 1} /\ s + 1 \notin DrawnBy(s, w)
    BY <1>1 DEF DrawnBy
  <2>2. /\ IsFiniteSet(DrawnBy(s, w) \cup {s + 1})
        /\ Cardinality(DrawnBy(s, w) \cup {s + 1}) = Cardinality(DrawnBy(s, w)) + 1
    BY <2>1, FS_AddElement
  <2>. QED  BY <1>1, <2>1, <2>2, DrawStep
<1>2. CASE w \notin Draw(s + 1)
  <2>1. DrawnBy(s + 1, w) = DrawnBy(s, w)
    BY <1>2 DEF DrawnBy
  <2>. QED  BY <1>2, <2>1, DrawStep
<1>. QED  BY <1>1, <1>2

\* The first step after which the count were not the share has none before it.
LEMMA DrawCount ==
    ASSUME NEW w \in 0 .. N - 1, NEW s \in Nat
    PROVE  IsFiniteSet(DrawnBy(s, w)) /\ Cardinality(DrawnBy(s, w)) = Share(s, w)
<1>. DEFINE Wrong == {m \in Nat : ~ (IsFiniteSet(DrawnBy(m, w))
                                     /\ Cardinality(DrawnBy(m, w)) = Share(m, w))}
<1>1. Wrong = {}
  <2>. SUFFICES ASSUME Wrong # {} PROVE FALSE
    OBVIOUS
  <2>1. PICK m \in Wrong : \A x \in Wrong : m <= x
    BY LeastNat
  <2>2. m # 0
    BY <2>1, FirstShare, FS_EmptySet
  <2>. DEFINE k == m - 1
  <2>3. k \in Nat /\ k < m /\ m = k + 1
    BY <2>1, <2>2
  <2>. HIDE DEF k
  <2>4. IsFiniteSet(DrawnBy(k, w)) /\ Cardinality(DrawnBy(k, w)) = Share(k, w)
    BY <2>1, <2>3
  <2>5. IsFiniteSet(DrawnBy(k + 1, w)) /\ Cardinality(DrawnBy(k + 1, w)) = Share(k + 1, w)
    BY <2>3, <2>4, NextDraws
  <2>. QED  BY <2>1, <2>3, <2>5
<1>. QED  BY <1>1

\* The share of a window is step * B / N, rounded down or up.
LEMMA ShareRounded ==
    ASSUME NEW s \in Nat, NEW w \in 0 .. N - 1
    PROVE  Share(s, w) \in {(s * B) \div N, (s * B + N - 1) \div N}
<1>. DEFINE a == s * B
            lo == a \div N
            t == N * lo
<1>1. N \in Nat \ {0} /\ w \in Nat /\ w <= N - 1 /\ B \in Nat /\ a \in Nat
  BY SegmentsAssumption
<1>. HIDE DEF a
<1>2. lo \in Int /\ t \in Int /\ t <= a /\ a < t + N
  BY <1>1, Quotient
<1>3. N * (lo + 1) = t + N
  BY <1>1, <1>2
<1>4. CASE a + N - 1 - w < t + N
  <2>. HIDE DEF lo
  <2>1. t <= a + N - 1 - w
    <3>. HIDE DEF t
    <3>. QED  BY <1>1, <1>2
  <2>2. (a + N - 1 - w) \div N = lo
    BY <1>1, <1>2, <1>4, <2>1, IsQuotient
  <2>. QED  BY <2>2 DEF Share, a, lo
<1>5. CASE ~ (a + N - 1 - w < t + N)
  <2>. HIDE DEF lo, t
  <2>1. /\ N * (lo + 1) <= a + N - 1 - w /\ a + N - 1 - w < N * (lo + 1) + N
        /\ N * (lo + 1) <= a + N - 1 /\ a + N - 1 < N * (lo + 1) + N
    BY <1>1, <1>2, <1>3, <1>5
  <2>2. (a + N - 1 - w) \div N = lo + 1 /\ (a + N - 1) \div N = lo + 1
    BY <1>1, <1>2, <2>1, IsQuotient
  <2>. QED  BY <2>2 DEF Share, a
<1>. QED  BY <1>4, <1>5

\* Whatever the corpus and the batch, wherever the epoch ends inside a step and
\* wherever the run was interrupted (bobmoe0.py's order of the windows).
THEOREM WindowsDrawnEvenly == Spec => []EqualBudget
<1>1. IInv => EqualBudget
  <2>. SUFFICES ASSUME IInv, trainer \in Running, NEW w \in 0 .. N - 1
                PROVE  Drawn(w) \in {(step * B) \div N, (step * B + N - 1) \div N}
    BY DEF EqualBudget
  <2>1. step \in Nat /\ model = Straight(step)
    BY SegmentsAssumption DEF IInv, ScalarsOK, TrainerOK
  <2>2. {i \in DOMAIN model : w \in Draw(model[i])} = DrawnBy(step, w)
    BY <2>1 DEF Straight, DrawnBy
  <2>3. Drawn(w) = Share(step, w)
    BY <2>1, <2>2, DrawCount DEF Drawn
  <2>. QED  BY <2>1, <2>3, ShareRounded
<1>. QED  BY <1>1, SegmentsInvariant, PTL

=============================================================================
