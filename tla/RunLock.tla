------------------------------ MODULE RunLock ------------------------------
(***************************************************************************)
(* The house runlock of research/: a directory that every model run on the *)
(* box creates with mkdir before it starts and removes with rmdir when it  *)
(* ends.  A leg is a script that makes its runs one after the other, each  *)
(* through a wrapper:                                                      *)
(*                                                                         *)
(*   ob1b/locked-run.sh, ob5a/locked-run-ob5a.sh, ob5b2/locked-run-ob5b2.sh*)
(*        5 s poll, RAM bar under the lock, 75 s courtesy yield            *)
(*   ob2/locked-run.sh       30 s poll, RAM bar under the lock, no yield   *)
(*   ob3/run-ob3.sh          30 s poll, RAM bar BEFORE the lock, no yield  *)
(*   ob5b1/gate1-120b.sh     5 s poll, RAM bar under the lock, yield; its  *)
(*        "set -e" ends the script, lock held, when a run fails            *)
(*                                                                         *)
(* Time is counted in ticks.  Shell steps take no time: the clock waits    *)
(* for every leg that is neither asleep nor inside a model run.            *)
(***************************************************************************)
EXTENDS Integers, FiniteSets

CONSTANTS
    Legs,
    Poll,        \* Poll[l]: ticks between two attempts to take the lock
    Limit,       \* Limit[l]: ticks after which the leg gives up
    Yield,       \* Yield[l]: ticks of courtesy after a run's release
    Runs,        \* Runs[l]: runs the leg has to make
    RamFirst,    \* the legs that check free RAM before they ask for the lock
    Unguarded    \* the legs that a failed run ends before the release

ASSUME RunLockAssumption ==
    /\ Poll \in [Legs -> Nat \ {0}]
    /\ Limit \in [Legs -> Nat] /\ Yield \in [Legs -> Nat] /\ Runs \in [Legs -> Nat]
    /\ RamFirst \subseteq Legs /\ Unguarded \subseteq Legs

VARIABLES
    lock,      \* does the directory exist
    pc,        \* pc[l]: where the leg is
    left,      \* left[l]: runs it has not asked for yet
    timer,     \* timer[l]: ticks it still sleeps
    waited,    \* waited[l]: ticks since it asked for the lock
    stale,     \* history: stale[l], another run started since l checked the RAM
    owed       \* history: owed[l], what kind of release l made while a sibling
               \* was waiting, if no sibling has had the lock since

vars == <<lock, pc, left, timer, waited, stale, owed>>

Places == {"idle", "precheck", "ask", "gate", "refuse", "start", "run", "free",
           "gone", "crashed"}

Init ==
    /\ lock = FALSE
    /\ pc = [l \in Legs |-> "idle"]
    /\ left = Runs
    /\ timer = [l \in Legs |-> 0]
    /\ waited = [l \in Legs |-> 0]
    /\ stale = [l \in Legs |-> FALSE]
    /\ owed = [l \in Legs |-> "none"]

At(l, place) == pc[l] = place /\ timer[l] = 0
Goto(l, place) == pc' = [pc EXCEPT ![l] = place]

----------------------------------------------------------------------------
(* Asking.                                                                 *)

\* The leg starts its next run's wrapper, or has none left.
Request(l) ==
    /\ At(l, "idle") /\ left[l] > 0
    /\ Goto(l, IF l \in RamFirst THEN "precheck" ELSE "ask")
    /\ left' = [left EXCEPT ![l] = @ - 1]
    /\ waited' = [waited EXCEPT ![l] = 0]
    /\ UNCHANGED <<lock, timer, stale, owed>>

Finish(l) ==
    /\ At(l, "idle") /\ left[l] = 0
    /\ Goto(l, "gone")
    /\ UNCHANGED <<lock, left, timer, waited, stale, owed>>

\* run-ob3.sh reads the free RAM and then asks, or exits 90.
PreCheck(l) ==
    /\ At(l, "precheck")
    /\ Goto(l, "ask") \/ Goto(l, "idle")
    /\ stale' = [stale EXCEPT ![l] = FALSE]
    /\ UNCHANGED <<lock, left, timer, waited, owed>>

\* Slip: the directory's existence is tested without creating it in one step.
AcquireIfAsked(l) ==
    /\ At(l, "ask")
    /\ lock' = TRUE
    /\ Goto(l, IF l \in RamFirst THEN "start" ELSE "gate")
    /\ owed' = [m \in Legs |-> IF m = l THEN owed[l] ELSE "none"]
    /\ UNCHANGED <<left, timer, waited, stale>>

\* mkdir succeeds.
Acquire(l) ==
    /\ At(l, "ask") /\ ~lock
    /\ lock' = TRUE
    /\ Goto(l, IF l \in RamFirst THEN "start" ELSE "gate")
    /\ owed' = [m \in Legs |-> IF m = l THEN owed[l] ELSE "none"]
    /\ UNCHANGED <<left, timer, waited, stale>>

\* mkdir fails and the waiting limit is reached: the leg reports and stops.
GiveUp(l) ==
    /\ At(l, "ask") /\ lock /\ waited[l] >= Limit[l]
    /\ Goto(l, "gone")
    /\ UNCHANGED <<lock, left, timer, waited, stale, owed>>

\* Slip: the wait is started over at every attempt.
SleepAfresh(l) ==
    /\ At(l, "ask") /\ lock /\ waited[l] < Limit[l]
    /\ timer' = [timer EXCEPT ![l] = Poll[l]]
    /\ waited' = [waited EXCEPT ![l] = 0]
    /\ UNCHANGED <<lock, pc, left, stale, owed>>

\* mkdir fails: sleep until the next attempt.
Sleep(l) ==
    /\ At(l, "ask") /\ lock /\ waited[l] < Limit[l]
    /\ timer' = [timer EXCEPT ![l] = Poll[l]]
    /\ UNCHANGED <<lock, pc, left, waited, stale, owed>>

----------------------------------------------------------------------------
(* Inside.                                                                 *)

\* The RAM bar, read while holding the lock.
Gate(l) ==
    /\ At(l, "gate")
    /\ Goto(l, "start") \/ Goto(l, "refuse")
    /\ stale' = [stale EXCEPT ![l] = FALSE]
    /\ UNCHANGED <<lock, left, timer, waited, owed>>

Checked(m) == pc[m] \in {"start", "run"} \/ (m \in RamFirst /\ pc[m] = "ask")

\* The model process starts.
Start(l) ==
    /\ At(l, "start")
    /\ Goto(l, "run")
    /\ stale' = [m \in Legs |-> IF m = l THEN stale[l] ELSE Checked(m)]
    /\ UNCHANGED <<lock, left, timer, waited, owed>>

\* The model process exits and the driver returns.
End(l) ==
    /\ At(l, "run")
    /\ Goto(l, "free")
    /\ UNCHANGED <<lock, left, timer, waited, stale, owed>>

\* The run fails and takes the script with it.
Die(l) ==
    /\ l \in Unguarded /\ At(l, "run")
    /\ Goto(l, "crashed")
    /\ UNCHANGED <<lock, left, timer, waited, stale, owed>>

Waiting(l) == {m \in Legs \ {l} : pc[m] = "ask"}

\* Slips: no courtesy after a run; the lock kept after a refused run.
ReleaseAtOnce(l) ==
    /\ At(l, "free") \/ At(l, "refuse")
    /\ lock' = FALSE
    /\ Goto(l, "idle")
    /\ owed' = [owed EXCEPT ![l] =
                  IF Waiting(l) = {} THEN "none"
                  ELSE IF pc[l] = "free" THEN "run" ELSE "refusal"]
    /\ UNCHANGED <<left, timer, waited, stale>>
ReleaseAfterRun(l) ==
    /\ At(l, "free") \/ At(l, "refuse")
    /\ lock' = (pc[l] = "refuse")
    /\ Goto(l, "idle")
    /\ timer' = [timer EXCEPT ![l] = Yield[l]]
    /\ UNCHANGED <<left, waited, stale, owed>>

\* rmdir, then the courtesy yield if a run was made.
Release(l) ==
    /\ At(l, "free") \/ At(l, "refuse")
    /\ lock' = FALSE
    /\ Goto(l, "idle")
    /\ timer' = [timer EXCEPT ![l] = IF pc[l] = "free" THEN Yield[l] ELSE 0]
    /\ owed' = [owed EXCEPT ![l] =
                  IF Waiting(l) = {} THEN "none"
                  ELSE IF pc[l] = "free" THEN "run" ELSE "refusal"]
    /\ UNCHANGED <<left, waited, stale>>

----------------------------------------------------------------------------
(* Time.                                                                   *)

Tick ==
    /\ \A l \in Legs : timer[l] > 0 \/ pc[l] \in {"run", "gone", "crashed"}
    /\ \E l \in Legs : timer[l] > 0
    /\ timer' = [l \in Legs |-> IF timer[l] > 0 THEN timer[l] - 1 ELSE 0]
    /\ waited' = [l \in Legs |-> IF pc[l] = "ask" THEN waited[l] + 1 ELSE waited[l]]
    /\ UNCHANGED <<lock, pc, left, stale, owed>>

\* What a leg's shell does by itself; how long a model runs is not its doing.
Shell(l) ==
    \/ Request(l) \/ Finish(l) \/ PreCheck(l) \/ Acquire(l) \/ GiveUp(l) \/ Sleep(l)
    \/ Gate(l) \/ Start(l) \/ Release(l)
Model(l) == End(l) \/ Die(l)

Next == Tick \/ \E l \in Legs : Shell(l) \/ Model(l)

Spec == Init /\ [][Next]_vars

\* The clock runs and every shell makes progress; a run may last for ever.
FairSpec == Spec /\ WF_vars(Tick) /\ \A l \in Legs : WF_vars(Shell(l))

----------------------------------------------------------------------------
(* Properties.                                                             *)

TypeOK ==
    /\ lock \in BOOLEAN
    /\ pc \in [Legs -> Places]
    /\ left \in [Legs -> Nat] /\ timer \in [Legs -> Nat] /\ waited \in [Legs -> Nat]
    /\ stale \in [Legs -> BOOLEAN]
    /\ owed \in [Legs -> {"none", "run", "refusal"}]

Holds(l) == pc[l] \in {"gate", "refuse", "start", "run", "free"}
Occupies(l) == Holds(l) \/ pc[l] = "crashed"

\* The runlock is a mutual exclusion lock for legs that use any mix of the
\* wrappers: the legs that are between their mkdir and their rmdir, or were
\* killed there, implement BoxLock.
Box == INSTANCE BoxLock WITH inside <- {l \in Legs : Occupies(l)}
ImplementsBoxLock == Box!Spec

\* The directory exists exactly while some leg is between its mkdir and its
\* rmdir: no wrapper removes a sibling's lock and none but gate1 leaks its own.
LockHasHolder == lock <=> \E l \in Legs : Occupies(l)

\* "Checked while holding the lock so nothing can race in behind it": when such
\* a leg's model starts, no other model has started since the RAM was read.
RamCheckHolds ==
    \A l \in Legs \ RamFirst : pc[l] \in {"start", "run"} => ~stale[l]

\* The courtesy yield works: a leg whose yield is longer than every sibling's
\* poll never takes the lock twice in a row while a sibling is waiting for it.
Courteous(l) == \A m \in Legs \ {l} : Poll[m] < Yield[l]
YieldGivesWay ==
    \A l \in Legs : Courteous(l) /\ Holds(l) => owed[l] # "run"

\* "Give up and report": a leg does not wait for ever, whoever holds the lock
\* and however long it runs.
NoEndlessWait == \A l \in Legs : pc[l] = "ask" ~> pc[l] # "ask"

\* If runs end, the lock comes back, unless a leg died with it.
LockComesBack ==
    (\A l \in Legs : []<>(pc[l] # "run"))
      => (lock ~> (~lock \/ \E l \in Legs : pc[l] = "crashed"))

\* gate1's own words: "House run discipline in full, per run"; the house law is
\* that the lock is "released with rmdir IMMEDIATELY after the run".
ReleasedAfterRun == lock => \E l \in Legs : Holds(l)

=============================================================================
