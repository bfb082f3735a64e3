------------------------------ MODULE Handoff ------------------------------
(***************************************************************************)
(* research/ob1b on one night: the 20b matrix (runs-knee.sh) holds the     *)
(* runlock run by run; handoff-to-120b.sh waits for its A/A run to land    *)
(* and stops it by killing its processes; chain-120b.sh notices that the   *)
(* matrix is gone and starts the 120b leg (runs-120b.sh); chain-resume.sh  *)
(* makes the rows that are left (runs-knee-resume.sh) after that.  A       *)
(* sibling leg of another workflow uses the same runlock.                  *)
(*                                                                         *)
(* Time is counted in ticks, as in RunLock: shell steps take no time, and  *)
(* whatever runs on the box (hashing, model, copying) takes any time.      *)
(***************************************************************************)
EXTENDS Integers, FiniteSets

CONSTANTS
    Rows,          \* Rows[c]: the runs client c makes
    AA,            \* the row of the matrix the handoff waits for
    Poll,          \* ticks between two attempts to take the lock
    InlinePoll,    \* the same for the first run of the 120b leg
    Yield,         \* ticks of courtesy after a run's release
    StatsPoll, EnginePoll, ChainPoll,   \* ticks between two looks
    Gap,           \* ticks between the two kills
    Settle,        \* ticks from the second kill to the look at the lock
    Hash           \* ticks that the digest of the 120b model takes at least

Clients == {"matrix", "leg120", "resume", "sibling"}
Own     == Clients \ {"sibling"}

ASSUME HandoffAssumption ==
    /\ Rows \in [Clients -> Nat]
    /\ AA \in 1 .. Rows["matrix"] /\ Rows["resume"] = Rows["matrix"]
    /\ {Poll, InlinePoll, Yield, StatsPoll, EnginePoll, ChainPoll} \subseteq Nat \ {0}
    /\ Gap \in Nat /\ Settle \in Nat /\ Hash \in Nat
    /\ StatsPoll + Gap < Yield /\ EnginePoll + Gap < Yield
    /\ Gap < Hash

VARIABLES
    lock,          \* does the directory exist
    holder,        \* history: the client that made it
    place,         \* place[c]: where client c is
    row,           \* row[c]: the row it is at
    timer,         \* timer[p]: ticks that process p still sleeps
    driver,        \* is runs-knee.sh alive
    wrapped,       \* is the wrapper of the matrix's run alive
    stats, landed, \* the rows with ob1-stats.txt, with identity.txt as well
    hand,          \* where the handoff is
    chain          \* where the chain scripts are

scripts == <<driver, wrapped, hand, chain>>
files == <<stats, landed>>
vars == <<lock, holder, place, row, timer, driver, wrapped, stats, landed, hand, chain>>

Init ==
    /\ lock = FALSE /\ holder = "none"
    /\ place = [c \in Clients |-> IF c \in {"matrix", "sibling"} THEN "idle" ELSE "off"]
    /\ row = [c \in Clients |-> 0]
    /\ timer = [p \in Clients \cup {"hand", "chain"} |-> 0]
    /\ driver = TRUE /\ wrapped = TRUE
    /\ stats = {} /\ landed = {}
    /\ hand = "stats" /\ chain = "matrix"

Goto(c, p) == place' = [place EXCEPT ![c] = p]
At(c, p) == place[c] = p /\ timer[c] = 0
Asleep(p, n) == timer' = [timer EXCEPT ![p] = n]

----------------------------------------------------------------------------
(* A client: a driver that makes its rows one by one behind the wrapper.   *)
(* The 120b leg makes its first run behind a lock loop of its own, which   *)
(* polls more slowly and reads no free RAM.                                *)
Inline(c) == c = "leg120" /\ row[c] = 1

\* The 120b leg starts with the digest of a model of 63 GB; it lasts at least
\* Hash ticks and then as long as it likes.
Digest ==
    /\ At("leg120", "digest")
    /\ Goto("leg120", "idle")
    /\ UNCHANGED <<lock, holder, row, timer, scripts, files>>

\* The next row; the resume skips one that has landed.
NextRow(c) ==
    /\ At(c, "idle") /\ row[c] < Rows[c]
    /\ row' = [row EXCEPT ![c] = @ + 1]
    /\ Goto(c, IF c = "resume" /\ row[c] + 1 \in landed THEN "idle" ELSE "ask")
    /\ UNCHANGED <<lock, holder, timer, scripts, files>>

\* The driver is through: at its last row, or after it gave up on the lock.
Finish(c) ==
    /\ \/ At(c, "idle") /\ row[c] = Rows[c]
       \/ At(c, "ask") /\ lock
    /\ Goto(c, "over")
    /\ driver' = (driver /\ c # "matrix")
    /\ UNCHANGED <<lock, holder, row, timer, wrapped, hand, chain, files>>

Acquire(c) ==
    /\ At(c, "ask") /\ ~lock
    /\ lock' = TRUE /\ holder' = c
    /\ Goto(c, "gate")
    /\ UNCHANGED <<row, timer, scripts, files>>

Sleep(c) ==
    /\ At(c, "ask") /\ lock
    /\ Asleep(c, IF Inline(c) THEN InlinePoll ELSE Poll)
    /\ UNCHANGED <<lock, holder, place, row, scripts, files>>

\* Where a wrapper's exit leaves its client: a driver that was killed does not
\* go on.
Onward(c) == IF c = "matrix" /\ ~driver THEN "over" ELSE "idle"

\* Free RAM is read; below the bar: release and exit 76, no yield.
Gate(c) ==
    /\ At(c, "gate")
    /\ \/ Goto(c, "before") /\ UNCHANGED lock
       \/ ~Inline(c) /\ Goto(c, Onward(c)) /\ lock' = FALSE
    /\ UNCHANGED <<holder, row, timer, scripts, files>>

\* The engine starts after the binary and the corpus have been hashed.
StartEngine(c) ==
    /\ place[c] = "before"
    /\ Goto(c, "engine")
    /\ UNCHANGED <<lock, holder, row, timer, scripts, files>>

\* The row of the 20b matrix that a client makes.
RowOf(c) == IF c \in {"matrix", "resume"} THEN {row[c]} ELSE {}

\* The engine writes ob1-stats.txt, and is still there.
LandStats(c) ==
    /\ place[c] = "engine" /\ ~(RowOf(c) \subseteq stats)
    /\ stats' = stats \cup RowOf(c)
    /\ UNCHANGED <<lock, holder, place, row, timer, landed, scripts>>

\* It exits, with its statistics written or without.
EndEngine(c) ==
    /\ place[c] = "engine"
    /\ Goto(c, "after")
    /\ UNCHANGED <<lock, holder, row, timer, scripts, files>>

\* identity.txt and the copies are written; then the wrapper, if it is still
\* there, releases and yields.
Release(c) ==
    /\ place[c] = "after"
    /\ landed' = landed \cup (stats \cap RowOf(c))
    /\ IF c = "matrix" /\ ~wrapped
       THEN Goto(c, "over") /\ UNCHANGED <<lock, timer>>
       ELSE Goto(c, "yield") /\ lock' = FALSE /\ Asleep(c, Yield)
    /\ UNCHANGED <<holder, row, scripts, stats>>

EndYield(c) ==
    /\ At(c, "yield")
    /\ Goto(c, Onward(c))
    /\ UNCHANGED <<lock, holder, row, timer, scripts, files>>

----------------------------------------------------------------------------
(* The handoff.                                                            *)

Hand(p) == hand = p /\ timer["hand"] = 0
client == <<lock, holder, place, row>>

\* Every 30 s: has the A/A run's ob1-stats.txt landed, has the matrix left?
AwaitStats ==
    /\ Hand("stats")
    /\ \/ AA \in stats /\ hand' = "engine" /\ UNCHANGED timer
       \/ AA \notin stats /\ ~driver /\ hand' = "left" /\ UNCHANGED timer
       \/ AA \notin stats /\ driver /\ Asleep("hand", StatsPoll) /\ UNCHANGED hand
    /\ UNCHANGED <<client, driver, wrapped, chain, files>>

\* Slip: nobody looks for the engine.
SkipEngine ==
    /\ Hand("engine")
    /\ hand' = "driver"
    /\ UNCHANGED <<client, timer, driver, wrapped, chain, files>>

\* Every 10 s: is an engine of this leg running?
AwaitEngine ==
    /\ Hand("engine")
    /\ IF \E c \in Own : place[c] = "engine"
       THEN Asleep("hand", EnginePoll) /\ UNCHANGED hand
       ELSE hand' = "driver" /\ UNCHANGED timer
    /\ UNCHANGED <<client, driver, wrapped, chain, files>>

\* Slip: the pattern does not match the driver.
MissDriver ==
    /\ Hand("driver")
    /\ hand' = "wrapper" /\ Asleep("hand", Gap)
    /\ UNCHANGED <<client, driver, wrapped, chain, files>>

KillDriver ==
    /\ Hand("driver")
    /\ driver' = FALSE
    /\ Goto("matrix", IF place["matrix"] = "idle" THEN "over" ELSE place["matrix"])
    /\ hand' = "wrapper" /\ Asleep("hand", Gap)
    /\ UNCHANGED <<lock, holder, row, wrapped, chain, files>>

\* A wrapper that is killed between mkdir and rmdir leaves its lock behind; a
\* job that it started goes on.
KillWrapper ==
    /\ Hand("wrapper")
    /\ wrapped' = (wrapped /\ place["matrix"] \notin {"gate", "before", "engine", "after"})
    /\ Goto("matrix", IF place["matrix"] \in {"before", "engine", "after"}
                       THEN place["matrix"] ELSE Onward("matrix"))
    /\ hand' = "lock" /\ Asleep("hand", Settle)
    /\ UNCHANGED <<lock, holder, row, driver, chain, files>>

\* Slip: the lock is left alone.
LeaveLock ==
    /\ Hand("lock")
    /\ hand' = "over"
    /\ UNCHANGED <<client, timer, driver, wrapped, chain, files>>

\* The lock exists and no engine runs anywhere: it must be this leg's own.
ClearLock ==
    /\ Hand("lock")
    /\ lock' = (lock /\ \E c \in Clients : place[c] = "engine")
    /\ hand' = "over"
    /\ UNCHANGED <<holder, place, row, timer, driver, wrapped, chain, files>>

----------------------------------------------------------------------------
(* The chain scripts.                                                      *)

\* chain-120b.sh, every 60 s: is the matrix gone?
StartLeg120 ==
    /\ chain = "matrix" /\ timer["chain"] = 0
    /\ IF driver
       THEN Asleep("chain", ChainPoll) /\ UNCHANGED <<place, chain>>
       ELSE Goto("leg120", "digest") /\ Asleep("leg120", Hash) /\ chain' = "leg120"
    /\ UNCHANGED <<lock, holder, row, driver, wrapped, hand, files>>

\* Slip: the 120b leg is looked for under another name.
StartResumeAtOnce ==
    /\ chain = "leg120" /\ timer["chain"] = 0
    /\ Goto("resume", "idle") /\ chain' = "over"
    /\ UNCHANGED <<lock, holder, row, timer, driver, wrapped, hand, files>>

\* chain-resume.sh, started once the 120b leg is there: is it gone?
StartResume ==
    /\ chain = "leg120" /\ timer["chain"] = 0
    /\ IF place["leg120"] # "over"
       THEN Asleep("chain", ChainPoll) /\ UNCHANGED <<place, chain>>
       ELSE Goto("resume", "idle") /\ chain' = "over" /\ UNCHANGED timer
    /\ UNCHANGED <<lock, holder, row, driver, wrapped, hand, files>>

----------------------------------------------------------------------------
Shell(c) == NextRow(c) \/ Finish(c) \/ Acquire(c) \/ Sleep(c) \/ Gate(c) \/ EndYield(c)
Job(c)   == StartEngine(c) \/ LandStats(c) \/ EndEngine(c) \/ Release(c)
Script   == \/ AwaitStats \/ AwaitEngine \/ KillDriver \/ KillWrapper \/ ClearLock
            \/ StartLeg120 \/ StartResume

\* Time passes when nobody has a shell step to make.
Tick ==
    /\ \A c \in Clients : timer[c] > 0 \/ place[c] \notin {"idle", "ask", "gate", "yield"}
    /\ timer["hand"] > 0 \/ hand \in {"left", "over"}
    /\ timer["chain"] > 0 \/ chain = "over"
    /\ \E p \in DOMAIN timer : timer[p] > 0
    /\ timer' = [p \in DOMAIN timer |-> IF timer[p] > 0 THEN timer[p] - 1 ELSE 0]
    /\ UNCHANGED <<client, scripts, files>>

Next == Tick \/ Script \/ Digest \/ \E c \in Clients : Shell(c) \/ Job(c)

Spec == Init /\ [][Next]_vars

\* The clock and the shells go on; a job on the box, and the digest of the model,
\* may last for ever.
FairSpec == Spec /\ WF_vars(Tick) /\ WF_vars(Script)
                 /\ \A c \in Clients : WF_vars(Shell(c))

----------------------------------------------------------------------------
(* Properties.                                                             *)

\* "This leg is provably not holding the lock when the matrix is stopped", as
\* far as it goes: no engine of the matrix runs without the wrapper that has to
\* release its lock.  The handoff looks for the statistics, then for the engine
\* that wrote them, and the yield behind the run outlasts either look.
EngineGuarded ==
    ~wrapped => place["matrix"] \in {"after", "over"}

\* "This leg left it stale and must clear it": the lock of a killed wrapper does
\* not outlive the handoff.
OrphanCleared ==
    hand = "over" /\ lock /\ holder = "matrix" => wrapped

\* A client queues for the lock, or holds it until its wrapper gives it back.
Competes(c) ==
    \/ place[c] \in {"idle", "ask", "gate", "before", "engine"}
    \/ place[c] = "after" /\ (c = "matrix" => wrapped)

\* "They must not run at the same time as each other (they would just queue
\* against themselves ...)": of the matrix, the 120b leg and the resume at most
\* one queues for the lock or holds it.  One lock escapes this, and openly: that
\* of a matrix whose wrapper the handoff has killed; a leg may wait for it, until
\* the same handoff looks at it.
NeverCompete ==
    /\ Cardinality({c \in Own : Competes(c)}) <= 1
    /\ \A c \in Own \ {"matrix"} :
          place[c] = "ask" /\ lock /\ holder = "matrix" => ~wrapped /\ hand = "lock"

\* Once the A/A run's engine is gone and its statistics are there the 120b leg is
\* started, however long the sibling keeps the lock.  An engine that has written
\* them and does not exit holds the handoff up for ever.
HandsOver == AA \in stats /\ place["matrix"] # "engine" ~> place["leg120"] # "off"

\* The script's own words: "A sibling's run and a sibling's lock are never
\* touched".
SiblingsLockUntouched ==
    [][hand = "lock" /\ lock /\ ~lock' /\ hand' = "over" => holder # "sibling"]_vars

=============================================================================
