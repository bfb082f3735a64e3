--------------------------- MODULE HandoffProofs ---------------------------
(***************************************************************************)
(* Proofs about Handoff, for any rows, polls and yields with which either  *)
(* look of the handoff and the gap between its kills fit into one yield:   *)
(* the engine of the matrix is never orphaned, the lock that a killed      *)
(* wrapper leaves is cleared, and the legs of this workflow never compete. *)
(***************************************************************************)
EXTENDS Handoff, FiniteSetTheorems, TLAPS

Places == {"off", "digest", "idle", "ask", "gate", "before", "engine", "after", "yield", "over"}
Sleepers == Clients \cup {"hand", "chain"}

TypeOK ==
    /\ lock \in BOOLEAN /\ holder \in Clients \cup {"none"}
    /\ place \in [Clients -> Places] /\ row \in [Clients -> Nat]
    /\ timer \in [Sleepers -> Nat]
    /\ driver \in BOOLEAN /\ wrapped \in BOOLEAN
    /\ stats \subseteq Nat /\ landed \subseteq Nat
    /\ hand \in {"stats", "engine", "driver", "wrapper", "lock", "left", "over"}
    /\ chain \in {"matrix", "leg120", "over"}

(* The 120b leg waits for the driver of the matrix to go, the resume for   *)
(* the 120b leg.                                                           *)
ChainInOrder ==
    /\ chain = "matrix" => place["leg120"] = "off" /\ place["resume"] = "off"
    /\ chain = "leg120" => ~driver /\ place["resume"] = "off"
    /\ chain = "over" => ~driver /\ place["leg120"] = "over"

(* A matrix without its driver makes no further run: its driver left after *)
(* the last row, or was killed once the A/A run was over.                  *)
DriverGone ==
    /\ ~driver => place["matrix"] \in {"after", "yield", "over"}
    /\ ~driver /\ hand \in {"stats", "engine", "driver", "left"} => place["matrix"] = "over"

(* What the handoff still sleeps before it kills the wrapper.              *)
Left == timer["hand"] + (IF hand = "wrapper" THEN 0 ELSE Gap)

(* Once the A/A run has landed its statistics the matrix is in that run's  *)
(* engine, copies the run's files, or is in the yield behind it, and that  *)
(* yield lasts longer than the handoff needs; when the handoff has looked  *)
(* for the engine, the engine is gone.                                     *)
StandsStill ==
    place["matrix"] = "after" \/ (place["matrix"] = "yield" /\ timer["matrix"] > Left)

HandInTime ==
    /\ hand = "stats" => timer["hand"] <= StatsPoll
    /\ hand = "engine" => timer["hand"] <= EnginePoll
    /\ hand = "driver" => timer["hand"] = 0
    /\ hand = "wrapper" => timer["hand"] <= Gap
    /\ hand \in {"engine", "driver", "wrapper"} => AA \in stats
    /\ hand = "wrapper" => ~driver
    /\ hand \in {"stats", "engine"} /\ AA \in stats
          => place["matrix"] \in {"over", "engine"} \/ StandsStill
    /\ hand \in {"driver", "wrapper"} => place["matrix"] = "over" \/ StandsStill

(* Between the two kills the 120b leg, if it has started, still takes the  *)
(* digest of its model.                                                    *)
DigestOutlasts ==
    hand = "wrapper" /\ place["matrix"] # "over" =>
        \/ place["leg120"] = "off"
        \/ place["leg120"] = "digest" /\ timer["leg120"] > timer["hand"]

(* A wrapper is killed while its run's files are copied, or not at all.    *)
KilledCopying ==
    /\ ~wrapped => hand \in {"lock", "over"}
    /\ hand \in {"lock", "over"} =>
          ~driver /\ (place["matrix"] = "over" \/ (place["matrix"] = "after" /\ ~wrapped))

(* Until the handoff clears the lock it excludes: a client between its     *)
(* mkdir and its rmdir made the directory that exists; and one made by the *)
(* matrix stands only while its wrapper is between the two, or was killed. *)
Owns(c) == place[c] \in {"gate", "before", "engine"}
              \/ (place[c] = "after" /\ (c = "matrix" => wrapped))
LockKept ==
    /\ hand # "over" => \A c \in Clients : Owns(c) => lock /\ holder = c
    /\ lock /\ holder = "matrix" /\ wrapped => Owns("matrix")

IInv ==
    /\ TypeOK
    /\ ChainInOrder
    /\ DriverGone
    /\ HandInTime
    /\ DigestOutlasts
    /\ KilledCopying
    /\ LockKept
    /\ OrphanCleared

(* Every step keeps the types.                                             *)
LEMMA StepTypeOK == TypeOK /\ Next => TypeOK'
<1> SUFFICES ASSUME TypeOK, Next PROVE TypeOK'
    OBVIOUS
<1> USE HandoffAssumption DEF TypeOK, Places, Sleepers, Clients, Goto, At, Asleep
<1>1. CASE Tick
    BY <1>1 DEF Tick, client, scripts, files
<1>2. CASE Digest
    BY <1>2 DEF Digest, scripts, files
<1>3. ASSUME NEW c \in Clients, NextRow(c) PROVE TypeOK'
    BY <1>3 DEF NextRow, scripts, files
<1>4. ASSUME NEW c \in Clients, Finish(c) PROVE TypeOK'
    BY <1>4 DEF Finish, scripts, files
<1>5. ASSUME NEW c \in Clients, Acquire(c) PROVE TypeOK'
    BY <1>5 DEF Acquire, scripts, files
<1>6. ASSUME NEW c \in Clients, Sleep(c) PROVE TypeOK'
    <2>1. (IF Inline(c) THEN InlinePoll ELSE Poll) \in Nat
        OBVIOUS
    <2>2. QED BY <1>6, <2>1 DEF Sleep, scripts, files
<1>7. ASSUME NEW c \in Clients, Gate(c) PROVE TypeOK'
    <2>1. PICK p \in Places : Goto(c, p)
        BY <1>7 DEF Gate, Onward
    <2>2. place' \in [Clients -> Places]
        BY <2>1
    <2>3. lock' \in BOOLEAN
        BY <1>7 DEF Gate
    <2>4. QED BY <1>7, <2>2, <2>3 DEF Gate, scripts, files
<1>8. ASSUME NEW c \in Clients, EndYield(c) PROVE TypeOK'
    BY <1>8 DEF EndYield, scripts, files, Onward
<1>9. ASSUME NEW c \in Clients, StartEngine(c) PROVE TypeOK'
    BY <1>9 DEF StartEngine, scripts, files
<1>10. ASSUME NEW c \in Clients, EndEngine(c) PROVE TypeOK'
    BY <1>10 DEF EndEngine, scripts, files
<1>19. ASSUME NEW c \in Clients, LandStats(c) PROVE TypeOK'
    <2>1. RowOf(c) \subseteq Nat
        BY DEF RowOf
    <2>2. stats' \subseteq Nat
        BY <1>19, <2>1 DEF LandStats
    <2>3. QED BY <1>19, <2>2 DEF LandStats, scripts
<1>11. ASSUME NEW c \in Clients, Release(c) PROVE TypeOK'
    <2>1. landed' \subseteq Nat /\ lock' \in BOOLEAN
        BY <1>11 DEF Release
    <2>2. PICK p \in Places : Goto(c, p)
        BY <1>11 DEF Release
    <2>3. timer' \in [Sleepers -> Nat]
        BY <1>11 DEF Release
    <2>4. QED BY <1>11, <2>1, <2>2, <2>3 DEF Release, scripts
<1>12. CASE AwaitStats
    BY <1>12 DEF AwaitStats, client, files, scripts, Hand
<1>13. CASE AwaitEngine
    BY <1>13 DEF AwaitEngine, client, files, scripts, Hand
<1>14. CASE KillDriver
    BY <1>14 DEF KillDriver, client, files, scripts, Hand
<1>15. CASE KillWrapper
    <2>1. place' \in [Clients -> Places]
        <3>1. place' = place \/ Goto("matrix", Onward("matrix"))
            BY <1>15 DEF KillWrapper
        <3>2. Onward("matrix") \in Places
            BY DEF Onward
        <3>3. QED BY <3>1, <3>2
    <2>2. timer' \in [Sleepers -> Nat] /\ wrapped' \in BOOLEAN
        BY <1>15 DEF KillWrapper
    <2>3. QED BY <1>15, <2>1, <2>2 DEF KillWrapper, files
<1>16. CASE ClearLock
    BY <1>16 DEF ClearLock, client, files, scripts, Hand
<1>17. CASE StartLeg120
    BY <1>17 DEF StartLeg120, client, files, scripts
<1>18. CASE StartResume
    BY <1>18 DEF StartResume, client, files, scripts
<1>20. QED
    BY <1>1, <1>2, <1>3, <1>4, <1>5, <1>6, <1>7, <1>8, <1>9, <1>10,
       <1>11, <1>12, <1>13, <1>14, <1>15, <1>16, <1>17, <1>18, <1>19
       DEF Next, Shell, Job, Script

(* The chain scripts start the legs one after the other.                   *)
LEMMA StepChain == TypeOK /\ ChainInOrder /\ Next => ChainInOrder'
<1> SUFFICES ASSUME TypeOK, ChainInOrder, Next PROVE ChainInOrder'
    OBVIOUS
<1> USE DEF TypeOK, ChainInOrder, Clients, Goto, At
<1>1. CASE Tick
    BY <1>1 DEF Tick, client, scripts, files
<1>2. CASE Digest
    BY <1>2 DEF Digest, scripts, files
<1>3. ASSUME NEW c \in Clients, NextRow(c) PROVE ChainInOrder'
    BY <1>3 DEF NextRow, scripts, files
<1>4. ASSUME NEW c \in Clients, Finish(c) PROVE ChainInOrder'
    BY <1>4 DEF Finish, scripts, files
<1>5. ASSUME NEW c \in Clients, Acquire(c) PROVE ChainInOrder'
    BY <1>5 DEF Acquire, scripts, files
<1>6. ASSUME NEW c \in Clients, Sleep(c) PROVE ChainInOrder'
    BY <1>6 DEF Sleep, scripts, files, Inline
<1>7. ASSUME NEW c \in Clients, Gate(c) PROVE ChainInOrder'
    BY <1>7 DEF Gate, scripts, files, Inline, Onward
<1>8. ASSUME NEW c \in Clients, EndYield(c) PROVE ChainInOrder'
    BY <1>8 DEF EndYield, scripts, files, Onward
<1>9. ASSUME NEW c \in Clients, StartEngine(c) PROVE ChainInOrder'
    BY <1>9 DEF StartEngine, scripts, files
<1>10. ASSUME NEW c \in Clients, EndEngine(c) PROVE ChainInOrder'
    BY <1>10 DEF EndEngine, scripts, files
<1>19. ASSUME NEW c \in Clients, LandStats(c) PROVE ChainInOrder'
    BY <1>19 DEF LandStats, scripts, files, RowOf
<1>11. ASSUME NEW c \in Clients, Release(c) PROVE ChainInOrder'
    BY <1>11 DEF Release, scripts, files, RowOf
<1>12. CASE AwaitStats
    BY <1>12 DEF AwaitStats, client, files, scripts, Hand
<1>13. CASE AwaitEngine
    BY <1>13 DEF AwaitEngine, client, files, scripts, Hand
<1>14. CASE KillDriver
    BY <1>14 DEF KillDriver, client, files, scripts, Hand
<1>15. CASE KillWrapper
    BY <1>15 DEF KillWrapper, client, files, scripts, Hand, Onward
<1>16. CASE ClearLock
    BY <1>16 DEF ClearLock, client, files, scripts, Hand
<1>17. CASE StartLeg120
    BY <1>17 DEF StartLeg120, client, files, scripts
<1>18. CASE StartResume
    BY <1>18 DEF StartResume, client, files, scripts
<1>20. QED
    BY <1>1, <1>2, <1>3, <1>4, <1>5, <1>6, <1>7, <1>8, <1>9, <1>10,
       <1>11, <1>12, <1>13, <1>14, <1>15, <1>16, <1>17, <1>18, <1>19
       DEF Next, Shell, Job, Script

(* A matrix whose driver is gone stays out of the queue.                   *)
LEMMA StepDriver == TypeOK /\ HandInTime /\ KilledCopying /\ DriverGone /\ Next => DriverGone'
<1> SUFFICES ASSUME TypeOK, HandInTime, KilledCopying, DriverGone, Next PROVE DriverGone'
    OBVIOUS
<1> USE DEF TypeOK, HandInTime, StandsStill, KilledCopying, DriverGone, Clients, Goto, At
<1>1. CASE Tick
    BY <1>1 DEF Tick, client, scripts, files
<1>2. CASE Digest
    BY <1>2 DEF Digest, scripts, files
<1>3. ASSUME NEW c \in Clients, NextRow(c) PROVE DriverGone'
    BY <1>3 DEF NextRow, scripts, files
<1>4. ASSUME NEW c \in Clients, Finish(c) PROVE DriverGone'
    BY <1>4 DEF Finish, scripts, files
<1>5. ASSUME NEW c \in Clients, Acquire(c) PROVE DriverGone'
    BY <1>5 DEF Acquire, scripts, files
<1>6. ASSUME NEW c \in Clients, Sleep(c) PROVE DriverGone'
    BY <1>6 DEF Sleep, scripts, files, Inline
<1>7. ASSUME NEW c \in Clients, Gate(c) PROVE DriverGone'
    BY <1>7 DEF Gate, scripts, files, Inline, Onward
<1>8. ASSUME NEW c \in Clients, EndYield(c) PROVE DriverGone'
    BY <1>8 DEF EndYield, scripts, files, Onward
<1>9. ASSUME NEW c \in Clients, StartEngine(c) PROVE DriverGone'
    BY <1>9 DEF StartEngine, scripts, files
<1>10. ASSUME NEW c \in Clients, EndEngine(c) PROVE DriverGone'
    BY <1>10 DEF EndEngine, scripts, files
<1>19. ASSUME NEW c \in Clients, LandStats(c) PROVE DriverGone'
    BY <1>19 DEF LandStats, scripts, files, RowOf
<1>11. ASSUME NEW c \in Clients, Release(c) PROVE DriverGone'
    BY <1>11 DEF Release, scripts, files, RowOf
<1>12. CASE AwaitStats
    BY <1>12 DEF AwaitStats, client, files, scripts, Hand
<1>13. CASE AwaitEngine
    BY <1>13 DEF AwaitEngine, client, files, scripts, Hand
<1>14. CASE KillDriver
    BY <1>14 DEF KillDriver, client, files, scripts, Hand
<1>15. CASE KillWrapper
    BY <1>15 DEF KillWrapper, client, files, scripts, Hand, Onward
<1>16. CASE ClearLock
    BY <1>16 DEF ClearLock, client, files, scripts, Hand
<1>17. CASE StartLeg120
    BY <1>17 DEF StartLeg120, client, files, scripts
<1>18. CASE StartResume
    BY <1>18 DEF StartResume, client, files, scripts
<1>20. QED
    BY <1>1, <1>2, <1>3, <1>4, <1>5, <1>6, <1>7, <1>8, <1>9, <1>10,
       <1>11, <1>12, <1>13, <1>14, <1>15, <1>16, <1>17, <1>18, <1>19
       DEF Next, Shell, Job, Script

(* The handoff kills before the yield behind the A/A run is over.          *)
LEMMA StepHand == TypeOK /\ ChainInOrder /\ DriverGone /\ KilledCopying /\ HandInTime /\ Next => HandInTime'
<1> SUFFICES ASSUME TypeOK, ChainInOrder, DriverGone, KilledCopying, HandInTime, Next PROVE HandInTime'
    OBVIOUS
<1> USE HandoffAssumption DEF TypeOK, ChainInOrder, DriverGone, KilledCopying, HandInTime,
        StandsStill, Left, Clients, Own, Sleepers, Goto, At, Asleep
<1>1. CASE Tick
    BY <1>1 DEF Tick, client, scripts, files
<1>2. CASE Digest
    BY <1>2 DEF Digest, scripts, files
<1>3. ASSUME NEW c \in Clients, NextRow(c) PROVE HandInTime'
    BY <1>3 DEF NextRow, scripts, files
<1>4. ASSUME NEW c \in Clients, Finish(c) PROVE HandInTime'
    BY <1>4 DEF Finish, scripts, files
<1>5. ASSUME NEW c \in Clients, Acquire(c) PROVE HandInTime'
    BY <1>5 DEF Acquire, scripts, files
<1>6. ASSUME NEW c \in Clients, Sleep(c) PROVE HandInTime'
    BY <1>6 DEF Sleep, scripts, files, Inline
<1>7. ASSUME NEW c \in Clients, Gate(c) PROVE HandInTime'
    BY <1>7 DEF Gate, scripts, files, Inline, Onward
<1>8. ASSUME NEW c \in Clients, EndYield(c) PROVE HandInTime'
    BY <1>8 DEF EndYield, scripts, files, Onward
<1>9. ASSUME NEW c \in Clients, StartEngine(c) PROVE HandInTime'
    BY <1>9 DEF StartEngine, scripts, files
<1>10. ASSUME NEW c \in Clients, EndEngine(c) PROVE HandInTime'
    BY <1>10 DEF EndEngine, scripts, files
<1>19. ASSUME NEW c \in Clients, LandStats(c) PROVE HandInTime'
    BY <1>19 DEF LandStats, scripts, files, RowOf
<1>11. ASSUME NEW c \in Clients, Release(c) PROVE HandInTime'
    BY <1>11 DEF Release, scripts, files, RowOf
<1>12. CASE AwaitStats
    BY <1>12 DEF AwaitStats, client, files, scripts, Hand
<1>13. CASE AwaitEngine
    BY <1>13 DEF AwaitEngine, client, files, scripts, Hand
<1>14. CASE KillDriver
    BY <1>14 DEF KillDriver, client, files, scripts, Hand
<1>15. CASE KillWrapper
    BY <1>15 DEF KillWrapper, client, files, scripts, Hand, Onward
<1>16. CASE ClearLock
    BY <1>16 DEF ClearLock, client, files, scripts, Hand
<1>17. CASE StartLeg120
    BY <1>17 DEF StartLeg120, client, files, scripts
<1>18. CASE StartResume
    BY <1>18 DEF StartResume, client, files, scripts
<1>20. QED
    BY <1>1, <1>2, <1>3, <1>4, <1>5, <1>6, <1>7, <1>8, <1>9, <1>10,
       <1>11, <1>12, <1>13, <1>14, <1>15, <1>16, <1>17, <1>18, <1>19
       DEF Next, Shell, Job, Script

(* The digest of the 120b leg lasts longer than the gap between the kills. *)
LEMMA StepDigest ==
    TypeOK /\ ChainInOrder /\ DriverGone /\ HandInTime /\ DigestOutlasts /\ Next => DigestOutlasts'
<1> SUFFICES ASSUME TypeOK, ChainInOrder, DriverGone, HandInTime, DigestOutlasts, Next
             PROVE  DigestOutlasts'
    OBVIOUS
<1> USE HandoffAssumption DEF TypeOK, ChainInOrder, DriverGone, HandInTime, DigestOutlasts,
        StandsStill, Left, Clients, Sleepers, Goto, At, Asleep
<1>1. CASE Tick
    BY <1>1 DEF Tick, client, scripts, files
<1>2. CASE Digest
    BY <1>2 DEF Digest, scripts, files
<1>3. ASSUME NEW c \in Clients, NextRow(c) PROVE DigestOutlasts'
    BY <1>3 DEF NextRow, scripts, files
<1>4. ASSUME NEW c \in Clients, Finish(c) PROVE DigestOutlasts'
    BY <1>4 DEF Finish, scripts, files
<1>5. ASSUME NEW c \in Clients, Acquire(c) PROVE DigestOutlasts'
    BY <1>5 DEF Acquire, scripts, files
<1>6. ASSUME NEW c \in Clients, Sleep(c) PROVE DigestOutlasts'
    BY <1>6 DEF Sleep, scripts, files, Inline
<1>7. ASSUME NEW c \in Clients, Gate(c) PROVE DigestOutlasts'
    BY <1>7 DEF Gate, scripts, files, Inline, Onward
<1>8. ASSUME NEW c \in Clients, EndYield(c) PROVE DigestOutlasts'
    BY <1>8 DEF EndYield, scripts, files, Onward
<1>9. ASSUME NEW c \in Clients, StartEngine(c) PROVE DigestOutlasts'
    BY <1>9 DEF StartEngine, scripts, files
<1>10. ASSUME NEW c \in Clients, EndEngine(c) PROVE DigestOutlasts'
    BY <1>10 DEF EndEngine, scripts, files
<1>19. ASSUME NEW c \in Clients, LandStats(c) PROVE DigestOutlasts'
    BY <1>19 DEF LandStats, scripts, files, RowOf
<1>11. ASSUME NEW c \in Clients, Release(c) PROVE DigestOutlasts'
    BY <1>11 DEF Release, scripts, files, RowOf
<1>12. CASE AwaitStats
    BY <1>12 DEF AwaitStats, client, files, scripts, Hand
<1>13. CASE AwaitEngine
    BY <1>13 DEF AwaitEngine, client, files, scripts, Hand
<1>14. CASE KillDriver
    BY <1>14 DEF KillDriver, client, files, scripts, Hand
<1>15. CASE KillWrapper
    BY <1>15 DEF KillWrapper, client, files, scripts, Hand, Onward
<1>16. CASE ClearLock
    BY <1>16 DEF ClearLock, client, files, scripts, Hand
<1>17. CASE StartLeg120
    BY <1>17 DEF StartLeg120, client, files, scripts
<1>18. CASE StartResume
    BY <1>18 DEF StartResume, client, files, scripts
<1>20. QED
    BY <1>1, <1>2, <1>3, <1>4, <1>5, <1>6, <1>7, <1>8, <1>9, <1>10,
       <1>11, <1>12, <1>13, <1>14, <1>15, <1>16, <1>17, <1>18, <1>19
       DEF Next, Shell, Job, Script

(* The wrapper is killed while the files of its run are copied.            *)
LEMMA StepKilled == TypeOK /\ HandInTime /\ KilledCopying /\ Next => KilledCopying'
<1> SUFFICES ASSUME TypeOK, HandInTime, KilledCopying, Next PROVE KilledCopying'
    OBVIOUS
<1> USE DEF TypeOK, HandInTime, StandsStill, Left, KilledCopying, Clients, Sleepers, Goto, At, Asleep
<1>1. CASE Tick
    BY <1>1 DEF Tick, client, scripts, files
<1>2. CASE Digest
    BY <1>2 DEF Digest, scripts, files
<1>3. ASSUME NEW c \in Clients, NextRow(c) PROVE KilledCopying'
    BY <1>3 DEF NextRow, scripts, files
<1>4. ASSUME NEW c \in Clients, Finish(c) PROVE KilledCopying'
    BY <1>4 DEF Finish, scripts, files
<1>5. ASSUME NEW c \in Clients, Acquire(c) PROVE KilledCopying'
    BY <1>5 DEF Acquire, scripts, files
<1>6. ASSUME NEW c \in Clients, Sleep(c) PROVE KilledCopying'
    BY <1>6 DEF Sleep, scripts, files, Inline
<1>7. ASSUME NEW c \in Clients, Gate(c) PROVE KilledCopying'
    BY <1>7 DEF Gate, scripts, files, Inline, Onward
<1>8. ASSUME NEW c \in Clients, EndYield(c) PROVE KilledCopying'
    BY <1>8 DEF EndYield, scripts, files, Onward
<1>9. ASSUME NEW c \in Clients, StartEngine(c) PROVE KilledCopying'
    BY <1>9 DEF StartEngine, scripts, files
<1>10. ASSUME NEW c \in Clients, EndEngine(c) PROVE KilledCopying'
    BY <1>10 DEF EndEngine, scripts, files
<1>19. ASSUME NEW c \in Clients, LandStats(c) PROVE KilledCopying'
    BY <1>19 DEF LandStats, scripts, files, RowOf
<1>11. ASSUME NEW c \in Clients, Release(c) PROVE KilledCopying'
    BY <1>11 DEF Release, scripts, files, RowOf
<1>12. CASE AwaitStats
    BY <1>12 DEF AwaitStats, client, files, scripts, Hand
<1>13. CASE AwaitEngine
    BY <1>13 DEF AwaitEngine, client, files, scripts, Hand
<1>14. CASE KillDriver
    BY <1>14 DEF KillDriver, client, files, scripts, Hand
<1>15. CASE KillWrapper
    BY <1>15 DEF KillWrapper, client, files, scripts, Hand, Onward
<1>16. CASE ClearLock
    BY <1>16 DEF ClearLock, client, files, scripts, Hand
<1>17. CASE StartLeg120
    BY <1>17 DEF StartLeg120, client, files, scripts
<1>18. CASE StartResume
    BY <1>18 DEF StartResume, client, files, scripts
<1>20. QED
    BY <1>1, <1>2, <1>3, <1>4, <1>5, <1>6, <1>7, <1>8, <1>9, <1>10,
       <1>11, <1>12, <1>13, <1>14, <1>15, <1>16, <1>17, <1>18, <1>19
       DEF Next, Shell, Job, Script

(* Until the handoff clears it the lock is its holder's.                   *)
LEMMA StepLock == TypeOK /\ HandInTime /\ KilledCopying /\ LockKept /\ Next => LockKept'
<1> SUFFICES ASSUME TypeOK, HandInTime, KilledCopying, LockKept, Next PROVE LockKept'
    OBVIOUS
<1> USE DEF TypeOK, HandInTime, StandsStill, Left, KilledCopying, LockKept, Owns, Clients,
        Sleepers, Goto, At, Asleep
<1>1. CASE Tick
    BY <1>1 DEF Tick, client, scripts, files
<1>2. CASE Digest
    BY <1>2 DEF Digest, scripts, files
<1>3. ASSUME NEW c \in Clients, NextRow(c) PROVE LockKept'
    BY <1>3 DEF NextRow, scripts, files
<1>4. ASSUME NEW c \in Clients, Finish(c) PROVE LockKept'
    BY <1>4 DEF Finish, scripts, files
<1>5. ASSUME NEW c \in Clients, Acquire(c) PROVE LockKept'
    BY <1>5 DEF Acquire, scripts, files
<1>6. ASSUME NEW c \in Clients, Sleep(c) PROVE LockKept'
    BY <1>6 DEF Sleep, scripts, files, Inline
<1>7. ASSUME NEW c \in Clients, Gate(c) PROVE LockKept'
    BY <1>7 DEF Gate, scripts, files, Inline, Onward
<1>8. ASSUME NEW c \in Clients, EndYield(c) PROVE LockKept'
    BY <1>8 DEF EndYield, scripts, files, Onward
<1>9. ASSUME NEW c \in Clients, StartEngine(c) PROVE LockKept'
    BY <1>9 DEF StartEngine, scripts, files
<1>10. ASSUME NEW c \in Clients, EndEngine(c) PROVE LockKept'
    BY <1>10 DEF EndEngine, scripts, files
<1>19. ASSUME NEW c \in Clients, LandStats(c) PROVE LockKept'
    BY <1>19 DEF LandStats, scripts, files, RowOf
<1>11. ASSUME NEW c \in Clients, Release(c) PROVE LockKept'
    BY <1>11 DEF Release, scripts, files, RowOf
<1>12. CASE AwaitStats
    BY <1>12 DEF AwaitStats, client, files, scripts, Hand
<1>13. CASE AwaitEngine
    BY <1>13 DEF AwaitEngine, client, files, scripts, Hand
<1>14. CASE KillDriver
    BY <1>14 DEF KillDriver, client, files, scripts, Hand
<1>15. CASE KillWrapper
    BY <1>15 DEF KillWrapper, client, files, scripts, Hand, Onward
<1>16. CASE ClearLock
    BY <1>16 DEF ClearLock, client, files, scripts, Hand
<1>17. CASE StartLeg120
    BY <1>17 DEF StartLeg120, client, files, scripts
<1>18. CASE StartResume
    BY <1>18 DEF StartResume, client, files, scripts
<1>20. QED
    BY <1>1, <1>2, <1>3, <1>4, <1>5, <1>6, <1>7, <1>8, <1>9, <1>10,
       <1>11, <1>12, <1>13, <1>14, <1>15, <1>16, <1>17, <1>18, <1>19
       DEF Next, Shell, Job, Script

(* The lock of a killed wrapper is cleared for good.                       *)
LEMMA StepOrphan == TypeOK /\ KilledCopying /\ LockKept /\ OrphanCleared /\ Next => OrphanCleared'
<1> SUFFICES ASSUME TypeOK, KilledCopying, LockKept, OrphanCleared, Next PROVE OrphanCleared'
    OBVIOUS
<1> USE DEF TypeOK, KilledCopying, LockKept, Owns, OrphanCleared, Clients, Goto, At, Asleep
<1>1. CASE Tick
    BY <1>1 DEF Tick, client, scripts, files
<1>2. CASE Digest
    BY <1>2 DEF Digest, scripts, files
<1>3. ASSUME NEW c \in Clients, NextRow(c) PROVE OrphanCleared'
    BY <1>3 DEF NextRow, scripts, files
<1>4. ASSUME NEW c \in Clients, Finish(c) PROVE OrphanCleared'
    BY <1>4 DEF Finish, scripts, files
<1>5. ASSUME NEW c \in Clients, Acquire(c) PROVE OrphanCleared'
    BY <1>5 DEF Acquire, scripts, files
<1>6. ASSUME NEW c \in Clients, Sleep(c) PROVE OrphanCleared'
    BY <1>6 DEF Sleep, scripts, files, Inline
<1>7. ASSUME NEW c \in Clients, Gate(c) PROVE OrphanCleared'
    BY <1>7 DEF Gate, scripts, files, Inline, Onward
<1>8. ASSUME NEW c \in Clients, EndYield(c) PROVE OrphanCleared'
    BY <1>8 DEF EndYield, scripts, files, Onward
<1>9. ASSUME NEW c \in Clients, StartEngine(c) PROVE OrphanCleared'
    BY <1>9 DEF StartEngine, scripts, files
<1>10. ASSUME NEW c \in Clients, EndEngine(c) PROVE OrphanCleared'
    BY <1>10 DEF EndEngine, scripts, files
<1>19. ASSUME NEW c \in Clients, LandStats(c) PROVE OrphanCleared'
    BY <1>19 DEF LandStats, scripts, files, RowOf
<1>11. ASSUME NEW c \in Clients, Release(c) PROVE OrphanCleared'
    BY <1>11 DEF Release, scripts, files, RowOf
<1>12. CASE AwaitStats
    BY <1>12 DEF AwaitStats, client, files, scripts, Hand
<1>13. CASE AwaitEngine
    BY <1>13 DEF AwaitEngine, client, files, scripts, Hand
<1>14. CASE KillDriver
    BY <1>14 DEF KillDriver, client, files, scripts, Hand
<1>15. CASE KillWrapper
    BY <1>15 DEF KillWrapper, client, files, scripts, Hand, Onward
<1>16. CASE ClearLock
    BY <1>16 DEF ClearLock, client, files, scripts, Hand
<1>17. CASE StartLeg120
    BY <1>17 DEF StartLeg120, client, files, scripts
<1>18. CASE StartResume
    BY <1>18 DEF StartResume, client, files, scripts
<1>20. QED
    BY <1>1, <1>2, <1>3, <1>4, <1>5, <1>6, <1>7, <1>8, <1>9, <1>10,
       <1>11, <1>12, <1>13, <1>14, <1>15, <1>16, <1>17, <1>18, <1>19
       DEF Next, Shell, Job, Script

(* The evening on which the scripts are started satisfies it.              *)
LEMMA InitIInv == Init => IInv
<1> SUFFICES ASSUME Init PROVE IInv
    OBVIOUS
<1> USE HandoffAssumption DEF Init, Clients
<1>1. TypeOK
    BY DEF TypeOK, Places, Sleepers
<1>2. ChainInOrder /\ DriverGone /\ HandInTime /\ DigestOutlasts /\ KilledCopying
    BY DEF ChainInOrder, DriverGone, HandInTime, DigestOutlasts, KilledCopying
<1>3. LockKept /\ OrphanCleared
    BY DEF LockKept, Owns, OrphanCleared
<1>4. QED BY <1>1, <1>2, <1>3 DEF IInv

(* Every step keeps it.                                                    *)
LEMMA StepIInv == IInv /\ [Next]_vars => IInv'
<1> SUFFICES ASSUME IInv, [Next]_vars PROVE IInv'
    OBVIOUS
<1>1. CASE Next
    BY <1>1, StepTypeOK, StepChain, StepDriver, StepHand, StepDigest, StepKilled, StepLock,
       StepOrphan DEF IInv
<1>2. CASE UNCHANGED vars
    BY <1>2 DEF vars, IInv, TypeOK, ChainInOrder, DriverGone, HandInTime, StandsStill, Left,
           DigestOutlasts, KilledCopying, LockKept, Owns, OrphanCleared
<1>3. QED BY <1>1, <1>2

(* The inductive invariant holds in every behaviour.                      *)
THEOREM InductiveInvariant == Spec => []IInv
<1>1. QED BY InitIInv, StepIInv, PTL DEF Spec

(* Where the clients are, what they sleep and which files are there keeps  *)
(* its type (TypeOK).                                                      *)
THEOREM TypeCorrect == Spec => []TypeOK
<1>1. IInv => TypeOK
    BY DEF IInv
<1>2. QED BY <1>1, InductiveInvariant, PTL

(* No engine of the matrix is left to run without the wrapper that has to  *)
(* release its lock: handoff-to-120b.sh kills the wrapper while the run's  *)
(* files are copied or in its yield, never before or during a run, however *)
(* long the engine lives on after its statistics.                          *)
THEOREM EngineIsGuarded == Spec => []EngineGuarded
<1>1. IInv => EngineGuarded
    BY DEF IInv, KilledCopying, EngineGuarded
<1>2. QED BY <1>1, InductiveInvariant, PTL

(* If the wrapper was killed the handoff ends with the lock it left        *)
(* cleared, and the matrix never takes it again.                           *)
THEOREM OrphanIsCleared == Spec => []OrphanCleared
<1>1. IInv => OrphanCleared
    BY DEF IInv
<1>2. QED BY <1>1, InductiveInvariant, PTL

(* Of the matrix, the 120b leg and the resume at most one queues for the   *)
(* lock or holds it.                                                       *)
LEMMA OneCompetes == IInv => NeverCompete
<1> SUFFICES ASSUME IInv PROVE NeverCompete
    OBVIOUS
<1> DEFINE Competing == {c \in Own : Competes(c)}
<1>1. PICK c : Competing \subseteq {c}
    <2>1. CASE driver
        <3>1. Competing \subseteq {"matrix"}
            BY <2>1 DEF IInv, TypeOK, ChainInOrder, Own, Clients, Competes
        <3>2. QED BY <3>1
    <2>2. CASE ~driver /\ Competes("matrix")
        <3>1. hand = "wrapper" /\ place["matrix"] # "over"
            BY <2>2 DEF IInv, TypeOK, DriverGone, KilledCopying, Competes
        <3>2. place["leg120"] \in {"off", "digest"} /\ chain # "over"
            BY <3>1 DEF IInv, ChainInOrder, DigestOutlasts
        <3>3. Competing \subseteq {"matrix"}
            BY <3>2 DEF IInv, TypeOK, ChainInOrder, Own, Clients, Competes
        <3>4. QED BY <3>3
    <2>3. CASE ~driver /\ ~Competes("matrix") /\ chain # "over"
        <3>1. Competing \subseteq {"leg120"}
            BY <2>3 DEF IInv, TypeOK, ChainInOrder, Own, Clients, Competes
        <3>2. QED BY <3>1
    <2>4. CASE ~driver /\ ~Competes("matrix") /\ chain = "over"
        <3>1. Competing \subseteq {"resume"}
            BY <2>4 DEF IInv, ChainInOrder, Own, Clients, Competes
        <3>2. QED BY <3>1
    <2>5. QED BY <2>1, <2>2, <2>3, <2>4
<1>2. Cardinality(Competing) <= Cardinality({c})
    BY <1>1, FS_Singleton, FS_Subset
<1>3. Cardinality({c}) = 1
    BY FS_Singleton
<1>4. Cardinality(Competing) <= 1
    <2> HIDE DEF Competing
    <2>1. Cardinality(Competing) \in Nat
        BY <1>1, FS_Singleton, FS_Subset, FS_CardinalityType
    <2>2. QED BY <1>2, <1>3, <2>1
<1>5. ASSUME NEW o \in Own \ {"matrix"}, place[o] = "ask", lock, holder = "matrix"
      PROVE  ~wrapped /\ hand = "lock"
    <2>1. o \in Competing
        BY <1>5 DEF Competes
    <2>2. "matrix" \notin Competing
        BY <1>1, <2>1
    <2>3. ~Competes("matrix")
        BY <2>2 DEF Own, Clients
    <2>4. ~wrapped
        BY <1>5, <2>3 DEF IInv, LockKept, Owns, Competes
    <2>5. QED BY <1>5, <2>4 DEF IInv, KilledCopying, OrphanCleared
<1>6. QED BY <1>4, <1>5 DEF NeverCompete

(* The driver of the 120b leg starts when that of the matrix is gone, the  *)
(* resume when the 120b leg is over, and what is gone stays out; a leg     *)
(* waits for the matrix's lock only if its wrapper was killed, and only    *)
(* until the handoff looks at it.                                          *)
THEOREM LegsNeverCompete == Spec => []NeverCompete
<1>1. QED BY OneCompetes, InductiveInvariant, PTL

=============================================================================
