--------------------------- MODULE RunLockProofs ---------------------------
(***************************************************************************)
(* Proofs about RunLock, for any number of legs behind any mix of wrappers *)
(* and any polls, limits and yields: the lock excludes, the RAM bar read   *)
(* under it stays valid, and the courtesy yield lets a waiting sibling in. *)
(***************************************************************************)
EXTENDS RunLock, TLAPS

(* No two legs are between their mkdir and their rmdir.                    *)
Exclusive == \A l, m \in Legs : Occupies(l) /\ Occupies(m) => l = m

(* A leg that waits asks again within its poll.                            *)
PollsInTime == \A l \in Legs : pc[l] = "ask" => timer[l] <= Poll[l]

(* While a courteous leg owes the lock to a sibling it is in its yield,    *)
(* the lock is free, and some sibling will ask before the yield is over.   *)
Yielding(l) ==
    /\ pc[l] = "idle" /\ ~lock
    /\ \E m \in Legs \ {l} : pc[m] = "ask" /\ timer[m] < timer[l]
DebtIsPaid == \A l \in Legs : Courteous(l) /\ owed[l] = "run" => Yielding(l)

IInv ==
    /\ TypeOK
    /\ Exclusive
    /\ LockHasHolder
    /\ RamCheckHolds
    /\ PollsInTime
    /\ DebtIsPaid

(* All legs in their drivers' loops satisfy it.                            *)
LEMMA InitIInv == Init => IInv
<1> SUFFICES ASSUME Init PROVE IInv
    OBVIOUS
<1>1. TypeOK
    BY RunLockAssumption DEF Init, TypeOK, Places
<1>2. Exclusive /\ LockHasHolder /\ RamCheckHolds /\ PollsInTime /\ DebtIsPaid
    BY RunLockAssumption DEF Init, Exclusive, LockHasHolder, RamCheckHolds, PollsInTime, DebtIsPaid,
           Occupies, Holds
<1>3. QED BY <1>1, <1>2 DEF IInv

(* Every step keeps the types.                                             *)
LEMMA StepTypeOK == TypeOK /\ Next => TypeOK'
<1> SUFFICES ASSUME TypeOK, Next PROVE TypeOK'
    OBVIOUS
<1> USE RunLockAssumption DEF TypeOK, Places, Goto, At
<1>1. CASE Tick
    BY <1>1 DEF Tick
<1>2. ASSUME NEW l \in Legs, Request(l) PROVE TypeOK'
    BY <1>2 DEF Request
<1>3. ASSUME NEW l \in Legs, Finish(l) PROVE TypeOK'
    BY <1>3 DEF Finish
<1>4. ASSUME NEW l \in Legs, PreCheck(l) PROVE TypeOK'
    BY <1>4 DEF PreCheck
<1>5. ASSUME NEW l \in Legs, Acquire(l) PROVE TypeOK'
    BY <1>5 DEF Acquire
<1>6. ASSUME NEW l \in Legs, GiveUp(l) PROVE TypeOK'
    BY <1>6 DEF GiveUp
<1>7. ASSUME NEW l \in Legs, Sleep(l) PROVE TypeOK'
    BY <1>7 DEF Sleep
<1>8. ASSUME NEW l \in Legs, Gate(l) PROVE TypeOK'
    BY <1>8 DEF Gate
<1>9. ASSUME NEW l \in Legs, Start(l) PROVE TypeOK'
    BY <1>9 DEF Start, Checked
<1>10. ASSUME NEW l \in Legs, End(l) PROVE TypeOK'
    BY <1>10 DEF End
<1>11. ASSUME NEW l \in Legs, Die(l) PROVE TypeOK'
    BY <1>11 DEF Die
<1>12. ASSUME NEW l \in Legs, Release(l) PROVE TypeOK'
    BY <1>12 DEF Release
<1>13. QED
    BY <1>1, <1>2, <1>3, <1>4, <1>5, <1>6, <1>7, <1>8, <1>9, <1>10, <1>11, <1>12
       DEF Next, Shell, Model

(* Every step keeps the legs out of each other's way and the directory in  *)
(* step with them.                                                         *)
LEMMA StepExclusive ==
    TypeOK /\ Exclusive /\ LockHasHolder /\ Next => Exclusive' /\ LockHasHolder'
<1> SUFFICES ASSUME TypeOK, Exclusive, LockHasHolder, Next PROVE Exclusive' /\ LockHasHolder'
    OBVIOUS
<1> USE DEF TypeOK, Exclusive, LockHasHolder, Occupies, Holds, Goto, At
<1>1. CASE Tick
    BY <1>1 DEF Tick
<1>2. ASSUME NEW l \in Legs, Request(l) PROVE Exclusive' /\ LockHasHolder'
    BY <1>2 DEF Request
<1>3. ASSUME NEW l \in Legs, Finish(l) PROVE Exclusive' /\ LockHasHolder'
    BY <1>3 DEF Finish
<1>4. ASSUME NEW l \in Legs, PreCheck(l) PROVE Exclusive' /\ LockHasHolder'
    BY <1>4 DEF PreCheck
<1>5. ASSUME NEW l \in Legs, Acquire(l) PROVE Exclusive' /\ LockHasHolder'
    BY <1>5 DEF Acquire
<1>6. ASSUME NEW l \in Legs, GiveUp(l) PROVE Exclusive' /\ LockHasHolder'
    BY <1>6 DEF GiveUp
<1>7. ASSUME NEW l \in Legs, Sleep(l) PROVE Exclusive' /\ LockHasHolder'
    BY <1>7 DEF Sleep
<1>8. ASSUME NEW l \in Legs, Gate(l) PROVE Exclusive' /\ LockHasHolder'
    BY <1>8 DEF Gate
<1>9. ASSUME NEW l \in Legs, Start(l) PROVE Exclusive' /\ LockHasHolder'
    BY <1>9 DEF Start
<1>10. ASSUME NEW l \in Legs, End(l) PROVE Exclusive' /\ LockHasHolder'
    BY <1>10 DEF End
<1>11. ASSUME NEW l \in Legs, Die(l) PROVE Exclusive' /\ LockHasHolder'
    BY <1>11 DEF Die
<1>12. ASSUME NEW l \in Legs, Release(l) PROVE Exclusive' /\ LockHasHolder'
    BY <1>12 DEF Release
<1>13. QED
    BY <1>1, <1>2, <1>3, <1>4, <1>5, <1>6, <1>7, <1>8, <1>9, <1>10, <1>11, <1>12
       DEF Next, Shell, Model

(* A RAM check made under the lock is outdated only by a model that starts *)
(* between it and the run, and exclusion leaves none to.                   *)
LEMMA StepRamCheck ==
    TypeOK /\ Exclusive /\ RamCheckHolds /\ Next => RamCheckHolds'
<1> SUFFICES ASSUME TypeOK, Exclusive, RamCheckHolds, Next PROVE RamCheckHolds'
    OBVIOUS
<1> USE DEF TypeOK, RamCheckHolds, Goto, At
<1>1. CASE Tick
    BY <1>1 DEF Tick
<1>2. ASSUME NEW l \in Legs, Request(l) \/ Finish(l) \/ GiveUp(l) \/ Sleep(l) PROVE RamCheckHolds'
    BY <1>2 DEF Request, Finish, GiveUp, Sleep
<1>3. ASSUME NEW l \in Legs, PreCheck(l) \/ Gate(l) PROVE RamCheckHolds'
    BY <1>3 DEF PreCheck, Gate
<1>4. ASSUME NEW l \in Legs, Acquire(l) PROVE RamCheckHolds'
    BY <1>4 DEF Acquire
<1>5. ASSUME NEW l \in Legs, Start(l) PROVE RamCheckHolds'
    BY <1>5 DEF Start, Checked, Exclusive, Occupies, Holds
<1>6. ASSUME NEW l \in Legs, End(l) \/ Die(l) \/ Release(l) PROVE RamCheckHolds'
    BY <1>6 DEF End, Die, Release
<1>7. QED BY <1>1, <1>2, <1>3, <1>4, <1>5, <1>6 DEF Next, Shell, Model

(* A waiting leg never sleeps longer than its poll.                        *)
LEMMA StepPolls == TypeOK /\ PollsInTime /\ Next => PollsInTime'
<1> SUFFICES ASSUME TypeOK, PollsInTime, Next PROVE PollsInTime'
    OBVIOUS
<1> USE RunLockAssumption DEF TypeOK, PollsInTime, Goto, At
<1>1. CASE Tick
    BY <1>1 DEF Tick
<1>2. ASSUME NEW l \in Legs, Request(l) \/ Finish(l) \/ PreCheck(l) PROVE PollsInTime'
    BY <1>2 DEF Request, Finish, PreCheck
<1>3. ASSUME NEW l \in Legs, Acquire(l) \/ GiveUp(l) \/ Sleep(l) PROVE PollsInTime'
    BY <1>3 DEF Acquire, GiveUp, Sleep
<1>4. ASSUME NEW l \in Legs, Gate(l) \/ Start(l) \/ End(l) \/ Die(l) PROVE PollsInTime'
    BY <1>4 DEF Gate, Start, End, Die
<1>5. ASSUME NEW l \in Legs, Release(l) PROVE PollsInTime'
    BY <1>5 DEF Release
<1>6. QED BY <1>1, <1>2, <1>3, <1>4, <1>5 DEF Next, Shell, Model

(* While a courteous leg is in debt the only steps are the clock's, which  *)
(* brings the sibling's attempt nearer and not later than the leg's own,   *)
(* and those of legs outside; the first mkdir of a sibling pays the debt.  *)
LEMMA StepDebt ==
    TypeOK /\ LockHasHolder /\ PollsInTime /\ DebtIsPaid /\ Next => DebtIsPaid'
<1> SUFFICES ASSUME TypeOK, LockHasHolder, PollsInTime, DebtIsPaid, Next,
                    NEW l \in Legs, Courteous(l), (owed[l] = "run")'
             PROVE  Yielding(l)'
    BY DEF DebtIsPaid, Courteous
<1> USE RunLockAssumption DEF TypeOK, Yielding, Goto, At
<1>1. owed[l] = "run" => Yielding(l)
    BY DEF DebtIsPaid
<1>2. CASE Tick
    BY <1>1, <1>2 DEF Tick
<1>3. ASSUME NEW k \in Legs, Request(k) \/ Finish(k) \/ PreCheck(k) PROVE Yielding(l)'
    BY <1>1, <1>3 DEF Request, Finish, PreCheck
<1>4. ASSUME NEW k \in Legs, Acquire(k) PROVE Yielding(l)'
    BY <1>1, <1>4 DEF Acquire
<1>5. ASSUME NEW k \in Legs, GiveUp(k) \/ Sleep(k) PROVE Yielding(l)'
    BY <1>1, <1>5 DEF GiveUp, Sleep
<1>6. ASSUME NEW k \in Legs, Gate(k) \/ Start(k) \/ End(k) \/ Die(k) PROVE Yielding(l)'
    BY <1>1, <1>6 DEF Gate, Start, End, Die, LockHasHolder, Occupies, Holds
<1>7. ASSUME NEW k \in Legs, Release(k) PROVE Yielding(l)'
    <2>1. CASE k # l
        BY <1>1, <1>7, <2>1 DEF Release, LockHasHolder, Occupies, Holds
    <2>2. CASE k = l
        <3>1. pc[l] = "free" /\ Waiting(l) # {}
            BY <1>7, <2>2 DEF Release
        <3>2. PICK m \in Legs \ {l} : pc[m] = "ask"
            BY <3>1 DEF Waiting
        <3>3. timer[m] <= Poll[m] /\ Poll[m] < Yield[l]
            BY <3>2 DEF PollsInTime, Courteous
        <3>4. pc'[l] = "idle" /\ ~lock' /\ timer'[l] = Yield[l]
            BY <1>7, <2>2, <3>1 DEF Release
        <3>5. pc'[m] = "ask" /\ timer'[m] = timer[m]
            BY <1>7, <2>2, <3>2 DEF Release
        <3>6. QED BY <3>3, <3>4, <3>5
    <2>3. QED BY <2>1, <2>2
<1>8. QED BY <1>2, <1>3, <1>4, <1>5, <1>6, <1>7 DEF Next, Shell, Model

(* The invariant holds in every reachable state.                           *)
THEOREM LockInvariant == Spec => []IInv
<1>1. IInv /\ Next => IInv'
    BY StepTypeOK, StepExclusive, StepRamCheck, StepPolls, StepDebt DEF IInv
<1>2. IInv /\ UNCHANGED vars => IInv'
    <2> SUFFICES ASSUME IInv, UNCHANGED vars PROVE IInv'
        OBVIOUS
    <2>1. QED BY DEF IInv, vars, TypeOK, Exclusive, LockHasHolder, RamCheckHolds, PollsInTime,
                     DebtIsPaid, Yielding, Occupies, Holds, Courteous
<1>3. IInv /\ [Next]_vars => IInv'
    BY <1>1, <1>2
<1>4. QED BY <1>3, InitIInv, PTL DEF Spec

(* The lock directory exists exactly while a leg is in its locked section. *)
THEOREM DirectoryHasHolder == Spec => []LockHasHolder
<1>1. IInv => LockHasHolder
    BY DEF IInv
<1>2. QED BY <1>1, LockInvariant, PTL

(* No model starts between a RAM check under the lock and its run.         *)
THEOREM RamCheckIsValid == Spec => []RamCheckHolds
<1>1. IInv => RamCheckHolds
    BY DEF IInv
<1>2. QED BY <1>1, LockInvariant, PTL

(* A leg whose yield outlasts its siblings' polls never takes the lock     *)
(* twice in a row past a waiting sibling.                                  *)
THEOREM CourtesyYieldWorks == Spec => []YieldGivesWay
<1>1. IInv => YieldGivesWay
    BY DEF IInv, DebtIsPaid, Yielding, YieldGivesWay, Holds
<1>2. QED BY <1>1, LockInvariant, PTL

----------------------------------------------------------------------------
(* Refinement.                                                             *)

\* The legs that are inside the box.
Inside == {l \in Legs : Occupies(l)}

(* Every step of a leg enters or leaves the box, or is invisible from it.  *)
LEMMA StepBox == IInv /\ Next => Box!Next \/ UNCHANGED Inside
<1> SUFFICES ASSUME IInv, Next PROVE Box!Next \/ UNCHANGED Inside
    OBVIOUS
<1> USE DEF Goto, At
<1>0. TypeOK /\ Exclusive /\ LockHasHolder
    BY DEF IInv
<1>1. CASE Tick
    BY <1>1 DEF Tick, Inside, Occupies, Holds
<1>2. ASSUME NEW l \in Legs, Request(l) \/ Finish(l) \/ PreCheck(l) \/ GiveUp(l) \/ Sleep(l)
      PROVE  UNCHANGED Inside
    BY <1>0, <1>2 DEF Request, Finish, PreCheck, GiveUp, Sleep, TypeOK, Inside, Occupies, Holds
<1>3. ASSUME NEW l \in Legs, Gate(l) \/ Start(l) \/ End(l) \/ Die(l)
      PROVE  UNCHANGED Inside
    BY <1>0, <1>3 DEF Gate, Start, End, Die, TypeOK, Inside, Occupies, Holds
<1>4. ASSUME NEW l \in Legs, Acquire(l) PROVE Box!Next
    <2>1. Inside = {}
        BY <1>0, <1>4 DEF Acquire, LockHasHolder, Inside
    <2>2. \A m \in Legs : Occupies(m)' <=> m = l \/ Occupies(m)
        BY <1>0, <1>4 DEF Acquire, TypeOK, Occupies, Holds
    <2>3. Inside' = {l}
        BY <2>1, <2>2 DEF Inside
    <2>4. QED BY <2>1, <2>3 DEF Box!Next, Box!Enter, Inside
<1>5. ASSUME NEW l \in Legs, Release(l) PROVE Box!Next
    <2>1. Inside = {l}
        BY <1>0, <1>5 DEF Release, Exclusive, Inside, Occupies, Holds
    <2>2. \A m \in Legs : Occupies(m)' <=> m # l /\ Occupies(m)
        BY <1>0, <1>5 DEF Release, TypeOK, Occupies, Holds
    <2>3. Inside' = {}
        BY <2>1, <2>2 DEF Inside
    <2>4. QED BY <2>1, <2>3 DEF Box!Next, Box!Leave, Inside
<1>6. QED BY <1>1, <1>2, <1>3, <1>4, <1>5 DEF Next, Shell, Model

(* The runlock implements the box that holds one leg at a time.            *)
THEOREM LockImplementsBox == Spec => ImplementsBoxLock
<1>1. Init => Box!Init
    BY DEF Init, Box!Init, Occupies, Holds
<1>2. IInv /\ [Next]_vars => Box!Next \/ UNCHANGED Inside
    <2>1. UNCHANGED vars => UNCHANGED Inside
        BY DEF vars, Inside, Occupies, Holds
    <2>2. QED BY <2>1, StepBox
<1>3. QED BY <1>1, <1>2, LockInvariant, PTL DEF Spec, ImplementsBoxLock, Box!Spec, Inside

=============================================================================
