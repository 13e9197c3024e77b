-------------------------- MODULE ConfigLockProofs --------------------------
(***************************************************************************)
(* The config lock is exclusive and leaks neither of its two levels, for   *)
(* every set of threads and processes and every timeout.                   *)
(*                                                                         *)
(* NoLeakedLock and LocksNest together say that mutex[p] and flock are     *)
(* exactly what pc says they are, so they are inductive with TypeOK.       *)
(* Mutual exclusion needs one more fact: whoever is inside holds the flock.*)
(***************************************************************************)
EXTENDS ConfigLock, TLAPS

\* Inside the critical section a thread holds the flock.
InsideHoldsFlock == \A t \in Thread : pc[t] = "held" => flock = t

\* The inductive invariant.
LockInv == TypeOK /\ NoLeakedLock /\ LocksNest /\ InsideHoldsFlock

\* Every variable keeps its type (modules/config/lock.go); in particular the
\* timeout that is passed on to the file lock is never negative.
THEOREM TypeCorrect == Spec => []TypeOK
<1> USE ProcessOfAssumption, FreeAssumption, LockTimeoutAssumption DEF TypeOK, Phase
<1>1. Init => TypeOK
  BY DEF Init
<1>2. TypeOK /\ [Next]_vars => TypeOK'
  <2> SUFFICES ASSUME TypeOK, [Next]_vars PROVE TypeOK'
    OBVIOUS
  <2>1. ASSUME NEW t \in Thread, Call(t) PROVE TypeOK'
    BY <2>1 DEF Call
  <2>2. ASSUME NEW t \in Thread, TakeMutex(t) PROVE TypeOK'
    BY <2>2 DEF TakeMutex
  <2>3. ASSUME NEW t \in Thread, MutexTimeout(t) PROVE TypeOK'
    BY <2>3 DEF MutexTimeout
  <2>4. ASSUME NEW t \in Thread, OpenLockFile(t) PROVE TypeOK'
    BY <2>4 DEF OpenLockFile
  <2>5. ASSUME NEW t \in Thread, TakeFlock(t) PROVE TypeOK'
    BY <2>5 DEF TakeFlock
  <2>6. ASSUME NEW t \in Thread, FileLockFails(t) PROVE TypeOK'
    BY <2>6 DEF FileLockFails
  <2>7. ASSUME NEW t \in Thread, ReturnError(t) PROVE TypeOK'
    BY <2>7 DEF ReturnError
  <2>8. ASSUME NEW t \in Thread, ReleaseFlock(t) PROVE TypeOK'
    BY <2>8 DEF ReleaseFlock
  <2>9. ASSUME NEW t \in Thread, ReleaseMutex(t) PROVE TypeOK'
    BY <2>9 DEF ReleaseMutex
  <2>10. ASSUME NEW p \in Process, Crash(p) PROVE TypeOK'
    BY <2>10 DEF Crash
  <2>11. CASE Tick
    BY <2>11 DEF Tick, Waiting
  <2>12. CASE UNCHANGED vars
    BY <2>12 DEF vars
  <2> QED
    BY <2>1, <2>2, <2>3, <2>4, <2>5, <2>6, <2>7, <2>8, <2>9, <2>10, <2>11,
       <2>12 DEF Next, Acquiring
<1> QED
  BY <1>1, <1>2, PTL DEF Spec

\* The invariant holds at the start and every step keeps it.
LEMMA LockInvInductive ==
    /\ Init => LockInv
    /\ LockInv /\ [Next]_vars => (NoLeakedLock /\ LocksNest /\ InsideHoldsFlock)'
<1> USE ProcessOfAssumption, FreeAssumption DEF TypeOK, Phase, NoLeakedLock, LocksNest, InsideHoldsFlock
<1>1. Init => LockInv
  BY LockTimeoutAssumption DEF Init, LockInv
<1>2. ASSUME LockInv, [Next]_vars
      PROVE  (NoLeakedLock /\ LocksNest /\ InsideHoldsFlock)'
  <2> USE <1>2 DEF LockInv
  <2> DEFINE Goal == NoLeakedLock /\ LocksNest /\ InsideHoldsFlock
  <2>1. ASSUME NEW t \in Thread, Call(t) PROVE Goal'
    BY <2>1 DEF Call
  <2>2. ASSUME NEW t \in Thread, TakeMutex(t) PROVE Goal'
    BY <2>2 DEF TakeMutex
  <2>3. ASSUME NEW t \in Thread, MutexTimeout(t) PROVE Goal'
    BY <2>3 DEF MutexTimeout
  <2>4. ASSUME NEW t \in Thread, OpenLockFile(t) PROVE Goal'
    BY <2>4 DEF OpenLockFile
  <2>5. ASSUME NEW t \in Thread, TakeFlock(t) PROVE Goal'
    BY <2>5 DEF TakeFlock
  <2>6. ASSUME NEW t \in Thread, FileLockFails(t) PROVE Goal'
    BY <2>6 DEF FileLockFails
  <2>7. ASSUME NEW t \in Thread, ReturnError(t) PROVE Goal'
    BY <2>7 DEF ReturnError
  <2>8. ASSUME NEW t \in Thread, ReleaseFlock(t) PROVE Goal'
    BY <2>8 DEF ReleaseFlock
  <2>9. ASSUME NEW t \in Thread, ReleaseMutex(t) PROVE Goal'
    BY <2>9 DEF ReleaseMutex
  <2>10. ASSUME NEW p \in Process, Crash(p) PROVE Goal'
    BY <2>10 DEF Crash
  <2>11. CASE Tick
    BY <2>11 DEF Tick
  <2>12. CASE UNCHANGED vars
    BY <2>12 DEF vars
  <2> QED
    BY <2>1, <2>2, <2>3, <2>4, <2>5, <2>6, <2>7, <2>8, <2>9, <2>10, <2>11,
       <2>12 DEF Next, Acquiring
<1> QED
  BY <1>1, <1>2

LEMMA LockInvariant == Spec => []LockInv
<1>1. LockInv /\ TypeOK' /\ [Next]_vars => LockInv'
  BY LockInvInductive DEF LockInv
<1> QED
  BY <1>1, LockInvInductive, TypeCorrect, PTL DEF Spec

\* However a call of acquireConfigLock ends, it leaves neither lock behind.
THEOREM LocksAreReleased == Spec => []NoLeakedLock
BY LockInvariant, PTL DEF LockInv

\* The mutex of the process is held around everything done to the lock file.
THEOREM LocksAreNested == Spec => []LocksNest
BY LockInvariant, PTL DEF LockInv

\* withConfigLock runs one function at a time, over all processes.
THEOREM LockIsExclusive == Spec => []MutualExclusion
<1>1. LockInv => MutualExclusion
  BY DEF LockInv, InsideHoldsFlock, MutualExclusion, Inside
<1> QED
  BY <1>1, LockInvariant, PTL

\* The thread inside, if there is one, is the owner of the abstract lock.
LEMMA OwnerInside ==
    ASSUME MutualExclusion
    PROVE  /\ \A t \in Thread : pc[t] = "held" => lockOwner = t
           /\ (\A t \in Thread : pc[t] # "held") => lockOwner = NoThread
BY DEF MutualExclusion, Inside, lockOwner

\* The two-level lock implements the lock its users reason with: every step
\* acquires the free lock, releases it, or leaves it alone.
THEOREM LockRefines == Spec => ImplementsExclusiveLock
<1> USE FreeAssumption DEF TypeOK, Phase
<1>1. Init => Lock!Init
  BY DEF Init, Lock!Init, lockOwner, Inside
<1>2. ASSUME LockInv, LockInv', [Next]_vars
      PROVE  [Lock!Next]_lockOwner
  <2>1. MutualExclusion /\ MutualExclusion'
    BY <1>2 DEF LockInv, InsideHoldsFlock, MutualExclusion, Inside
  <2>2. /\ \A t \in Thread : pc[t] = "held" => lockOwner = t
        /\ (\A t \in Thread : pc[t] # "held") => lockOwner = NoThread
    BY <2>1, OwnerInside
  <2>3. /\ \A t \in Thread : pc'[t] = "held" => lockOwner' = t
        /\ (\A t \in Thread : pc'[t] # "held") => lockOwner' = NoThread
    BY <2>1 DEF MutualExclusion, Inside, lockOwner
  <2> HIDE DEF lockOwner
  <2>4. ASSUME (\A t \in Thread : pc[t] = "held" <=> pc'[t] = "held")
        PROVE  lockOwner' = lockOwner
    BY <2>2, <2>3, <2>4
  <2>5. ASSUME NEW t \in Thread, TakeFlock(t) PROVE Lock!Acquire(t)
    BY <1>2, <2>2, <2>3, <2>5 DEF TakeFlock, Lock!Acquire, LockInv, InsideHoldsFlock
  <2>6. ASSUME NEW t \in Thread, ReleaseFlock(t) PROVE Lock!Release(t)
    BY <1>2, <2>2, <2>3, <2>6
       DEF ReleaseFlock, Lock!Release, LockInv, InsideHoldsFlock
  <2>7. ASSUME NEW p \in Process, Crash(p)
        PROVE  lockOwner' = lockOwner \/ \E t \in Thread : Lock!Release(t)
    <3>1. CASE \E t \in Thread : pc[t] = "held" /\ ProcessOf[t] = p
      BY <1>2, <2>2, <2>3, <2>7, <3>1
         DEF Crash, Lock!Release, LockInv, InsideHoldsFlock
    <3>2. CASE ~\E t \in Thread : pc[t] = "held" /\ ProcessOf[t] = p
      BY <1>2, <2>4, <2>7, <3>2 DEF Crash, LockInv
    <3> QED
      BY <3>1, <3>2
  <2>8. ASSUME NEW t \in Thread,
               Call(t) \/ TakeMutex(t) \/ MutexTimeout(t) \/ OpenLockFile(t)
                 \/ FileLockFails(t) \/ ReturnError(t) \/ ReleaseMutex(t)
        PROVE  lockOwner' = lockOwner
    BY <1>2, <2>4, <2>8
       DEF Call, TakeMutex, MutexTimeout, OpenLockFile, FileLockFails,
           ReturnError, ReleaseMutex, LockInv
  <2>9. CASE Tick \/ UNCHANGED vars
    BY <2>4, <2>9 DEF Tick, vars
  <2> QED
    BY <1>2, <2>5, <2>6, <2>7, <2>8, <2>9 DEF Next, Acquiring, Lock!Next
<1> QED
  BY <1>1, <1>2, LockInvariant, PTL DEF Spec, Lock!Spec, ImplementsExclusiveLock
=============================================================================
