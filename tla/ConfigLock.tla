----------------------------- MODULE ConfigLock -----------------------------
(***************************************************************************)
(* The two-level lock that guards the config file: acquireConfigLock in    *)
(* modules/config/lock.go over modules/filelock.  A thread first polls the *)
(* mutex of its own process with TryLock, then polls a flock on the lock   *)
(* file with the time that is left; both give up at a deadline.  A flock   *)
(* belongs to the open file of one thread, and the kernel drops it when    *)
(* the process dies.                                                       *)
(*                                                                         *)
(* A tick is a poll interval of the clock.  Whoever is inside the critical *)
(* section may stay there for ever: the token refresh runs an HTTP request *)
(* without a timeout there.                                                *)
(***************************************************************************)
EXTENDS Integers

CONSTANTS
    Thread,         \* goroutines that may call acquireConfigLock
    Process,        \* operating system processes
    ProcessOf,      \* the process each thread runs in
    NoThread,       \* the owner of a free lock
    LockTimeout     \* ticks a call may wait (5 s in the code)

ASSUME ProcessOfAssumption == ProcessOf \in [Thread -> Process]
ASSUME FreeAssumption == NoThread \notin Thread
ASSUME LockTimeoutAssumption == LockTimeout \in Nat

VARIABLES
    pc,     \* where each thread is in acquireConfigLock and unlock
    mutex,  \* mutex[p]: the thread that holds configMutex of process p
    flock,  \* the thread whose open file holds the flock
    left    \* left[t]: ticks until t's current deadline, -1 once it is past

vars == <<pc, mutex, flock, left>>

Phase == {"idle", "mutex", "open", "flock", "held", "release", "failed"}

\* Every variable has its type.
TypeOK ==
    /\ pc \in [Thread -> Phase]
    /\ mutex \in [Process -> Thread \cup {NoThread}]
    /\ flock \in Thread \cup {NoThread}
    /\ left \in [Thread -> -1 .. LockTimeout]
    \* filelock.New is never given a negative timeout
    /\ \A t \in Thread : pc[t] = "open" => left[t] >= 0

Init ==
    /\ pc = [t \in Thread |-> "idle"]
    /\ mutex = [p \in Process |-> NoThread]
    /\ flock = NoThread
    /\ left = [t \in Thread |-> LockTimeout]

----------------------------------------------------------------------------
(* Acquiring: the mutex loop, then the lock file.                          *)

Call(t) ==
    /\ pc[t] = "idle"
    /\ pc' = [pc EXCEPT ![t] = "mutex"]
    /\ left' = [left EXCEPT ![t] = LockTimeout]
    /\ UNCHANGED <<mutex, flock>>

\* Without the max(..., 0) on the remaining time.
TakeMutexUnclamped(t) ==
    /\ pc[t] = "mutex"
    /\ mutex[ProcessOf[t]] = NoThread
    /\ mutex' = [mutex EXCEPT ![ProcessOf[t]] = t]
    /\ pc' = [pc EXCEPT ![t] = "open"]
    /\ UNCHANGED <<flock, left>>

\* TryLock succeeds; what is left of the timeout goes to the file lock.
TakeMutex(t) ==
    /\ pc[t] = "mutex"
    /\ mutex[ProcessOf[t]] = NoThread
    /\ mutex' = [mutex EXCEPT ![ProcessOf[t]] = t]
    /\ pc' = [pc EXCEPT ![t] = "open"]
    /\ left' = [left EXCEPT ![t] = IF left[t] < 0 THEN 0 ELSE left[t]]
    /\ UNCHANGED flock

\* The same loop with a blocking Lock.
MutexTimeoutNever(t) == FALSE /\ UNCHANGED vars

MutexTimeout(t) ==
    /\ pc[t] = "mutex"
    /\ mutex[ProcessOf[t]] # NoThread
    /\ left[t] < 0
    /\ pc' = [pc EXCEPT ![t] = "failed"]
    /\ UNCHANGED <<mutex, flock, left>>

\* The lock file is open; lockFile starts a deadline of its own.
OpenLockFile(t) ==
    /\ pc[t] = "open"
    /\ pc' = [pc EXCEPT ![t] = "flock"]
    /\ UNCHANGED <<mutex, flock, left>>

\* A flock that is granted whoever holds the file.
TakeFlockShared(t) ==
    /\ pc[t] = "flock"
    /\ flock' = t
    /\ pc' = [pc EXCEPT ![t] = "held"]
    /\ UNCHANGED <<mutex, left>>

TakeFlock(t) ==
    /\ pc[t] = "flock"
    /\ flock = NoThread
    /\ flock' = t
    /\ pc' = [pc EXCEPT ![t] = "held"]
    /\ UNCHANGED <<mutex, left>>

\* The error path without configMutex.Unlock.
FileLockFailsLeaky(t) ==
    /\ \/ pc[t] = "open"
       \/ pc[t] = "flock" /\ (flock # NoThread => left[t] < 0)
    /\ pc' = [pc EXCEPT ![t] = "failed"]
    /\ UNCHANGED <<mutex, flock, left>>

\* The lock file cannot be opened, flock reports an error, or the flock is
\* still taken after the deadline: the mutex is given back.
FileLockFails(t) ==
    /\ \/ pc[t] = "open"
       \/ pc[t] = "flock" /\ (flock # NoThread => left[t] < 0)
    /\ mutex' = [mutex EXCEPT ![ProcessOf[t]] = NoThread]
    /\ pc' = [pc EXCEPT ![t] = "failed"]
    /\ UNCHANGED <<flock, left>>

\* The caller of acquireConfigLock gets the error.
ReturnError(t) ==
    /\ pc[t] = "failed"
    /\ pc' = [pc EXCEPT ![t] = "idle"]
    /\ UNCHANGED <<mutex, flock, left>>

----------------------------------------------------------------------------
(* Releasing: the flock first, then the mutex.                             *)

\* Unlocking in the order of acquisition instead.
ReleaseFlockLast(t) ==
    /\ pc[t] = "held"
    /\ mutex' = [mutex EXCEPT ![ProcessOf[t]] = NoThread]
    /\ pc' = [pc EXCEPT ![t] = "release"]
    /\ UNCHANGED <<flock, left>>

ReleaseFlock(t) ==
    /\ pc[t] = "held"
    /\ flock' = NoThread
    /\ pc' = [pc EXCEPT ![t] = "release"]
    /\ UNCHANGED <<mutex, left>>

ReleaseMutex(t) ==
    /\ pc[t] = "release"
    /\ mutex' = [mutex EXCEPT ![ProcessOf[t]] = NoThread]
    /\ pc' = [pc EXCEPT ![t] = "idle"]
    /\ UNCHANGED <<flock, left>>

\* The process ends: its memory goes and the kernel drops its flock.
Crash(p) ==
    /\ \E t \in Thread : ProcessOf[t] = p /\ pc[t] # "idle"
    /\ pc' = [t \in Thread |-> IF ProcessOf[t] = p THEN "idle" ELSE pc[t]]
    /\ mutex' = [mutex EXCEPT ![p] = NoThread]
    /\ flock' = IF flock # NoThread /\ ProcessOf[flock] = p
                THEN NoThread ELSE flock
    /\ UNCHANGED left

\* Time passes for the calls that wait in a polling loop.
Waiting(t) == pc[t] \in {"mutex", "flock"} /\ left[t] >= 0

Tick ==
    /\ \E t \in Thread : Waiting(t)
    /\ left' = [t \in Thread |-> IF Waiting(t) THEN left[t] - 1 ELSE left[t]]
    /\ UNCHANGED <<pc, mutex, flock>>

\* What acquireConfigLock does by itself once it is called.
Acquiring(t) ==
    \/ TakeMutex(t)
    \/ MutexTimeout(t)
    \/ OpenLockFile(t)
    \/ TakeFlock(t)
    \/ FileLockFails(t)
    \/ ReturnError(t)

Next ==
    \/ \E t \in Thread :
        \/ Call(t)
        \/ Acquiring(t)
        \/ ReleaseFlock(t)
        \/ ReleaseMutex(t)
    \/ \E p \in Process : Crash(p)
    \/ Tick

Spec == Init /\ [][Next]_vars

\* The polling loops run and the clock advances.  Nothing is assumed of the
\* thread in the critical section, nor of the callers.
Fairness ==
    /\ WF_vars(Tick)
    /\ \A t \in Thread : WF_vars(Acquiring(t))

FairSpec == Spec /\ Fairness

----------------------------------------------------------------------------
(* Properties                                                              *)

\* Neither lock outlives its use: whatever way a call ends (success and
\* unlock, timeout, error opening the lock file, death of the process), a
\* thread that is not acquiring or holding owns neither the mutex nor the
\* flock.  acquireConfigLock returns two different ways from the file lock.
NoLeakedLock ==
    /\ \A p \in Process : mutex[p] # NoThread =>
         /\ ProcessOf[mutex[p]] = p
         /\ pc[mutex[p]] \in {"open", "flock", "held", "release"}
    /\ flock # NoThread => pc[flock] = "held"

\* The locks nest: a thread that polls for, holds or gives back the flock
\* holds the mutex of its process all the while, so only one thread of each
\* process is ever at the lock file (lock.go: "Mutex acquired, now try file
\* lock").
LocksNest ==
    \A t \in Thread : pc[t] \in {"open", "flock", "held", "release"} =>
        mutex[ProcessOf[t]] = t

\* Every call is answered, with the lock or with an error, even when the
\* holder never comes back: "The timeout applies to acquiring the file lock;
\* the mutex acquisition uses the same timeout" (lock.go).
CallIsAnswered ==
    \A t \in Thread : pc[t] = "mutex" ~> pc[t] \in {"held", "failed", "idle"}

\* The thread inside withConfigLock, as the users of the lock see it.
Inside == {t \in Thread : pc[t] = "held"}

\* At most one thread of all processes runs between acquire and unlock.
MutualExclusion == \A t, u \in Inside : t = u

lockOwner == IF Inside = {} THEN NoThread ELSE CHOOSE t \in Inside : TRUE

Lock == INSTANCE ExclusiveLock WITH owner <- lockOwner

\* Mutex, flock, timeouts and crashes together behave as one exclusive lock.
ImplementsExclusiveLock == Lock!Spec
=============================================================================
