--------------------------- MODULE ExclusiveLock ---------------------------
(***************************************************************************)
(* What the config lock promises its users (modules/config/lock.go): at    *)
(* most one thread, of all the threads of all the tea processes, is inside *)
(* withConfigLock at a time, and the lock passes from one thread to        *)
(* another only through a release or the death of the owner's process.     *)
(* ConfigLock implements this specification; LoginStore builds on it.      *)
(***************************************************************************)
CONSTANTS
    Thread,     \* the threads of all processes
    NoThread    \* the owner of a free lock

VARIABLE owner

Init == owner = NoThread

Acquire(t) ==
    /\ owner = NoThread
    /\ owner' = t

\* A release, or the end of the process that owns the lock.
Release(t) ==
    /\ owner = t
    /\ owner' = NoThread

Next == \E t \in Thread : Acquire(t) \/ Release(t)

Spec == Init /\ [][Next]_owner
=============================================================================
