---------------------------- MODULE MCConfigLock ----------------------------
(* Two threads in one process and one in another: contention on the mutex, *)
(* on the flock, and on both.                                               *)
EXTENDS ConfigLock, TLC

CONSTANTS t1, t2, t3, p1, p2

MCThread == {t1, t2, t3}
MCProcess == {p1, p2}
MCProcessOf == t1 :> p1 @@ t2 :> p1 @@ t3 :> p2
=============================================================================
