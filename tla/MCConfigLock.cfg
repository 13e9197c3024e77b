SPECIFICATION FairSpec
CONSTANTS
    t1 = t1
    t2 = t2
    t3 = t3
    p1 = p1
    p2 = p2
    NoThread = NoThread
    LockTimeout = 2
    Thread <- MCThread
    Process <- MCProcess
    ProcessOf <- MCProcessOf
INVARIANTS
    TypeOK
    NoLeakedLock
    LocksNest
PROPERTIES
    ImplementsExclusiveLock
    CallIsAnswered
