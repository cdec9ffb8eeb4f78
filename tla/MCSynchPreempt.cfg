\* One semaphore used with interrupts enabled by three threads that fork each
\* other, two of which exit, and the reaper: what holds wherever a thread is
\* preempted.  The two that exit start in the same state and no property is
\* about liveness, so they are interchangeable.
SPECIFICATION Spec
CONSTANTS
    main = main
    reaper = reaper
    user = user
    other = other
    idle = idle
    reapersem = reapersem
    mutex = mutex
    event = event
    Threads <- MCThreads4
    Idle = idle
    Main = main
    Boot <- BootReaper
    Sems <- MCSems2
    ReaperSem = reapersem
    Reaper = reaper
    InitialCnt <- MCInitialCnt2
    MaskedP = {}
    MaskedV = {}
    HandlerSems = {}
    Exiting = {user, other}
    MaxCnt = 1
INVARIANTS
    TypeOK
    LockExclusive
    WaitQueueExact
    ReaperFindsWork
    ReapedIsUnreachable
    OnlyCaughtAreLost
PROPERTIES
    ImplementsSemaphores
SYMMETRY UserSymmetry
CHECK_DEADLOCK TRUE
