\* The unmasked semaphore alone: minithread_unlock_and_stop does not release and
\* block atomically.
SPECIFICATION Spec
CONSTANTS
    main = main
    reaper = reaper
    user = user
    other = other
    idle = idle
    reapersem = reapersem
    mutex = mutex
    event = event
    Threads <- MCThreads3
    Idle = idle
    Main = main
    Boot <- BootAll3
    Sems <- MCSems
    ReaperSem = reapersem
    Reaper = reaper
    InitialCnt <- MCInitialCnt
    MaskedP = {}
    MaskedV = {}
    HandlerSems = {}
    Exiting = {}
    MaxCnt = 1
INVARIANTS
    NoLostThread
CHECK_DEADLOCK FALSE
