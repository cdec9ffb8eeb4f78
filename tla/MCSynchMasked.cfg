\* All threads started, every semaphore but the reaper's used with interrupts
\* disabled, no thread exits: no handler spins, nobody hangs,
\* and every P whose turn has come returns.
SPECIFICATION FairSpec
CONSTANTS
    main = main
    reaper = reaper
    user = user
    other = other
    idle = idle
    reapersem = reapersem
    mutex = mutex
    event = event
    Threads <- MCThreads4
    Idle = idle
    Main = main
    Boot <- BootAll
    Sems <- MCSems
    ReaperSem = reapersem
    Reaper = reaper
    InitialCnt <- MCInitialCnt
    MaskedP = {mutex, event}
    MaskedV = {mutex, event}
    HandlerSems = {event}
    Exiting = {}
    MaxCnt = 1
INVARIANTS
    HandlersNeverSpin
PROPERTIES
    ImplementsFairSemaphores
CHECK_DEADLOCK TRUE
