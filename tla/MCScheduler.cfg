\* Three threads (one of them forked by another), four levels, the clock scaled
\* down (see MCTicks): safety, refinement and no starvation.
SPECIFICATION SchedSpec
CONSTANTS
    main = main
    reaper = reaper
    user = user
    idle = idle
    Threads <- MCThreads
    Idle = idle
    Main = main
    BootOrder <- MCBootOrder
    SCHEDULER_LEVELS = 4
    TICKS_LEVEL <- MCTicks
INVARIANTS
    SchedTypeOK
    OnePlace
    SizeAccounting
PROPERTIES
    ImplementsDispatcher
    ReadyEventuallyRuns
CHECK_DEADLOCK TRUE
