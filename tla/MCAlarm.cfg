\* Two sleepers and two timers; the machine may really stop (fault).
SPECIFICATION FairSpec
CONSTANTS
    s1 = s1
    s2 = s2
    t1 = t1
    t2 = t2
    Sleepers = {s1, s2}
    Timers = {t1, t2}
    Delays = {0, 2, 3}
    MaxForfeited = 1
    Nobody = Nobody
INVARIANTS
    TypeOK
    SleepersHaveAlarms
    SignalsHaveAlarms
PROPERTIES
    NeverEarlyUnlessForfeited
    JamsStartLate
    SleepEndsUnlessJammed
CHECK_DEADLOCK FALSE
