\* Three threads, one destination, a cache of one node, two entries, one retry:
\* entries may be doubled, and then the cache is full and one is not in it.
SPECIFICATION Spec
CONSTANTS
    t1 = t1
    t2 = t2
    t3 = t3
    e1 = e1
    e2 = e2
    Threads = {t1, t2, t3}
    AlarmThread = AlarmThread
    Destinations = {d1}
    Entries = {e1, e2}
    SIZE_OF_ROUTE_CACHE = 1
    MAX_RETRIES = 1
    MaxSpare = 1
    NULL = NULL
SYMMETRY Symmetry
INVARIANTS
    TypeOK
    EntriesAreTimed
    AnswerStopsRetries
    CacheNeverDangles
    WaitersAreWoken
CHECK_DEADLOCK FALSE
