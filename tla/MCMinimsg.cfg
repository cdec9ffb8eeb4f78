\* Three threads on one unbound port, three bound numbers, memory for one bound
\* port more than there are numbers.
SPECIFICATION Spec
CONSTANTS
    t1 = t1
    t2 = t2
    t3 = t3
    p1 = p1
    m1 = m1
    b1 = b1
    b2 = b2
    b3 = b3
    b4 = b4
    Threads <- MCThreads
    Unbound = {p1}
    Packets = {m1}
    NumBound = 3
    BoundPorts <- MCBoundPorts
    NULL = NULL
    MaxQueued = 2
SYMMETRY Symmetric
INVARIANTS
    TypeOK
    PacketsMatchReceivers
    PortNumbersDistinctUnlessRaced
PROPERTIES
    IncrementalUntilOverflow
CHECK_DEADLOCK TRUE
