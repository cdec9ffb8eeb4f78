\* Two fragments of data from the client, one retry, one packet on the way to each
\* side (more are lost) and one more loss, repetition or route not found.
SPECIFICATION Spec
CONSTANTS
    MAX_TRIES = 1
    MaxData <- MCMaxData
    Capacity = 1
    MaxFaults = 1
    NULL = NULL
INVARIANTS
    TypeOK
    InOrderAtMostOnce
    WindowOfOne
    HandshakeAgrees
CHECK_DEADLOCK FALSE
