\* The same connection over a network without faults.
SPECIFICATION Spec
CONSTANTS
    MAX_TRIES = 1
    MaxData <- MCMaxData
    Capacity = 2
    MaxFaults = 0
    NULL = NULL
INVARIANTS
    SendsAreBuffered
CHECK_DEADLOCK FALSE
