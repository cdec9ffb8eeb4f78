\* Lists of up to five nodes, three items, two of them with equal keys.
SPECIFICATION Spec
CONSTANTS
    x1 = x1
    x2 = x2
    x3 = x3
    n1 = n1
    n2 = n2
    n3 = n3
    n4 = n4
    n5 = n5
    Items <- MCItems
    Key <- MCKey
    Nodes <- MCNodes
    NULL = NULL
    GARBAGE = GARBAGE
SYMMETRY Symmetric
INVARIANTS
    WellFormed
PROPERTIES
    ImplementsList
CHECK_DEADLOCK TRUE
