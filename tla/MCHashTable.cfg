\* Three keys, two values, three slots; a key may be put again.
SPECIFICATION Spec
CONSTANTS
    k1 = k1
    k2 = k2
    k3 = k3
    v1 = v1
    v2 = v2
    Keys <- MCKeys
    Values = {v1, v2}
    hash <- MCHash
    max_size = 3
    NULL = NULL
PROPERTIES
    ImplementsStore
