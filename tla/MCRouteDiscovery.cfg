\* Five nodes, routes of at most three nodes, one broadcast, one data packet,
\* two packets lost or duplicated.
SPECIFICATION FairSpec
CONSTANTS
    o = o
    a = a
    b = b
    c = c
    d = d
    Nodes <- MCNodes
    Links <- MCLinks
    Origin = o
    Dest = d
    MAX_ROUTE_LENGTH = 3
    NoAddress = NoAddress
    MaxBroadcasts = 1
    MaxData = 1
    MaxFaults = 2
INVARIANTS
    DiscoveriesCollectWalks
    PacketsOnCourse
    RoutesAreReal
PROPERTIES
    RouteIsFound
CHECK_DEADLOCK FALSE
