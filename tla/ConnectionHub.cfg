SPECIFICATION FairSpec
CONSTANTS
    c1 = c1
    c2 = c2
    b1 = b1
    b2 = b2
    r1 = r1
    i1 = i1
    Clients <- MCClients
    Casts <- MCCasts
    Requests <- MCRequests
    Routes <- MCRoutes
    Intervals <- MCIntervals
    MaxConnections = 1
    MaxSubscriptions = 2
INVARIANTS HubInv CutShortByChangeOnly LimitUnlessOverlapped
PROPERTY HubSettles
CHECK_DEADLOCK FALSE
