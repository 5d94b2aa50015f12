SPECIFICATION FairSpec
CONSTANTS
    p1 = p1
    p2 = p2
    Processes <- MCProcesses
    Minute = 2
    MinInterval = 1
    MaxWeight = 3
    Heaviest = 2
    MaxFaults = 1
INVARIANT OvershootBounded
PROPERTY EveryRequestIsMade
