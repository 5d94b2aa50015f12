SPECIFICATION FairSpec
CONSTANTS
    MarketTypes <- MCBoth
    Streams <- MCPerpOnly
    MaxAttempt = 2
    MaxFaults = 2
    MaxCalls = 0
PROPERTY Recovers
CHECK_DEADLOCK FALSE
