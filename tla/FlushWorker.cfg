SPECIFICATION FairSpec
CONSTANTS
    Types <- MCTypes
    Upserts <- MCUpserts
    Messages <- MCMessages
    DepthKeys <- MCDepthKeys
    BrokenTypes <- MCMarkPrice
    DefaultTtl = 5
    Retention = 3
    MaxFaults = 1
INVARIANTS FlInv NothingLost
PROPERTY SilentKeyIsFlushed
