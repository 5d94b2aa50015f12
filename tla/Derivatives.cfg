SPECIFICATION FairSpec
CONSTANTS
    Events <- MCEvents
    Rejected <- MCRejected
    Limit = 1
    Window = 1
    MaxTime = 3
    MaxFaults = 1
    Null = Null
    Starts <- MCStarts
    Ends <- MCEnds
    Requests <- MCRequests
    RecoveryMarket = "usdt_perpetual"
    HistoricalStart = 0
    ResyncRanges <- MCRanges
    Beside = FALSE
INVARIANTS RecordedInv GaplessPrefix SuccessMeansStored
PROPERTIES CommandsEnd
