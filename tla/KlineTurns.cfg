SPECIFICATION RecoveryRelaunched
CONSTANTS
    Bars <- MCFourBars
    Interval = 2
    RejectedBars <- MCRejectedBars
    Limit = 2
    MaxTime = 9
    MaxFaults = 2
    Null = Null
    Starts <- MCLateStarts
    Modes <- MCModes
    Ends <- MCMiddleEnd
    HistoricalStart = 1
    ResyncRanges <- MCRanges
    Writers <- MCHistRec
    Serial = TRUE
INVARIANTS HistInv GaplessPrefix
PROPERTIES PrefixKept FinalRowsStay PositionAdvances RunsEnd AllClosedBarsStored RecoveryClearsErrors
