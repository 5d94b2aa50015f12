SPECIFICATION Spec
CONSTANTS
    Bars <- MCBars
    Interval = 2
    RejectedBars <- MCRejectedBars
    Limit = 1
    MaxTime = 7
    MaxFaults = 1
    Null = Null
    Starts <- MCStarts
    Modes <- MCModes
    Ends <- MCEnds
    HistoricalStart = 0
    ResyncRanges <- MCRanges
    Writers <- MCHistRt
    Serial = TRUE
INVARIANTS GaplessPrefix
