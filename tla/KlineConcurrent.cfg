SPECIFICATION FairSpec
CONSTANTS
    Bars <- MCTwoBars
    Interval = 2
    RejectedBars <- MCNone
    Limit = 1
    MaxTime = 2
    MaxFaults = 1
    Null = Null
    Starts <- MCStarts
    Modes <- MCWrite
    Ends <- MCEnds
    HistoricalStart = 0
    ResyncRanges <- MCRanges
    Writers <- MCAll
    Serial = FALSE
INVARIANTS CheckpointInv PositionIsStored
PROPERTIES CommandsEnd
