\* Two runners, or one runner and two publishers, or two pull helpers.
SPECIFICATION PullersSpec
CONSTANTS
    Runner = {1, 2}
    Weight <- MCWeight
    InputLimit = 2
    Cap <- MCCap
    BatchSize <- MCBatchSize
    MaxFaults = 2
    Publisher = {1, 2, 3}
    Foreign = {3}
    RowsUpTo <- MCRowsUpTo
    MaxStops = 1
    Crews <- MCCrews
INVARIANTS
    SourceIsPrefix
    FileIsPrefix
PROPERTIES
    NothingIsLost
    FileOnlyMovesForward
    EveryCallEnds
    CallersCatchUp
