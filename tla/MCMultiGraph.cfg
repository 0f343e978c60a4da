\* Four graphs, two keys, four or five inputs.
SPECIFICATION DrainingSpec
CONSTANTS
    Key = {1, 2}
    Sides = 2
    Weight <- MCWeight
    Absent = {}
    Joins = {}
    MaxCount = 1000
    Operator <- MCOperator
    Callback <- MCCallback
    Initial <- MCInitial
    Update <- MCUpdate
    Size <- MCSize
    NoKey = 0
    Extend <- Joined
    Graphs <- MCGraphs
    Unlimited <- MCUnlimited
    RecordKey = {1, 2}
    DrainSizes = {1, 2}
    MaxInputs <- MCMaxInputs
INVARIANTS
    CheckpointRestores
    OnlyLimitsRefuse
    OutputsIgnoreInterleaving
PROPERTIES
    EndsClosed
