\* Every source of four events, alone; two processes over some; three flows.
SPECIFICATION EitherSpec
CONSTANTS
    Resumer = {1, 2}
    Tasks <- MCTasks
    MaxIdle = 2
    Owner = {1, 2}
    Flows <- MCFlows
    MaxBatchInputs = 3
    MaxBatchOutputs = 6
    MaxRecords = 9
    Operator <- Operators
    Callback <- Callbacks
    Initial <- Zero
    Update <- Total
    Size <- OneByte
    NoKey = 0
    Extend <- NoExtension
INVARIANTS
    AlignmentIsExact
    JournalIsExact
PROPERTIES
    PrefixOnlyAdvances
    PrefixCompletes
