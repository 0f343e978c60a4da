\* Nine configurations, two sides, two keys, five inputs.
SPECIFICATION DrainingSpec
CONSTANTS
    Key = {1, 2}
    Sides = 2
    Weight <- MCWeight
    Absent = 0
    Joins <- MCJoins
    MaxCount = 100
    DrainSizes = {1, 3}
    MaxInputs = 5
INVARIANTS
    JoinExact
    CheckpointRestores
PROPERTIES
    EndsClosed
