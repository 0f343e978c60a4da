\* Two geometries of the ordered runtime, three of the other; two keys.
SPECIFICATION FoldsSpec
CONSTANTS
    Key = {1, 2}
    Specs <- MCSpecs
    MaxCount = 8
    Timestamps <- MCTimestamps
    DrainSizes = {1, 2}
    OrderedTimestamps = {0, 1, 3, 4}
    OrderedDrainSizes = {1, 3}
    MaxBufferRecords = 3
INVARIANTS
    WindowsExact
    CheckpointRestores
    OrderedIsExact
PROPERTIES
    FoldsClose
CHECK_DEADLOCK FALSE
