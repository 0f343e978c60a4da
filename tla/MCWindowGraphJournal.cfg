\* Two sessions, seven request identifiers, one reader.
SPECIFICATION Spec
CONSTANTS
    Session = {s1, s2}
    ThisJournal = journal
    None = None
    Submitted <- MCSubmitted
    MaxHistory = 11
    MaxCommands = 4
    MaxBatchOutputs = 4
    MetadataRows = 4
    CursorStarts = {0}
    PageRows = {2}
    PageBytes = {9}
    Key = {1, 2}
    Specs <- MCSpecs
    MaxCount = 100
    Operator <- MCOperator
    Callback <- MCCallback
    Initial <- MCInitial
    Update <- MCUpdate
    Size <- MCSize
    NoKey = 0
    Extend <- Windowed
    WindowGraphs <- MCWindowGraphs
    Flow <- MCFlow
INVARIANTS
    JournalSound
    DrainsAreInvisible
SYMMETRY Symmetry
CHECK_DEADLOCK FALSE
