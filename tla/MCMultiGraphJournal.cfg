\* Two sessions, three request identifiers, one reader.
SPECIFICATION Spec
CONSTANTS
    Session = {s1, s2}
    RequestId = {q1, q2}
    LastId = q3
    ThisJournal = journal
    None = None
    Submitted <- MCSubmitted
    MaxHistory = 9
    MaxCommands = 5
    MaxBatchOutputs = 4
    MetadataRows = 6
    CursorStarts = {0, 1}
    PageRows = {1, 9}
    PageBytes = {2, 9}
    Key = {1, 2}
    Sides = 2
    Weight <- MCWeight
    Absent = {}
    Joins = {}
    MaxCount = 1000
    Operator <- MCOperator
    Callback <- MCCallback
    Initial <- MCInitial
    Update <- MCUpdate
    Size <- MCSize
    NoKey = 0
    Extend <- Joined
    Graphs <- MCGraphs
    Flow <- MCFlow
    InitialState <- NewGraph
    Perform <- GraphPerform
    Restores <- GraphRestores
    Advances <- GraphAdvances
    CauseAdmitted <- GraphCauseAdmitted
    Reproduces <- GraphReproduces
    Follows <- GraphFollows
    OutputSize <- GraphOutputSize
SYMMETRY Symmetry
INVARIANTS
    JournalSound
    PagesArePrefix
    AnswerIsTrue
PROPERTIES
    LogSpec
CHECK_DEADLOCK FALSE
