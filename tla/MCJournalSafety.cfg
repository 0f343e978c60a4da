\* Two sessions race over three request identifiers and a store that fills up.
SPECIFICATION Spec
CONSTANTS
    Session = {s1, s2}
    RequestId = {q1, q2, q3}
    JournalId = {j, other}
    ThisJournal = j
    None = None
    Key = {k1, k2}
    k1 = k1  k2 = k2  ra = ra  rb = rb  rc = rc
    Record <- MCRecord
    KeyOf <- MCKeyOf
    RowsOf <- MCRowsOf
    RouteOf <- MCRouteOf
    Workers = 2
    MaxBatch = 2
    MaxOutputs = 4
    MaxHistory = 3
    StoreBudget = 6
    MaxExpected = 2
    Batches <- TwoWaves
    Submitted <- MCSubmitted
SYMMETRY Symmetry
INVARIANTS
    TypeOK
    JournalSound
PROPERTIES
    HistoryIsKept
    CancelledNeverPublishes
    AnswersAreTrue
    SerialSpec
