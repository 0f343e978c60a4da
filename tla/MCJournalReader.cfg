\* Two sessions and one reader.
SPECIFICATION ReaderSpec
CONSTANTS
    Session = {s1, s2}
    RequestId = {q1, q2}
    JournalId = {j}
    ThisJournal = j
    None = None
    Key = {k1, k2}
    k1 = k1  k2 = k2  ra = ra  rb = rb  q1 = q1  q2 = q2
    Record <- MCRecord
    KeyOf <- MCKeyOf
    RowsOf <- MCRowsOf
    RouteOf <- MCRouteOf
    Workers = 2
    MaxBatch = 2
    MaxOutputs = 4
    MaxHistory = 3
    StoreBudget = 9
    Submitted <- MCSubmitted
    Reader = {r1}
    PageLimit = {1, 3}
INVARIANTS
    PagesArePrefix
PROPERTIES
    PagingEnds
    ApplyReturns
