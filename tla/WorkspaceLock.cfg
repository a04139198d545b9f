SPECIFICATION Spec
CONSTANTS
    w1 = w1
    w2 = w2
    w3 = w3
    q1 = q1
    q2 = q2
    NoRef = NoRef
    NoPath = NoPath
    NoWorker = NoWorker
    Worker = {w1, w2, w3}
    Process = {q1, q2}
    ProcessOf <- MCTwoPods
    Path = {p1}
    Ref = {a1, a2, a3}
    Shallow = FALSE
    Collect = TRUE
    MaxCount = 2
SYMMETRY MCSymmetry
INVARIANTS
    TypeOK
    Exclusive
    UnlocksOwn
    WaitsForHolder
PROPERTIES
    TakesTurns
    GCSparesUsed
