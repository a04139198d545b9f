SPECIFICATION FairSpec
CONSTANTS
    w1 = w1
    w2 = w2
    w3 = w3
    q1 = q1
    q2 = q2
    NoRef = NoRef
    NoPath = NoPath
    NoWorker = NoWorker
    Worker = {w1, w2}
    Process = {q1}
    ProcessOf <- MCOnePod
    Path = {p1}
    Ref = {a1, a2, a3}
    Shallow = TRUE
    Collect = FALSE
    MaxCount = 3
INVARIANTS
    CloneStays
PROPERTIES
    EveryAcquireEnds
