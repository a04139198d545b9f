SPECIFICATION FairSpec
CONSTANTS
    NoCommit = NoCommit
    root = root
    base = base
    left = left
    right = right
    merged = merged
    Commit = {root, base, left, right, merged}
    Anc <- MCAnc
    MergeCommit = {merged}
    SyncPod = {s1}
    ResolverPod = {v1}
    Start <- MCAheadA
    Elsewhere <- MCEverywhere
    MaxChanges = 1
    MaxFaults = 1
INVARIANTS
    TypeOK
    TransactionsGoForward
    SyncingIsBacked
    ConflictsHaveDiverged
PROPERTIES
    ResolvesWhatItRead
    KeepsSyncPromise
    AgreementIsNoticed
CHECK_DEADLOCK FALSE
