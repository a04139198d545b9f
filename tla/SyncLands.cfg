SPECIFICATION Spec
CONSTANTS
    NoCommit = NoCommit
    root = root
    base = base
    left = left
    right = right
    merged = merged
    Commit = {root, base, left, right, merged}
    Anc <- MCAnc
    MergeCommit = {merged}
    SyncPod = {s1}
    ResolverPod = {v1}
    Start <- MCAheadA
    Elsewhere <- MCNowhere
    MaxChanges = 1
    MaxFaults = 0
INVARIANTS
    SucceededPushLands
CHECK_DEADLOCK FALSE
