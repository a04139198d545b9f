SPECIFICATION Spec
CONSTANTS
    NoCommit = NoCommit
    base = base
    left = left
    right = right
    tip = tip
    main = main
    side = side
    k1 = k1
    t1 = t1
    r1 = r1
    DefaultBranch = main
    Commit = {base, left, tip}
    Anc <- MCAncLine3
    Pod = {p1}
    Txn = {t1}
    Repo = {r1}
    Branch = {main, side}
    Cr = {}
    TxnSpec <- MCSyncTip
    CrSpec <- MCCrNone
    AtomicRepos = {r1}
    CachedRepos = {}
    External = {"forward"}
    MaxFaults = 0
PROPERTIES
    ExpectedOldCommitRespected
CHECK_DEADLOCK FALSE
