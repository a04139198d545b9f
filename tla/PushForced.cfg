SPECIFICATION FairSpec
CONSTANTS
    NoCommit = NoCommit
    base = base
    left = left
    right = right
    tip = tip
    main = main
    side = side
    k1 = k1
    t1 = t1
    r1 = r1
    DefaultBranch = main
    Commit = {base, left}
    Anc <- MCAncLine
    Pod = {p1}
    Txn = {t1}
    Repo = {r1}
    Branch = {main, side}
    Cr = {k1}
    TxnSpec <- MCForced
    CrSpec <- MCCrSide
    AtomicRepos = {r1}
    CachedRepos = {r1}
    External = {"forward", "force"}
    MaxFaults = 1
INVARIANTS
    ResultIsLanded
PROPERTIES
    KeepsPromise
    OnlyFastForwards
    HeadsComeRight
CHECK_DEADLOCK FALSE
