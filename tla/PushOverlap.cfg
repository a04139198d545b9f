SPECIFICATION FairSpec
CONSTANTS
    NoCommit = NoCommit
    base = base
    left = left
    right = right
    tip = tip
    main = main
    side = side
    k1 = k1
    t1 = t1
    r1 = r1
    DefaultBranch = main
    Commit = {base, left}
    Anc <- MCAncLine
    Pod = {p1, p2}
    Txn = {t1}
    Repo = {r1}
    Branch = {main, side}
    Cr = {}
    TxnSpec <- MCMixed
    CrSpec <- MCCrNone
    AtomicRepos = {r1}
    CachedRepos = {r1}
    External = {"forward"}
    MaxFaults = 1
INVARIANTS
    TypeOK
    LandedStays
    ClaimedBeforePush
    SucceededSettled
PROPERTIES
    TerminalIsFinal
    LandsOnce
    EventuallyTerminal
CHECK_DEADLOCK FALSE
