SPECIFICATION FairSpec
CONSTANTS
    NoCommit = NoCommit
    NoRepo = NoRepo
    NoBranch = NoBranch
    r1 = r1
    x = x
    y = y
    Pod = {p1, p2}
    Repo = {r1}
    Branch = {x, y}
    Cr = {1, 2}
    NameOf <- MCNamesCollide
    Commit = {c1, c2}
    MaxChanges = 1
    MaxFaults = 1
INVARIANTS
    TypeOK
PROPERTIES
    HeadsWereSeen
    EventuallyMirrors
CHECK_DEADLOCK FALSE
