SPECIFICATION Spec
CONSTANTS
    f = f
    g = g
    d = d
    x = x
    y = y
    NoBlob = NoBlob
    Name = {f, g, d}
    Path <- MCPaths
    Blob = {x, y}
    Alike <- MCAlike
INVARIANTS
    TypeOK
    ConflictsFound
    RootChangesMerge
CHECK_DEADLOCK FALSE
