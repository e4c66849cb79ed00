\* Two ingests at a time of three contents under one source, up to three runs,
\* both backends, failures and crashes everywhere, a repair and deletes.
CONSTANTS
    p1 = p1
    p2 = p2
    s1 = s1
    s2 = s2
    long = long
    short = short
    empty = empty
    x = x
    y = y
    Runner = {p1, p2}
    Source = {s1}
    Content = {long, short, empty}
    Text = {x, y}
    Parts <- MCParts
    Backends = {"postgres", "duckdb"}
    MaxParts = 2
    MaxRuns = 3
    MaxCollidedRuns = 2
    None = None
    Zero = Zero
SPECIFICATION Spec
SYMMETRY Symmetry
CONSTRAINT Bound
INVARIANTS
    TypeOK
    OneRunPerContent
    CompletedIsStored
    SkipServedOrOnRecord
    GapsAreOnRecord
