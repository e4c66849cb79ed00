\* One ingest at a time of one content under one source, Postgres.
CONSTANTS
    p1 = p1
    p2 = p2
    s1 = s1
    s2 = s2
    long = long
    short = short
    empty = empty
    x = x
    y = y
    Runner = {p1}
    Source = {s1}
    Content = {long}
    Text = {x, y}
    Parts <- MCParts
    Backends = {"postgres"}
    MaxParts = 2
    MaxRuns = 2
    MaxCollidedRuns = 2
    None = None
    Zero = Zero
SPECIFICATION Spec
INVARIANT SkippedIsWhole
