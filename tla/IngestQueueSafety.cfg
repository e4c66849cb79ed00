\* Two workers that may be stopped, may crash and may lose their heartbeat, two
\* clients racing on one content hash, two rows.
SPECIFICATION Spec
CONSTANTS
    w1 = w1  w2 = w2  w3 = w3
    c1 = c1  c2 = c2
    h1 = h1  h2 = h2
    None = None
    Worker = {w1, w2}
    Persistent = {}
    Client = {c1, c2}
    Hash = {h1}
    MaxRows = 2
    Caps = {2}
SYMMETRY Symmetry
CHECK_DEADLOCK FALSE
INVARIANTS
    TypeOK
    OneActivePerHash
    RetriesBounded
    ClaimsAccounted
    NoForgottenLease
    LostIsFinal
    ReportHonest
PROPERTIES
    OnlyHolderSettles
    ConflictMeansTwinEnded
