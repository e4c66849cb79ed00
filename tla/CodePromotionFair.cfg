\* A caller that goes on and one whose calls may crash or fail; two proposals
\* that are alike; versions that calls leave behind.
SPECIFICATION FairSpec
CONSTANTS
    p1 = p1  p2 = p2
    c1 = c1  c2 = c2
    None = None
    Proposal = {p1, p2}
    Alike <- MCAlike
    Caller = {c1, c2}
    Steady = {c1}
    MaxVersions = 3
INVARIANTS
    TypeOK
    VersionsAccounted
    DuplicatesOverlap
PROPERTIES
    ProposalsEnd
CHECK_DEADLOCK FALSE
