\* Two calls at a time on a version with two releases, one required gate and
\* one that is not; six events take a release from its request over two
\* results and a waiver to being released and superseded.
SPECIFICATION Spec
CONSTANTS
    h1 = h1  h2 = h2
    r1 = r1  r2 = r2
    Release = {r1, r2}
    Gate = {g1, g2}
    Required = {g1}
    Approver = {ann}
    Blank = blank
    None = none
    Handler = {h1, h2}
    MaxEvents = 6
SYMMETRY Symmetry
CHECK_DEADLOCK FALSE
INVARIANTS
    TypeOK
    Loadable
    AnswersHonest
PROPERTIES
    EvidenceIsItsOwn
    Implements
