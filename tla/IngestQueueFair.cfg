\* One worker that goes on for ever and one that may stop, crash or lose its
\* heartbeat; rows retried up to twice.  No symmetry: liveness is checked.
SPECIFICATION FairSpec
CONSTANTS
    w1 = w1  w2 = w2  w3 = w3
    c1 = c1  c2 = c2
    h1 = h1  h2 = h2
    None = None
    Worker = {w1, w2}
    Persistent = {w1}
    Client = {c1}
    Hash = {h1}
    MaxRows = 2
    Caps = {2}
CHECK_DEADLOCK FALSE
PROPERTIES
    Implements
    EveryRowEnds
