\* One worker, one book that keeps failing, three attempts.
SPECIFICATION PassSpec
CONSTANTS
    w1 = w1  c1 = c1  h1 = h1
    None = None
    Worker = {w1}
    Persistent = {w1}
    Client = {c1}
    Hash = {h1}
    MaxRows = 1
    Caps = {3}
CHECK_DEADLOCK FALSE
PROPERTIES
    OneAttemptPerPass
