\* Two files, so that one can inherit the count of the other, and two heal
\* attempts, so that a count can be inherited before it is spent.  A session
\* of no pass, one of two passes and one that goes on until it is cancelled.
SPECIFICATION FairSpec
CONSTANTS
    forever = forever
    Forever = forever
    Path = {f1, f2}
    MaxAttempts = 2
    Limits <- MCLimits
CHECK_DEADLOCK FALSE
INVARIANTS
    TypeOK
    CapIsExact
    NeverDropped
PROPERTIES
    HealSettles
