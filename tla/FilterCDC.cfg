\* Two names, two definitions, three writes, one fault, a one-slot channel; the
\* retry loop, the consumer and the server's no-op writer are fair.
SPECIFICATION FairSpec
CONSTANTS
    Names = {a, b}
    Defs = {d1, d2}
    None = None
    ChanCap = 1
    MaxOplog = 4
    MaxFaults = 1
INVARIANT CaughtUpIsExact
PROPERTIES NeverDeletedNeverDropped EventuallyMirrors
CHECK_DEADLOCK FALSE
