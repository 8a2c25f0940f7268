\* Two handles that fill a ring of two slots, two workers, and a host that may stop.
SPECIFICATION FairSpec
CONSTANTS
    None = None
    h1 = h1
    h2 = h2
    h3 = h3
    w1 = w1
    w2 = w2
    Handles <- TwoHandles
    Workers <- TwoWorkers
    jobc = 2
    MaxJobs = 3
    EarlyHandles = FALSE
    Stops = TRUE
INVARIANTS HeadAgrees BoundedOvertaking
PROPERTIES JobsServed HostCloseReturns
CHECK_DEADLOCK FALSE
