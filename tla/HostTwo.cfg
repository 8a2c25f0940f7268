\* Two processes, one thread each that stops the host; every stage may fail and
\* either process may be killed.
SPECIFICATION FairSpec
CONSTANTS
    p1 = p1
    p2 = p2
    s1 = s1
    s2 = s2
    None = None
    Procs <- TwoProcs
    Stoppers <- OneStopper
    Fails = {1, 3, 4, 5, 6, 7}
    Crashes = TRUE
INVARIANTS OneHost  StatActive
 
CHECK_DEADLOCK FALSE
