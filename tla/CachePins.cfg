\* Three workers want a handle on a cache of three slots and a file of two pages;
\* any mmap may fail.
SPECIFICATION FairSpec
CONSTANTS
    h1 = h1
    h2 = h2
    h3 = h3
    s1 = s1
    s2 = s2
    s3 = s3
    p1 = p1
    p2 = p2
    Null = Null
    Handles <- ThreeHandles
    Slots <- ThreeSlots
    Pids <- TwoPages
INVARIANTS PinnedPage OneSlotPerPage VictimFound
PROPERTIES StartsReturn
CHECK_DEADLOCK FALSE
