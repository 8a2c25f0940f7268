\* Two workers on an entity that can grow twice and is then full.
SPECIFICATION FairSpec
CONSTANTS
    w1 = w1
    w2 = w2
    Data = Data
    Workers <- W2
    objectsperpage = 2
    straitc = 1
    lookupsperpage = 3
    NewPids <- Scattered
    Beyond = 1
    MaxJobs = 5
INVARIANTS   ChapterLinked
PROPERTIES JobsEnd
CHECK_DEADLOCK FALSE
