SPECIFICATION FairSpec
CONSTANTS
    h1 = h1
    h2 = h2
    w1 = w1
    Installers <- TwoHandles
    Executors <- OneWorker
    Capacity = 2
    UIntMod = 8
    SeqMod = 3
    Races = TRUE
    Jobs = {"JFREE", "JSTKDELETE", "JENTDELETE"}
    ObjSize = 3
    Records = 3
    Crashes = TRUE
INVARIANTS OwnJobOnly
PROPERTIES JobEnds
CHECK_DEADLOCK FALSE
