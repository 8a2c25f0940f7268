SPECIFICATION FairSpec
CONSTANTS
    h1 = h1
    h2 = h2
    w1 = w1
    Installers <- OneHandle
    Executors <- OneWorker
    Capacity = 2
    UIntMod = 8
    SeqMod = 3
    Races = TRUE
    Jobs = {"JFREE", "JREAD", "JSTKDELETE", "JSTKDOWNLOAD", "JENTCREATE", "JENTDELETE", "JENTDOWNLOAD"}
    ObjSize = 3
    Records = 3
    Crashes = FALSE
INVARIANTS ResultTold
PROPERTIES JobEnds
CHECK_DEADLOCK FALSE
