SPECIFICATION CallsSpec
CONSTANTS
    i1 = i1
    e1 = e1
    Installers <- OneInstaller
    Executors <- OneExecutor
    Capacity = 3
    UIntMod = 8
    SeqMod = 4
    Counts = {1, 2, 4}
    Races = FALSE
INVARIANTS InOrder HoldsTell
 
CHECK_DEADLOCK FALSE
