\* A file that grows by up to seven pages, two references to a garbage page, a window of two.
SPECIFICATION Spec
CONSTANTS
    FirstPid = 1
    MaxPid = 7
    Refs = 2
    Window = 2
    Straits = {1, 2}
    MaxHeld = 3
INVARIANTS OneOwner 
PROPERTIES SuppliesPages
CHECK_DEADLOCK FALSE
