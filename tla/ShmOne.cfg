SPECIFICATION LinkFairSpec
CONSTANTS
    h1 = h1
    h2 = h2
    h3 = h3
    Handles <- ThreeHandles
    Rejoins = FALSE
INVARIANTS UsersCounted
PROPERTIES DestroyedLast ConnectReturns
CHECK_DEADLOCK FALSE
