\* A buffer that fits one word of map_statev.
SPECIFICATION Spec
CONSTANTS
    bcount = 4
    WordBits = 4
    UIntMod = 16
    Offsets <- Within
INVARIANTS MapsExclusive 
CHECK_DEADLOCK FALSE
