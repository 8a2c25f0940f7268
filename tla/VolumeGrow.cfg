\* Two writers that have to extend an empty file, and a read-only process; a
\* range the file cannot grow to.
SPECIFICATION Spec
CONSTANTS
    w1 = w1
    w2 = w2
    r1 = r1
    None = None
    Procs <- W2R1
    Writers <- W2
    BlocksPerGroup = 2
    LastBlock = 3
    BufLen = 2
    Data = {0}
    Zero = 0
    VerMod = 4
    MaxPages = 5
    InitPages <- EmptyFile
    Ranges <- Growing
    MaxVer = 0
    Crashes = FALSE
SYMMETRY Perms2
INVARIANTS BlocksInFile NeverNotDb
PROPERTIES FileOnlyGrows
