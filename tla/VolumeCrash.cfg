\* Two writers on a file of full length; either may be killed anywhere.
SPECIFICATION FairSpec
CONSTANTS
    w1 = w1
    w2 = w2
    r1 = r1
    None = None
    Procs <- W2
    Writers <- W2
    BlocksPerGroup = 2
    LastBlock = 2
    BufLen = 2
    Data = {0}
    Zero = 0
    VerMod = 4
    MaxPages = 5
    InitPages <- FullFile
    Ranges <- Overlapping
    MaxVer = 1
    Crashes = TRUE
INVARIANTS Isolation SnapshotCheckout OnlyCommitsUpdate 
PROPERTIES ActsAtOnce CallsReturn
