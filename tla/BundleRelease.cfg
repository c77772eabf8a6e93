SPECIFICATION Spec
CONSTANTS
    k1 = k1
    k2 = k2
    k3 = k3
    t1 = t1
    t2 = t2
    p1 = p1
    NoLock = NoLock
    Gone = Gone
    RootBundle <- TheRoot
    InitialBundles <- FirstBundles
    LaterBundles <- NextBundles
    FirstKeys <- InitialKeys
    LaterKeys <- MoreKeys
    NoFile = NoFile
    Policies <- AllPolicies
    MaxUpdates = 2
    Digests <- AllDigests
    Threads = {t1, t2}
    ProcessOf <- OneProcess
    Files <- TwoFiles
    MaxTemp = 2
    MaxCrashes = 1
    Separate = TRUE
SYMMETRY ThreadsAlike
INVARIANTS
    GraphSound
    LockReproduces
    CacheWhole
    DeployedStaysWhole
CHECK_DEADLOCK FALSE
