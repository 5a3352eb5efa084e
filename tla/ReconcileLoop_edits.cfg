SPECIFICATION FairSpec
CONSTANTS
    N = 2
    Plugins = 1
    Conf = 2
    NoChild = NoChild
    NoInst = NoInst
    a = a
    b = b
    Configs <- MCConfigs
    Specs <- AllSpecs
    Edits <- StorageOrTLS
    Starts <- TroubledStarts
INVARIANTS TypeOK NoLostWork FinalizerBeforeChildren
PROPERTIES Convergence ObservedIsCurrent
CHECK_DEADLOCK FALSE
