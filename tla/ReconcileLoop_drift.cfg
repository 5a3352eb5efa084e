SPECIFICATION FairSpec
CONSTANTS
    N = 2
    Plugins = 1
    Conf = 2
    NoChild = NoChild
    NoInst = NoInst
    a = a
    b = b
    Configs <- MCConfigs
    Specs <- Untroubled
    Edits <- StorageEdits
    Starts <- DriftStarts
INVARIANTS NoLostWork
PROPERTY Convergence
CHECK_DEADLOCK FALSE
