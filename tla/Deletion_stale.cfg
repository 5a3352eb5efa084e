SPECIFICATION FairSpec
CONSTANTS
    home = home
    other = other
    Home = home
    Namespaces <- OneNamespace
    NoObj = NoObj
    MaxUid = 4
    MaxFaults = 1
INVARIANT TypeOK
PROPERTIES LiveStsSurvives DeletionCompletes
CHECK_DEADLOCK FALSE
