SPECIFICATION Spec
CONSTANTS
    home = home
    other = other
    Home = home
    Namespaces <- TwoNamespaces
    NoObj = NoObj
    MaxUid = 4
    MaxFaults = 0
INVARIANT OnlyDeletedPodsMarked
CHECK_DEADLOCK FALSE
