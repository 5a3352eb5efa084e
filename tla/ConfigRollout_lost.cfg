SPECIFICATION Spec
CONSTANTS
    R = 2
    a = a
    b = b
    Values <- MCValues
    Deployed <- MCDeployed
    None = None
    MaxEvents = 2
INVARIANT ChangeRestarts
CHECK_DEADLOCK FALSE
