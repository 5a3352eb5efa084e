SPECIFICATION FairSpec
CONSTANTS
    R = 2
    a = a
    b = b
    Values <- MCValues
    Deployed <- MCDeployed
    None = None
    MaxEvents = 2
INVARIANTS TypeOK NoChangeLost RestartsBounded RebalancedAfterRoll ConditionCurrent
PROPERTIES ComesToRest ImplementsRollout
CHECK_DEADLOCK FALSE
