SPECIFICATION Spec
CONSTANTS
    GiB = 2
    Specs <- MCOrderSpecs
    Changes <- MCChanges
    Orders <- MCOrders
    UserPort = UserPort
    None = None
    Events <- MCOrderEvents
INVARIANT VariablesAlwaysFirst
CHECK_DEADLOCK FALSE
