SPECIFICATION Spec
CONSTANTS
    GiB = 2
    Specs <- MCWebSpecs
    Changes <- MCChanges
    Orders <- MCOrders
    UserPort = UserPort
    None = None
    Events <- MCWebEvents
INVARIANT NonTLSDisabled
CHECK_DEADLOCK FALSE
