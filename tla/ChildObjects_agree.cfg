SPECIFICATION FairSpec
CONSTANTS
    GiB = 2
    Specs <- MCSpecs
    Changes <- MCChanges
    Orders <- MCOrders
    UserPort = UserPort
    None = None
    Events <- MCEvents
INVARIANTS TypeOK PortsAgree NonTLSListenersClosed BindingUsable PodCanStart MountsInOrder EnvDefinedFirst HeadroomLeft
PROPERTIES NodePortsKept NeverJustReordered Settles
CHECK_DEADLOCK FALSE
