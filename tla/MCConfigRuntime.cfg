SPECIFICATION Spec
CONSTANTS
    None = None
    Damaged = Damaged
    PinRequests <- MCPinRequests
    PinOverrides <- MCPinOverrides
    TriggerSetup = {"t0", "t1"}
    FactoryTrigger = "t0"
    UiDefaults = {"u0", "u1"}
    FactoryUi = "u0"
    STRIDE = 2
    Seed = 1
    MaxCounter = 6
    HostRewindsNonce = FALSE
INVARIANTS
    TypeOK
    RuntimeMatchesStagedPages
    PinsDriveOneThingEach
    RestartSkipsUsedNonces
PROPERTIES
    NonceMonotonic
