SPECIFICATION Spec
CONSTANTS
    None = None
    Damaged = Damaged
    PinRequests <- MCFewRequests
    PinOverrides <- MCFewOverrides
    TriggerSetup = {"t0"}
    FactoryTrigger = "t0"
    UiDefaults = {"u0"}
    FactoryUi = "u0"
    STRIDE = 2
    Seed = 1
    MaxCounter = 6
    HostRewindsNonce = TRUE
PROPERTIES
    NonceMonotonic
