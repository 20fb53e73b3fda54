SPECIFICATION Spec
CONSTANTS
    LIVE_LOSS_PERIOD = 11
    LOSS_MOD = 3
    HeaderBytes <- ConstHeaderBytes
    LineBytes <- ConstLineBytes
    MAX_SAMPLES = 30
    MAX_LOG_BYTES = 8
    MAX_SESSIONS = 2
    MAX_CAPTURES = 2
    MAX_MARKERS = 1
    OFFLINE_PERIOD = 21
    OFFLINE_WINDOW = 2
    RX_STALE_PERIOD = 17
    RX_STALE_WINDOW = 2
    TX_STALE_PERIOD = 29
    TX_STALE_WINDOW = 2
    REQUEST_PERIOD = 9
    REQUEST_STEP = 6
    DEFAULT_TIMER = 30
    STALE_REQUEST = 36
    TIMEOUT_REQUEST = 40
    RESULT_HOLD = 2
    COUNTER_MOD = 256
    STEP = 2
    ACTIVATION_DELAY = 4
    MAX_ACTIVE = 4
    COUNT_MAX = 65535
    HEATER_WARMUP = 6
    PRIMARY_FAULT_HOLD = 6
    SECONDARY_FAULT_HOLD = 4
    PRIMARY_PERIOD = 8
    SECONDARY_PERIOD = 12
    EXTERNAL_PERIOD = 10
    EXTERNAL_WINDOW = 3
    Limits <- ConstLimits
    NEVER_TRIPS = 200
    LOSS_PERIOD = 7
    BLOCK_SIZE = 4
    SAMPLE_MS = 1
    ENTRY_MAX = 2
    BLOCKS_MOD = 2
    SESSION_MOD = 8
INVARIANTS LiveTypeOK RotationalNeedsCalm CutTimeAccounts LossesMatchSamples LogAccounts
CHECK_DEADLOCK FALSE
