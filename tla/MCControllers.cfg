SPECIFICATION Spec
CONSTANTS
    SCRAMBLE_DURATION = 7
    OVERBOOST = 250
    Enabled <- ConstEnabled
    Channels <- ConstChannels
    Cylinders <- ConstCylinders
    RETARD_STEP = 150
    RETARD_MAX = 400
    RECOVERY = 50
    FKC_MAX = 300
    FKC_RECOVERY = 1
    THRESHOLD = 100
    LEARN_WEIGHT = 100
    DamEnabled = TRUE
    LearnEnabled = TRUE
    Fuel <- ConstFuel
    LEARN = 200
    PW_SCALE = 867
    LtftCells <- ConstLtftCells
    ERROR_LIMIT = 2
    ERROR_MAX = 3
    THRESHOLD_PROB = 65
    KNOCKS_MOD = 4
    TableIds = {1, 2}
    Columns <- ConstColumns
    Rows <- ConstRows
    LOSS_PERIOD = 173
    Limits <- ConstLimits
    NEVER_TRIPS = 200
    OFFLINE_PERIOD = 240
    OFFLINE_WINDOW = 12
    RX_STALE_PERIOD = 170
    RX_STALE_WINDOW = 10
    TX_STALE_PERIOD = 210
    TX_STALE_WINDOW = 10
    REQUEST_PERIOD = 30
    REQUEST_STEP = 2
    DEFAULT_TIMER = 36
    STALE_REQUEST = 46
    TIMEOUT_REQUEST = 62
    RESULT_HOLD = 8
    COUNTER_MOD = 256
    MAX_SAMPLES = 7800
    MAX_STEPS <- ConstMaxSteps
INVARIANTS BenchTypeOK DerivedInBounds
PROPERTIES DemandsNeedCause ImplementsShiftContract DemandsEnd
CHECK_DEADLOCK FALSE
