SPECIFICATION SessionFairSpec
CONSTANTS
    None = None
    Byte = {0, 1}
    BLOCK_MAX = 1
    BUFFER_MAX = 2
    PERSIST_STRIDE = 2
    BLOCK_INDEX_MAX = 3
    SESSION_ID_LIMIT = 4
    MaxSessions = 2
    WINDOW_MS = 4
    TICKS_PER_MS = 1
    ROLLBACK_MAX = 1
    SIGNATURE_REQUIRED = TRUE
    Signed <- MCSigned
    Crc <- MCCrc
    LOCKOUT_AFTER = 2
    RETRY = 1
    LOCKOUT = 2
    ATTEMPTS_MAX = 3
    Challenges = 2
INVARIANTS
    ChallengeEndsWithSession
PROPERTIES
    WindowCloses
    SessionNeedsFreshAnswer
