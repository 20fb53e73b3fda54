SPECIFICATION FairSpec
CONSTANTS
    None = None
    Byte = {0, 1}
    BLOCK_MAX = 1
    BUFFER_MAX = 2
    PERSIST_STRIDE = 2
    BLOCK_INDEX_MAX = 3
    SESSION_ID_LIMIT = 8
    MaxSessions = 3
    WINDOW_MS = 2
    TICKS_PER_MS = 2
    ROLLBACK_MAX = 2
    SIGNATURE_REQUIRED = FALSE
    Signed <- MCSigned
    Crc <- MCCrc
PROPERTIES
    WindowCloses
