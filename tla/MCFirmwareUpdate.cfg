SPECIFICATION Spec
CONSTANTS
    None = None
    Byte = {0, 1}
    BLOCK_MAX = 2
    BUFFER_MAX = 5
    PERSIST_STRIDE = 2
    BLOCK_INDEX_MAX = 6
    SESSION_ID_LIMIT = 8
    MaxSessions = 4
    WINDOW_MS = 3
    TICKS_PER_MS = 2
    ROLLBACK_MAX = 2
    SIGNATURE_REQUIRED = TRUE
    Signed <- MCSigned
    Crc <- MCCrc
INVARIANTS
    TypeOK
    StateMatchesSession
    PendingOnlyInWindow
    VerifiedImageApproved
    CandidateApproved
    BlocksMatchBytes
    ResumeRewindsOwnTransfer
    ResumeLossBounded
PROPERTIES
    RollbackNotEarly
    ImplementsLifecycle
