SPECIFICATION AuthFairSpec
CONSTANTS
    None = None
    LOCKOUT_AFTER = 3
    RETRY = 2
    LOCKOUT = 5
    ATTEMPTS_MAX = 4
    Challenges = 3
INVARIANTS
    AuthTypeOK
    LockoutMatchesFailures
    ChallengeAnsweredOnce
PROPERTIES
    FailuresThrottled
    LockoutEnds
