SPECIFICATION FocusSpec
CONSTANTS
    Requests = {r1, r2, r3}
    REFRESH_TOKEN_TTL = 3
    ACCESS_TOKEN_TTL = 1
    CLEANUP_BATCH = 2
    MaxTokens = 4
    MaxLogins = 1
    MaxTime = 6
    MaxDuration = 2
SYMMETRY Symmetry
INVARIANT RevokedFamilyStaysDead
CHECK_DEADLOCK FALSE
