\* Two requests at a time.
CONSTANTS
    Calls = {c1, c2}
    Secrets = {}
    Null = Null
    TwoFactor = FALSE
    Production = TRUE
    LoseAnswers = FALSE
    AdminStatuses = {}
    InitFailCounts = {0}
    MAX_FAIL_COUNT = 2
SYMMETRY Symmetry
SPECIFICATION Spec
INVARIANTS FailuresLock
