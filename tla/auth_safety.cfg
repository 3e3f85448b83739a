\* Two overlapping requests on an account with a second factor, that may be
\* registered or not; an administrator may lock it.
CONSTANTS
    Calls = {c1, c2}
    Secrets = {s1, s2, s3}
    Null = Null
    TwoFactor = TRUE
    Production = TRUE
    LoseAnswers = FALSE
    AdminStatuses = {"LOCKED"}
    InitFailCounts = {0, Null}
    MAX_FAIL_COUNT = 2
SYMMETRY Symmetry
SPECIFICATION Spec
INVARIANTS TypeOK FailCountBounded AuditedLockIsReal SecretIsShown
