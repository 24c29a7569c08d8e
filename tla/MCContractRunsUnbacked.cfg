SPECIFICATION Spec
CONSTANTS
    Run = {r1, r2}
    MaxAskRounds = 1
    MaxCrashes = 0
    MaxExports = 0
    Retries = FALSE
    Lossy = TRUE
INVARIANT UnbackedHasConsent
CHECK_DEADLOCK FALSE
