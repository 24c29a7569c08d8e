SPECIFICATION Spec
CONSTANTS
    Run = {r1, r2, r3}
    MaxAskRounds = 1
    MaxCrashes = 0
    MaxExports = 0
    Retries = FALSE
    Lossy = FALSE
SYMMETRY RunSymmetry
INVARIANT ExhaustedRoundsDraft
CHECK_DEADLOCK FALSE
