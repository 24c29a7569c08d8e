SPECIFICATION Spec
CONSTANTS
    Run = {r1, r2, r3}
    MaxAskRounds = 1
    MaxCrashes = 0
    MaxExports = 0
    Retries = TRUE
    Lossy = FALSE
SYMMETRY RunSymmetry
INVARIANT FinalizedPassedGates
CHECK_DEADLOCK FALSE
