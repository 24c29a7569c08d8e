SPECIFICATION Spec
CONSTANTS
    Slice = {s1, s2, s3}
    ContractType = {"nda", "service"}
    Clause <- MCClause
    ClausesOf <- MCClausesOf
    RequiredOf <- MCClausesOf
    Value = {"acme"}
    Text <- MCText
    JudgePoints = {25}
    MaxAttempts = 2
    MaxTurns = 3
    MaxTokens = 2
    Retries = TRUE
INVARIANTS TypeOK FinalIsComplete
PROPERTIES AttemptsBounded FinalStays
SYMMETRY Symmetry
CHECK_DEADLOCK FALSE
