SPECIFICATION Spec
CONSTANTS
    Slice = {s1, s2}
    ContractType = {"nda", "service"}
    Clause <- MCClause
    ClausesOf <- MCClausesOf
    RequiredOf <- MCClausesOf
    Value = {"acme"}
    Text <- MCText
    JudgePoints = {25}
    MaxAttempts = 2
    MaxTurns = 4
    MaxTokens = 2
    Retries = FALSE
INVARIANT BudgetSurvivesResume
CHECK_DEADLOCK FALSE
