SPECIFICATION InOrder
CONSTANTS
    Run = {1, 2, 3}
    MaxAskRounds = 1
    MaxCrashes = 1
    MaxExports = 1
    Retries = FALSE
    Lossy = FALSE
INVARIANTS
    TypeOK
    FinalizedPassedGates
    UnbackedHasConsent
    AskRoundsBounded
    CompleteIsPreviewable
    InputRequiredIsAnswerable
    RunMatchesEvents
PROPERTIES
    ExportIsCurrent
    AnswersKept
    EndedStaysEnded
    EveryRunReports
    ImplementsConversation
CHECK_DEADLOCK FALSE
