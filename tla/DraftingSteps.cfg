SPECIFICATION Spec
CONSTANTS
    Field = {law, country}
    Value = {v1, v2}
    Extensions <- OneExtension
    MeritSets <- SomeMerits
    MaxClassified = 2
    Name = {"definitions", "liability", "fees", "scope"}
    LibraryOrder <- TitleOrders
    MaxSections = 3
    MaxBlocks = 3
    MaxAdded = 1
    Word = {w1, w2}
    NgramWords = 2
    MinRunWords = 3
    MaxDraft = 5
    MaxReference = 4
SYMMETRY Symmetry
CHECK_DEADLOCK FALSE
INVARIANTS
    TypeOK
    KnowledgeMerged
    ChoiceIsBest
    NothingDropped
    KeptAsTheyWere
    ReportedIsDone
    CopiedRunsReported
