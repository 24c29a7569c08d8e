SPECIFICATION Spec
CONSTANTS
    Clause = {n1, n2, s1}
    NDA = {n1, n2}
    Position = {o1, o2}
    MaxVersion = 2
    RuleId = {r1, r2}
    MaxRules = 2
    Request = {q1, q2}
    MEMORABLE = {k1, k2}
    Value = {v1, v2}
    MaxRows = 3
    Page = {p1, p2}
    Date = {1}
    Years = {1, 2}
SYMMETRY Symmetry
INVARIANTS
    TypeOK
    CacheIsDisk
    
    PolicyInForce
    HistoryLeadsOn
    StaleOnlyIfOvertaken
PROPERTIES
    EditsBumpVersion
    FinalHasRequired
    RetiredStaysRetired
    ReplacedKnowingly
    RunKeepsConfirmed
