\* Every fault, resends that overlap or not, claims that outlive their holder or not.
SPECIFICATION FairSpec
CONSTANTS
    r1 = r1
    r2 = r2
    r3 = r3
    k1 = k1
    p1 = p1
    NoKey = NoKey
    NoApplication = NoApplication
    Requests = {r1, r2, r3}
    Person <- MCPerson
    Key <- MCKey
    KycValid = {p1}
    Faults = {"stage", "commit", "redis", "crash"}
    ClaimsExpire = TRUE
INVARIANTS
    TypeOK
    ClaimExclusion
    DedupeWithoutOverlap
    AnswersAreDurable
    LoanPerKey
PROPERTIES
    ClaimsEnd
CHECK_DEADLOCK FALSE
