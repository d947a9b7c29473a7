\* Two submissions and three overrides of one of them, aborts anywhere.
SPECIFICATION FairSpec
CONSTANTS
    s1 = s1
    s2 = s2
    o1 = o1
    o2 = o2
    o3 = o3
    m1 = m1
    m2 = m2
    Free = Free
    NoModel = NoModel
    Persists = {s1, s2}
    Overrides = {o1, o2, o3}
    SelfApproved = {o3}
    Target <- MCTarget
    Engine <- MCEngine
    NewOutcome <- MCNewOutcome
    Champion <- MCChampion
    Challenger <- MCChallenger
INVARIANTS
    TypeOK
    ChainIntact
    ModelsCreatedOnce
    TrailExplainsOutcome
PROPERTIES
    ImplementsLedger
    TransactionsEnd
CHECK_DEADLOCK FALSE
