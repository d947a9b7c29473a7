SPECIFICATION Spec
CONSTANTS
    a1 = a1
    a2 = a2
    Applications = {a1, a2}
    Product <- MCProduct
    Dob <- MCDob
    FirstDay <- MCFirstDay
    MaxDays = 1
    DaysPerYear = 3
    Bureaus <- MCBureaus
    MaxModel = 2
    PolicyVersions = {"PL1", "PL2", "BL1"}
    PolicyProduct <- MCPolicyProduct
    Seeded = {"PL1", "BL1"}
    ProductCeilings <- MCProductCeilings
    Grades = {"A1", "B1", "C1"}
    MaxTampering = 1
    MaxOverrides = 2
    ScoreOf <- MCScoreOf
    Evaluate <- MCEvaluate
    Limit <- MCLimit
    Rate <- MCRate
INVARIANTS
    TypeOK
    VerifyFindsTampering
    ReplayAgrees
    SimulationOfOwnPolicy
CHECK_DEADLOCK FALSE
