SPECIFICATION Spec
CONSTANTS
    a1 = a1
    a2 = a2
    Applications = {a1}
    Product <- MCProduct
    Dob <- MCDob
    FirstDay <- MCFirstDay
    MaxDays = 0
    DaysPerYear = 3
    Bureaus <- MCBureaus
    MaxModel = 1
    PolicyVersions = {"PL1"}
    PolicyProduct <- MCPolicyProduct
    Seeded = {"PL1"}
    ProductCeilings <- MCProductCeilings
    Grades = {"A1", "B1", "C1"}
    MaxTampering = 1
    MaxOverrides = 1
    ScoreOf <- MCScoreOf
    Evaluate <- MCEvaluate
    Limit <- MCLimit
    Rate <- MCRate
INVARIANTS
    VerifyProvesAll
CHECK_DEADLOCK FALSE
