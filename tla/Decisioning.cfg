\* Every policy of up to three rules, with every verdict of each.
SPECIFICATION Spec
CONSTANTS
    Policies <- MCPolicies
    Scores <- MCScores
    Applicants <- MCApplicants
    Annuity <- MCAnnuity
    ProductCeiling = 2000
INVARIANTS
    TypeOK
    OutcomeIgnoresOrder
    ReasonsExplain
    LimitWithinCaps
CHECK_DEADLOCK FALSE
