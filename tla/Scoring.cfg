\* The artifact that is deployed; two reason codes, so that some are left out.
SPECIFICATION Spec
CONSTANTS
    Features <- MCFeatures
    Coefficient <- MCCoefficient
    Bins <- MCBins
    Intercept <- MCIntercept
    Champion = "scorecard-v1.2"
    ReasonCodesTopN = 2
    ScoreFloor = 555
    Grades = {"A1", "A2", "B1", "B2", "C1", "C2"}
    Requests <- MCRequests
INVARIANTS
    TypeOK
    ScoreTracksOdds
    FloorImpliesPriced
    ReasonsAreWorst
    EdgesServedAbove
CHECK_DEADLOCK FALSE
