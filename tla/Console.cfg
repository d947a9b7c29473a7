\* Two decisions, two versions, and two requests under way.
SPECIFICATION FairSpec
CONSTANTS
    d1 = d1
    d2 = d2
    v1 = v1
    v2 = v2
    Decisions = {d1, d2}
    Case = d1
    Filters = {"", "REFER"}
    Engine = {"REFER"}
    Overrides = {"DECLINE"}
    Versions = {v1, v2}
    RuleTexts = {"default", "broken"}
    BadRules = {"broken"}
    MaxRequests = 2
INVARIANTS
    TypeOK
    ViewFollowsFilter
    PoliciesCatchUp
PROPERTIES
    CaseNeverGoesBack
    SpinnersEnd
CHECK_DEADLOCK FALSE
