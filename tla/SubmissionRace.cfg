\* A resend that overlaps, no failure at all.
SPECIFICATION Spec
CONSTANTS
    r1 = r1
    r2 = r2
    r3 = r3
    k1 = k1
    p1 = p1
    NoKey = NoKey
    NoApplication = NoApplication
    Requests = {r1, r2}
    Person <- MCPerson
    Key <- MCKey
    KycValid = {p1}
    Faults = {}
    ClaimsExpire = FALSE
INVARIANT NoSecondLoan
CHECK_DEADLOCK FALSE
