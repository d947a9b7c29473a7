\* Four drafts, one of them twice; four activations, one by the author.
SPECIFICATION Spec
CONSTANTS
    d1 = d1
    d2 = d2
    d3 = d3
    d4 = d4
    a1 = a1
    a2 = a2
    a3 = a3
    a4 = a4
    v1 = v1
    v2 = v2
    v3 = v3
    PL = PL
    BL = BL
    alice = alice
    bob = bob
    carol = carol
    Nobody = Nobody
    Versions = {v1, v2, v3}
    Drafts = {d1, d2, d3, d4}
    Activations = {a1, a2, a3, a4}
    Parsing = {d1, d2, d3, d4}
    VersionOf <- MCVersionOf
    ProductOf <- MCProductOf
    User <- MCUser
INVARIANTS
    TypeOK
    MakerChecker
    SingleActiveWithoutOverlap
PROPERTIES
    DraftsKept
    StaysActive
    OnlyDraftActivated
CHECK_DEADLOCK FALSE
