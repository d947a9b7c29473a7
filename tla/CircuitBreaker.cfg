\* Three overlapping calls, a threshold of two and a cooldown of three.
SPECIFICATION FairSpec
CONSTANTS
    Calls = {c1, c2, c3}
    FailureThreshold = 2
    CooldownTicks = 3
INVARIANTS
    TypeOK
    BreakerConsistent
    QuietDuringCooldown
PROPERTIES
    FollowsBureau
CHECK_DEADLOCK TRUE
