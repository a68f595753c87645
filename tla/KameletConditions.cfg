\* Two types, two reasons, calls with up to two conditions, clock up to 3; a
\* caller leaves the transition time out or writes 1 or 2, future or past.
SPECIFICATION Spec
CONSTANTS
    Types      = {t1, t2}
    Reasons    = {r1, r2}
    GivenTimes = {0, 1, 2}
    MaxTime    = 3
    MaxBatch   = 2
SYMMETRY Symmetry
INVARIANTS
    TypeOK
    OneConditionPerType
    OthersUntouched
    PrefixApplied
PROPERTIES
    TransitionTimeFollowsStatus
