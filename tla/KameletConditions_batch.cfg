\* What the comment of SetConditions says of a call with several conditions.
SPECIFICATION Spec
CONSTANTS
    Types      = {t1, t2}
    Reasons    = {r1, r2}
    GivenTimes = {0}
    MaxTime    = 2
    MaxBatch   = 2
INVARIANTS
    AllApplied
