\* Two events, revised up to the time bound; a look-ahead shorter than a run.
SPECIFICATION FairSpec
CONSTANTS
    Events    = {1, 2}
    LookAhead = 1
    MaxTime   = 4
INVARIANTS
    TypeOK
    NoRepeat
    NoGap
PROPERTIES
    UpdatesArrive
