\* One path that is written again while its file is being consumed.
SPECIFICATION Spec
CONSTANTS
    Files      = {f1}
    MaxVersion = 2
INVARIANTS
    OnlyConsumedDeleted
