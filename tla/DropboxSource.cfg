\* Two paths, each written up to twice; deleteAfterRead on or off.
SPECIFICATION FairSpec
CONSTANTS
    Files      = {f1, f2}
    MaxVersion = 2
INVARIANTS
    IInv
    DeletedAfterConsumed
    RepeatedOnlyIfKept
    EveryPollDelivers
PROPERTIES
    FilesArrive
