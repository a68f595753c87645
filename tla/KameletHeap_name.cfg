\* A Kamelet and the clone of one of its versions: is the clone renamed?
SPECIFICATION Spec
CONSTANTS
    Roots      = {"Kamelet"}
    Keys       = {v1}
    MaxCells   = 3
    MaxObjects = 2
PROPERTIES
    ClonesRenamed
CHECK_DEADLOCK FALSE
