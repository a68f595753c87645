\* A Kamelet, and what the clone of one of its versions does to it.
SPECIFICATION Spec
CONSTANTS
    Roots      = {"Kamelet"}
    Keys       = {v1}
    MaxCells   = 3
    MaxObjects = 2
PROPERTIES
    CacheReadOnly
CHECK_DEADLOCK FALSE
