\* Two namespaces and an informer for one, with a label; another accessor asks
\* for everything.  Three writes: one before the list, one between list and
\* watch, one after; and one relist.
SPECIFICATION Spec
CONSTANTS
    Namespaces   <- MCNamespaces
    Names        <- MCNames
    FactoryScope <- MCFactoryScope
    Scopes       <- MCScopes
    Stops        = {stop}
    MaxWrites    = 3
    MaxRelists   = 1
INVARIANTS
    TypeOK
    CacheIsGenuine
    ListersFiltered
PROPERTIES
    NeverBackwards
    CatchesUp
CHECK_DEADLOCK FALSE
