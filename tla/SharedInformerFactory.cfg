\* Two clients, one informer type, two stop channels: a WaitForCacheSync may
\* wait with another channel than the one its informer was started with.
SPECIFICATION FairSpec
CONSTANTS
    Clients = {c1, c2}
    Types   = {t1}
    Stops   = {s1, s2}
    None    = None
INVARIANTS
    IInv
    SharedInstance
    CountsGoroutines
    NothingRunsAfterShutdown
    SyncReport
PROPERTIES
    NoAddDuringWait
    ImplementsLifecycle
    SyncTerminates
    ShutdownTerminates
    QuickCallsReturn
