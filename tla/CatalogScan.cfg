\* Two runs that may overlap, one pinned artifact and one Camel component.
SPECIFICATION Spec
CONSTANTS
    Runs        = {r1, r2}
    Components  = {netty, camel}
    Runtime     = {camel}
INVARIANTS
    GreenIsAnAnswer
    IssuesTellFindings
    IInv
    OneAtATime
