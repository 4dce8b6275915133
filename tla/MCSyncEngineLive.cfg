\* A daemon under fairness, started again when it dies, with an item that never
\* comes and one whose file never passes the size check.
SPECIFICATION FairSpec
CONSTANTS
    None = None
    Convs = {c1, c2}
    Daemons = {d1}
    Harvesters = {}
    Overlap = FALSE
    Second <- DistinctSeconds
    Tiny = {c1}
    Broken = {c2}
    Hanging = {}
    MaxRetryCycles = 3
    FaultKinds = {"session", "item", "deadline", "write", "save", "surfaces", "crash"}
    MaxFaults = 2
    MaxVer = 2
    MaxCookie = 2
    MaxDay = 2
PROPERTIES
    EventuallyExported
    QuietAfterCap
    EveryCycleCounts
