\* One daemon, one conversation whose fetch never answers, no other fault.
SPECIFICATION FairSpec
CONSTANTS
    None = None
    Convs = {c1, c2}
    Daemons = {d1}
    Harvesters = {}
    Overlap = FALSE
    Second <- DistinctSeconds
    Tiny = {}
    Broken = {}
    Hanging = {c2}
    MaxRetryCycles = 3
    FaultKinds = {"session", "item", "deadline", "write", "save", "surfaces"}
    MaxFaults = 0
    MaxVer = 2
    MaxCookie = 2
    MaxDay = 1
PROPERTIES
    QuietAfterCap
