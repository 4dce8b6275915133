\* One daemon and one-shot harvests, never at the same time; every interruption
\* short of a torn write.
SPECIFICATION Spec
CONSTANTS
    None = None
    Convs = {c1, c2}
    Daemons = {d1}
    Harvesters = {h1}
    Overlap = FALSE
    Second <- DistinctSeconds
    Tiny = {}
    Broken = {c2}
    Hanging = {}
    MaxRetryCycles = 2
    FaultKinds = {"session", "item", "deadline", "write", "save", "surfaces", "crash", "load"}
    MaxFaults = 1
    MaxVer = 2
    MaxCookie = 2
    MaxDay = 1
INVARIANTS
    TypeOK
    QuietComplete
PROPERTIES
    CleanExitComplete
    DecisionsSound
    ImplementsMirror
