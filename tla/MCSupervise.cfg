\* The real grace period and an interval longer than it, as by default.
SPECIFICATION FairSpec
CONSTANTS
    Grace = 3
    Interval = 5
    BriefUse = TRUE
    MaxFaults = 2
    MaxOpen = 2
INVARIANTS
    TypeOK
    ActiveIffSeen
    CyclesWhenDue
PROPERTIES
    CopiedWhileVSCodeIsOpen
    IdleInTheEnd
