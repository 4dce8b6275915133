\* Desktop stays open until a poll has seen it; no query and no sync fails.
SPECIFICATION FairSpec
CONSTANTS
    Grace = 3
    Interval = 5
    BriefUse = FALSE
    MaxFaults = 0
    MaxOpen = 2
PROPERTIES
    CopiedOnceDesktopIsClosed
