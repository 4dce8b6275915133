\* Both kinds of run; two sessions of a cycle and one more.
SPECIFICATION FairSpec
CONSTANTS
    MaxSessions = 3
    MaxClicks = 2
    PipeSize = 2
CHECK_DEADLOCK FALSE
INVARIANTS
    TypeOK
    TrayCallsInTime
    OneShotLeavesNothing
    ClickNotLost
    HolderMovesOn
    StatusNotTorn
PROPERTIES
    SyncRequestServed
    QuitExits
