\* The tray daemon and the claim of security.go.
SPECIFICATION Spec
CONSTANTS
    MaxSessions = 3
    MaxClicks = 0
    PipeSize = 1
CHECK_DEADLOCK FALSE
INVARIANTS
    NoOrphan
