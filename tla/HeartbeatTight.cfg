SPECIFICATION Spec
CONSTANTS
    Interval <- Intervals
    U64 = 8
    MaxMissed = 2
    MaxGap = 4
    MaxLag = 3
    MaxTime = 16
INVARIANTS TypeOK NoFalseAlarm SilenceNoticed ExitNoticed
CHECK_DEADLOCK FALSE
