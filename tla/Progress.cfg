SPECIFICATION ProgressSpec
CONSTANTS
    Instances = {i1, i2}
    Collectors <- TwoCollectors
    Reportings <- AnyReporting
    FailureLimit = 3
INVARIANTS
    TypeOK
    NoFalseAlarm
    BreakerNeedsAll
PROPERTIES
    AlarmHeld
    RecoveryIsSeen
    RequestIsServed
    ClearedIsResolved
    FiringIsRecorded
    AnnouncedAfterMaintenance
    WrongMessageHeals
CHECK_DEADLOCK FALSE
