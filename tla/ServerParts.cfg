SPECIFICATION ServerSpec
CONSTANTS
    Environments <- RacesAndMerges
    MaxFirings = 2
    MaxVersion = 3
    Kinds = {"maintenance", "snooze", "ack", "schedule"}
    Entries = {e1, e2}
    Savers = {w}
    Inodes = {1, 2, 3}
    ScheduleIds = {1}
    Pages = {p1, p2}
    Critical = 3
    Default = 1
    MaxSaves = 2
    MaxRestarts = 1
    MaxWindows = 1
    MaxTime = 2
    Keys = {k1, k2}
    MaxEntries = 2
    MaxRequests = 4
INVARIANTS
    ServerTypeOK
    FireCountAdvancesUnmerged
    FilesMatchMemory
    ViewsShowTheServer
    ButtonsReturn
PROPERTIES
    ImplementsAlertRow
    MergesAreInvisible
    CleanupLeavesOne
    RestartLosesNoSave
    RunsAreDue
CHECK_DEADLOCK FALSE
