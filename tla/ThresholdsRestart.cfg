SPECIFICATION Spec
CONSTANTS
    Pages = {p1}
    Critical = 3
    Default = 1
    MaxSaves = 2
    MaxRestarts = 1
PROPERTIES
    RestartKeepsThresholds
CHECK_DEADLOCK FALSE
