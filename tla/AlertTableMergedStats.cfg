SPECIFICATION Spec
CONSTANTS
    Environments <- OnlyMerges
    MaxFirings = 3
    MaxVersion = 3
INVARIANTS
    FireCountAdvances
CHECK_DEADLOCK FALSE
