SPECIFICATION Spec
CONSTANTS
    Instances = {i1}
    Collectors <- TwoCollectors
    Reportings <- AsBuilt
    FailureLimit = 5
INVARIANTS
    UnreachableIsReported
CHECK_DEADLOCK FALSE
