SPECIFICATION ReconcileSpec
CONSTANTS
    Instances = {i1}
    Keys <- TwoKeys
    InstanceOf <- OneInstance
    CategoryOf <- KeyAsCategory
    SeveritiesOf <- OnlyCritical
    InhibitionRules <- DefaultInhibitionRules
    ResolveCleanChecks = 2
    Environment <- OrderlyEvents
INVARIANTS
    CountersTrackCleanCycles
    ResolveNeedsCleanStreak
    EveryFiringAnnounced
    OneFiringPerKey
    NoOrphanIncident
    ResolvedOnEvidence
PROPERTIES
    RowsCloseForAReason
    AckEndsWithFiring
    ImplementsLifecycle
    HoldsUnderFaults
CHECK_DEADLOCK FALSE
