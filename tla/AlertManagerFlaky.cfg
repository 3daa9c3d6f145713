SPECIFICATION Spec
CONSTANTS
    Instances = {i1}
    Keys <- OneKey
    InstanceOf <- OneInstance
    CategoryOf <- KeyAsCategory
    SeveritiesOf <- OnlyCritical
    InhibitionRules <- DefaultInhibitionRules
    ResolveCleanChecks = 2
    Environment = {"query"}
INVARIANTS
    ResolvedOnEvidence
CHECK_DEADLOCK FALSE
