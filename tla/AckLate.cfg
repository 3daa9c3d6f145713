SPECIFICATION Spec
CONSTANTS
    Instances = {i1}
    Keys <- OneKey
    InstanceOf <- OneInstance
    CategoryOf <- KeyAsCategory
    SeveritiesOf <- OnlyCritical
    InhibitionRules <- DefaultInhibitionRules
    ResolveCleanChecks = 2
    Environment <- OnlyAcks
PROPERTIES
    NextFiringStartsFresh
CHECK_DEADLOCK FALSE
