CONSTANTS
    Rulesets = {1, 2, 3}
    Hierarchies = {1, 2, 3}
    Creds = {1, 2}
    Tasks = {1}
    Tracers = {}
    Worker = worker
    Objects = {o1}
    Access = {refer}
    InitiallyDenied = {refer}
    MaxLayers = 2
    MaxRules = 2
    MaxFiles = 2
    MaxDomains = 3
    NULL = NULL
SPECIFICATION FairSpec
ACTION_CONSTRAINT AllocInOrder
INVARIANT WellFormed
PROPERTIES CallsComplete ImplementsPolicy
