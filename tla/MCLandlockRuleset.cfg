CONSTANTS
    Rulesets = {r1, r2, r3}
    Hierarchies = {h1, h2}
    Creds = {c1, c2, c3}
    Tasks = {t1, t2}
    Tracers = {t1, t2}
    Worker = worker
    Objects = {o1, o2}
    Access = {read}
    InitiallyDenied = {}
    MaxLayers = 2
    MaxRules = 2
    MaxFiles = 2
    MaxDomains = 2
    NULL = NULL
SPECIFICATION Spec
SYMMETRY Symmetry
CONSTRAINT RulesOrPtrace
INVARIANTS ReferencesExact NoDanglingPointer PtraceSound
PROPERTY ImplementsPolicy
