CONSTANTS
    Tasks = {t1, t2}
    Modules = {m1}
    Keys = {k1, k2}
    Nodes = {1, 2, 3}
    ObjDicts = {o1}
    ShDicts = {s1, s2}
    Capacity = 2
    Deleters = {t1}
    NULL = NULL
SPECIFICATION FairSpec
INVARIANTS NodesExact ModuleGone SharedOnce
 
