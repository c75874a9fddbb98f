SPECIFICATION FairSpec
CONSTANTS
    Inodes = {i1, i2}
    Objects = {o1, o2}
    Rulesets = {r1, r2}
    Tasks = {t1, t2}
    Umount = umount
    NULL = NULL
INVARIANTS
    CountsExact
    MemorySafe
    UnmountSafe
PROPERTIES
    MemoryDiscipline
    BothComplete
