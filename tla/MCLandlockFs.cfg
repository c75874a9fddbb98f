SPECIFICATION Spec
CONSTANTS
    NULL = NULL
    t1 = t1
    t2 = t2
    Tasks = {t1, t2}
    RootMount = "/"
    Worlds <- AllWorlds
SYMMETRY Symmetry
INVARIANTS WalkExact ReferExact OpenExact
PROPERTY NoGain
CHECK_DEADLOCK FALSE
