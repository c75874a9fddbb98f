CONSTANTS
    Contexts = {"c1", "c2"}
    Unlabeled = "unlabeled"
    SIDTAB_MAX = 2
    NULL = NULL
    Images <- MCImages
    BoolNames = {"b1", "b2"}
    Perms = {"p"}
    XPerms = {"x"}
    Slots = 1
    NetKinds = {"netport", "netif"}
    NetKeys = {p1, p2}
    Checkers = {t1, t2}
    Labellers = {l1, l2}
    Netters = {n1, n2}
    Admins = {a1, a2}
    Scenarios <- MCScenarios
    CacheThreshold = 1
    NetLimit = 1
    MaxSeq = 3
    t1 = t1
    t2 = t2
    l1 = l1
    l2 = l2
    n1 = n1
    n2 = n2
    a1 = a1
    a2 = a2
SPECIFICATION Spec
PROPERTY ValidResolves
CHECK_DEADLOCK FALSE
