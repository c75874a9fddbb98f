CONSTANTS
    Tasks = {admin, t1, idle}
    Cpus = {c1}
    Admin = admin
    Idles = {idle}
    Modules = {m1, m2}
    Hooking = {m1, m2}
    Denying = {m1}
    PoolMax = 1
    Retries = 1
    MaxHooks = 1
    NULL = NULL
SPECIFICATION Spec
INVARIANTS ModulesSafe DenialHonoured
