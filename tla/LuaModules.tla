----------------------------- MODULE LuaModules -----------------------------
(***************************************************************************)
(* The modules of the Lua LSM and the Lua states that run them.  Every     *)
(* task has a Lua state of its own, made on first use or taken from a      *)
(* pool, and every CPU one for hooks in softirq context; a state loads a   *)
(* module when a hook first needs it.  Unregistering a module walks over   *)
(* all Lua states while hooks run in them, while tasks come and go, and    *)
(* without being able to stop a task that is on a CPU.                     *)
(*                                                                         *)
(* One hook is modelled; a module either defines it or not.  What the      *)
(* modules keep in the key-value cache is in LuaKvcache.                   *)
(***************************************************************************)
EXTENDS Integers, Sequences, FiniteSets

CONSTANTS
    Tasks, Cpus,
    Admin,      \* the task that writes to the register and unregister files
    Idles,      \* the idle tasks, which are not in the list of processes
    Modules,    \* the names of modules
    Hooking,    \* the modules that define the hook
    Denying,    \* the modules whose function denies
    PoolMax,    \* lua_lvm_pool_max
    MaxHooks,   \* bound of this model: hooks under way at a time
    Retries,    \* 5 in lua_lsm_module_unregister()
    NULL

ASSUME ModulesAssumption ==
    /\ Admin \in Tasks \ Idles /\ Idles \subseteq Tasks /\ Tasks \cap Cpus = {}
    /\ Denying \subseteq Hooking /\ Hooking \subseteq Modules
    /\ PoolMax \in Nat /\ Retries \in Nat /\ MaxHooks \in Nat \ {0}
    /\ IsFiniteSet(Tasks) /\ IsFiniteSet(Cpus) /\ IsFiniteSet(Modules)
    /\ NULL \notin Modules /\ \A L \in SUBSET Modules : L # NULL

Actors == Tasks \cup Cpus           \* where a hook runs

VARIABLES
    list,     \* lsm_modules
    state,    \* module->state
    nloaded,  \* module->nloaded
    nhooks,   \* lua_lsm_hook_stats[].nhooks of the hook
    active,   \* lua_lsm_modules_active
    alive,    \* a task: "no", "yes", or "unhashed" until its last reference goes
    vm,       \* the modules loaded in a Lua state, NULL where there is none
    dirty,    \* lvm->dirty of a task
    pool,     \* the Lua states in a CPU's pool, a stack
    hook,     \* the hook an actor is in
    adm       \* the register or unregister under way: modules_mutex admits one

mods == <<list, state, nhooks, active>>
vars == <<list, state, nloaded, nhooks, active, alive, vm, dirty, pool, hook, adm>>

\* must: the modules that were registered when the hook began and still are.
outside == [pc |-> "out", todo |-> {}, cur |-> NULL, res |-> "default", must |-> {}]
admidle == [pc |-> "idle", m |-> NULL, count |-> 0, nbusy |-> 0, loop |-> 0,
            todo |-> {}, wait |-> {}]

Init ==
    /\ list = {}
    /\ state = [m \in Modules |-> "FREE"]
    /\ nloaded = [m \in Modules |-> 0]
    /\ nhooks = 0
    /\ active = 0
    /\ alive = [t \in Tasks |-> IF t \in Idles \cup {Admin} THEN "yes" ELSE "no"]
    /\ vm = [a \in Actors |-> IF a \in Cpus THEN {} ELSE NULL]
    /\ dirty = [t \in Tasks |-> FALSE]
    /\ pool = [c \in Cpus |-> <<>>]
    /\ hook = [a \in Actors |-> outside]
    /\ adm = admidle

inHook == {a \in Actors : hook[a].pc # "out"}       \* readers of modules_ss

-----------------------------------------------------------------------------
(* The dispatch of a hook: LUA_LSM_DEFINEx.                                *)

\* A hook begins: srcu_read_lock(), then the static branch.
lua_lsm_hook(a) ==
    /\ hook[a].pc = "out" /\ Cardinality(inHook) < MaxHooks
    /\ a \in Tasks => alive[a] = "yes"
    /\ a = Admin => adm.pc = "idle"
    /\ hook' = [hook EXCEPT ![a] =
                  [outside EXCEPT !.pc = IF active > 0 THEN "nhooks" ELSE "leave",
                                  !.must = {m \in Hooking : state[m] = "LIVE" /\ adm.m # m}]]
    /\ UNCHANGED <<mods, nloaded, alive, vm, dirty, pool, adm>>

\* lvm_get(): a task without a Lua state takes one from the pool of the CPU it
\* is on or builds one, which may fail; the hook is denied then (-ENOMEM).
lvm_get(a) ==
    /\ hook[a].pc = "nhooks"
    /\ \/ /\ nhooks = 0
          /\ hook' = [hook EXCEPT ![a].pc = "leave"]
          /\ UNCHANGED <<vm, pool>>
       \/ /\ nhooks > 0 /\ vm[a] # NULL
          /\ hook' = [hook EXCEPT ![a] = [@ EXCEPT !.pc = "run", !.todo = list]]
          /\ UNCHANGED <<vm, pool>>
       \/ /\ nhooks > 0 /\ vm[a] = NULL
          /\ \E c \in Cpus :
               IF pool[c] # <<>>
               THEN /\ vm' = [vm EXCEPT ![a] = Head(pool[c])]
                    /\ pool' = [pool EXCEPT ![c] = Tail(@)]
               ELSE vm' = [vm EXCEPT ![a] = {}] /\ UNCHANGED pool
          /\ hook' = [hook EXCEPT ![a] = [@ EXCEPT !.pc = "run", !.todo = list]]
       \/ /\ nhooks > 0 /\ vm[a] = NULL /\ \E c \in Cpus : pool[c] = <<>>
          /\ hook' = [hook EXCEPT ![a] = [@ EXCEPT !.pc = "leave", !.res = "deny"]]
          /\ UNCHANGED <<vm, pool>>
    /\ UNCHANGED <<mods, nloaded, alive, dirty, adm>>

\* The walk over lsm_modules: modules without the hook, or not LIVE, are
\* passed over.
next_module(a) ==
    /\ hook[a].pc = "run"
    /\ IF hook[a].todo = {} THEN hook' = [hook EXCEPT ![a].pc = "leave"]
       ELSE \E m \in hook[a].todo :
              hook' = [hook EXCEPT ![a] =
                 [@ EXCEPT !.todo = hook[a].todo \ {m},
                           !.pc = IF m \in Hooking /\ state[m] = "LIVE" THEN "call" ELSE "run",
                           !.cur = IF m \in Hooking /\ state[m] = "LIVE" THEN m ELSE NULL]]
    /\ UNCHANGED <<mods, nloaded, alive, vm, dirty, pool, adm>>

\* What a call returns: the first answer other than the default ends the walk.
answer(h, m) == IF m \in Denying
                THEN [h EXCEPT !.pc = "leave", !.cur = NULL, !.res = "deny"]
                ELSE [h EXCEPT !.pc = "run", !.cur = NULL]

\* lua_modules_index(): the first use of a module in this state loads it.
\* Running out of memory there leaves the module unloaded and unasked.
lua_modules_index(a) ==
    LET m == hook[a].cur IN
    /\ hook[a].pc = "call" /\ m \notin vm[a]
    /\ dirty' = [t \in Tasks |-> dirty[t] \/ t = a]
    /\ \/ /\ vm' = [vm EXCEPT ![a] = @ \cup {m}]
          /\ nloaded' = [nloaded EXCEPT ![m] = @ + 1]
          /\ hook' = [hook EXCEPT ![a] = answer(@, m)]
       \/ /\ hook' = [hook EXCEPT ![a] = [@ EXCEPT !.pc = "run", !.cur = NULL,
                                                   !.must = hook[a].must \ {m}]]
          /\ UNCHANGED <<vm, nloaded>>
    /\ UNCHANGED <<mods, alive, pool, adm>>

\* A function that is loaded is called.
lua_pcall(a) ==
    /\ hook[a].pc = "call" /\ hook[a].cur \in vm[a]
    /\ hook' = [hook EXCEPT ![a] = answer(@, @.cur)]
    /\ UNCHANGED <<mods, nloaded, alive, vm, dirty, pool, adm>>

\* lvm_put() and srcu_read_unlock().
lvm_put(a) ==
    /\ hook[a].pc = "leave"
    /\ hook' = [hook EXCEPT ![a] = outside]
    /\ adm' = [adm EXCEPT !.wait = @ \ {a}]
    /\ UNCHANGED <<mods, nloaded, alive, vm, dirty, pool>>

-----------------------------------------------------------------------------
(* Tasks.                                                                  *)

task_blob_init(t) ==
    /\ alive[t] = "no"
    /\ alive' = [alive EXCEPT ![t] = "yes"]
    /\ vm' = [vm EXCEPT ![t] = NULL]
    /\ dirty' = [dirty EXCEPT ![t] = FALSE]
    /\ UNCHANGED <<mods, nloaded, pool, hook, adm>>

\* External: the task leaves the list of processes before it is freed.
release_task(t) ==
    /\ t \notin Idles \cup {Admin} /\ alive[t] = "yes" /\ hook[t].pc = "out"
    /\ alive' = [alive EXCEPT ![t] = "unhashed"]
    /\ UNCHANGED <<mods, nloaded, vm, dirty, pool, hook, adm>>

\* lvm_pool_put(), on some CPU: a state beyond the limit is closed.
lvm_pool_put(L) == \E c \in Cpus :
    pool' = [pool EXCEPT ![c] = IF Len(@) < PoolMax THEN <<L>> \o @ ELSE @]

\* The hook that ends a task: a dirty state gives back its modules
\* (lua_modules_free()) and is reset (lvm_vm_reset()) before it is pooled.
task_blob_free(t) ==
    /\ alive[t] = "unhashed"
    /\ alive' = [alive EXCEPT ![t] = "no"]
    /\ vm' = [vm EXCEPT ![t] = NULL]
    /\ IF vm[t] = NULL THEN UNCHANGED <<pool, nloaded, dirty>>
       ELSE /\ dirty' = [dirty EXCEPT ![t] = FALSE]
            /\ IF dirty[t]
               THEN /\ nloaded' = [m \in Modules |->
                          nloaded[m] - (IF m \in list \cap vm[t] THEN 1 ELSE 0)]
                    /\ lvm_pool_put({})
               ELSE lvm_pool_put(vm[t]) /\ UNCHANGED nloaded
    /\ UNCHANGED <<mods, hook, adm>>

-----------------------------------------------------------------------------
(* Registering.                                                            *)

\* The checks before modules_mutex change nothing; a name that is on the list,
\* a ZOMBIE's too, is refused (-EEXIST).
lua_lsm_module_register(m) ==
    /\ adm.pc = "idle" /\ hook[Admin].pc = "out" /\ m \notin list
    /\ nhooks' = nhooks + (IF m \in Hooking THEN 1 ELSE 0)
    /\ state' = [state EXCEPT ![m] = "LIVE"]
    /\ list' = list \cup {m}
    /\ adm' = [admidle EXCEPT !.pc = "register", !.m = m]
    /\ UNCHANGED <<nloaded, active, alive, vm, dirty, pool, hook>>

\* static_branch_inc() patches the hooks; then register returns.
static_branch_inc ==
    /\ adm.pc = "register"
    /\ active' = active + 1
    /\ adm' = admidle
    /\ UNCHANGED <<list, state, nhooks, nloaded, alive, vm, dirty, pool, hook>>

-----------------------------------------------------------------------------
(* Unregistering: one call of lua_lsm_module_unregister().                 *)

\* Mutant: the counters are dropped for a ZOMBIE too.
Mutlua_lsm_module_unregister(m) ==
    /\ adm.pc = "idle" /\ hook[Admin].pc = "out" /\ m \in list
    /\ state' = [state EXCEPT ![m] = "GOING"]
    /\ active' = active - 1
    /\ nhooks' = nhooks - (IF m \in Hooking THEN 1 ELSE 0)
    /\ hook' = [a \in Actors |-> [hook[a] EXCEPT !.must = @ \ {m}]]
    /\ adm' = [admidle EXCEPT !.pc = "sync", !.m = m, !.wait = inHook]
    /\ UNCHANGED <<list, nloaded, alive, vm, dirty, pool>>

\* A LIVE module stops counting; a ZOMBIE is tried again.
lua_lsm_module_unregister(m) ==
    /\ adm.pc = "idle" /\ hook[Admin].pc = "out" /\ m \in list
    /\ IF state[m] = "LIVE"
       THEN /\ state' = [state EXCEPT ![m] = "GOING"]
            /\ active' = active - 1
            /\ nhooks' = nhooks - (IF m \in Hooking THEN 1 ELSE 0)
       ELSE UNCHANGED <<state, active, nhooks>>
    /\ hook' = [a \in Actors |-> [hook[a] EXCEPT !.must = @ \ {m}]]
    /\ adm' = [admidle EXCEPT !.pc = "sync", !.m = m, !.wait = inHook]
    /\ UNCHANGED <<list, nloaded, alive, vm, dirty, pool>>

threads == {t \in Tasks \ Idles : alive[t] = "yes"}     \* the list of processes

\* Mutant: no grace period before the Lua states are visited.
Mutsynchronize_srcu ==
    /\ adm.pc = "sync"
    /\ adm' = [adm EXCEPT !.wait = {}, !.pc = IF nloaded[adm.m] > 0 THEN "tasks" ELSE "end",
                          !.todo = IF nloaded[adm.m] > 0 THEN threads ELSE {}]
    /\ UNCHANGED <<mods, nloaded, alive, vm, dirty, pool, hook>>

\* synchronize_srcu(): the hooks that may have seen the module LIVE have ended.
\* (The shared dictionaries and the entries of the module are freed here.)
synchronize_srcu ==
    /\ adm.pc = "sync" /\ adm.wait = {}
    /\ adm' = [adm EXCEPT !.pc = IF nloaded[adm.m] > 0 THEN "tasks" ELSE "end",
                          !.todo = IF nloaded[adm.m] > 0 THEN threads ELSE {}]
    /\ UNCHANGED <<mods, nloaded, alive, vm, dirty, pool, hook>>

\* task_remove_module(): a task on a CPU is -EBUSY, one that was preempted in
\* a hook is -EAGAIN, a state that does not have the module counts for nothing.
task_remove_module == \E t \in adm.todo \cap Tasks :
    /\ adm.pc \in {"tasks", "swapper", "retry"}
    /\ \/ /\ t # Admin
          /\ adm' = [adm EXCEPT !.todo = @ \ {t},
                       !.nbusy = IF adm.pc = "swapper" THEN @ ELSE @ + 1]
          /\ UNCHANGED vm
       \/ /\ vm[t] = NULL \/ hook[t].pc \in {"out", "nhooks"}
          /\ IF vm[t] # NULL /\ adm.m \in vm[t]
             THEN /\ vm' = [vm EXCEPT ![t] = @ \ {adm.m}]
                  /\ adm' = [adm EXCEPT !.todo = @ \ {t}, !.count = @ + 1]
             ELSE adm' = [adm EXCEPT !.todo = @ \ {t}] /\ UNCHANGED vm
    /\ UNCHANGED <<mods, nloaded, alive, dirty, pool, hook>>

\* softirq_lvm_remove_module(), on each CPU with softirqs disabled.
softirq_lvm_remove_module == \E c \in adm.todo \cap Cpus :
    /\ hook[c].pc = "out"
    /\ vm' = [vm EXCEPT ![c] = @ \ {adm.m}]
    /\ adm' = [adm EXCEPT !.todo = @ \ {c},
                 !.count = IF adm.m \in vm[c] THEN @ + 1 ELSE @]
    /\ UNCHANGED <<mods, nloaded, alive, dirty, pool, hook>>

\* Between the passes nloaded is read again: it sinks when tasks end.
short == adm.count < nloaded[adm.m]
next_pass ==
    /\ adm.todo = {} /\ adm.pc \in {"tasks", "pcpu", "swapper", "retry"}
    /\ adm' = CASE adm.pc = "tasks" /\ short ->
                     [adm EXCEPT !.pc = "pcpu", !.todo = Cpus]
                [] adm.pc = "pcpu" /\ short ->
                     [adm EXCEPT !.pc = "swapper", !.todo = Idles]
                [] adm.pc \in {"swapper", "retry"} /\ short /\ adm.nbusy > 0
                                                   /\ adm.loop < Retries ->
                     [adm EXCEPT !.pc = "retry", !.nbusy = 0, !.loop = @ + 1,
                                 !.todo = threads]
                [] OTHER -> [adm EXCEPT !.pc = "end"]
    /\ UNCHANGED <<mods, nloaded, alive, vm, dirty, pool, hook>>

\* All states let go of the module: it leaves the list and is freed after a
\* grace period.  Otherwise it stays, as a ZOMBIE (-EBUSY).
unregister_end ==
    /\ adm.pc = "end"
    /\ nloaded' = [nloaded EXCEPT ![adm.m] = @ - adm.count]
    /\ IF nloaded'[adm.m] = 0
       THEN /\ list' = list \ {adm.m}
            /\ adm' = [adm EXCEPT !.pc = "free", !.count = 0, !.wait = inHook]
            /\ UNCHANGED state
       ELSE /\ state' = [state EXCEPT ![adm.m] = "ZOMBIE"]
            /\ adm' = admidle
            /\ UNCHANGED list
    /\ UNCHANGED <<nhooks, active, alive, vm, dirty, pool, hook>>

lua_lsm_module_free ==
    /\ adm.pc = "free" /\ adm.wait = {}
    /\ state' = [state EXCEPT ![adm.m] = "FREE"]
    /\ adm' = admidle
    /\ UNCHANGED <<list, nhooks, active, nloaded, alive, vm, dirty, pool, hook>>

-----------------------------------------------------------------------------
Run(a) == lvm_get(a) \/ next_module(a) \/ lua_modules_index(a) \/ lua_pcall(a)
          \/ lvm_put(a)

Administer ==
    \/ static_branch_inc \/ synchronize_srcu \/ task_remove_module
    \/ softirq_lvm_remove_module \/ next_pass \/ unregister_end
    \/ lua_lsm_module_free

Next ==
    \/ \E a \in Actors : lua_lsm_hook(a) \/ Run(a)
    \/ \E t \in Tasks : task_blob_init(t) \/ release_task(t) \/ task_blob_free(t)
    \/ \E m \in Modules : lua_lsm_module_register(m) \/ lua_lsm_module_unregister(m)
    \/ Administer

Spec == Init /\ [][Next]_vars

-----------------------------------------------------------------------------
(* Properties.                                                             *)

states == ({vm[a] : a \in Actors} \ {NULL}) \cup
          UNION {{pool[c][i] : i \in 1..Len(pool[c])} : c \in Cpus}

\* No Lua state has a module that was freed: its functions would follow
\* MODULE_KEY to memory that is gone, and a module registered later under the
\* name would run the old code (unregister_end() trusts nloaded and count).
NoDanglingModule == \A L \in states : L \subseteq list

\* While hooks load modules, tasks end and unregistering visits states, the
\* counters describe who has the module: nothing is removed twice or missed.
\* A pooled state has none.
LoadedExact ==
    /\ \A m \in Modules :
         nloaded[m] - (IF adm.m = m THEN adm.count ELSE 0)
            = Cardinality({a \in Actors : vm[a] # NULL /\ m \in vm[a]})
    /\ \A c \in Cpus : \A i \in 1..Len(pool[c]) : pool[c][i] = {}

\* What unregister_end() frees nobody has, and its counters say so (lsm.c).
ModulesSafe == NoDanglingModule /\ LoadedExact

\* A module that is registered from the beginning to the end of a hook is
\* asked: when it denies, the hook is denied, whatever is registered and
\* unregistered meanwhile (the static branch, nhooks and state are three gates
\* that are moved apart from each other).
DenialHonoured == \A a \in Actors :
    hook[a].pc = "leave" /\ hook[a].must \cap Denying # {} => hook[a].res = "deny"
=============================================================================
