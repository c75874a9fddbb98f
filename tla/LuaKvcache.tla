----------------------------- MODULE LuaKvcache -----------------------------
(***************************************************************************)
(* The key-value cache of the Lua LSM: dictionaries attached to kernel     *)
(* objects and shared between the Lua states of one module.  A hook that   *)
(* runs Lua code on some task reads and writes entries in several steps;   *)
(* the end of the object releases its dictionary and the unregistering of  *)
(* a module collects its entries from every dictionary.                    *)
(*                                                                         *)
(* An entry is a reference-counted node that is in the tree of its         *)
(* dictionary and, when a module owns it, on the list of that module.      *)
(***************************************************************************)
EXTENDS Integers, FiniteSets

CONSTANTS
    Tasks,      \* the tasks that run hooks
    Modules,    \* the registered Lua modules
    Keys,       \* the keys of entries
    Nodes,      \* memory for entries
    ObjDicts,   \* dictionaries embedded in the blobs of kernel objects
    ShDicts,    \* memory for shared dictionaries (of one name)
    Capacity,   \* CACHE_CAPACITY
    Deleters,   \* the tasks whose modules set entries to nil
    NULL

ASSUME KvAssumption ==
    /\ Capacity \in Nat \ {0}
    /\ Deleters \subseteq Tasks /\ IsFiniteSet(Tasks)
    /\ ObjDicts \cap ShDicts = {}
    /\ NULL \notin Modules \cup Nodes \cup ObjDicts \cup ShDicts

Dicts == ObjDicts \cup ShDicts
\* "put" stands for set() to a value and for incr(), which differ in the value
\* only; "nil" is set() to nil.
Calls == {"put", "get", "nil"}

VARIABLES
    node,    \* struct kvcache_node
    tree,    \* the rbtree of a dictionary
    count,   \* dict->count
    dstate,  \* the life of a dictionary
    mlist,   \* module->kvnodes
    mcount,  \* module->kvnodes_count
    shdicts, \* module->shdicts
    state,   \* module->state
    op,      \* what a task is doing in the cache
    gc,      \* the unregistering under way: modules_mutex admits one
    wlock    \* the dictionary whose lock the collector holds between two steps

vars == <<node, tree, count, dstate, mlist, mcount, shdicts, state, op, gc, wlock>>

freed == [dict |-> NULL, module |-> NULL, key |-> NULL, ref |-> 0]
idle == [pc |-> "idle", d |-> NULL, m |-> NULL, k |-> NULL, n |-> NULL]
gcidle == [pc |-> "idle", m |-> NULL, todo |-> {}]

Init ==
    /\ node = [n \in Nodes |-> freed]
    /\ tree = [d \in Dicts |-> {}]
    /\ count = [d \in Dicts |-> 0]
    /\ dstate = [d \in Dicts |-> "freed"]
    /\ mlist = [m \in Modules |-> {}]
    /\ mcount = [m \in Modules |-> 0]
    /\ shdicts = [m \in Modules |-> {}]
    /\ state = [m \in Modules |-> "FREED"]
    /\ op = [t \in Tasks |-> idle]
    /\ gc = gcidle
    /\ wlock = NULL

-----------------------------------------------------------------------------
(* Nodes.                                                                  *)

\* RB_FIND with kvcache_node_cmp(): key and module identify an entry.
find(d, m, k) == {n \in tree[d] : node[n].key = k /\ node[n].module = m}

\* Mutant: the look-up forgets to pin the node.
MutHold(n) == node

kvcache_node_hold(n) == [node EXCEPT ![n].ref = @ + 1]

\* The last reference frees the memory.
kvcache_node_drop(n) ==
    [node EXCEPT ![n] = IF @.ref <= 1 THEN freed ELSE [@ EXCEPT !.ref = node[n].ref - 1]]

\* Taking nodes off the lists of the modules that own them.
list_del(S) ==
    /\ mlist' = [m \in Modules |-> mlist[m] \ S]
    /\ mcount' = [m \in Modules |->
                    mcount[m] - Cardinality({n \in S : node[n].module = m})]

\* The entries of shared dictionaries belong to no module.
owner(d, m) == IF d \in ShDicts THEN NULL ELSE m

-----------------------------------------------------------------------------
(* kvcache_set(), kvcache_get() and kvcache_incr(), which the functions of *)
(* a LIVE module call on an object, or on a dictionary they share.         *)

\* Every operation starts with a look-up that pins the node it finds.
kvcache_lookup(t) == \E m \in Modules, d \in Dicts, k \in Keys, c \in Calls :
    /\ op[t].pc = "idle" /\ state[m] = "LIVE"
    /\ dstate[d] = "live" /\ wlock # d
    /\ d \in ShDicts => d \in shdicts[m]
    /\ c = "nil" => t \in Deleters
    /\ LET found == find(d, owner(d, m), k)
           n == IF found = {} THEN NULL ELSE CHOOSE n \in found : TRUE
           pc == IF n # NULL THEN IF c = "nil" THEN "unlink" ELSE "update"
                 ELSE IF c = "put" THEN "link" ELSE "idle" IN
       /\ op' = [op EXCEPT ![t] = IF pc = "idle" THEN idle
                    ELSE [pc |-> pc, d |-> d, m |-> m, k |-> k, n |-> n]]
       /\ node' = IF n = NULL THEN node ELSE kvcache_node_hold(n)
    /\ UNCHANGED <<tree, count, dstate, mlist, mcount, shdicts, state, gc, wlock>>

\* kvcache_node_alloc() or kvcache_node_fill() fails: nothing was linked.
kvcache_node_alloc_fails(t) ==
    /\ op[t].pc = "link"
    /\ op' = [op EXCEPT ![t] = idle]
    /\ UNCHANGED <<node, tree, count, dstate, mlist, mcount, shdicts, state, gc, wlock>>

\* A filled node enters the tree, unless the dictionary is full (-ERANGE) or
\* somebody else linked the key since the look-up: then that node is updated.
kvcache_module_link(t) ==
    LET o == op[t]
        m == owner(o.d, o.m)
        prev == find(o.d, m, o.k) IN
    /\ o.pc = "link" /\ wlock # o.d
    /\ \/ /\ count[o.d] >= Capacity
          /\ op' = [op EXCEPT ![t] = idle]
          /\ UNCHANGED <<node, tree, count, mlist, mcount>>
       \/ /\ count[o.d] < Capacity /\ prev # {}
          /\ LET n == CHOOSE n \in prev : TRUE IN
             /\ node' = kvcache_node_hold(n)
             /\ op' = [op EXCEPT ![t] = [@ EXCEPT !.pc = "update", !.n = n]]
          /\ UNCHANGED <<tree, count, mlist, mcount>>
       \/ /\ count[o.d] < Capacity /\ prev = {}
          /\ \E n \in Nodes :
             /\ node[n] = freed
             /\ node' = [node EXCEPT ![n] = [dict |-> o.d, module |-> m,
                                             key |-> o.k, ref |-> 1]]
             /\ tree' = [tree EXCEPT ![o.d] = @ \cup {n}]
             /\ count' = [count EXCEPT ![o.d] = @ + 1]
             /\ mlist' = [x \in Modules |-> mlist[x] \cup (IF x = m THEN {n} ELSE {})]
             /\ mcount' = [x \in Modules |-> mcount[x] + (IF x = m THEN 1 ELSE 0)]
          /\ op' = [op EXCEPT ![t] = idle]
    /\ UNCHANGED <<dstate, shdicts, state, gc, wlock>>

\* kvcache_node_refill(), kvcache_node_get() and the update of
\* kvcache_incr() use the value, under the lock of the node they pinned.
kvcache_node_update(t) ==
    /\ op[t].pc = "update"
    /\ op' = [op EXCEPT ![t].pc = "drop"]
    /\ UNCHANGED <<node, tree, count, dstate, mlist, mcount, shdicts, state, gc, wlock>>

\* kvcache_set() to nil: the node leaves the tree and its module's list.
kvcache_module_unlink(t) ==
    LET o == op[t] IN
    /\ o.pc = "unlink" /\ wlock # o.d
    /\ tree' = [tree EXCEPT ![o.d] = @ \ {o.n}]
    /\ count' = [count EXCEPT ![o.d] = @ - 1]
    /\ list_del({o.n})
    /\ op' = [op EXCEPT ![t].pc = "drop2"]
    /\ UNCHANGED <<node, dstate, shdicts, state, gc, wlock>>

\* The reference of the tree, then the one of the look-up.
drop(t) ==
    /\ op[t].pc \in {"drop2", "drop"}
    /\ node' = kvcache_node_drop(op[t].n)
    /\ op' = [op EXCEPT ![t] = IF @.pc = "drop2" THEN [@ EXCEPT !.pc = "drop"]
                               ELSE idle]
    /\ UNCHANGED <<tree, count, dstate, mlist, mcount, shdicts, state, gc, wlock>>

-----------------------------------------------------------------------------
(* Shared dictionaries: lua_shared_index().                                *)

\* The first use of the name in a Lua state: nobody made the dictionary yet,
\* so that this state allocates one.
lua_shared_index_alloc(t) == \E m \in Modules, d \in ShDicts :
    /\ op[t].pc = "idle" /\ state[m] = "LIVE" /\ shdicts[m] = {}
    /\ dstate[d] = "freed"
    /\ dstate' = [dstate EXCEPT ![d] = "live"]
    /\ count' = [count EXCEPT ![d] = 0]
    /\ op' = [op EXCEPT ![t] = [idle EXCEPT !.pc = "share", !.m = m, !.d = d]]
    /\ UNCHANGED <<node, tree, mlist, mcount, shdicts, state, gc, wlock>>

\* Mutant: no second look.
MutShare(t) ==
    LET o == op[t] IN
    /\ o.pc = "share"
    /\ shdicts' = [shdicts EXCEPT ![o.m] = @ \cup {o.d}]
    /\ op' = [op EXCEPT ![t] = idle]
    /\ UNCHANGED <<node, tree, count, dstate, mlist, mcount, state, gc, wlock>>

\* Under shdict_lock it looks again: the loser of a race frees its own.
lua_shared_index_add(t) ==
    LET o == op[t] IN
    /\ o.pc = "share"
    /\ IF shdicts[o.m] = {}
       THEN /\ shdicts' = [shdicts EXCEPT ![o.m] = {o.d}]
            /\ UNCHANGED dstate
       ELSE /\ dstate' = [dstate EXCEPT ![o.d] = "freed"]
            /\ UNCHANGED shdicts
    /\ op' = [op EXCEPT ![t] = idle]
    /\ UNCHANGED <<node, tree, count, mlist, mcount, state, gc, wlock>>

-----------------------------------------------------------------------------
(* The end of a dictionary.                                                *)

kvcache_dict_init(d) ==
    /\ dstate[d] = "freed"
    /\ dstate' = [dstate EXCEPT ![d] = "live"]
    /\ count' = [count EXCEPT ![d] = 0]
    /\ UNCHANGED <<node, tree, mlist, mcount, shdicts, state, op, gc, wlock>>

\* The hook that ends an object, or unregistering for a shared dictionary:
\* no operation is under way in it.  One that looks empty is done.
kvcache_dict_free(d) ==
    /\ dstate[d] = "live"
    /\ \A t \in Tasks : op[t].d # d
    /\ d \in ShDicts => gc.pc = "shdicts" /\ d \in shdicts[gc.m]
    /\ dstate' = [dstate EXCEPT ![d] = IF count[d] = 0 THEN "freed" ELSE "detach"]
    /\ shdicts' = [m \in Modules |-> shdicts[m] \ {d}]
    /\ UNCHANGED <<node, tree, count, mlist, mcount, state, op, gc, wlock>>

\* Under nodes_gc_lock every node leaves the list of its module.
kvcache_dict_free_detach(d) ==
    /\ dstate[d] = "detach" /\ gc.pc # "unlink"
    /\ list_del(tree[d])
    /\ dstate' = [dstate EXCEPT ![d] = "unlink"]
    /\ UNCHANGED <<node, tree, count, shdicts, state, op, gc, wlock>>

\* Then, without a lock, every node leaves the tree and is dropped.
kvcache_dict_free_unlink(d) ==
    /\ dstate[d] = "unlink"
    /\ \/ \E n \in tree[d] :
            /\ tree' = [tree EXCEPT ![d] = @ \ {n}]
            /\ count' = [count EXCEPT ![d] = @ - 1]
            /\ node' = kvcache_node_drop(n)
            /\ UNCHANGED dstate
       \/ /\ tree[d] = {}
          /\ dstate' = [dstate EXCEPT ![d] = "freed"]
          /\ UNCHANGED <<node, tree, count>>
    /\ UNCHANGED <<mlist, mcount, shdicts, state, op, gc, wlock>>

-----------------------------------------------------------------------------
(* The end of a module: what lua_lsm_module_unregister() does to the cache.*)

lua_lsm_module_register(m) ==
    /\ state[m] = "FREED"
    /\ state' = [state EXCEPT ![m] = "LIVE"]
    /\ UNCHANGED <<node, tree, count, dstate, mlist, mcount, shdicts, op, gc, wlock>>

lua_lsm_module_unregister(m) ==
    /\ gc.pc = "idle" /\ state[m] = "LIVE"
    /\ state' = [state EXCEPT ![m] = "GOING"]
    /\ gc' = [gcidle EXCEPT !.pc = "sync", !.m = m]
    /\ UNCHANGED <<node, tree, count, dstate, mlist, mcount, shdicts, op, wlock>>

\* Mutant: the collector does not wait.
MutSrcu ==
    /\ gc.pc = "sync"
    /\ gc' = [gc EXCEPT !.pc = "shdicts"]
    /\ UNCHANGED <<node, tree, count, dstate, mlist, mcount, shdicts, state, op, wlock>>

\* synchronize_srcu() waits for the hooks that may still run the module.
synchronize_srcu ==
    /\ gc.pc = "sync"
    /\ \A t \in Tasks : op[t].m # gc.m
    /\ gc' = [gc EXCEPT !.pc = "shdicts"]
    /\ UNCHANGED <<node, tree, count, dstate, mlist, mcount, shdicts, state, op, wlock>>

\* Once the shared dictionaries are freed, nodes_gc_lock is taken.
kvcache_module_nodes_gc ==
    /\ gc.pc = "shdicts" /\ shdicts[gc.m] = {}
    /\ \A d \in ShDicts : dstate[d] \notin {"detach", "unlink"}
    /\ gc' = [gc EXCEPT !.pc = "unlink", !.todo = mlist[gc.m]]
    /\ UNCHANGED <<node, tree, count, dstate, mlist, mcount, shdicts, state, op, wlock>>

\* Each node of the module leaves the tree of its dictionary; the unlocking of
\* that dictionary is a step of its own.
gc_unlink ==
    /\ gc.pc = "unlink" /\ wlock = NULL
    /\ \E n \in gc.todo : LET d == node[n].dict IN
         /\ tree' = [tree EXCEPT ![d] = @ \ {n}]
         /\ count' = [count EXCEPT ![d] = @ - 1]
         /\ wlock' = d
         /\ gc' = [gc EXCEPT !.todo = @ \ {n}]
    /\ UNCHANGED <<node, dstate, mlist, mcount, shdicts, state, op>>

gc_unlock ==
    /\ wlock # NULL
    /\ wlock' = NULL
    /\ UNCHANGED <<node, tree, count, dstate, mlist, mcount, shdicts, state, op, gc>>

\* Mutant: the collector starts over while nodes are left on the list.
MutRestart ==
    /\ gc.pc = "unlink" /\ gc.todo = {} /\ wlock = NULL
    /\ gc' = [gc EXCEPT !.pc = IF mlist[gc.m] = {} THEN "drop" ELSE "shdicts"]
    /\ UNCHANGED <<node, tree, count, dstate, mlist, mcount, shdicts, state, op, wlock>>

\* nodes_gc_lock is released; then the list is emptied without a lock.
gc_release ==
    /\ gc.pc = "unlink" /\ gc.todo = {} /\ wlock = NULL
    /\ gc' = [gc EXCEPT !.pc = "drop"]
    /\ UNCHANGED <<node, tree, count, dstate, mlist, mcount, shdicts, state, op, wlock>>

gc_drop ==
    /\ gc.pc = "drop"
    /\ \/ \E n \in mlist[gc.m] :
            /\ list_del({n})
            /\ node' = kvcache_node_drop(n)
            /\ UNCHANGED <<gc, state>>
       \/ /\ mlist[gc.m] = {}
          /\ gc' = gcidle
          /\ state' = [state EXCEPT ![gc.m] = "FREED"]
          /\ UNCHANGED <<node, mlist, mcount>>
    /\ UNCHANGED <<tree, count, dstate, shdicts, op, wlock>>

-----------------------------------------------------------------------------
Operate(t) ==
    \/ kvcache_node_alloc_fails(t) \/ kvcache_module_link(t)
    \/ kvcache_node_update(t) \/ kvcache_module_unlink(t) \/ drop(t)
    \/ lua_shared_index_add(t)

Collect ==
    \/ synchronize_srcu \/ kvcache_module_nodes_gc \/ gc_unlink \/ gc_unlock
    \/ gc_release \/ gc_drop
    \/ \E d \in ShDicts : kvcache_dict_free(d)

Release(d) == kvcache_dict_free_detach(d) \/ kvcache_dict_free_unlink(d)

Next ==
    \/ \E t \in Tasks : kvcache_lookup(t) \/ lua_shared_index_alloc(t) \/ Operate(t)
    \/ \E d \in ObjDicts : kvcache_dict_init(d) \/ kvcache_dict_free(d)
    \/ \E d \in Dicts : Release(d)
    \/ \E m \in Modules : lua_lsm_module_register(m) \/ lua_lsm_module_unregister(m)
    \/ Collect

Spec == Init /\ [][Next]_vars

\* A hook that entered the cache leaves it, and so do the two release paths:
\* they run to their end on the task that started them.  nodes_gc_lock is a
\* queued spinlock: whoever waits for it gets it.
FairSpec ==
    /\ Spec
    /\ \A t \in Tasks : WF_vars(Operate(t))
    /\ WF_vars(Collect)
    /\ \A d \in Dicts : SF_vars(Release(d))

-----------------------------------------------------------------------------
(* Properties.                                                             *)

\* A node has one reference for its place in a tree, which passes to whoever
\* takes it out, and one for each operation that found it.
placed(n) == \/ \E d \in Dicts : n \in tree[d]
             \/ \E m \in Modules : n \in mlist[m]
             \/ \E t \in Tasks : op[t].n = n /\ op[t].pc = "drop2"
refs(n) == (IF placed(n) THEN 1 ELSE 0) + Cardinality({t \in Tasks : op[t].n = n})

\* The reference count of a node is the number of its users, whatever
\* operations, collections and releases overlap: memory that is free is used
\* by nobody, and none that is allocated is leaked (refcount in
\* kvcache_lookup(), kvcache_module_link() and the three ways out of a tree).
RefsExact == \A n \in Nodes : refs(n) = node[n].ref

\* The counters agree with the tree and the lists they describe, the capacity
\* is respected, and a module that nobody collects has on its list exactly its
\* entries in the trees: the WARN_ONs of kvcache_module_nodes_gc() and
\* kvcache_dict_free() cannot fire.
ListsExact ==
    /\ \A d \in Dicts : count[d] = Cardinality(tree[d]) /\ count[d] <= Capacity
    /\ \A m \in Modules :
         /\ mcount[m] = Cardinality(mlist[m])
         /\ gc.m # m => mlist[m] = {n \in UNION {tree[d] : d \in Dicts} :
                            node[n].module = m /\ dstate[node[n].dict] # "unlink"}

\* Counts, lists and trees of kvcache.c tell the same story at every step.
NodesExact == RefsExact /\ ListsExact

\* Once a module is freed no entry of it can be found, by a look-up or by a
\* release that would follow its module pointer, and its shared dictionaries
\* are gone (lua_lsm_module_unregister() frees the module right after).
ModuleGone == \A m \in Modules : state[m] = "FREED" =>
    /\ shdicts[m] = {}
    /\ \A n \in Nodes : node[n].module = m =>
          dstate[node[n].dict] = "unlink" /\ \A t \in Tasks : op[t].n # n

\* The Lua states of a module agree on one dictionary for a shared name, and
\* every dictionary that was allocated is theirs or about to be decided on
\* (the second look under shdict_lock in lua_shared_index()).
SharedOnce ==
    /\ \A m \in Modules : Cardinality(shdicts[m]) <= 1
    /\ \A d \in ShDicts : dstate[d] = "live" =>
          \/ \E m \in Modules : d \in shdicts[m]
          \/ \E t \in Tasks : op[t].pc = "share" /\ op[t].d = d

\* Unregistering gets to its end: neither SRCU nor nodes_gc_lock keeps it
\* waiting for ever, however busy other modules keep the dictionaries.
UnregisterEnds == \A m \in Modules : state[m] = "GOING" ~> state[m] = "FREED"

\* The end of an object gets through nodes_gc_lock.
ReleaseEnds == \A d \in Dicts : dstate[d] = "detach" ~> dstate[d] = "freed"

\* Both ways of releasing nodes get to their end (kvcache.c, nodes_gc_lock).
ReleasesEnd == UnregisterEnds /\ ReleaseEnds

\* WARN_ON() at the end of kvcache_dict_free(): when all nodes are out of the
\* tree the dictionary counts no entry.
EmptiedCountsZero == \A d \in Dicts : dstate[d] = "unlink" /\ tree[d] = {} => count[d] = 0
=============================================================================
