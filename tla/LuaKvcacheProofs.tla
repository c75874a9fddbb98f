------------------------- MODULE LuaKvcacheProofs -------------------------
(***************************************************************************)
(* Proofs about LuaKvcache, for any number of tasks, modules, dictionaries *)
(* and entries.  One thing is asked of them: entries are set to nil by one *)
(* task at most.  Two such tasks break the counts, as MCLuaDelete.cfg      *)
(* shows.                                                                  *)
(***************************************************************************)
EXTENDS LuaKvcache, FiniteSetTheorems, TLAPS

OneDeleter == \A t, u \in Deleters : t = u

-----------------------------------------------------------------------------
(* The inductive invariant.                                                *)

Entry == [dict : Dicts, module : Modules \cup {NULL}, key : Keys, ref : Nat \ {0}]
Pinning == {"update", "unlink", "drop2", "drop"}
Op == {idle}
      \cup [pc : {"link"}, d : Dicts, m : Modules, k : Keys, n : {NULL}]
      \cup [pc : Pinning, d : Dicts, m : Modules, k : Keys, n : Nodes]
      \cup [pc : {"share"}, d : ShDicts, m : Modules, k : {NULL}, n : {NULL}]
Gc == {gcidle}
      \cup [pc : {"sync", "shdicts", "drop"}, m : Modules, todo : {{}}]
      \cup [pc : {"unlink"}, m : Modules, todo : SUBSET Nodes]

TypeOK ==
    /\ node \in [Nodes -> Entry \cup {freed}]
    /\ tree \in [Dicts -> SUBSET Nodes]
    /\ dstate \in [Dicts -> {"freed", "live", "detach", "unlink"}]
    /\ count \in [Dicts -> Int]
    /\ mlist \in [Modules -> SUBSET Nodes]
    /\ mcount \in [Modules -> Int]
    /\ shdicts \in [Modules -> SUBSET ShDicts]
    /\ state \in [Modules -> {"LIVE", "GOING", "FREED"}]
    /\ op \in [Tasks -> Op]
    /\ gc \in Gc

\* Who is in the cache: the dictionary lives, and the module as well.
Entered(t) ==
    /\ dstate[op[t].d] = "live"
    /\ state[op[t].m] # "FREED" /\ (gc.m = op[t].m => gc.pc = "sync")
Pins(t) ==
    /\ node[op[t].n] # freed
    /\ node[op[t].n].dict = op[t].d /\ node[op[t].n].module = owner(op[t].d, op[t].m)
Sharing(t) ==
    LET d == op[t].d IN
    /\ tree[d] = {}
    /\ \A m \in Modules : d \notin shdicts[m]
    /\ \A u \in Tasks : u # t => op[u].d # d
OpOK(t) ==
    /\ op[t].pc # "idle" => Entered(t)
    /\ op[t].pc \in Pinning => Pins(t)
    /\ op[t].pc \in {"unlink", "drop2"} => t \in Deleters
    /\ op[t].pc = "unlink" => op[t].n \in tree[op[t].d]
    /\ op[t].pc = "drop2" => /\ \A d \in Dicts : op[t].n \notin tree[d]
                             /\ \A m \in Modules : op[t].n \notin mlist[m]
    /\ op[t].pc = "share" => Sharing(t)

\* A dictionary has the entries that name it, and counts them.
InTree(d, n) ==
    /\ node[n] # freed /\ node[n].dict = d
    /\ d \in ShDicts <=> node[n].module = NULL
TreeOK(d) ==
    /\ \A n \in tree[d] : InTree(d, n)
    /\ IsFiniteSet(tree[d]) /\ count[d] = Cardinality(tree[d]) /\ count[d] <= Capacity
    /\ dstate[d] = "freed" => tree[d] = {}

\* The entries of a module that a dictionary has and does not release; the part
\* of the module's list that they are.
Listed(m) == {n \in Nodes : /\ node[n].module = m
                            /\ \E d \in Dicts : n \in tree[d] /\ dstate[d] # "unlink"}
Queue(m) == IF gc.m = m /\ gc.pc \in {"unlink", "drop"} THEN gc.todo ELSE mlist[m]
ListOK(m) ==
    /\ \A n \in mlist[m] : node[n].module = m
    /\ Queue(m) = Listed(m) /\ Queue(m) \subseteq mlist[m]
    /\ \A n \in mlist[m], d \in Dicts : n \in tree[d] => n \in Queue(m)
    /\ IsFiniteSet(mlist[m]) /\ mcount[m] = Cardinality(mlist[m])

\* The life of a module and of its shared dictionaries.
ModuleOK(m) ==
    /\ state[m] = "GOING" <=> gc.m = m
    /\ state[m] = "FREED" => mlist[m] = {}
    /\ state[m] = "FREED" => shdicts[m] = {}
    /\ gc.m = m /\ gc.pc \in {"unlink", "drop"} => shdicts[m] = {}
    /\ \A d, e \in shdicts[m] : d = e
    /\ \A d \in shdicts[m] : dstate[d] = "live"
SharedOK == \A d \in ShDicts : dstate[d] = "live" =>
              \/ \E m \in Modules : d \in shdicts[m]
              \/ \E t \in Tasks : op[t].pc = "share" /\ op[t].d = d

IInv ==
    /\ TypeOK
    /\ \A t \in Tasks : OpOK(t)
    /\ \A d \in Dicts : TreeOK(d)
    /\ \A m \in Modules : ListOK(m) /\ ModuleOK(m)
    /\ SharedOK
    /\ RefsExact

-----------------------------------------------------------------------------
(* Types.                                                                  *)

LEMMA Names ==
    /\ NULL \notin Modules /\ NULL \notin Nodes /\ NULL \notin Dicts
    /\ \A d \in ShDicts : d \in Dicts /\ d \notin ObjDicts
    /\ \A d \in ObjDicts : d \in Dicts /\ d \notin ShDicts
    /\ \A d \in Dicts : d \in ObjDicts \/ d \in ShDicts
    /\ \A t \in Deleters : t \in Tasks
BY KvAssumption DEF Dicts

\* What a task is doing when its pc says so.
LEMMA Shape ==
    ASSUME TypeOK, NEW t \in Tasks
    PROVE  /\ op[t].pc \in {"idle", "link", "share"} \cup Pinning
           /\ op[t] = [pc |-> op[t].pc, d |-> op[t].d, m |-> op[t].m, k |-> op[t].k, n |-> op[t].n]
           /\ op[t].pc = "idle" => op[t] = idle /\ op[t].m = NULL /\ op[t].d = NULL
           /\ op[t].pc # "idle" => op[t].d \in Dicts /\ op[t].m \in Modules
           /\ op[t].pc \in Pinning => op[t].n \in Nodes
           /\ op[t].pc \notin Pinning => op[t].n = NULL
           /\ op[t].pc = "share" => op[t].d \in ShDicts
           /\ op[t].pc \in {"link"} \cup Pinning => op[t].k \in Keys
<1>1. op[t] \in Op
  BY DEF TypeOK
<1> QED BY <1>1, Names DEF Op, idle, Pinning

LEMMA NodeShape ==
    ASSUME TypeOK, NEW n \in Nodes
    PROVE  /\ node[n].ref \in Nat
           /\ node[n] = freed <=> node[n].ref = 0
           /\ node[n] # freed => node[n] \in Entry
           /\ node[n] = freed => node[n].module = NULL /\ node[n].dict = NULL
<1>1. node[n] \in Entry \cup {freed}
  BY DEF TypeOK
<1> QED BY <1>1 DEF Entry, freed

LEMMA GcShape ==
    ASSUME TypeOK
    PROVE  /\ gc.pc \in {"idle", "sync", "shdicts", "unlink", "drop"}
           /\ gc = [pc |-> gc.pc, m |-> gc.m, todo |-> gc.todo]
           /\ gc.pc = "idle" => gc = gcidle /\ gc.m = NULL
           /\ gc.pc # "idle" => gc.m \in Modules
           /\ gc.pc # "unlink" => gc.todo = {}
           /\ gc.todo \subseteq Nodes
BY DEF TypeOK, Gc, gcidle

\* One more reference, and one less.
LEMMA Held ==
    ASSUME TypeOK, NEW n \in Nodes, node[n] # freed, node' = kvcache_node_hold(n)
    PROVE  /\ node' \in [Nodes -> Entry \cup {freed}]
           /\ \A x \in Nodes : x # n => node'[x] = node[x]
           /\ node'[n] # freed /\ node'[n].dict = node[n].dict
           /\ node'[n].module = node[n].module /\ node'[n].key = node[n].key
           /\ node'[n].ref = node[n].ref + 1
<1> DEFINE x == node[n].ref + 1
           h == [node[n] EXCEPT !.ref = x]
<1>1. node[n] \in Entry
  BY NodeShape
<1>2. x \in Nat \ {0}
  BY <1>1 DEF Entry
<1>3. node' = [node EXCEPT ![n] = h]
  BY DEF kvcache_node_hold
<1> HIDE DEF x
<1>4. h \in Entry /\ h.dict = node[n].dict /\ h.module = node[n].module
      /\ h.key = node[n].key /\ h.ref = x
  BY <1>1, <1>2 DEF Entry
<1> HIDE DEF h
<1>5. h # freed
  BY <1>2, <1>4 DEF freed
<1>6. node \in [Nodes -> Entry \cup {freed}]
  BY DEF TypeOK
<1> QED BY <1>3, <1>4, <1>5, <1>6 DEF x

LEMMA Dropped ==
    ASSUME TypeOK, NEW n \in Nodes, node[n] # freed, node' = kvcache_node_drop(n)
    PROVE  /\ node' \in [Nodes -> Entry \cup {freed}]
           /\ \A x \in Nodes : x # n => node'[x] = node[x]
           /\ node'[n].ref = node[n].ref - 1
           /\ node[n].ref = 1 => node'[n] = freed
           /\ node[n].ref # 1 =>
                /\ node'[n] # freed /\ node'[n].dict = node[n].dict
                /\ node'[n].module = node[n].module /\ node'[n].key = node[n].key
<1> DEFINE x == node[n].ref - 1
           h == [node[n] EXCEPT !.ref = x]
<1>1. node[n] \in Entry /\ node[n].ref \in Nat \ {0}
  BY NodeShape DEF Entry
<1>2. node' = [node EXCEPT ![n] = IF node[n].ref <= 1 THEN freed ELSE h]
  BY DEF kvcache_node_drop
<1>3. node \in [Nodes -> Entry \cup {freed}]
  BY DEF TypeOK
<1>4. CASE node[n].ref = 1
  <2>1. node' = [node EXCEPT ![n] = freed]
    BY <1>2, <1>4
  <2>2. freed.ref = 0
    BY DEF freed
  <2> QED BY <1>3, <1>4, <2>1, <2>2
<1>5. CASE node[n].ref # 1
  <2>1. node' = [node EXCEPT ![n] = h]
    <3>1. ~(node[n].ref <= 1)
      BY <1>1, <1>5
    <3> HIDE DEF h
    <3> QED BY <1>2, <3>1
  <2>2. x \in Nat \ {0}
    BY <1>1, <1>5
  <2> HIDE DEF x
  <2>3. h \in Entry /\ h.dict = node[n].dict /\ h.module = node[n].module
        /\ h.key = node[n].key /\ h.ref = x
    BY <1>1, <2>2 DEF Entry
  <2> HIDE DEF h
  <2>4. h # freed
    BY <2>2, <2>3 DEF freed
  <2> QED BY <1>3, <1>5, <2>1, <2>3, <2>4 DEF x
<1> QED BY <1>4, <1>5

-----------------------------------------------------------------------------
(* Counting.                                                               *)

One(c) == IF c THEN 1 ELSE 0
Users(n) == {t \in Tasks : op[t].n = n}

\* One element more or less in a set.
LEMMA SetMember ==
    ASSUME NEW S, NEW T, NEW x, IsFiniteSet(S), \A y : y # x => (y \in T <=> y \in S)
    PROVE  /\ IsFiniteSet(T) /\ Cardinality(S) \in Nat
           /\ Cardinality(T) = Cardinality(S) + One(x \in T) - One(x \in S)
<1>0. Cardinality(S) \in Nat
  BY FS_CardinalityType
<1>1. CASE x \in S /\ x \in T
  <2>1. T = S
    BY <1>1
  <2> QED BY <1>0, <1>1, <2>1 DEF One
<1>2. CASE x \notin S /\ x \notin T
  <2>1. T = S
    BY <1>2
  <2> QED BY <1>0, <1>2, <2>1 DEF One
<1>3. CASE x \notin S /\ x \in T
  <2>1. T = S \cup {x}
    BY <1>3
  <2> QED BY <1>0, <1>3, <2>1, FS_AddElement DEF One
<1>4. CASE x \in S /\ x \notin T
  <2>1. T = S \ {x}
    BY <1>4
  <2> QED BY <1>0, <1>4, <2>1, FS_RemoveElement DEF One
<1> QED BY <1>1, <1>2, <1>3, <1>4

LEMMA UsersStep ==
    ASSUME NEW t \in Tasks, \A u \in Tasks : u # t => op'[u].n = op[u].n
    PROVE  \A n : /\ Cardinality(Users(n)) \in Nat
                  /\ Cardinality(Users(n))' =
                        Cardinality(Users(n)) + One(op'[t].n = n) - One(op[t].n = n)
<1> TAKE n
<1>1. IsFiniteSet(Users(n))
  BY KvAssumption, FS_Subset DEF Users
<1>2. \A u : u # t => (u \in Users(n)' <=> u \in Users(n))
  BY DEF Users
<1>3. /\ Cardinality(Users(n)) \in Nat
      /\ Cardinality(Users(n)') =
            Cardinality(Users(n)) + One(t \in Users(n)') - One(t \in Users(n))
  BY <1>1, <1>2, SetMember
<1>4. (t \in Users(n)' <=> op'[t].n = n) /\ (t \in Users(n) <=> op[t].n = n)
  BY DEF Users
<1>5. One(t \in Users(n)') = One(op'[t].n = n) /\ One(t \in Users(n)) = One(op[t].n = n)
  BY <1>4 DEF One
<1> QED BY <1>3, <1>5

LEMMA UsersFrame ==
    ASSUME \A u \in Tasks : op'[u].n = op[u].n
    PROVE  \A n : Cardinality(Users(n)) \in Nat /\ Cardinality(Users(n))' = Cardinality(Users(n))
<1> TAKE n
<1>1. IsFiniteSet(Users(n))
  BY KvAssumption, FS_Subset DEF Users
<1>2. Users(n)' = Users(n)
  BY DEF Users
<1> QED BY <1>1, <1>2, FS_CardinalityType

LEMMA SomeUser ==
    ASSUME NEW n
    PROVE  /\ Cardinality(Users(n)) \in Nat
           /\ Cardinality(Users(n)) = 0 <=> \A t \in Tasks : op[t].n # n
<1>1. IsFiniteSet(Users(n))
  BY KvAssumption, FS_Subset DEF Users
<1>2. Cardinality(Users(n)) = 0 <=> Users(n) = {}
  BY <1>1, FS_EmptySet
<1> QED BY <1>1, <1>2, FS_CardinalityType DEF Users

\* What the reference count of a node says.
LEMMA RefsAre ==
    ASSUME RefsExact, NEW n \in Nodes
    PROVE  node[n].ref = One(placed(n)) + Cardinality(Users(n))
BY DEF RefsExact, refs, One, Users

-----------------------------------------------------------------------------
(* Steps of a task in the cache.                                           *)

Alike(n) == node[n] # freed => /\ node'[n] # freed /\ node'[n].dict = node[n].dict
                               /\ node'[n].module = node[n].module

LEMMA RefsOp ==
    ASSUME TypeOK, RefsExact, NEW t \in Tasks, \A u \in Tasks : u # t => op'[u].n = op[u].n,
           \A n \in Nodes : node'[n].ref = node[n].ref + One(placed(n)') - One(placed(n))
                                           + One(op'[t].n = n) - One(op[t].n = n)
    PROVE  RefsExact'
<1> SUFFICES ASSUME NEW n \in Nodes PROVE refs(n)' = node'[n].ref
  BY DEF RefsExact
<1>1. node[n].ref = One(placed(n)) + Cardinality(Users(n))
  BY RefsAre
<1>2. /\ Cardinality(Users(n)) \in Nat
      /\ Cardinality(Users(n))' = Cardinality(Users(n)) + One(op'[t].n = n) - One(op[t].n = n)
  BY UsersStep
<1>3. refs(n)' = One(placed(n)') + Cardinality(Users(n))'
  BY DEF refs, One, Users
<1>4. /\ One(placed(n)) \in Nat /\ One(placed(n)') \in Nat
      /\ One(op'[t].n = n) \in Nat /\ One(op[t].n = n) \in Nat
  BY DEF One
<1> QED BY <1>1, <1>2, <1>3, <1>4

LEMMA RefsOther ==
    ASSUME TypeOK, RefsExact, \A u \in Tasks : op'[u].n = op[u].n,
           \A n \in Nodes : node'[n].ref = node[n].ref + One(placed(n)') - One(placed(n))
    PROVE  RefsExact'
<1> SUFFICES ASSUME NEW n \in Nodes PROVE refs(n)' = node'[n].ref
  BY DEF RefsExact
<1>1. node[n].ref = One(placed(n)) + Cardinality(Users(n))
  BY RefsAre
<1>2. Cardinality(Users(n)) \in Nat /\ Cardinality(Users(n))' = Cardinality(Users(n))
  BY UsersFrame
<1>3. refs(n)' = One(placed(n)') + Cardinality(Users(n))'
  BY DEF refs, One, Users
<1>4. One(placed(n)) \in Nat /\ One(placed(n)') \in Nat
  BY DEF One
<1> QED BY <1>1, <1>2, <1>3, <1>4

\* A step that leaves trees, lists, modules and dictionaries alone.
LEMMA ListsFrame ==
    ASSUME IInv, UNCHANGED <<tree, count, dstate, mlist, mcount, shdicts, state, gc>>,
           \A n \in Nodes : Alike(n) \/ /\ \A d \in Dicts : n \notin tree[d]
                                        /\ \A m \in Modules : n \notin mlist[m]
    PROVE  /\ \A d \in Dicts : TreeOK(d)'
           /\ \A m \in Modules : ListOK(m)' /\ ModuleOK(m)'
<1>1. \A d \in Dicts : TreeOK(d)'
  <2> SUFFICES ASSUME NEW d \in Dicts PROVE TreeOK(d)'
    OBVIOUS
  <2>1. TreeOK(d) /\ tree[d] \subseteq Nodes
    BY DEF IInv, TypeOK
  <2>2. \A n \in tree[d] : InTree(d, n)'
    BY <2>1 DEF TreeOK, InTree, Alike
  <2> QED BY <2>1, <2>2 DEF TreeOK
<1>2. ASSUME NEW m \in Modules PROVE ListOK(m)'
  <2>1. ListOK(m) /\ mlist[m] \subseteq Nodes
    BY DEF IInv, TypeOK
  <2>2. \A n \in mlist[m] : node'[n].module = m
    <3> TAKE n \in mlist[m]
    <3>1. node[n].module = m /\ node[n] # freed
      BY <2>1, NodeShape, Names DEF IInv, ListOK
    <3> QED BY <2>1, <3>1 DEF Alike
  <2>3. Listed(m)' = Listed(m)
    <3>1. \A n \in Nodes, d \in Dicts : n \in tree[d] => node'[n].module = node[n].module
      BY DEF IInv, TreeOK, InTree, Alike
    <3> QED BY <3>1 DEF Listed
  <2>4. Queue(m)' = Queue(m)
    BY DEF Queue
  <2> QED BY <2>1, <2>2, <2>3, <2>4 DEF ListOK
<1>3. \A m \in Modules : ModuleOK(m)'
  BY DEF IInv, ModuleOK
<1> QED BY <1>1, <1>2, <1>3

\* Whoever entered a dictionary is not the one who makes it.
LEMMA Makers ==
    ASSUME IInv
    PROVE  /\ \A t \in Tasks : OpOK(t)
           /\ \A t, u \in Tasks : op[t].pc = "share" /\ t # u => op[u].d # op[t].d
BY DEF IInv, OpOK, Sharing

LEMMA StepAlloc ==
    ASSUME IInv, NEW t \in Tasks, kvcache_node_alloc_fails(t) \/ kvcache_node_update(t)
    PROVE  IInv'
<1> USE Names
<1>0. TypeOK /\ op = [u \in Tasks |-> op[u]]
  BY DEF IInv, TypeOK
<1>1. /\ UNCHANGED <<node, tree, count, dstate, mlist, mcount, shdicts, state, gc>>
      /\ \A u \in Tasks : u # t => op'[u] = op[u]
      /\ op' = [u \in Tasks |-> op'[u]]
      /\ \/ op[t].pc = "link" /\ op'[t] = idle
         \/ op[t].pc = "update" /\ op'[t] = [op[t] EXCEPT !.pc = "drop"]
  BY <1>0 DEF kvcache_node_alloc_fails, kvcache_node_update
<1>2. /\ op'[t] \in Op /\ op'[t].n = op[t].n /\ op'[t].pc \in {"idle", "drop"}
      /\ op'[t].pc = "drop" => op'[t].d = op[t].d /\ op'[t].m = op[t].m
                               /\ op[t].pc = "update"
      /\ op'[t].pc = "idle" => op[t].pc = "link" /\ op'[t].d = NULL
  <2>1. CASE op[t].pc = "link" /\ op'[t] = idle
    BY <1>0, <2>1, Shape DEF Op, idle, Pinning
  <2>2. CASE op[t].pc = "update" /\ op'[t] = [op[t] EXCEPT !.pc = "drop"]
    <3>1. op[t].d \in Dicts /\ op[t].m \in Modules /\ op[t].n \in Nodes /\ op[t].k \in Keys
          /\ op[t] = [pc |-> op[t].pc, d |-> op[t].d, m |-> op[t].m, k |-> op[t].k, n |-> op[t].n]
      BY <1>0, <2>2, Shape DEF Pinning
    <3>2. op'[t] = [pc |-> "drop", d |-> op[t].d, m |-> op[t].m, k |-> op[t].k, n |-> op[t].n]
      BY <2>2, <3>1
    <3> QED BY <2>2, <3>1, <3>2 DEF Op, Pinning
  <2> QED BY <1>1, <2>1, <2>2
<1>3. TypeOK'
  BY <1>0, <1>1, <1>2 DEF TypeOK
<1>4. \A u \in Tasks : OpOK(u)'
  <2> TAKE u \in Tasks
  <2>1. OpOK(u) /\ OpOK(t)
    BY Makers
  <2>2. CASE u = t
    BY <1>1, <1>2, <2>1, <2>2 DEF OpOK, Entered, Pins, Pinning
  <2>3. CASE u # t
    <3>1. op'[u] = op[u]
      BY <1>1, <2>3
    <3>2. op[u].pc = "share" => Sharing(u)'
      <4>1. op[u].pc = "share" => op[u].d \in ShDicts
        BY <1>0, Shape
      <4>2. op'[t].d \in {op[t].d, NULL}
        BY <1>2
      <4> QED BY <1>1, <2>1, <2>3, <3>1, <4>1, <4>2 DEF OpOK, Sharing
    <3> QED BY <1>1, <2>1, <3>1, <3>2 DEF OpOK, Entered, Pins
  <2> QED BY <2>2, <2>3
<1>5. /\ \A d \in Dicts : TreeOK(d)'
      /\ \A m \in Modules : ListOK(m)' /\ ModuleOK(m)'
  BY <1>1, ListsFrame DEF Alike
<1>6. SharedOK'
  BY <1>1, <1>2 DEF IInv, SharedOK
<1>7. RefsExact'
  <2>1. \A n \in Nodes : placed(n)' <=> placed(n)
    BY <1>1, <1>2 DEF placed
  <2>2. \A n \in Nodes : One(placed(n)') = One(placed(n)) /\ One(placed(n)) \in Nat
    BY <2>1 DEF One
  <2>3. \A u \in Tasks : op'[u].n = op[u].n
    BY <1>1, <1>2
  <2>4. \A n \in Nodes : node'[n].ref = node[n].ref + One(placed(n)') - One(placed(n))
    BY <1>0, <1>1, <2>2, NodeShape
  <2> QED BY <1>0, <2>3, <2>4, RefsOther DEF IInv
<1> QED BY <1>3, <1>4, <1>5, <1>6, <1>7 DEF IInv

LEMMA OthersOK ==
    ASSUME IInv, NEW t \in Tasks, \A u \in Tasks : u # t => op'[u] = op[u],
           UNCHANGED <<tree, mlist, dstate, shdicts, state, gc>>,
           \A u \in Tasks : u # t /\ op[u].pc \in Pinning => Alike(op[u].n),
           \A u \in Tasks : u # t /\ op[u].pc = "share" => op'[t].d # op[u].d
    PROVE  \A u \in Tasks : u # t => OpOK(u)'
<1> SUFFICES ASSUME NEW u \in Tasks, u # t PROVE OpOK(u)'
  OBVIOUS
<1>1. OpOK(u) /\ op'[u] = op[u]
  BY Makers
<1>2. op[u].pc = "share" => Sharing(u)'
  <2>1. op[u].pc = "share" => op[u].d \in ShDicts
    BY Shape DEF IInv
  <2> QED BY <1>1, <2>1 DEF OpOK, Sharing
<1>3. op[u].pc \in Pinning => Pins(u)'
  BY <1>1 DEF OpOK, Pins, Alike
<1> QED BY <1>1, <1>2, <1>3 DEF OpOK, Entered

LEMMA SharedFrame ==
    ASSUME IInv, NEW t \in Tasks, \A u \in Tasks : u # t => op'[u] = op[u],
           UNCHANGED <<shdicts, dstate>>, op[t].pc # "share"
    PROVE  SharedOK'
BY DEF IInv, SharedOK

\* An operation pins an entry it found.
LEMMA Pinned ==
    ASSUME IInv, NEW t \in Tasks, NEW m \in Modules, NEW d \in Dicts, NEW k \in Keys,
           NEW n \in tree[d], NEW pc \in {"unlink", "update"},
           node[n].module = owner(d, m), node' = kvcache_node_hold(n), op[t].n = NULL,
           op[t].pc # "share", \A u \in Tasks : u # t => op'[u] = op[u],
           op' = [u \in Tasks |-> op'[u]],
           op'[t] = [pc |-> pc, d |-> d, m |-> m, k |-> k, n |-> n],
           pc = "unlink" => t \in Deleters,
           dstate[d] = "live", state[m] # "FREED", gc.m = m => gc.pc = "sync",
           \A u \in Tasks : u # t /\ op[u].pc = "share" => op[u].d # d,
           UNCHANGED <<tree, count, dstate, mlist, mcount, shdicts, state, gc>>
    PROVE  IInv'
<1> USE Names
<1>0. TypeOK
  BY DEF IInv
<1>1. n \in Nodes /\ InTree(d, n) /\ node[n] # freed
  BY <1>0 DEF IInv, TypeOK, TreeOK, InTree
<1>2. /\ node' \in [Nodes -> Entry \cup {freed}]
      /\ \A x \in Nodes : x # n => node'[x] = node[x]
      /\ node'[n] # freed /\ node'[n].dict = node[n].dict
      /\ node'[n].module = node[n].module /\ node'[n].key = node[n].key
      /\ node'[n].ref = node[n].ref + 1
  BY <1>0, <1>1, Held
<1>3. \A x \in Nodes : Alike(x)
  BY <1>2 DEF Alike
<1>4. /\ op'[t] \in Op /\ op'[t].pc = pc /\ op'[t].d = d /\ op'[t].m = m /\ op'[t].n = n
  BY <1>1 DEF Op, Pinning
<1>5. TypeOK'
  BY <1>0, <1>2, <1>4 DEF TypeOK
<1>6. \A u \in Tasks : u # t => OpOK(u)'
  <2>1. \A u \in Tasks : u # t /\ op[u].pc \in Pinning => Alike(op[u].n)
    BY <1>0, <1>3, Shape
  <2> QED BY <1>4, <2>1, OthersOK
<1>7. OpOK(t)'
  <2>1. Pins(t)'
    BY <1>1, <1>2, <1>4 DEF Pins, InTree
  <2> QED BY <1>4, <2>1 DEF OpOK, Entered, Pinning
<1>8. /\ \A x \in Dicts : TreeOK(x)'
      /\ \A x \in Modules : ListOK(x)' /\ ModuleOK(x)'
  BY <1>3, ListsFrame
<1>9. RefsExact'
  <2>0. \A x \in Tasks : op'[x].pc = "drop2" <=> op[x].pc = "drop2" /\ x # t
    <3>1. op[t].pc # "drop2"
      BY <1>0, Shape DEF Pinning
    <3> QED BY <1>4, <3>1
  <2>1. \A x \in Nodes : placed(x)' <=> placed(x)
    BY <2>0, <1>0 DEF placed, TypeOK
  <2>2. \A x \in Nodes : One(placed(x)') = One(placed(x)) /\ One(placed(x)) \in Nat
    BY <2>1 DEF One
  <2>3. \A x \in Nodes : One(op[t].n = x) = 0 /\ One(op'[t].n = x) = (IF x = n THEN 1 ELSE 0)
    BY <1>4 DEF One
  <2>4. \A x \in Nodes : node'[x].ref = node[x].ref + One(placed(x)') - One(placed(x))
                                        + One(op'[t].n = x) - One(op[t].n = x)
    BY <1>0, <1>2, <2>2, <2>3, NodeShape
  <2> QED BY <1>0, <2>4, RefsOp DEF IInv
<1>10. SharedOK'
  BY SharedFrame
<1> QED BY <1>5, <1>6, <1>7, <1>8, <1>9, <1>10 DEF IInv

\* A look-up with given arguments.
Looks(t, m, d, k, c) ==
    /\ op[t].pc = "idle" /\ state[m] = "LIVE"
    /\ dstate[d] = "live" /\ wlock # d
    /\ d \in ShDicts => d \in shdicts[m]
    /\ c = "nil" => t \in Deleters
    /\ LET found == find(d, owner(d, m), k)
           n == IF found = {} THEN NULL ELSE CHOOSE n \in found : TRUE
           pc == IF n # NULL THEN IF c = "nil" THEN "unlink" ELSE "update"
                 ELSE IF c = "put" THEN "link" ELSE "idle" IN
       /\ op' = [op EXCEPT ![t] = IF pc = "idle" THEN idle
                    ELSE [pc |-> pc, d |-> d, m |-> m, k |-> k, n |-> n]]
       /\ node' = IF n = NULL THEN node ELSE kvcache_node_hold(n)
    /\ UNCHANGED <<tree, count, dstate, mlist, mcount, shdicts, state, gc, wlock>>

\* A look-up finds an entry of the module in the dictionary.
LEMMA StepLookup ==
    ASSUME IInv, NEW t \in Tasks, kvcache_lookup(t)
    PROVE  IInv'
<1> USE Names
<1>0. TypeOK /\ op = [u \in Tasks |-> op[u]]
  BY DEF IInv, TypeOK
<1>1. PICK m \in Modules, d \in Dicts, k \in Keys, c \in Calls : Looks(t, m, d, k, c)
  BY DEF kvcache_lookup, Looks
<1>a. /\ op[t].pc = "idle" /\ state[m] = "LIVE" /\ dstate[d] = "live"
      /\ c = "nil" => t \in Deleters
      /\ d \in ShDicts => d \in shdicts[m]
  BY <1>1 DEF Looks
<1>b. UNCHANGED <<tree, count, dstate, mlist, mcount, shdicts, state, gc>>
  BY <1>1 DEF Looks
<1>2. /\ \A u \in Tasks : u # t => op'[u] = op[u]
      /\ op' = [u \in Tasks |-> op'[u]] /\ op[t].n = NULL
  BY <1>0, <1>1, <1>a, Shape DEF Looks, Pinning
<1>3. \/ /\ op'[t] \in {idle, [pc |-> "link", d |-> d, m |-> m, k |-> k, n |-> NULL]}
         /\ UNCHANGED node
      \/ \E n \in tree[d], pc \in {"unlink", "update"} :
         /\ node[n].module = owner(d, m) /\ node' = kvcache_node_hold(n)
         /\ op'[t] = [pc |-> pc, d |-> d, m |-> m, k |-> k, n |-> n]
         /\ pc = "unlink" => t \in Deleters
  <2> DEFINE found == find(d, owner(d, m), k)
             n == IF found = {} THEN NULL ELSE CHOOSE n \in found : TRUE
             pc == IF n # NULL THEN IF c = "nil" THEN "unlink" ELSE "update"
                   ELSE IF c = "put" THEN "link" ELSE "idle"
  <2>1. /\ op'[t] = IF pc = "idle" THEN idle
                    ELSE [pc |-> pc, d |-> d, m |-> m, k |-> k, n |-> n]
        /\ node' = IF n = NULL THEN node ELSE kvcache_node_hold(n)
    BY <1>0, <1>1 DEF Looks
  <2>2. CASE found = {}
    <3>1. n = NULL /\ pc \in {"link", "idle"}
      BY <2>2
    <3> HIDE DEF n, pc
    <3> QED BY <2>1, <3>1
  <2>3. CASE found # {}
    <3>1. n \in found
      <4> HIDE DEF found
      <4> QED BY <2>3
    <3>2. n \in tree[d] /\ node[n].module = owner(d, m)
      BY <3>1 DEF find
    <3>3. n # NULL
      <4> HIDE DEF n
      <4>1. tree[d] \subseteq Nodes
        BY <1>0 DEF TypeOK
      <4> QED BY <3>2, <4>1
    <3>4. pc \in {"unlink", "update"} /\ (pc = "unlink" => t \in Deleters)
      <4> HIDE DEF n
      <4> QED BY <1>a, <3>3
    <3> HIDE DEF n, pc
    <3> QED BY <2>1, <3>2, <3>3, <3>4
  <2> QED BY <2>2, <2>3
<1>4. state[m] = "LIVE" /\ gc.m # m
  BY <1>a DEF IInv, ModuleOK
<1>5. \A u \in Tasks : u # t /\ op[u].pc = "share" => op[u].d # d /\ op[u].d # NULL
  <2> TAKE u \in Tasks
  <2>1. op[u].pc = "share" => Sharing(u) /\ op[u].d \in ShDicts
    BY <1>0, Makers, Shape DEF OpOK
  <2> QED BY <1>a, <2>1 DEF Sharing
<1>6. SharedOK'
  BY <1>2, <1>a, <1>b, SharedFrame
<1>7. CASE /\ op'[t] \in {idle, [pc |-> "link", d |-> d, m |-> m, k |-> k, n |-> NULL]}
           /\ UNCHANGED node
  <2>1. /\ op'[t] \in Op /\ op'[t].n = NULL /\ op'[t].pc \in {"idle", "link"}
        /\ op'[t].pc = "link" => op'[t].d = d /\ op'[t].m = m
        /\ op'[t].d \in {d, NULL}
    BY <1>7 DEF Op, idle
  <2>2. TypeOK'
    BY <1>0, <1>2, <1>a, <1>b, <1>7, <2>1 DEF TypeOK
  <2>3. \A u \in Tasks : u # t => OpOK(u)'
    BY <1>2, <1>a, <1>b, <1>5, <1>7, <2>1, OthersOK DEF Alike
  <2>4. OpOK(t)'
    BY <1>2, <1>a, <1>b, <1>4, <2>1 DEF OpOK, Entered, Pinning
  <2>5. /\ \A x \in Dicts : TreeOK(x)'
        /\ \A x \in Modules : ListOK(x)' /\ ModuleOK(x)'
    BY <1>2, <1>a, <1>b, <1>7, ListsFrame DEF Alike
  <2>6. RefsExact'
    <3>1. \A n \in Nodes : placed(n)' <=> placed(n)
      BY <1>2, <1>a, <1>b, <2>1 DEF placed
    <3>2. \A n \in Nodes : One(placed(n)') = One(placed(n)) /\ One(placed(n)) \in Nat
      BY <3>1 DEF One
    <3>3. \A u \in Tasks : op'[u].n = op[u].n
      BY <1>2, <1>a, <1>b, <2>1
    <3>4. \A n \in Nodes : node'[n].ref = node[n].ref + One(placed(n)') - One(placed(n))
      BY <1>0, <1>7, <3>2, NodeShape
    <3> QED BY <1>0, <3>3, <3>4, RefsOther DEF IInv
  <2> QED BY <1>6, <2>2, <2>3, <2>4, <2>5, <2>6 DEF IInv
<1>8. ASSUME NEW n \in tree[d], NEW pc \in {"unlink", "update"},
             node[n].module = owner(d, m), node' = kvcache_node_hold(n),
             op'[t] = [pc |-> pc, d |-> d, m |-> m, k |-> k, n |-> n],
             pc = "unlink" => t \in Deleters
      PROVE  IInv'
  BY <1>2, <1>a, <1>b, <1>4, <1>5, <1>8, Pinned
<1> QED BY <1>3, <1>7, <1>8
\* A node that is in a tree is in no other one.
LEMMA OneTree ==
    ASSUME IInv, NEW d \in Dicts, NEW n \in tree[d]
    PROVE  /\ n \in Nodes /\ node[n] # freed /\ node[n].dict = d
           /\ \A e \in Dicts : n \in tree[e] => e = d
           /\ d \in ShDicts <=> node[n].module = NULL
           /\ \A m \in Modules : node[n].module = m /\ dstate[d] # "unlink" => n \in mlist[m]
           /\ \A m \in Modules : node[n].module = m /\ dstate[d] # "unlink" => n \in Queue(m)
<1>1. n \in Nodes
  BY DEF IInv, TypeOK
<1>2. \A e \in Dicts : n \in tree[e] => node[n] # freed /\ node[n].dict = e
  BY DEF IInv, TreeOK, InTree
<1>3. d \in ShDicts <=> node[n].module = NULL
  BY DEF IInv, TreeOK, InTree
<1>4. ASSUME NEW m \in Modules, node[n].module = m, dstate[d] # "unlink"
      PROVE  n \in mlist[m] /\ n \in Queue(m)
  <2>1. n \in Listed(m)
    BY <1>1, <1>4 DEF Listed
  <2> QED BY <2>1 DEF IInv, ListOK
<1> QED BY <1>1, <1>2, <1>3, <1>4

\* A free node is in no tree, on no list and in no use.
LEMMA FreeNode ==
    ASSUME IInv, NEW n \in Nodes, node[n] = freed
    PROVE  /\ ~placed(n)
           /\ \A d \in Dicts : n \notin tree[d]
           /\ \A m \in Modules : n \notin mlist[m]
           /\ \A t \in Tasks : op[t].n # n
<1>1. node[n].ref = 0
  BY NodeShape DEF IInv
<1>2. node[n].ref = One(placed(n)) + Cardinality(Users(n))
  BY RefsAre DEF IInv
<1>3. Cardinality(Users(n)) \in Nat /\ One(placed(n)) \in Nat
  BY SomeUser DEF One
<1>4. Cardinality(Users(n)) = 0 /\ One(placed(n)) = 0
  BY <1>1, <1>2, <1>3
<1>5. ~placed(n)
  BY <1>4 DEF One
<1>6. \A t \in Tasks : op[t].n # n
  BY <1>4, SomeUser
<1> QED BY <1>5, <1>6 DEF placed

\* What an operation that does not move keeps.
LEMMA OneOK ==
    ASSUME IInv, NEW u \in Tasks, op'[u] = op[u],
           op[u].pc # "idle" => Entered(u)',
           op[u].pc \in Pinning => Alike(op[u].n),
           op[u].pc = "unlink" => op[u].n \in tree'[op[u].d],
           op[u].pc = "drop2" => /\ \A d \in Dicts : op[u].n \notin tree'[d]
                                 /\ \A m \in Modules : op[u].n \notin mlist'[m],
           op[u].pc = "share" => Sharing(u)'
    PROVE  OpOK(u)'
<1>1. OpOK(u)
  BY Makers
<1>2. op[u].pc \in Pinning => Pins(u)'
  BY <1>1 DEF OpOK, Pins, Alike
<1> QED BY <1>1, <1>2 DEF OpOK

\* A filled node enters a tree and the list of its module.
LEMMA StepLink ==
    ASSUME IInv, NEW t \in Tasks, kvcache_module_link(t)
    PROVE  IInv'
<1> USE Names
<1>0. TypeOK /\ op = [u \in Tasks |-> op[u]] /\ OpOK(t) /\ RefsExact
  BY DEF IInv, TypeOK
<1> DEFINE d == op[t].d
           o == op[t].m
           m == owner(d, o)
           prev == find(d, m, op[t].k)
<1>1. /\ op[t].pc = "link" /\ d \in Dicts /\ o \in Modules /\ op[t].k \in Keys
      /\ op[t].n = NULL
      /\ op[t] = [pc |-> "link", d |-> d, m |-> o, k |-> op[t].k, n |-> NULL]
  <2>1. op[t].pc = "link"
    BY DEF kvcache_module_link
  <2> QED BY <1>0, <2>1, Shape DEF Pinning
<1>2. dstate[d] = "live" /\ state[o] # "FREED" /\ (gc.m = o => gc.pc = "sync")
  BY <1>0, <1>1 DEF OpOK, Entered
<1>3. UNCHANGED <<dstate, shdicts, state, gc, wlock>>
  BY DEF kvcache_module_link
<1>4. \A u \in Tasks : u # t /\ op[u].pc = "share" => op[u].d # d /\ op[u].d # NULL
  <2> TAKE u \in Tasks
  <2>1. u # t /\ op[u].pc = "share" => Sharing(u) /\ op[u].d \in ShDicts
    BY <1>0, Makers, Shape DEF OpOK
  <2> QED BY <2>1 DEF Sharing
<1>5. CASE /\ op' = [op EXCEPT ![t] = idle]
           /\ UNCHANGED <<node, tree, count, mlist, mcount>>
  <2>1. kvcache_node_alloc_fails(t)
    BY <1>1, <1>3, <1>5 DEF kvcache_node_alloc_fails
  <2> QED BY <2>1, StepAlloc
<1>6. ASSUME NEW n \in prev, node' = kvcache_node_hold(n),
             op' = [op EXCEPT ![t] = [op[t] EXCEPT !.pc = "update", !.n = n]],
             UNCHANGED <<tree, count, mlist, mcount>>
      PROVE  IInv'
  <2>1. n \in tree[d] /\ node[n].module = owner(d, o)
    BY DEF find
  <2>2. op'[t] = [pc |-> "update", d |-> d, m |-> o, k |-> op[t].k, n |-> n]
    <3>1. op'[t] = [op[t] EXCEPT !.pc = "update", !.n = n]
      BY <1>0, <1>6
    <3> QED BY <1>1, <3>1
  <2>3. op' = [u \in Tasks |-> op'[u]] /\ \A u \in Tasks : u # t => op'[u] = op[u]
    BY <1>0, <1>6
  <2> DEFINE pc == "update"
             k == op[t].k
  <2>4. op'[t] = [pc |-> pc, d |-> d, m |-> o, k |-> k, n |-> n]
    BY <2>2
  <2>5. pc \in {"unlink", "update"} /\ pc # "unlink" /\ k \in Keys /\ op[t].pc # "share"
    BY <1>1
  <2> HIDE DEF d, o, m, prev, pc, k
  <2>6. \A u \in Tasks : u # t /\ op[u].pc = "share" => op[u].d # d
    BY <1>4
  <2>7. UNCHANGED <<tree, count, dstate, mlist, mcount, shdicts, state, gc>>
    BY <1>3, <1>6
  <2>8. node' = kvcache_node_hold(n) /\ op[t].n = NULL /\ d \in Dicts /\ o \in Modules
    BY <1>1, <1>6
  <2> QED BY ONLY IInv, t \in Tasks, <1>2, <2>1, <2>3, <2>4, <2>5, <2>6, <2>7, <2>8, Pinned
<1>7. ASSUME NEW n \in Nodes, node[n] = freed, count[d] < Capacity,
             node' = [node EXCEPT ![n] = [dict |-> d, module |-> m, key |-> op[t].k, ref |-> 1]],
             tree' = [tree EXCEPT ![d] = tree[d] \cup {n}],
             count' = [count EXCEPT ![d] = count[d] + 1],
             mlist' = [x \in Modules |-> mlist[x] \cup (IF x = m THEN {n} ELSE {})],
             mcount' = [x \in Modules |-> mcount[x] + (IF x = m THEN 1 ELSE 0)],
             op' = [op EXCEPT ![t] = idle]
      PROVE  IInv'
  <2>1. /\ ~placed(n)
        /\ \A x \in Dicts : n \notin tree[x]
        /\ \A x \in Modules : n \notin mlist[x]
        /\ \A u \in Tasks : op[u].n # n
    BY <1>7, FreeNode
  <2>2. m \in Modules \cup {NULL} /\ (d \in ShDicts <=> m = NULL) /\ (m \in Modules => m = o)
    BY <1>1 DEF owner
  <2>3. /\ node' \in [Nodes -> Entry \cup {freed}] /\ \A x \in Nodes : x # n => node'[x] = node[x]
        /\ node'[n] # freed /\ node'[n].dict = d /\ node'[n].module = m /\ node'[n].ref = 1
    <3> DEFINE e == [dict |-> d, module |-> m, key |-> op[t].k, ref |-> 1]
    <3>1. e \in Entry /\ e # freed /\ e.dict = d /\ e.module = m /\ e.ref = 1
      BY <1>1, <2>2 DEF Entry, freed
    <3>2. node' = [node EXCEPT ![n] = e] /\ node \in [Nodes -> Entry \cup {freed}]
      BY <1>0, <1>7 DEF TypeOK
    <3> HIDE DEF e
    <3> QED BY <3>1, <3>2
  <2>4. /\ tree'[d] = tree[d] \cup {n} /\ \A x \in Dicts : x # d => tree'[x] = tree[x]
        /\ count'[d] = count[d] + 1 /\ \A x \in Dicts : x # d => count'[x] = count[x]
        /\ tree' \in [Dicts -> SUBSET Nodes] /\ count' \in [Dicts -> Int]
    <3> HIDE DEF d
    <3> QED BY <1>0, <1>1, <1>7 DEF TypeOK
  <2>5. /\ \A x \in Modules : x # m => mlist'[x] = mlist[x] /\ mcount'[x] = mcount[x]
        /\ \A x \in Modules : x = m => mlist'[x] = mlist[x] \cup {n} /\ mcount'[x] = mcount[x] + 1
        /\ mlist' \in [Modules -> SUBSET Nodes] /\ mcount' \in [Modules -> Int]
    <3> HIDE DEF m
    <3> QED BY <1>0, <1>7 DEF TypeOK
  <2>6. op'[t] = idle /\ \A u \in Tasks : u # t => op'[u] = op[u]
    BY <1>0, <1>7
  <2>7. idle.n = NULL /\ idle.d = NULL /\ idle.pc = "idle" /\ idle \in Op
    BY DEF idle, Op
  <2>8. TypeOK'
    <3>1. op' \in [Tasks -> Op]
      BY <1>0, <1>7, <2>7 DEF TypeOK
    <3> QED BY <1>0, <1>3, <2>3, <2>4, <2>5, <3>1 DEF TypeOK
  <2> HIDE DEF d, o, m, prev
  <2>9. ASSUME NEW u \in Tasks PROVE OpOK(u)'
    <3>1. CASE u = t
      BY <2>6, <2>7, <3>1 DEF OpOK, Pinning
    <3>2. CASE u # t
      <4>1. OpOK(u) /\ op'[u] = op[u]
        BY <2>6, <3>2, Makers
      <4>2. op[u].pc # "idle" => Entered(u)'
        BY <1>3, <4>1 DEF OpOK, Entered
      <4>3. op[u].pc \in Pinning => Alike(op[u].n)
        BY <1>0, <2>1, <2>3, Shape DEF Alike
      <4>4. op[u].pc = "unlink" => op[u].n \in tree'[op[u].d]
        BY <1>0, <2>4, <4>1, Shape DEF OpOK
      <4>5. op[u].pc = "drop2" => /\ \A x \in Dicts : op[u].n \notin tree'[x]
                                  /\ \A x \in Modules : op[u].n \notin mlist'[x]
        BY <2>1, <2>4, <2>5, <4>1 DEF OpOK
      <4>6. op[u].pc = "share" => Sharing(u)'
        <5>1. op[u].pc = "share" => op[u].d # d /\ op[u].d # NULL /\ op[u].d \in Dicts
          BY <1>0, <1>4, <3>2, Shape
        <5>2. op[u].pc = "share" => Sharing(u)
          BY <4>1 DEF OpOK
        <5> QED BY <1>3, <2>4, <2>6, <2>7, <4>1, <5>1, <5>2 DEF Sharing
      <4> QED BY <4>1, <4>2, <4>3, <4>4, <4>5, <4>6, OneOK
    <3> QED BY <3>1, <3>2
  <2>10. ASSUME NEW x \in Dicts PROVE TreeOK(x)'
    <3>1. TreeOK(x) /\ tree[x] \subseteq Nodes /\ count[x] \in Int
      BY <1>0 DEF IInv, TypeOK
    <3>2. \A y \in tree[x] : InTree(x, y)'
      BY <2>1, <2>3, <3>1 DEF TreeOK, InTree
    <3>3. CASE x # d
      BY <1>3, <2>4, <3>1, <3>2, <3>3 DEF TreeOK
    <3>4. CASE x = d
      <4>0. tree'[x] = tree[x] \cup {n} /\ count'[x] = count[x] + 1 /\ n \notin tree[x]
        BY <2>1, <2>4, <3>4
      <4>1. InTree(x, n)'
        BY <2>2, <2>3, <3>4 DEF InTree
      <4>2. IsFiniteSet(tree'[x]) /\ Cardinality(tree'[x]) = Cardinality(tree[x]) + 1
        <5>1. PICK T : T = tree[x]
          OBVIOUS
        <5>2. IsFiniteSet(T)
          BY <3>1, <5>1 DEF TreeOK
        <5>3. n \notin T /\ tree'[x] = T \cup {n}
          BY <4>0, <5>1
        <5>4. IsFiniteSet(T \cup {n}) /\ Cardinality(T \cup {n}) = Cardinality(T) + 1
          BY ONLY <5>2, <5>3, FS_AddElement
        <5> QED BY ONLY <5>1, <5>3, <5>4
      <4>3. count'[x] = Cardinality(tree'[x]) /\ count'[x] <= Capacity
        BY <1>7, <3>1, <3>4, <4>0, <4>2, KvAssumption DEF TreeOK
      <4>4. dstate'[x] # "freed"
        BY <1>2, <1>3, <3>4
      <4> QED BY <3>2, <4>0, <4>1, <4>2, <4>3, <4>4 DEF TreeOK
    <3> QED BY <3>3, <3>4
  <2>11. ASSUME NEW x \in Modules PROVE ListOK(x)'
    <3>1. ListOK(x) /\ mlist[x] \subseteq Nodes /\ mcount[x] \in Int
      BY <1>0 DEF IInv, TypeOK
    <3>2. \A y \in Nodes : y # n => /\ node'[y].module = node[y].module
                                    /\ \A e \in Dicts : y \in tree'[e] <=> y \in tree[e]
      BY <2>3, <2>4
    <3>3. \A e \in Dicts : n \in tree'[e] <=> e = d
      BY <1>1, <2>1, <2>4
    <3>4. CASE x # m
      <4>1. mlist'[x] = mlist[x] /\ mcount'[x] = mcount[x] /\ Queue(x)' = Queue(x)
        BY <1>3, <2>5, <3>4 DEF Queue
      <4>2. \A y \in Nodes : y \in Listed(x)' <=> y \in Listed(x)
        <5> TAKE y \in Nodes
        <5>1. CASE y = n
          BY <2>1, <2>3, <3>4, <5>1 DEF Listed
        <5>2. CASE y # n
          BY <1>3, <3>2, <5>2 DEF Listed
        <5> QED BY <5>1, <5>2
      <4>3. Listed(x)' = Listed(x)
        BY <4>2 DEF Listed
      <4> QED BY <2>1, <3>1, <3>2, <4>1, <4>3 DEF ListOK
    <3>5. CASE x = m
      <4>1. x = o /\ mlist'[x] = mlist[x] \cup {n} /\ mcount'[x] = mcount[x] + 1
        BY <2>2, <2>5, <3>5
      <4>2. Queue(x) = mlist[x] /\ Queue(x)' = mlist'[x]
        BY <1>2, <1>3, <4>1 DEF Queue
      <4>3. \A y \in Nodes : y \in Listed(x)' <=> y \in Listed(x) \/ y = n
        <5> TAKE y \in Nodes
        <5>1. CASE y = n
          BY <1>1, <1>2, <1>3, <2>3, <3>3, <3>5, <5>1 DEF Listed
        <5>2. CASE y # n
          BY <1>3, <3>2, <5>2 DEF Listed
        <5> QED BY <5>1, <5>2
      <4>4. Listed(x)' = Listed(x) \cup {n}
        BY <4>3 DEF Listed
      <4>5. Queue(x)' = Listed(x)'
        BY <3>1, <4>1, <4>2, <4>4 DEF ListOK
      <4>6. IsFiniteSet(mlist'[x]) /\ Cardinality(mlist'[x]) = Cardinality(mlist[x]) + 1
        BY <2>1, <3>1, <4>1, FS_AddElement DEF ListOK
      <4>7. \A y \in mlist'[x] : node'[y].module = x
        BY <2>3, <3>1, <3>2, <3>5, <4>1 DEF ListOK
      <4> QED BY <3>1, <4>1, <4>2, <4>5, <4>6, <4>7 DEF ListOK
    <3> QED BY <3>4, <3>5
  <2>12. ASSUME NEW x \in Modules PROVE ModuleOK(x)'
    <3>1. ModuleOK(x)
      BY DEF IInv
    <3>2. state[x] = "FREED" => mlist'[x] = mlist[x]
      BY <1>2, <2>2, <2>5
    <3> QED BY <1>3, <3>1, <3>2 DEF ModuleOK
  <2>13. SharedOK'
    BY <1>1, <1>3, <2>6, SharedFrame
  <2>14. RefsExact'
    <3>1. \A x \in Nodes : x # n => (placed(x)' <=> placed(x))
      <4> TAKE x \in Nodes
      <4>1. \A u \in Tasks : op'[u].n = op[u].n /\ (op'[u].pc = "drop2" <=> op[u].pc = "drop2")
        BY <1>1, <2>6, <2>7
      <4>2. x # n => \A e \in Dicts : x \in tree'[e] <=> x \in tree[e]
        BY <2>4
      <4>3. x # n => \A e \in Modules : x \in mlist'[e] <=> x \in mlist[e]
        BY <2>5
      <4> QED BY <4>1, <4>2, <4>3 DEF placed
    <3>2. placed(n)'
      BY <1>1, <2>4 DEF placed
    <3>3. \A x \in Nodes : node'[x].ref = node[x].ref + One(placed(x)') - One(placed(x))
      <4> TAKE x \in Nodes
      <4>1. CASE x = n
        <5>1. node[x].ref = 0
          BY <1>0, <1>7, <4>1, NodeShape
        <5> QED BY <2>1, <2>3, <3>2, <4>1, <5>1 DEF One
      <4>2. CASE x # n
        <5>1. node'[x] = node[x] /\ node[x].ref \in Nat
          BY <1>0, <2>3, <4>2, NodeShape
        <5> QED BY <3>1, <4>2, <5>1 DEF One
      <4> QED BY <4>1, <4>2
    <3>4. \A u \in Tasks : op'[u].n = op[u].n
      BY <1>1, <2>6, <2>7
    <3> QED BY <1>0, <3>3, <3>4, RefsOther
  <2> QED BY <2>8, <2>9, <2>10, <2>11, <2>12, <2>13, <2>14 DEF IInv
<1>8. \/ /\ op' = [op EXCEPT ![t] = idle]
         /\ UNCHANGED <<node, tree, count, mlist, mcount>>
      \/ \E n \in prev :
           /\ node' = kvcache_node_hold(n)
           /\ op' = [op EXCEPT ![t] = [op[t] EXCEPT !.pc = "update", !.n = n]]
           /\ UNCHANGED <<tree, count, mlist, mcount>>
      \/ \E n \in Nodes :
           /\ node[n] = freed /\ count[d] < Capacity
           /\ node' = [node EXCEPT ![n] = [dict |-> d, module |-> m, key |-> op[t].k, ref |-> 1]]
           /\ tree' = [tree EXCEPT ![d] = tree[d] \cup {n}]
           /\ count' = [count EXCEPT ![d] = count[d] + 1]
           /\ mlist' = [x \in Modules |-> mlist[x] \cup (IF x = m THEN {n} ELSE {})]
           /\ mcount' = [x \in Modules |-> mcount[x] + (IF x = m THEN 1 ELSE 0)]
           /\ op' = [op EXCEPT ![t] = idle]
  BY DEF kvcache_module_link
<1> QED BY <1>5, <1>6, <1>7, <1>8
-----------------------------------------------------------------------------
(* Nodes that leave trees and lists.                                       *)

\* The lists after list_del().
LEMMA ListDel ==
    ASSUME IInv, NEW S \in SUBSET Nodes, list_del(S),
           \A m \in Modules : \A n \in S : node[n].module = m <=> n \in mlist[m]
    PROVE  /\ mlist' \in [Modules -> SUBSET Nodes] /\ mcount' \in [Modules -> Int]
           /\ \A m \in Modules : /\ mlist'[m] = mlist[m] \ S
                                 /\ IsFiniteSet(mlist'[m]) /\ mcount'[m] = Cardinality(mlist'[m])
<1>1. ASSUME NEW m \in Modules
      PROVE  /\ mlist'[m] = mlist[m] \ S /\ IsFiniteSet(mlist'[m])
             /\ mcount'[m] = Cardinality(mlist'[m]) /\ mcount'[m] \in Int
             /\ mlist'[m] \in SUBSET Nodes
  <2>1. IsFiniteSet(mlist[m]) /\ mcount[m] = Cardinality(mlist[m]) /\ mlist[m] \subseteq Nodes
    BY DEF IInv, ListOK, TypeOK
  <2>2. {n \in S : node[n].module = m} = mlist[m] \cap S
    OBVIOUS
  <2>3. mlist'[m] = mlist[m] \ S
    BY DEF list_del
  <2>4. mcount'[m] = mcount[m] - Cardinality(mlist[m] \cap S)
    BY <2>2 DEF list_del
  <2>5. /\ IsFiniteSet(mlist[m] \ S)
        /\ Cardinality(mlist[m] \ S) = Cardinality(mlist[m]) - Cardinality(mlist[m] \cap S)
    BY <2>1, FS_Difference
  <2>6. Cardinality(mlist[m]) \in Nat /\ Cardinality(mlist[m] \ S) \in Nat
    BY <2>1, <2>5, FS_CardinalityType
  <2> QED BY <2>1, <2>3, <2>4, <2>5, <2>6
<1>2. mlist' = [m \in Modules |-> mlist'[m]] /\ mcount' = [m \in Modules |-> mcount'[m]]
  BY DEF list_del
<1> QED BY <1>1, <1>2

\* The trees after one node left its own.
LEMMA TreeDel ==
    ASSUME IInv, NEW d \in Dicts, NEW n \in tree[d],
           tree' = [tree EXCEPT ![d] = tree[d] \ {n}],
           count' = [count EXCEPT ![d] = count[d] - 1],
           UNCHANGED dstate, \A x \in Nodes : x # n => Alike(x)
    PROVE  /\ tree' \in [Dicts -> SUBSET Nodes] /\ count' \in [Dicts -> Int]
           /\ \A x \in Nodes, e \in Dicts : x \in tree'[e] <=> x \in tree[e] /\ x # n
           /\ \A e \in Dicts : TreeOK(e)'
<1>0. tree \in [Dicts -> SUBSET Nodes] /\ count \in [Dicts -> Int]
  BY DEF IInv, TypeOK
<1>1. /\ tree' \in [Dicts -> SUBSET Nodes] /\ count' \in [Dicts -> Int]
      /\ tree'[d] = tree[d] \ {n} /\ \A e \in Dicts : e # d => tree'[e] = tree[e]
      /\ count'[d] = count[d] - 1 /\ \A e \in Dicts : e # d => count'[e] = count[e]
  BY <1>0
<1>2. \A x \in Nodes, e \in Dicts : x \in tree'[e] <=> x \in tree[e] /\ x # n
  BY <1>1, OneTree
<1>3. ASSUME NEW e \in Dicts PROVE TreeOK(e)'
  <2>1. TreeOK(e) /\ tree[e] \subseteq Nodes /\ tree'[e] \subseteq Nodes /\ count[e] \in Int
    BY <1>0, <1>1 DEF IInv
  <2>2. \A x \in tree'[e] : InTree(e, x)'
    BY <1>2, <2>1 DEF TreeOK, InTree, Alike
  <2>3. CASE e # d
    BY <1>1, <2>1, <2>2, <2>3 DEF TreeOK
  <2>4. CASE e = d
    <3>1. IsFiniteSet(tree'[e]) /\ Cardinality(tree'[e]) = Cardinality(tree[e]) - 1
      BY <1>1, <2>1, <2>4, FS_RemoveElement DEF TreeOK
    <3>2. count'[e] = Cardinality(tree'[e]) /\ count'[e] <= Capacity
      BY <1>1, <2>1, <2>4, <3>1, KvAssumption DEF TreeOK
    <3>3. dstate'[e] # "freed"
      BY <2>1, <2>4 DEF TreeOK
    <3> QED BY <2>2, <3>1, <3>2, <3>3 DEF TreeOK
  <2> QED BY <2>3, <2>4
<1> QED BY <1>1, <1>2, <1>3

\* A task that is in the cache on behalf of a module is seen by the collector.
LEMMA NotCollected ==
    ASSUME IInv, NEW t \in Tasks, op[t].pc # "idle"
    PROVE  /\ op[t].d \in Dicts /\ op[t].m \in Modules
           /\ dstate[op[t].d] = "live"
           /\ gc.m = op[t].m => gc.pc = "sync"
           /\ op[t].pc \in Pinning => /\ op[t].n \in Nodes /\ node[op[t].n] # freed
                                      /\ node[op[t].n].module = owner(op[t].d, op[t].m)
                                      /\ node[op[t].n].dict = op[t].d
BY Makers, Shape DEF IInv, OpOK, Entered, Pins

\* An entry set to nil leaves the tree and the list; its place is the task's.
LEMMA StepUnlink ==
    ASSUME OneDeleter, IInv, NEW t \in Tasks, kvcache_module_unlink(t)
    PROVE  IInv'
<1> USE Names
<1>0. TypeOK /\ op = [u \in Tasks |-> op[u]] /\ OpOK(t) /\ RefsExact
  BY DEF IInv, TypeOK
<1>1. op[t].pc = "unlink"
  BY DEF kvcache_module_unlink
<1>2. PICK d, n : d = op[t].d /\ n = op[t].n
  OBVIOUS
<1>3. /\ d \in Dicts /\ n \in Nodes /\ n \in tree[d] /\ op[t].m \in Modules /\ op[t].k \in Keys
      /\ t \in Deleters /\ dstate[d] = "live" /\ (gc.m = op[t].m => gc.pc = "sync")
      /\ node[n].module = owner(d, op[t].m) /\ node[n] # freed /\ node[n].dict = d
      /\ op[t] = [pc |-> "unlink", d |-> d, m |-> op[t].m, k |-> op[t].k, n |-> n]
  BY <1>0, <1>1, <1>2, Shape, NotCollected DEF OpOK, Pinning
<1>4. /\ UNCHANGED <<node, dstate, shdicts, state, gc>>
      /\ tree' = [tree EXCEPT ![d] = tree[d] \ {n}]
      /\ count' = [count EXCEPT ![d] = count[d] - 1]
      /\ list_del({n}) /\ op' = [op EXCEPT ![t].pc = "drop2"]
  BY <1>2 DEF kvcache_module_unlink
<1>5. /\ op'[t] = [pc |-> "drop2", d |-> d, m |-> op[t].m, k |-> op[t].k, n |-> n]
      /\ \A u \in Tasks : u # t => op'[u] = op[u]
      /\ op' = [u \in Tasks |-> op'[u]]
  <2>1. op'[t] = [op[t] EXCEPT !.pc = "drop2"]
    BY <1>0, <1>4
  <2> QED BY <1>0, <1>3, <1>4, <2>1
<1>6. op'[t] \in Op /\ op'[t].pc = "drop2" /\ op'[t].d = d /\ op'[t].n = n /\ op'[t].m = op[t].m
  BY <1>3, <1>5 DEF Op, Pinning
<1>7. \A x \in Nodes : Alike(x)
  BY <1>4 DEF Alike
<1>8. /\ tree' \in [Dicts -> SUBSET Nodes] /\ count' \in [Dicts -> Int]
      /\ \A x \in Nodes, e \in Dicts : x \in tree'[e] <=> x \in tree[e] /\ x # n
      /\ \A e \in Dicts : TreeOK(e)'
  BY <1>3, <1>4, <1>7, TreeDel
<1>9. \A m \in Modules : node[n].module = m <=> n \in mlist[m]
  BY <1>3, OneTree DEF IInv, ListOK
<1>10. /\ mlist' \in [Modules -> SUBSET Nodes] /\ mcount' \in [Modules -> Int]
       /\ \A m \in Modules : /\ mlist'[m] = mlist[m] \ {n}
                             /\ IsFiniteSet(mlist'[m]) /\ mcount'[m] = Cardinality(mlist'[m])
  <2>1. {n} \in SUBSET Nodes /\ \A m \in Modules : \A x \in {n} : node[x].module = m <=> x \in mlist[m]
    BY <1>3, <1>9
  <2> DEFINE S == {n}
  <2>2. S \in SUBSET Nodes /\ list_del(S)
        /\ \A m \in Modules : \A x \in S : node[x].module = m <=> x \in mlist[m]
    BY <1>4, <2>1
  <2>3. S = {n}
    OBVIOUS
  <2> HIDE DEF S
  <2> QED BY <2>2, <2>3, ListDel
<1>11. TypeOK'
  BY <1>0, <1>4, <1>5, <1>6, <1>8, <1>10 DEF TypeOK
<1>12. ASSUME NEW u \in Tasks PROVE OpOK(u)'
  <2>1. CASE u = t
    <3>1. Entered(t)'
      BY <1>0, <1>1, <1>3, <1>4, <1>6 DEF OpOK, Entered
    <3>2. Pins(t)'
      BY <1>3, <1>4, <1>6 DEF Pins
    <3>3. /\ \A e \in Dicts : n \notin tree'[e]
          /\ \A m \in Modules : n \notin mlist'[m]
      BY <1>3, <1>8, <1>10
    <3> QED BY <1>3, <1>6, <2>1, <3>1, <3>2, <3>3 DEF OpOK
  <2>2. CASE u # t
    <3>1. OpOK(u) /\ op'[u] = op[u]
      BY <1>5, <2>2, Makers
    <3>2. op[u].pc # "idle" => Entered(u)'
      BY <1>4, <3>1 DEF OpOK, Entered
    <3>3. op[u].pc \in Pinning => Alike(op[u].n)
      BY <1>0, <1>7, Shape
    <3>4. op[u].pc # "unlink" /\ op[u].pc # "drop2"
      BY <1>3, <2>2, <3>1 DEF OpOK, OneDeleter
    <3>5. op[u].pc = "share" => Sharing(u)'
      <4>1. op[u].pc = "share" => op[u].d \in Dicts /\ Sharing(u)
        BY <1>0, <3>1, Shape DEF OpOK
      <4>2. \A x \in Tasks : op'[x].d = op[x].d
        BY <1>2, <1>5, <1>6
      <4> QED BY <1>3, <1>4, <3>1, <4>1, <4>2 DEF Sharing
    <3> QED BY <3>1, <3>2, <3>3, <3>4, <3>5, OneOK
  <2> QED BY <2>1, <2>2
<1>13. ASSUME NEW x \in Modules PROVE ListOK(x)'
  <2>1. ListOK(x) /\ mlist[x] \subseteq Nodes
    BY <1>0 DEF IInv, TypeOK
  <2>2. Listed(x)' = Listed(x) \ {n}
    BY <1>4, <1>8 DEF Listed
  <2>3. Queue(x)' = Queue(x) \ {n}
    <3>1. CASE gc.m = x /\ gc.pc \in {"unlink", "drop"}
      <4>1. node[n].module # x
        BY <1>3, <3>1 DEF owner
      <4>2. n \notin Queue(x)
        BY <1>9, <2>1, <4>1 DEF ListOK
      <4> QED BY <1>4, <3>1, <4>2 DEF Queue
    <3>2. CASE ~(gc.m = x /\ gc.pc \in {"unlink", "drop"})
      BY <1>4, <1>10, <3>2 DEF Queue
    <3> QED BY <3>1, <3>2
  <2> QED BY <1>4, <1>8, <1>10, <2>1, <2>2, <2>3 DEF ListOK
<1>14. ASSUME NEW x \in Modules PROVE ModuleOK(x)'
  <2>1. ModuleOK(x)
    BY DEF IInv
  <2> QED BY <1>4, <1>10, <2>1 DEF ModuleOK
<1>15. SharedOK'
  BY <1>1, <1>4, <1>5, SharedFrame
<1>16. RefsExact'
  <2>1. \A x \in Nodes : placed(x)' <=> placed(x)
    <3> TAKE x \in Nodes
    <3>1. CASE x = n
      BY <1>3, <1>6, <3>1 DEF placed
    <3>2. CASE x # n
      <4>1. \A u \in Tasks : op'[u].n = x => op'[u] = op[u]
        BY <1>5, <1>6, <3>2
      <4>2. \A u \in Tasks : op[u].n = x => op'[u] = op[u]
        BY <1>2, <1>5, <1>6, <3>2
      <4> QED BY <1>8, <1>10, <3>2, <4>1, <4>2 DEF placed
    <3> QED BY <3>1, <3>2
  <2>2. \A x \in Nodes : One(placed(x)') = One(placed(x)) /\ One(placed(x)) \in Nat
    BY <2>1 DEF One
  <2>3. \A u \in Tasks : op'[u].n = op[u].n
    BY <1>2, <1>5, <1>6
  <2>4. \A x \in Nodes : node'[x].ref = node[x].ref + One(placed(x)') - One(placed(x))
    BY <1>0, <1>4, <2>2, NodeShape
  <2> QED BY <1>0, <2>3, <2>4, RefsOther
<1> QED BY <1>8, <1>11, <1>12, <1>13, <1>14, <1>15, <1>16 DEF IInv
\* The last user of a node that is nowhere else.
LEMMA LastUser ==
    ASSUME IInv, NEW t \in Tasks, NEW n \in Nodes, op[t].n = n
    PROVE  /\ node[n].ref # 0
           /\ placed(n) => node[n].ref # 1
           /\ node[n].ref = 1 => \A u \in Tasks : op[u].n = n => u = t
<1>1. node[n].ref = One(placed(n)) + Cardinality(Users(n))
  BY RefsAre DEF IInv
<1>2. IsFiniteSet(Users(n)) /\ Cardinality(Users(n)) \in Nat /\ Cardinality(Users(n)) # 0
  <2>1. IsFiniteSet(Users(n))
    BY KvAssumption, FS_Subset DEF Users
  <2> QED BY <2>1, SomeUser
<1>3. Cardinality(Users(n)) = 1 => \A u \in Tasks : op[u].n = n => u = t
  <2> SUFFICES ASSUME Cardinality(Users(n)) = 1, NEW u \in Tasks, op[u].n = n PROVE u = t
    OBVIOUS
  <2>1. PICK x : Users(n) = {x}
    BY <1>2, FS_Singleton
  <2> QED BY <2>1 DEF Users
<1>4. One(placed(n)) \in Nat /\ (placed(n) => One(placed(n)) = 1)
  BY DEF One
<1>5. node[n].ref # 0 /\ (placed(n) => node[n].ref # 1)
  BY <1>1, <1>2, <1>4
<1>6. node[n].ref = 1 => Cardinality(Users(n)) = 1
  BY <1>1, <1>2, <1>4
<1> QED BY <1>3, <1>5, <1>6

\* A task drops a reference: the one of the place, or its own.
LEMMA StepDrop ==
    ASSUME OneDeleter, IInv, NEW t \in Tasks, drop(t)
    PROVE  IInv'
<1> USE Names
<1>0. TypeOK /\ op = [u \in Tasks |-> op[u]] /\ OpOK(t) /\ RefsExact
  BY DEF IInv, TypeOK
<1>1. op[t].pc \in {"drop2", "drop"}
  BY DEF drop
<1>2. PICK n : n = op[t].n
  OBVIOUS
<1>3. /\ n \in Nodes /\ op[t].d \in Dicts /\ op[t].m \in Modules /\ op[t].k \in Keys
      /\ node[n] # freed /\ node[n].module = owner(op[t].d, op[t].m) /\ node[n].dict = op[t].d
  BY <1>0, <1>1, <1>2, Shape, NotCollected DEF Pinning
<1>4. /\ UNCHANGED <<tree, count, dstate, mlist, mcount, shdicts, state, gc>>
      /\ node' = kvcache_node_drop(n)
      /\ op' = [op EXCEPT ![t] = IF op[t].pc = "drop2" THEN [op[t] EXCEPT !.pc = "drop"] ELSE idle]
  BY <1>2 DEF drop
<1>5. /\ op'[t] = IF op[t].pc = "drop2" THEN [op[t] EXCEPT !.pc = "drop"] ELSE idle
      /\ \A u \in Tasks : u # t => op'[u] = op[u]
      /\ op' = [u \in Tasks |-> op'[u]]
  BY <1>0, <1>4
<1>6. /\ node' \in [Nodes -> Entry \cup {freed}]
      /\ \A x \in Nodes : x # n => node'[x] = node[x]
      /\ node'[n].ref = node[n].ref - 1
      /\ node[n].ref = 1 => node'[n] = freed
      /\ node[n].ref # 1 =>
           /\ node'[n] # freed /\ node'[n].dict = node[n].dict
           /\ node'[n].module = node[n].module /\ node'[n].key = node[n].key
  BY <1>0, <1>3, <1>4, Dropped
<1>7. /\ op'[t] \in Op /\ op'[t].pc \in {"idle", "drop"}
      /\ op'[t].d \in {op[t].d, NULL}
      /\ op'[t].pc = "drop" => /\ op[t].pc = "drop2" /\ op'[t].n = n
                               /\ op'[t].d = op[t].d /\ op'[t].m = op[t].m
      /\ op'[t].pc = "idle" => op[t].pc = "drop" /\ op'[t].n = NULL
  <2>1. CASE op[t].pc = "drop2"
    <3>1. op[t] = [pc |-> op[t].pc, d |-> op[t].d, m |-> op[t].m, k |-> op[t].k, n |-> op[t].n]
      BY <1>0, Shape
    <3>2. op'[t] = [pc |-> "drop", d |-> op[t].d, m |-> op[t].m, k |-> op[t].k, n |-> n]
      BY <1>2, <1>5, <2>1, <3>1
    <3> QED BY <1>3, <2>1, <3>2 DEF Op, Pinning
  <2>2. CASE op[t].pc = "drop"
    BY <1>5, <2>2 DEF Op, idle
  <2> QED BY <1>1, <2>1, <2>2
<1>8. TypeOK'
  BY <1>0, <1>4, <1>5, <1>6, <1>7 DEF TypeOK
<1>9. placed(n) => node[n].ref # 1
  BY <1>2, <1>3, LastUser
<1>10. op[t].pc = "drop2" => placed(n)
  BY <1>2 DEF placed
<1>11. \A x \in Nodes : Alike(x) \/ /\ \A d \in Dicts : x \notin tree[d]
                                    /\ \A m \in Modules : x \notin mlist[m]
  BY <1>6, <1>9 DEF Alike, placed
<1>12. /\ \A x \in Dicts : TreeOK(x)'
       /\ \A x \in Modules : ListOK(x)' /\ ModuleOK(x)'
  BY <1>4, <1>11, ListsFrame
<1>13. ASSUME NEW u \in Tasks, u # t PROVE OpOK(u)'
  <2>1. \A x \in Tasks : x # t /\ op[x].pc \in Pinning => Alike(op[x].n)
    <3> SUFFICES ASSUME NEW x \in Tasks, x # t, op[x].pc \in Pinning PROVE Alike(op[x].n)
      OBVIOUS
    <3>1. op[x].n \in Nodes /\ (op[x].n = n => node[n].ref # 1)
      BY <1>0, <1>2, <1>3, Shape, LastUser
    <3> QED BY <1>6, <3>1 DEF Alike
  <2>2. \A x \in Tasks : x # t /\ op[x].pc = "share" => op'[t].d # op[x].d
    <3> SUFFICES ASSUME NEW x \in Tasks, x # t, op[x].pc = "share" PROVE op'[t].d # op[x].d
      OBVIOUS
    <3>1. op[x].d # op[t].d /\ op[x].d # NULL
      BY <1>0, Makers, Shape
    <3> QED BY <1>7, <3>1
  <2> QED BY <1>4, <1>5, <1>13, <2>1, <2>2, OthersOK
<1>14. OpOK(t)'
  <2>1. CASE op'[t].pc = "idle"
    BY <2>1 DEF OpOK, Pinning
  <2>2. CASE op'[t].pc = "drop"
    <3>1. Entered(t)'
      BY <1>0, <1>4, <1>7, <2>2 DEF OpOK, Entered
    <3>2. Pins(t)'
      BY <1>3, <1>6, <1>7, <1>9, <1>10, <2>2 DEF Pins
    <3> QED BY <2>2, <3>1, <3>2 DEF OpOK
  <2> QED BY <1>7, <2>1, <2>2
<1>15. SharedOK'
  BY <1>1, <1>4, <1>5, SharedFrame
<1>16. RefsExact'
  <2>1. \A x \in Nodes : x # n => (placed(x)' <=> placed(x))
    <3>1. \A x \in Nodes : x # n => \A u \in Tasks : op'[u].n = x => u # t
      BY <1>7
    <3>2. \A x \in Nodes : x # n => \A u \in Tasks : op[u].n = x => u # t
      BY <1>2
    <3> QED BY <1>4, <1>5, <3>1, <3>2 DEF placed
  <2>2. CASE op[t].pc = "drop2"
    <3>1. ~placed(n)'
      <4>1. \A u \in Tasks : op'[u].pc = "drop2" => u = t
        BY <1>0, <1>5, <2>2, Makers DEF OpOK, OneDeleter
      <4>2. op'[t].pc = "drop"
        BY <1>7, <2>2
      <4>3. /\ \A e \in Dicts : n \notin tree[e]
            /\ \A m \in Modules : n \notin mlist[m]
        BY <1>0, <1>2, <2>2 DEF OpOK
      <4> QED BY <1>4, <4>1, <4>2, <4>3 DEF placed
    <3>2. \A u \in Tasks : op'[u].n = op[u].n
      BY <1>2, <1>5, <1>7, <2>2
    <3>3. \A x \in Nodes : node'[x].ref = node[x].ref + One(placed(x)') - One(placed(x))
      <4> TAKE x \in Nodes
      <4>1. CASE x = n
        <5>1. One(placed(x)') = 0 /\ One(placed(x)) = 1
          BY <1>10, <2>2, <3>1, <4>1 DEF One
        <5> QED BY <1>0, <1>6, <4>1, <5>1, NodeShape
      <4>2. CASE x # n
        <5>1. One(placed(x)') = One(placed(x)) /\ One(placed(x)) \in Nat
          BY <2>1, <4>2 DEF One
        <5> QED BY <1>0, <1>6, <4>2, <5>1, NodeShape
      <4> QED BY <4>1, <4>2
    <3> QED BY <1>0, <3>2, <3>3, RefsOther
  <2>3. CASE op[t].pc = "drop"
    <3>1. op'[t].pc = "idle" /\ op'[t].n = NULL
      BY <1>7, <2>3
    <3>2. placed(n)' <=> placed(n)
      BY <1>4, <1>5, <2>3, <3>1 DEF placed
    <3>3. \A x \in Nodes : One(placed(x)') = One(placed(x)) /\ One(placed(x)) \in Nat
      BY <2>1, <3>2 DEF One
    <3>4. \A x \in Nodes : One(op'[t].n = x) = 0 /\ One(op[t].n = x) = (IF x = n THEN 1 ELSE 0)
      BY <1>2, <3>1 DEF One
    <3>5. \A x \in Nodes : node'[x].ref = node[x].ref + One(placed(x)') - One(placed(x))
                                          + One(op'[t].n = x) - One(op[t].n = x)
      BY <1>0, <1>6, <3>3, <3>4, NodeShape
    <3>6. \A u \in Tasks : u # t => op'[u].n = op[u].n
      BY <1>5
    <3> QED BY <1>0, <3>5, <3>6, RefsOp
  <2> QED BY <1>1, <2>2, <2>3
<1> QED BY <1>8, <1>12, <1>13, <1>14, <1>15, <1>16 DEF IInv
-----------------------------------------------------------------------------
(* The life of dictionaries.                                               *)

\* A dictionary whose tree is empty starts or ends.
LEMMA Remade ==
    ASSUME IInv, NEW d \in Dicts, NEW c \in {"freed", "live"}, tree[d] = {},
           dstate' = [dstate EXCEPT ![d] = c],
           UNCHANGED <<node, tree, mlist, mcount, state, gc>>,
           count' \in [Dicts -> Int], count'[d] = 0 \/ count'[d] = count[d],
           \A e \in Dicts : e # d => count'[e] = count[e]
    PROVE  /\ dstate' \in [Dicts -> {"freed", "live", "detach", "unlink"}]
           /\ dstate'[d] = c /\ \A e \in Dicts : e # d => dstate'[e] = dstate[e]
           /\ \A e \in Dicts : TreeOK(e)'
           /\ \A m \in Modules : ListOK(m)'
<1>1. /\ dstate' \in [Dicts -> {"freed", "live", "detach", "unlink"}]
      /\ dstate'[d] = c /\ \A e \in Dicts : e # d => dstate'[e] = dstate[e]
  BY DEF IInv, TypeOK
<1>2. ASSUME NEW e \in Dicts PROVE TreeOK(e)'
  <2>1. TreeOK(e)
    BY DEF IInv
  <2>2. \A x \in tree'[e] : InTree(e, x)'
    BY <2>1 DEF TreeOK, InTree
  <2>3. CASE e # d
    BY <1>1, <2>1, <2>2, <2>3 DEF TreeOK
  <2>4. CASE e = d
    <3>1. Cardinality(tree[e]) = 0
      BY <2>4, FS_EmptySet
    <3>2. count'[e] = 0
      BY <2>1, <2>4, <3>1 DEF TreeOK
    <3> QED BY <2>1, <2>2, <2>4, <3>1, <3>2, KvAssumption DEF TreeOK
  <2> QED BY <2>3, <2>4
<1>3. ASSUME NEW m \in Modules PROVE ListOK(m)'
  <2>1. ListOK(m)
    BY DEF IInv
  <2>2. Queue(m)' = Queue(m)
    BY DEF Queue
  <2>3. Listed(m)' = Listed(m)
    <3>1. \A n \in Nodes, e \in Dicts : n \in tree[e] => dstate'[e] = dstate[e]
      BY <1>1
    <3> QED BY <3>1 DEF Listed
  <2> QED BY <2>1, <2>2, <2>3 DEF ListOK
<1> QED BY <1>1, <1>2, <1>3

\* Nobody has a dictionary that is not live.
LEMMA NobodyThere ==
    ASSUME IInv, NEW d \in Dicts, dstate[d] # "live"
    PROVE  /\ \A u \in Tasks : op[u].d # d
           /\ \A m \in Modules : d \notin shdicts[m]
<1>1. \A u \in Tasks : op[u].d # d
  <2> TAKE u \in Tasks
  <2>1. op[u].pc = "idle" => op[u].d = NULL
    BY Shape DEF IInv
  <2> QED BY <2>1, Names, NotCollected
<1> QED BY <1>1 DEF IInv, ModuleOK

\* The dictionary of an object starts.
LEMMA StepInit ==
    ASSUME IInv, NEW d \in ObjDicts, kvcache_dict_init(d)
    PROVE  IInv'
<1> USE Names
<1>0. TypeOK /\ d \in Dicts
  BY DEF IInv
<1>1. /\ dstate[d] = "freed" /\ dstate' = [dstate EXCEPT ![d] = "live"]
      /\ count' = [count EXCEPT ![d] = 0]
      /\ UNCHANGED <<node, tree, mlist, mcount, shdicts, state, op, gc>>
  BY DEF kvcache_dict_init
<1>2. tree[d] = {} /\ \A u \in Tasks : op[u].d # d
  BY <1>0, <1>1, NobodyThere DEF IInv, TreeOK
<1>3. /\ dstate' \in [Dicts -> {"freed", "live", "detach", "unlink"}]
      /\ dstate'[d] = "live" /\ \A e \in Dicts : e # d => dstate'[e] = dstate[e]
      /\ \A e \in Dicts : TreeOK(e)'
      /\ \A m \in Modules : ListOK(m)'
  <2>1. /\ count' \in [Dicts -> Int] /\ count'[d] = 0
        /\ \A e \in Dicts : e # d => count'[e] = count[e]
    BY <1>0, <1>1 DEF TypeOK
  <2> QED BY <1>0, <1>1, <1>2, <2>1, Remade
<1>4. TypeOK'
  BY <1>0, <1>1, <1>3 DEF TypeOK
<1>5. ASSUME NEW u \in Tasks PROVE OpOK(u)'
  <2>1. OpOK(u) /\ op'[u] = op[u]
    BY <1>1, Makers
  <2>2. op[u].pc # "idle" => Entered(u)'
    BY <1>0, <1>1, <1>2, <1>3, <2>1, Shape DEF OpOK, Entered
  <2> QED BY <1>1, <2>1, <2>2, OneOK DEF OpOK, Sharing, Alike
<1>6. ASSUME NEW m \in Modules PROVE ModuleOK(m)'
  <2>1. shdicts[m] \subseteq ShDicts
    BY <1>0 DEF TypeOK
  <2> QED BY <1>1, <1>3, <2>1 DEF IInv, ModuleOK
<1>7. SharedOK'
  BY <1>1, <1>3 DEF IInv, SharedOK
<1>8. RefsExact'
  BY <1>1 DEF IInv, RefsExact, refs, placed
<1> QED BY <1>3, <1>4, <1>5, <1>6, <1>7, <1>8 DEF IInv

\* A Lua state allocates a dictionary to share.
LEMMA StepShareAlloc ==
    ASSUME IInv, NEW t \in Tasks, lua_shared_index_alloc(t)
    PROVE  IInv'
<1> USE Names
<1>0. TypeOK /\ op = [u \in Tasks |-> op[u]]
  BY DEF IInv, TypeOK
<1>1. PICK m \in Modules, d \in ShDicts :
        /\ op[t].pc = "idle" /\ state[m] = "LIVE" /\ shdicts[m] = {}
        /\ dstate[d] = "freed" /\ dstate' = [dstate EXCEPT ![d] = "live"]
        /\ count' = [count EXCEPT ![d] = 0]
        /\ op' = [op EXCEPT ![t] = [idle EXCEPT !.pc = "share", !.m = m, !.d = d]]
        /\ UNCHANGED <<node, tree, mlist, mcount, shdicts, state, gc>>
  BY DEF lua_shared_index_alloc
<1>2. /\ tree[d] = {} /\ d \in Dicts
      /\ \A u \in Tasks : op[u].d # d
      /\ \A x \in Modules : d \notin shdicts[x]
  <2>1. d \in Dicts /\ dstate[d] # "live"
    BY <1>1
  <2>2. tree[d] = {}
    BY <1>1, <2>1 DEF IInv, TreeOK
  <2> QED BY <2>1, <2>2, NobodyThere
<1>3. /\ dstate' \in [Dicts -> {"freed", "live", "detach", "unlink"}]
      /\ dstate'[d] = "live" /\ \A e \in Dicts : e # d => dstate'[e] = dstate[e]
      /\ \A e \in Dicts : TreeOK(e)'
      /\ \A x \in Modules : ListOK(x)'
  <2>1. /\ count' \in [Dicts -> Int] /\ count'[d] = 0
        /\ \A e \in Dicts : e # d => count'[e] = count[e]
    BY <1>0, <1>1, <1>2 DEF TypeOK
  <2> QED BY <1>0, <1>1, <1>2, <2>1, Remade
<1>4. /\ op'[t] = [pc |-> "share", d |-> d, m |-> m, k |-> NULL, n |-> NULL]
      /\ op'[t] \in Op /\ op'[t].pc = "share" /\ op'[t].d = d /\ op'[t].m = m /\ op'[t].n = NULL
      /\ op[t].n = NULL /\ op' = [u \in Tasks |-> op'[u]]
      /\ \A u \in Tasks : u # t => op'[u] = op[u]
  <2>1. op'[t] = [pc |-> "share", d |-> d, m |-> m, k |-> NULL, n |-> NULL]
    BY <1>0, <1>1 DEF idle
  <2>2. op'[t] \in Op
    BY ONLY d \in ShDicts, m \in Modules, <2>1 DEF Op
  <2> QED BY <1>0, <1>1, <2>1, <2>2, Shape DEF Pinning
<1>5. TypeOK'
  <2>1. count' \in [Dicts -> Int]
    BY <1>0, <1>1, <1>2 DEF TypeOK
  <2> QED BY <1>0, <1>1, <1>3, <1>4, <2>1 DEF TypeOK
<1>6. ASSUME NEW u \in Tasks PROVE OpOK(u)'
  <2>1. CASE u = t
    <3>1. Entered(t)'
      <4>1. gc.m # m
        BY <1>1 DEF IInv, ModuleOK
      <4> QED BY <1>1, <1>3, <1>4, <4>1 DEF Entered
    <3>2. Sharing(t)'
      BY <1>1, <1>2, <1>4 DEF Sharing
    <3> QED BY <1>4, <2>1, <3>1, <3>2 DEF OpOK, Pinning
  <2>2. CASE u # t
    <3>1. OpOK(u) /\ op'[u] = op[u]
      BY <1>4, <2>2, Makers
    <3>2. op[u].pc # "idle" => Entered(u)'
      BY <1>0, <1>1, <1>2, <1>3, <3>1, Shape DEF OpOK, Entered
    <3>3. op[u].pc = "share" => Sharing(u)'
      BY <1>1, <1>2, <1>4, <2>2, <3>1 DEF OpOK, Sharing
    <3> QED BY <1>1, <3>1, <3>2, <3>3, OneOK DEF OpOK, Alike
  <2> QED BY <2>1, <2>2
<1>7. ASSUME NEW x \in Modules PROVE ModuleOK(x)'
  <2>1. shdicts[x] \subseteq Dicts
    BY <1>0 DEF TypeOK
  <2> QED BY <1>1, <1>2, <1>3, <2>1 DEF IInv, ModuleOK
<1>8. SharedOK'
  <2> SUFFICES ASSUME NEW e \in ShDicts, dstate'[e] = "live"
               PROVE  \/ \E x \in Modules : e \in shdicts'[x]
                      \/ \E u \in Tasks : op'[u].pc = "share" /\ op'[u].d = e
    BY DEF SharedOK
  <2>1. CASE e = d
    BY <1>4, <2>1
  <2>2. CASE e # d
    <3>1. dstate[e] = "live"
      BY <1>3, <2>2
    <3>2. \/ \E x \in Modules : e \in shdicts[x]
          \/ \E u \in Tasks : op[u].pc = "share" /\ op[u].d = e
      BY <3>1 DEF IInv, SharedOK
    <3> QED BY <1>1, <1>4, <3>2
  <2> QED BY <2>1, <2>2
<1>9. RefsExact'
  <2>1. \A x \in Nodes : placed(x)' <=> placed(x)
    <3>1. \A u \in Tasks : op'[u].n = op[u].n /\ (op'[u].pc = "drop2" <=> op[u].pc = "drop2")
      BY <1>1, <1>4
    <3> QED BY <1>1, <3>1 DEF placed
  <2>2. \A x \in Nodes : One(placed(x)') = One(placed(x)) /\ One(placed(x)) \in Nat
    BY <2>1 DEF One
  <2>3. \A u \in Tasks : op'[u].n = op[u].n
    BY <1>4
  <2>4. \A x \in Nodes : node'[x].ref = node[x].ref + One(placed(x)') - One(placed(x))
    BY <1>0, <1>1, <2>2, NodeShape
  <2> QED BY <1>0, <2>3, <2>4, RefsOther DEF IInv
<1> QED BY <1>3, <1>5, <1>6, <1>7, <1>8, <1>9 DEF IInv
\* Two states of a module decide which of their dictionaries they share.
LEMMA StepShareAdd ==
    ASSUME IInv, NEW t \in Tasks, lua_shared_index_add(t)
    PROVE  IInv'
<1> USE Names
<1>0. TypeOK /\ op = [u \in Tasks |-> op[u]]
  BY DEF IInv, TypeOK
<1>1. PICK d, m : d = op[t].d /\ m = op[t].m
  OBVIOUS
<1>2. op[t].pc = "share"
  BY DEF lua_shared_index_add
<1>3. /\ d \in ShDicts /\ d \in Dicts /\ m \in Modules /\ op[t].n = NULL
      /\ dstate[d] = "live" /\ state[m] # "FREED" /\ (gc.m = m => gc.pc = "sync")
      /\ tree[d] = {}
      /\ \A x \in Modules : d \notin shdicts[x]
      /\ \A u \in Tasks : u # t => op[u].d # d
  <2>1. /\ d \in ShDicts /\ d \in Dicts /\ m \in Modules /\ op[t].n = NULL
    BY <1>0, <1>1, <1>2, Shape DEF Pinning
  <2>2. OpOK(t)
    BY Makers
  <2> QED BY <1>1, <1>2, <2>1, <2>2 DEF OpOK, Entered, Sharing
<1>4. /\ UNCHANGED <<node, tree, count, mlist, mcount, state, gc>>
      /\ op' = [op EXCEPT ![t] = idle]
      /\ \/ shdicts[m] = {} /\ shdicts' = [shdicts EXCEPT ![m] = {d}] /\ UNCHANGED dstate
         \/ dstate' = [dstate EXCEPT ![d] = "freed"] /\ UNCHANGED shdicts
  BY <1>1 DEF lua_shared_index_add
<1>5. /\ op'[t] = idle /\ idle \in Op /\ idle.pc = "idle" /\ idle.n = NULL /\ idle.d = NULL
      /\ op' = [u \in Tasks |-> op'[u]] /\ op' \in [Tasks -> Op]
      /\ \A u \in Tasks : u # t => op'[u] = op[u]
  <2>1. idle \in Op /\ idle.pc = "idle" /\ idle.n = NULL /\ idle.d = NULL
    BY DEF Op, idle
  <2> HIDE DEF idle
  <2> QED BY <1>0, <1>4, <2>1 DEF TypeOK
<1>6. OpOK(t)'
  BY <1>5 DEF OpOK, Pinning
<1>7. RefsExact'
  <2>1. \A x \in Nodes : placed(x)' <=> placed(x)
    <3>1. \A u \in Tasks : op'[u].n = op[u].n /\ (op'[u].pc = "drop2" <=> op[u].pc = "drop2")
      BY <1>2, <1>3, <1>5
    <3> QED BY <1>4, <3>1 DEF placed
  <2>2. \A x \in Nodes : One(placed(x)') = One(placed(x)) /\ One(placed(x)) \in Nat
    BY <2>1 DEF One
  <2>3. \A u \in Tasks : op'[u].n = op[u].n
    BY <1>3, <1>5
  <2>4. \A x \in Nodes : node'[x].ref = node[x].ref + One(placed(x)') - One(placed(x))
    BY <1>0, <1>4, <2>2, NodeShape
  <2> QED BY <1>0, <2>3, <2>4, RefsOther DEF IInv
<1>8. ASSUME NEW u \in Tasks, u # t, OpOK(u), op'[u] = op[u],
             op[u].pc # "idle" => Entered(u)', op[u].pc = "share" => Sharing(u)'
      PROVE  OpOK(u)'
  BY <1>4, <1>8, OneOK DEF OpOK, Alike
<1>9. CASE shdicts[m] = {} /\ shdicts' = [shdicts EXCEPT ![m] = {d}] /\ UNCHANGED dstate
  <2>1. shdicts'[m] = {d} /\ \A x \in Modules : x # m => shdicts'[x] = shdicts[x]
    BY <1>0, <1>3, <1>9 DEF TypeOK
  <2>2. TypeOK'
    <3>1. shdicts' \in [Modules -> SUBSET ShDicts]
      BY <1>0, <1>3, <1>9 DEF TypeOK
    <3> QED BY <1>0, <1>4, <1>5, <1>9, <3>1 DEF TypeOK
  <2>3. ASSUME NEW u \in Tasks, u # t PROVE OpOK(u)'
    <3>1. OpOK(u) /\ op'[u] = op[u]
      BY <1>5, <2>3, Makers
    <3>2. op[u].pc # "idle" => Entered(u)'
      BY <1>4, <1>9, <3>1 DEF OpOK, Entered
    <3>3. op[u].pc = "share" => Sharing(u)'
      <4>1. op[u].pc = "share" => op[u].d # d /\ op[u].d # NULL
        BY <1>0, <1>3, <2>3, Shape
      <4>2. op[u].pc = "share" => \A x \in Modules : op[u].d \notin shdicts'[x]
        BY <2>1, <3>1, <4>1 DEF OpOK, Sharing
      <4> QED BY <1>4, <1>5, <3>1, <4>1, <4>2 DEF OpOK, Sharing
    <3> QED BY <1>8, <2>3, <3>1, <3>2, <3>3
  <2>4. /\ \A x \in Dicts : TreeOK(x)'
        /\ \A x \in Modules : ListOK(x)'
    <3>1. /\ \A x \in Dicts : TreeOK(x)
          /\ \A x \in Modules : ListOK(x)
      BY DEF IInv
    <3>2. \A x \in Dicts : TreeOK(x)'
      BY <1>4, <1>9, <3>1 DEF TreeOK, InTree
    <3>3. \A x \in Modules : Queue(x)' = Queue(x) /\ Listed(x)' = Listed(x)
      BY <1>4, <1>9 DEF Queue, Listed
    <3> QED BY <1>4, <1>9, <3>1, <3>2, <3>3 DEF ListOK
  <2>5. ASSUME NEW x \in Modules PROVE ModuleOK(x)'
    <3>1. ModuleOK(x)
      BY DEF IInv
    <3>2. CASE x = m
      BY <1>3, <1>4, <1>9, <2>1, <3>1, <3>2 DEF ModuleOK
    <3>3. CASE x # m
      BY <1>4, <1>9, <2>1, <3>1, <3>3 DEF ModuleOK
    <3> QED BY <3>2, <3>3
  <2>6. SharedOK'
    <3> SUFFICES ASSUME NEW e \in ShDicts, dstate'[e] = "live"
                 PROVE  \/ \E x \in Modules : e \in shdicts'[x]
                        \/ \E u \in Tasks : op'[u].pc = "share" /\ op'[u].d = e
      BY DEF SharedOK
    <3>1. CASE e = d
      BY <1>3, <2>1, <3>1
    <3>2. CASE e # d
      <4>1. \/ \E x \in Modules : e \in shdicts[x]
            \/ \E u \in Tasks : op[u].pc = "share" /\ op[u].d = e
        BY <1>9 DEF IInv, SharedOK
      <4>2. CASE \E x \in Modules : e \in shdicts[x]
        BY <1>9, <2>1, <4>2
      <4>3. CASE \E u \in Tasks : op[u].pc = "share" /\ op[u].d = e
        BY <1>1, <1>5, <3>2, <4>3
      <4> QED BY <4>1, <4>2, <4>3
    <3> QED BY <3>1, <3>2
  <2> QED BY <1>6, <1>7, <2>2, <2>3, <2>4, <2>5, <2>6 DEF IInv
<1>10. CASE dstate' = [dstate EXCEPT ![d] = "freed"] /\ UNCHANGED shdicts
  <2>1. /\ dstate' \in [Dicts -> {"freed", "live", "detach", "unlink"}]
        /\ dstate'[d] = "freed" /\ \A e \in Dicts : e # d => dstate'[e] = dstate[e]
        /\ \A e \in Dicts : TreeOK(e)'
        /\ \A x \in Modules : ListOK(x)'
    BY <1>0, <1>3, <1>4, <1>10, Remade DEF TypeOK
  <2>2. TypeOK'
    BY <1>0, <1>4, <1>5, <1>10, <2>1 DEF TypeOK
  <2>3. ASSUME NEW u \in Tasks, u # t PROVE OpOK(u)'
    <3>1. OpOK(u) /\ op'[u] = op[u]
      BY <1>5, <2>3, Makers
    <3>2. op[u].pc # "idle" => Entered(u)'
      BY <1>0, <1>3, <1>4, <2>1, <2>3, <3>1, Shape DEF OpOK, Entered
    <3>3. op[u].pc = "share" => Sharing(u)'
      <4>1. op[u].pc = "share" => op[u].d # NULL
        BY <1>0, Shape
      <4> QED BY <1>4, <1>5, <1>10, <3>1, <4>1 DEF OpOK, Sharing
    <3> QED BY <1>8, <2>3, <3>1, <3>2, <3>3
  <2>4. ASSUME NEW x \in Modules PROVE ModuleOK(x)'
    <3>1. ModuleOK(x) /\ shdicts[x] \subseteq Dicts
      BY <1>0 DEF IInv, TypeOK
    <3> QED BY <1>3, <1>4, <1>10, <2>1, <3>1 DEF ModuleOK
  <2>5. SharedOK'
    <3> SUFFICES ASSUME NEW e \in ShDicts, dstate'[e] = "live"
                 PROVE  \/ \E x \in Modules : e \in shdicts'[x]
                        \/ \E u \in Tasks : op'[u].pc = "share" /\ op'[u].d = e
      BY DEF SharedOK
    <3>1. e # d /\ dstate[e] = "live"
      BY <2>1
    <3>2. \/ \E x \in Modules : e \in shdicts[x]
          \/ \E u \in Tasks : op[u].pc = "share" /\ op[u].d = e
      BY <3>1 DEF IInv, SharedOK
    <3> QED BY <1>1, <1>5, <1>10, <3>1, <3>2
  <2> QED BY <1>6, <1>7, <2>1, <2>2, <2>3, <2>4, <2>5 DEF IInv
<1> QED BY <1>4, <1>9, <1>10

\* The end of an object, or of a module's shared dictionary, begins.
LEMMA StepFree ==
    ASSUME IInv, NEW d \in Dicts, kvcache_dict_free(d)
    PROVE  IInv'
<1> USE Names
<1>0. TypeOK
  BY DEF IInv
<1>1. PICK c : c = IF count[d] = 0 THEN "freed" ELSE "detach"
  OBVIOUS
<1>2. /\ dstate[d] = "live" /\ \A t \in Tasks : op[t].d # d
      /\ dstate' = [dstate EXCEPT ![d] = c]
      /\ shdicts' = [m \in Modules |-> shdicts[m] \ {d}]
      /\ UNCHANGED <<node, tree, count, mlist, mcount, state, op, gc>>
  BY <1>1 DEF kvcache_dict_free
<1>3. c \in {"freed", "detach"} /\ (c = "freed" => tree[d] = {})
  <2>1. IsFiniteSet(tree[d]) /\ count[d] = Cardinality(tree[d])
    BY DEF IInv, TreeOK
  <2>2. count[d] = 0 => tree[d] = {}
    BY <2>1, FS_EmptySet
  <2> QED BY <1>1, <2>2
<1>4. /\ dstate' \in [Dicts -> {"freed", "live", "detach", "unlink"}]
      /\ dstate'[d] = c /\ \A e \in Dicts : e # d => dstate'[e] = dstate[e]
      /\ shdicts' \in [Modules -> SUBSET ShDicts]
      /\ \A m \in Modules : shdicts'[m] = shdicts[m] \ {d}
  BY <1>0, <1>2, <1>3 DEF TypeOK
<1>5. TypeOK'
  BY <1>0, <1>2, <1>4 DEF TypeOK
<1>6. ASSUME NEW u \in Tasks PROVE OpOK(u)'
  <2>1. OpOK(u) /\ op'[u] = op[u]
    BY <1>2, Makers
  <2>2. op[u].pc # "idle" => Entered(u)'
    BY <1>0, <1>2, <1>4, <2>1, Shape DEF OpOK, Entered
  <2>3. op[u].pc = "share" => Sharing(u)'
    BY <1>2, <1>4, <2>1 DEF OpOK, Sharing
  <2> QED BY <1>2, <2>1, <2>2, <2>3, OneOK DEF OpOK, Alike
<1>7. ASSUME NEW e \in Dicts PROVE TreeOK(e)'
  <2>1. TreeOK(e)
    BY DEF IInv
  <2>2. \A x \in tree'[e] : InTree(e, x)'
    BY <1>2, <2>1 DEF TreeOK, InTree
  <2>3. dstate'[e] = "freed" => tree'[e] = {}
    BY <1>2, <1>3, <1>4, <2>1 DEF TreeOK
  <2> QED BY <1>2, <2>1, <2>2, <2>3 DEF TreeOK
<1>8. ASSUME NEW m \in Modules PROVE ListOK(m)' /\ ModuleOK(m)'
  <2>1. ListOK(m) /\ ModuleOK(m) /\ shdicts[m] \subseteq Dicts
    BY <1>0 DEF IInv, TypeOK
  <2>2. Queue(m)' = Queue(m)
    BY <1>2 DEF Queue
  <2>3. Listed(m)' = Listed(m)
    <3>1. \A e \in Dicts : dstate'[e] # "unlink" <=> dstate[e] # "unlink"
      BY <1>2, <1>3, <1>4
    <3> QED BY <1>2, <3>1 DEF Listed
  <2>4. ListOK(m)'
    BY <1>2, <2>1, <2>2, <2>3 DEF ListOK
  <2>5. ModuleOK(m)'
    BY <1>2, <1>4, <2>1 DEF ModuleOK
  <2> QED BY <2>4, <2>5
<1>9. SharedOK'
  <2> SUFFICES ASSUME NEW e \in ShDicts, dstate'[e] = "live"
               PROVE  \/ \E x \in Modules : e \in shdicts'[x]
                      \/ \E u \in Tasks : op'[u].pc = "share" /\ op'[u].d = e
    BY DEF SharedOK
  <2>1. e # d /\ dstate[e] = "live"
    BY <1>3, <1>4
  <2> QED BY <1>2, <1>4, <2>1 DEF IInv, SharedOK
<1>10. RefsExact'
  BY <1>2 DEF IInv, RefsExact, refs, placed
<1> QED BY <1>5, <1>6, <1>7, <1>8, <1>9, <1>10 DEF IInv
\* The entries of a dictionary leave the lists of their modules.
LEMMA StepDetach ==
    ASSUME IInv, NEW d \in Dicts, kvcache_dict_free_detach(d)
    PROVE  IInv'
<1> USE Names
<1>0. TypeOK /\ tree[d] \in SUBSET Nodes
  BY DEF IInv, TypeOK
<1>1. /\ dstate[d] = "detach" /\ gc.pc # "unlink" /\ list_del(tree[d])
      /\ dstate' = [dstate EXCEPT ![d] = "unlink"]
      /\ UNCHANGED <<node, tree, count, shdicts, state, op, gc>>
  BY DEF kvcache_dict_free_detach
<1>2. /\ \A u \in Tasks : op[u].d # d
      /\ \A m \in Modules : d \notin shdicts[m]
  BY <1>1, NobodyThere
<1>3. /\ dstate' \in [Dicts -> {"freed", "live", "detach", "unlink"}]
      /\ dstate'[d] = "unlink" /\ \A e \in Dicts : e # d => dstate'[e] = dstate[e]
  BY <1>0, <1>1 DEF TypeOK
<1>4. \A m \in Modules : \A n \in tree[d] : node[n].module = m <=> n \in mlist[m]
  BY <1>1, OneTree DEF IInv, ListOK
<1>5. /\ mlist' \in [Modules -> SUBSET Nodes] /\ mcount' \in [Modules -> Int]
      /\ \A m \in Modules : /\ mlist'[m] = mlist[m] \ tree[d]
                            /\ IsFiniteSet(mlist'[m]) /\ mcount'[m] = Cardinality(mlist'[m])
  BY <1>0, <1>1, <1>4, ListDel
<1>6. TypeOK'
  BY <1>0, <1>1, <1>3, <1>5 DEF TypeOK
<1>7. ASSUME NEW u \in Tasks PROVE OpOK(u)'
  <2>1. OpOK(u) /\ op'[u] = op[u]
    BY <1>1, Makers
  <2>2. op[u].pc # "idle" => Entered(u)'
    BY <1>0, <1>1, <1>2, <1>3, <2>1, Shape DEF OpOK, Entered
  <2>3. op[u].pc = "share" => Sharing(u)'
    BY <1>1, <2>1 DEF OpOK, Sharing
  <2>4. op[u].pc = "drop2" => \A m \in Modules : op[u].n \notin mlist'[m]
    BY <1>5, <2>1 DEF OpOK
  <2> QED BY <1>1, <2>1, <2>2, <2>3, <2>4, OneOK DEF OpOK, Alike
<1>8. ASSUME NEW e \in Dicts PROVE TreeOK(e)'
  <2>1. TreeOK(e)
    BY DEF IInv
  <2>2. \A x \in tree'[e] : InTree(e, x)'
    BY <1>1, <2>1 DEF TreeOK, InTree
  <2>3. dstate'[e] = "freed" => tree'[e] = {}
    BY <1>1, <1>3, <2>1 DEF TreeOK
  <2> QED BY <1>1, <2>1, <2>2, <2>3 DEF TreeOK
<1>9. ASSUME NEW m \in Modules PROVE ListOK(m)' /\ ModuleOK(m)'
  <2>1. ListOK(m) /\ ModuleOK(m) /\ shdicts[m] \subseteq Dicts
    BY <1>0 DEF IInv, TypeOK
  <2>2. Queue(m)' = Queue(m) \ tree[d]
    <3>1. gc.pc = "drop" => gc.todo = {}
      BY <1>0, GcShape
    <3> QED BY <1>1, <1>5, <3>1 DEF Queue
  <2>3. Listed(m)' = Listed(m) \ tree[d]
    <3>1. \A n \in Nodes : n \in Listed(m)' <=> n \in Listed(m) /\ n \notin tree[d]
      <4> TAKE n \in Nodes
      <4>1. n \in Listed(m)' => n \in Listed(m) /\ n \notin tree[d]
        BY <1>1, <1>3, OneTree DEF Listed
      <4>2. n \in Listed(m) /\ n \notin tree[d] => n \in Listed(m)'
        BY <1>1, <1>3 DEF Listed
      <4> QED BY <4>1, <4>2
    <3> QED BY <3>1 DEF Listed
  <2>4. ListOK(m)'
    BY <1>1, <1>5, <2>1, <2>2, <2>3 DEF ListOK
  <2>5. ModuleOK(m)'
    BY <1>1, <1>2, <1>3, <1>5, <2>1 DEF ModuleOK
  <2> QED BY <2>4, <2>5
<1>10. SharedOK'
  BY <1>1, <1>3 DEF IInv, SharedOK
<1>11. RefsExact'
  <2>1. \A x \in Nodes : placed(x)' <=> placed(x)
    <3> TAKE x \in Nodes
    <3>1. CASE x \in tree[d]
      BY <1>1, <3>1 DEF placed
    <3>2. CASE x \notin tree[d]
      BY <1>1, <1>5, <3>2 DEF placed
    <3> QED BY <3>1, <3>2
  <2>2. \A x \in Nodes : One(placed(x)') = One(placed(x)) /\ One(placed(x)) \in Nat
    BY <2>1 DEF One
  <2>3. \A x \in Nodes : node'[x].ref = node[x].ref + One(placed(x)') - One(placed(x))
    BY <1>0, <1>1, <2>2, NodeShape
  <2> QED BY <1>0, <1>1, <2>3, RefsOther DEF IInv
<1> QED BY <1>6, <1>7, <1>8, <1>9, <1>10, <1>11 DEF IInv

\* The entries of a dictionary leave its tree one by one.
LEMMA StepFreeUnlink ==
    ASSUME IInv, NEW d \in Dicts, kvcache_dict_free_unlink(d)
    PROVE  IInv'
<1> USE Names
<1>0. TypeOK /\ RefsExact
  BY DEF IInv
<1>1. /\ dstate[d] = "unlink"
      /\ UNCHANGED <<mlist, mcount, shdicts, state, op, gc>>
      /\ \/ \E n \in tree[d] :
              /\ tree' = [tree EXCEPT ![d] = tree[d] \ {n}]
              /\ count' = [count EXCEPT ![d] = count[d] - 1]
              /\ node' = kvcache_node_drop(n)
              /\ UNCHANGED dstate
         \/ /\ tree[d] = {}
            /\ dstate' = [dstate EXCEPT ![d] = "freed"]
            /\ UNCHANGED <<node, tree, count>>
  BY DEF kvcache_dict_free_unlink
<1>2. ASSUME NEW n \in tree[d], tree' = [tree EXCEPT ![d] = tree[d] \ {n}],
             count' = [count EXCEPT ![d] = count[d] - 1], node' = kvcache_node_drop(n),
             UNCHANGED dstate
      PROVE  IInv'
  <2>1. n \in Nodes /\ node[n] # freed
    BY OneTree
  <2>2. /\ node' \in [Nodes -> Entry \cup {freed}]
        /\ \A x \in Nodes : x # n => node'[x] = node[x]
        /\ node'[n].ref = node[n].ref - 1
        /\ node[n].ref # 1 =>
             /\ node'[n] # freed /\ node'[n].dict = node[n].dict
             /\ node'[n].module = node[n].module
    BY <1>0, <1>2, <2>1, Dropped
  <2>3. \A x \in Nodes : x # n => Alike(x)
    BY <2>2 DEF Alike
  <2>4. /\ tree' \in [Dicts -> SUBSET Nodes] /\ count' \in [Dicts -> Int]
        /\ \A x \in Nodes, e \in Dicts : x \in tree'[e] <=> x \in tree[e] /\ x # n
        /\ \A e \in Dicts : TreeOK(e)'
    BY <1>2, <2>3, TreeDel
  <2>5. \A m \in Modules : n \notin Listed(m) /\ n \notin mlist[m]
    <3> TAKE m \in Modules
    <3>1. n \notin Listed(m)
      BY <1>1, OneTree DEF Listed
    <3> QED BY <3>1 DEF IInv, ListOK
  <2>6. placed(n) /\ ~placed(n)'
    <3>1. placed(n)
      BY DEF placed
    <3>2. \A u \in Tasks : ~(op[u].n = n /\ op[u].pc = "drop2")
      BY Makers DEF OpOK
    <3>3. ~placed(n)'
      BY <1>1, <2>1, <2>4, <2>5, <3>2 DEF placed
    <3> QED BY <3>1, <3>3
  <2>7. TypeOK'
    BY <1>0, <1>1, <1>2, <2>2, <2>4 DEF TypeOK
  <2>8. ASSUME NEW u \in Tasks PROVE OpOK(u)'
    <3>1. OpOK(u) /\ op'[u] = op[u]
      BY <1>1, Makers
    <3>2. op[u].pc # "idle" => Entered(u)'
      BY <1>1, <1>2, <3>1 DEF OpOK, Entered
    <3>3. op[u].pc \in Pinning => Alike(op[u].n)
      <4> SUFFICES ASSUME op[u].pc \in Pinning PROVE Alike(op[u].n)
        OBVIOUS
      <4>1. op[u].n \in Nodes
        BY <1>0, Shape
      <4>2. op[u].n = n => node[n].ref # 1
        BY <2>1, <2>6, LastUser
      <4> QED BY <2>2, <2>3, <4>1, <4>2 DEF Alike
    <3>4. op[u].pc = "unlink" => op[u].n \in tree'[op[u].d]
      <4> SUFFICES ASSUME op[u].pc = "unlink" PROVE op[u].n \in tree'[op[u].d]
        OBVIOUS
      <4>1. op[u].n \in tree[op[u].d] /\ op[u].d \in Dicts /\ dstate[op[u].d] = "live"
            /\ op[u].n \in Nodes
        BY <1>0, <3>1, Shape, NotCollected DEF OpOK, Pinning
      <4>2. op[u].n # n
        BY <1>1, <4>1, OneTree
      <4> QED BY <2>4, <4>1, <4>2
    <3>5. op[u].pc = "drop2" => /\ \A e \in Dicts : op[u].n \notin tree'[e]
                                /\ \A m \in Modules : op[u].n \notin mlist'[m]
      <4>1. op[u].pc = "drop2" => op[u].n \in Nodes
        BY <1>0, Shape DEF Pinning
      <4> QED BY <1>1, <2>4, <3>1, <4>1 DEF OpOK
    <3>6. op[u].pc = "share" => Sharing(u)'
      <4>1. op[u].pc = "share" => op[u].d \in Dicts /\ Sharing(u)
        BY <1>0, <3>1, Shape DEF OpOK
      <4>2. op[u].pc = "share" => tree'[op[u].d] = {}
        BY <2>4, <4>1 DEF Sharing
      <4> QED BY <1>1, <3>1, <4>1, <4>2 DEF Sharing
    <3> QED BY <3>1, <3>2, <3>3, <3>4, <3>5, <3>6, OneOK
  <2>9. ASSUME NEW m \in Modules PROVE ListOK(m)' /\ ModuleOK(m)'
    <3>1. ListOK(m) /\ ModuleOK(m) /\ mlist[m] \subseteq Nodes
      BY <1>0 DEF IInv, TypeOK
    <3>2. Queue(m)' = Queue(m)
      BY <1>1 DEF Queue
    <3>3. Listed(m)' = Listed(m)
      <4>1. \A x \in Nodes : x \in Listed(m)' <=> x \in Listed(m)
        <5> TAKE x \in Nodes
        <5>1. CASE x = n
          BY <2>4, <2>5, <5>1 DEF Listed
        <5>2. CASE x # n
          BY <1>2, <2>2, <2>4, <5>2 DEF Listed
        <5> QED BY <5>1, <5>2
      <4> QED BY <4>1 DEF Listed
    <3>4. \A x \in mlist'[m] : node'[x].module = m
      BY <1>1, <2>2, <2>5, <3>1 DEF ListOK
    <3>5. ListOK(m)'
      BY <1>1, <2>4, <3>1, <3>2, <3>3, <3>4 DEF ListOK
    <3>6. ModuleOK(m)'
      BY <1>1, <1>2, <3>1 DEF ModuleOK
    <3> QED BY <3>5, <3>6
  <2>10. SharedOK'
    BY <1>1, <1>2 DEF IInv, SharedOK
  <2>11. RefsExact'
    <3>1. \A x \in Nodes : node'[x].ref = node[x].ref + One(placed(x)') - One(placed(x))
      <4> TAKE x \in Nodes
      <4>1. CASE x = n
        BY <1>0, <2>2, <2>6, <4>1, NodeShape DEF One
      <4>2. CASE x # n
        <5>1. placed(x)' <=> placed(x)
          BY <1>1, <2>4, <4>2 DEF placed
        <5>2. One(placed(x)') = One(placed(x)) /\ One(placed(x)) \in Nat
          BY <5>1 DEF One
        <5> QED BY <1>0, <2>2, <4>2, <5>2, NodeShape
      <4> QED BY <4>1, <4>2
    <3> QED BY <1>0, <1>1, <3>1, RefsOther
  <2> QED BY <2>4, <2>7, <2>8, <2>9, <2>10, <2>11 DEF IInv
<1>3. CASE /\ tree[d] = {}
           /\ dstate' = [dstate EXCEPT ![d] = "freed"]
           /\ UNCHANGED <<node, tree, count>>
  <2>1. /\ dstate' \in [Dicts -> {"freed", "live", "detach", "unlink"}]
        /\ dstate'[d] = "freed" /\ \A e \in Dicts : e # d => dstate'[e] = dstate[e]
        /\ \A e \in Dicts : TreeOK(e)'
        /\ \A m \in Modules : ListOK(m)'
    BY <1>0, <1>1, <1>3, Remade DEF TypeOK
  <2>2. /\ \A u \in Tasks : op[u].d # d
        /\ \A m \in Modules : d \notin shdicts[m]
    BY <1>1, NobodyThere
  <2>3. TypeOK'
    BY <1>0, <1>1, <1>3, <2>1 DEF TypeOK
  <2>4. ASSUME NEW u \in Tasks PROVE OpOK(u)'
    <3>1. OpOK(u) /\ op'[u] = op[u]
      BY <1>1, Makers
    <3>2. op[u].pc # "idle" => Entered(u)'
      BY <1>0, <1>1, <2>1, <2>2, <3>1, Shape DEF OpOK, Entered
    <3>3. op[u].pc = "share" => Sharing(u)'
      BY <1>1, <1>3, <3>1 DEF OpOK, Sharing
    <3> QED BY <1>1, <1>3, <3>1, <3>2, <3>3, OneOK DEF OpOK, Alike
  <2>5. ASSUME NEW m \in Modules PROVE ModuleOK(m)'
    <3>1. ModuleOK(m) /\ shdicts[m] \subseteq Dicts
      BY <1>0 DEF IInv, TypeOK
    <3> QED BY <1>1, <2>1, <2>2, <3>1 DEF ModuleOK
  <2>6. SharedOK'
    BY <1>1, <2>1 DEF IInv, SharedOK
  <2>7. RefsExact'
    BY <1>1, <1>3 DEF IInv, RefsExact, refs, placed
  <2> QED BY <2>1, <2>3, <2>4, <2>5, <2>6, <2>7 DEF IInv
<1> QED BY <1>1, <1>2, <1>3
-----------------------------------------------------------------------------
(* The life of modules, and the collector.                                 *)

\* A step that moves nothing but a module or the collector.
LEMMA GcFrame ==
    ASSUME IInv, UNCHANGED <<node, tree, count, dstate, mlist, mcount, shdicts, op>>,
           state' \in [Modules -> {"LIVE", "GOING", "FREED"}], gc' \in Gc,
           \A u \in Tasks : op[u].pc # "idle" => Entered(u)',
           \A m \in Modules : Queue(m)' = Queue(m) /\ ModuleOK(m)'
    PROVE  IInv'
<1>1. TypeOK'
  BY DEF IInv, TypeOK
<1>2. ASSUME NEW u \in Tasks PROVE OpOK(u)'
  <2>1. OpOK(u) /\ op'[u] = op[u]
    BY Makers
  <2>2. op[u].pc = "share" => Sharing(u)'
    BY <2>1 DEF OpOK, Sharing
  <2> QED BY <2>1, <2>2, OneOK DEF OpOK, Alike
<1>3. ASSUME NEW e \in Dicts PROVE TreeOK(e)'
  BY DEF IInv, TreeOK, InTree
<1>4. ASSUME NEW m \in Modules PROVE ListOK(m)'
  <2>1. Listed(m)' = Listed(m)
    BY DEF Listed
  <2> QED BY <2>1 DEF IInv, ListOK
<1>5. SharedOK'
  BY DEF IInv, SharedOK
<1>6. RefsExact'
  BY DEF IInv, RefsExact, refs, placed
<1> QED BY <1>1, <1>2, <1>3, <1>4, <1>5, <1>6 DEF IInv

\* A module is registered.
LEMMA StepRegister ==
    ASSUME IInv, NEW m \in Modules, lua_lsm_module_register(m)
    PROVE  IInv'
<1>0. TypeOK
  BY DEF IInv
<1>1. /\ state[m] = "FREED" /\ state' = [state EXCEPT ![m] = "LIVE"]
      /\ UNCHANGED <<node, tree, count, dstate, mlist, mcount, shdicts, op, gc>>
  BY DEF lua_lsm_module_register
<1>2. /\ state' \in [Modules -> {"LIVE", "GOING", "FREED"}]
      /\ state'[m] = "LIVE" /\ \A x \in Modules : x # m => state'[x] = state[x]
  BY <1>0, <1>1 DEF TypeOK
<1>3. gc' \in Gc
  BY <1>0, <1>1 DEF TypeOK
<1>4. ASSUME NEW u \in Tasks, op[u].pc # "idle" PROVE Entered(u)'
  <2>1. Entered(u) /\ op[u].m \in Modules
    BY <1>0, <1>4, Makers, Shape DEF OpOK
  <2> QED BY <1>1, <1>2, <2>1 DEF Entered
<1>5. ASSUME NEW x \in Modules PROVE Queue(x)' = Queue(x) /\ ModuleOK(x)'
  <2>1. Queue(x)' = Queue(x)
    BY <1>1 DEF Queue
  <2>2. ModuleOK(x)'
    BY <1>1, <1>2 DEF IInv, ModuleOK
  <2> QED BY <2>1, <2>2
<1> QED BY <1>1, <1>2, <1>3, <1>4, <1>5, GcFrame

\* The unregistering of a module begins.
LEMMA StepUnregister ==
    ASSUME IInv, NEW m \in Modules, lua_lsm_module_unregister(m)
    PROVE  IInv'
<1> USE Names
<1>0. TypeOK
  BY DEF IInv
<1>1. /\ gc.pc = "idle" /\ state[m] = "LIVE" /\ state' = [state EXCEPT ![m] = "GOING"]
      /\ gc' = [gcidle EXCEPT !.pc = "sync", !.m = m]
      /\ UNCHANGED <<node, tree, count, dstate, mlist, mcount, shdicts, op>>
  BY DEF lua_lsm_module_unregister
<1>2. /\ state' \in [Modules -> {"LIVE", "GOING", "FREED"}]
      /\ state'[m] = "GOING" /\ \A x \in Modules : x # m => state'[x] = state[x]
  BY <1>0, <1>1 DEF TypeOK
<1>3. gc' = [pc |-> "sync", m |-> m, todo |-> {}] /\ gc.m = NULL
  BY <1>0, <1>1, GcShape DEF gcidle
<1>4. gc' \in Gc /\ gc'.pc = "sync" /\ gc'.m = m
  BY <1>3 DEF Gc
<1>5. ASSUME NEW u \in Tasks, op[u].pc # "idle" PROVE Entered(u)'
  <2>1. Entered(u) /\ op[u].m \in Modules
    BY <1>0, <1>5, Makers, Shape DEF OpOK
  <2> QED BY <1>1, <1>2, <1>4, <2>1 DEF Entered
<1>6. ASSUME NEW x \in Modules PROVE Queue(x)' = Queue(x) /\ ModuleOK(x)'
  <2>1. Queue(x)' = Queue(x)
    BY <1>1, <1>4 DEF Queue
  <2>2. ModuleOK(x)'
    <3>1. ModuleOK(x) /\ x # NULL
      BY DEF IInv
    <3>2. CASE x = m
      BY <1>1, <1>2, <1>4, <3>1, <3>2 DEF ModuleOK
    <3>3. CASE x # m
      BY <1>1, <1>2, <1>3, <1>4, <3>1, <3>3 DEF ModuleOK
    <3> QED BY <3>2, <3>3
  <2> QED BY <2>1, <2>2
<1> QED BY <1>1, <1>2, <1>4, <1>5, <1>6, GcFrame

\* The collector waits, takes its lock, and releases it.
LEMMA StepCollector ==
    ASSUME IInv, synchronize_srcu \/ kvcache_module_nodes_gc \/ gc_release
    PROVE  IInv'
<1>0. TypeOK
  BY DEF IInv
<1>1. PICK p, S : /\ gc' = [gc EXCEPT !.pc = p, !.todo = S]
                  /\ \/ /\ gc.pc = "sync" /\ p = "shdicts" /\ S = {}
                        /\ \A u \in Tasks : op[u].m # gc.m
                     \/ gc.pc = "shdicts" /\ p = "unlink" /\ S = mlist[gc.m] /\ shdicts[gc.m] = {}
                     \/ gc.pc = "unlink" /\ gc.todo = {} /\ p = "drop" /\ S = {}
                  /\ UNCHANGED <<node, tree, count, dstate, mlist, mcount, shdicts, state, op>>
  <2>1. gc = [pc |-> gc.pc, m |-> gc.m, todo |-> gc.todo]
    BY <1>0, GcShape
  <2>2. CASE synchronize_srcu
    <3>1. gc.pc = "sync" /\ gc.todo = {} /\ gc' = [gc EXCEPT !.pc = "shdicts"]
      BY <1>0, <2>2, GcShape DEF synchronize_srcu
    <3>2. gc' = [gc EXCEPT !.pc = "shdicts", !.todo = {}]
      BY <2>1, <3>1
    <3> QED BY <2>2, <3>1, <3>2 DEF synchronize_srcu
  <2>3. CASE kvcache_module_nodes_gc
    BY <2>3 DEF kvcache_module_nodes_gc
  <2>4. CASE gc_release
    <3>1. gc.pc = "unlink" /\ gc.todo = {} /\ gc' = [gc EXCEPT !.pc = "drop"]
      BY <2>4 DEF gc_release
    <3>2. gc' = [gc EXCEPT !.pc = "drop", !.todo = {}]
      BY <2>1, <3>1
    <3> QED BY <2>4, <3>1, <3>2 DEF gc_release
  <2> QED BY <2>2, <2>3, <2>4
<1>2. gc' = [pc |-> p, m |-> gc.m, todo |-> S] /\ gc.m \in Modules
  BY <1>0, <1>1, GcShape
<1>3. gc'.pc = p /\ gc'.m = gc.m /\ gc'.todo = S /\ gc' \in Gc
  <2>1. mlist[gc.m] \subseteq Nodes
    BY <1>0, <1>2 DEF TypeOK
  <2> QED BY <1>1, <1>2, <2>1 DEF Gc
<1>4. ASSUME NEW u \in Tasks, op[u].pc # "idle" PROVE Entered(u)'
  <2>1. Entered(u)
    BY <1>4, Makers DEF OpOK
  <2>2. gc.m # op[u].m
    BY <1>1, <2>1 DEF Entered
  <2> QED BY <1>1, <1>3, <2>1, <2>2 DEF Entered
<1>5. ASSUME NEW x \in Modules PROVE Queue(x)' = Queue(x) /\ ModuleOK(x)'
  <2>1. Queue(x)' = Queue(x)
    BY <1>1, <1>3 DEF Queue
  <2>2. ModuleOK(x)'
    BY <1>1, <1>3 DEF IInv, ModuleOK
  <2> QED BY <2>1, <2>2
<1>6. state' \in [Modules -> {"LIVE", "GOING", "FREED"}]
  BY <1>0, <1>1 DEF TypeOK
<1> QED BY <1>1, <1>3, <1>4, <1>5, <1>6, GcFrame

\* The collector takes a node of its module out of the tree.
LEMMA StepGcUnlink ==
    ASSUME IInv, gc_unlink
    PROVE  IInv'
<1> USE Names
<1>0. TypeOK /\ RefsExact
  BY DEF IInv
<1>1. PICK n, d :
        /\ n \in gc.todo
        /\ d = node[n].dict
        /\ tree' = [tree EXCEPT ![d] = tree[d] \ {n}]
        /\ count' = [count EXCEPT ![d] = count[d] - 1]
        /\ gc' = [gc EXCEPT !.todo = gc.todo \ {n}]
  BY DEF gc_unlink
<1>2. gc.pc = "unlink" /\ UNCHANGED <<node, dstate, mlist, mcount, shdicts, state, op>>
  BY DEF gc_unlink
<1>3. PICK m : m = gc.m
  OBVIOUS
<1>4. /\ m \in Modules /\ n \in Nodes /\ d \in Dicts /\ n \in tree[d]
      /\ node[n].module = m /\ n \in mlist[m] /\ n \in Queue(m)
  <2>1. m \in Modules /\ n \in Nodes
    BY <1>0, <1>1, <1>2, <1>3, GcShape
  <2>2. n \in Queue(m)
    BY <1>1, <1>2, <1>3 DEF Queue
  <2>3. n \in Listed(m) /\ n \in mlist[m]
    BY <2>1, <2>2 DEF IInv, ListOK
  <2>4. PICK e \in Dicts : n \in tree[e]
    BY <2>3 DEF Listed
  <2>5. e = d
    BY <1>1, <2>4, OneTree
  <2> QED BY <2>1, <2>2, <2>3, <2>4, <2>5 DEF Listed
<1>5. \A x \in Nodes : Alike(x)
  BY <1>2 DEF Alike
<1>6. /\ tree' \in [Dicts -> SUBSET Nodes] /\ count' \in [Dicts -> Int]
      /\ \A x \in Nodes, e \in Dicts : x \in tree'[e] <=> x \in tree[e] /\ x # n
      /\ \A e \in Dicts : TreeOK(e)'
  BY <1>1, <1>2, <1>4, <1>5, TreeDel
<1>7. gc' = [pc |-> "unlink", m |-> m, todo |-> gc.todo \ {n}]
  BY <1>0, <1>1, <1>2, <1>3, GcShape
<1>8. gc'.pc = "unlink" /\ gc'.m = m /\ gc'.todo = gc.todo \ {n} /\ gc' \in Gc
  <2>1. gc.todo \ {n} \in SUBSET Nodes
    BY <1>0, GcShape
  <2> QED BY <1>4, <1>7, <2>1 DEF Gc
<1>9. TypeOK'
  BY <1>0, <1>2, <1>6, <1>8 DEF TypeOK
<1>10. ASSUME NEW u \in Tasks PROVE OpOK(u)'
  <2>1. OpOK(u) /\ op'[u] = op[u]
    BY <1>2, Makers
  <2>2. op[u].pc # "idle" => Entered(u)'
    BY <1>2, <1>3, <1>8, <2>1 DEF OpOK, Entered
  <2>3. op[u].pc \in Pinning => op[u].n \in Nodes /\ Alike(op[u].n)
    BY <1>0, <1>5, Shape
  <2>4. op[u].pc = "unlink" => op[u].n \in tree'[op[u].d]
    <3> SUFFICES ASSUME op[u].pc = "unlink" PROVE op[u].n \in tree'[op[u].d]
      OBVIOUS
    <3>1. op[u].n \in Nodes /\ op[u].d \in Dicts /\ op[u].n \in tree[op[u].d]
      BY <1>0, <2>1, Shape DEF OpOK, Pinning
    <3>2. op[u].n # n
      BY <1>2, <1>3, <1>4, NotCollected DEF Pinning, owner
    <3> QED BY <1>6, <3>1, <3>2
  <2>5. op[u].pc = "drop2" => /\ \A e \in Dicts : op[u].n \notin tree'[e]
                              /\ \A x \in Modules : op[u].n \notin mlist'[x]
    BY <1>2, <1>6, <2>1, <2>3 DEF OpOK, Pinning
  <2>6. op[u].pc = "share" => Sharing(u)'
    <3>1. op[u].pc = "share" => op[u].d \in Dicts /\ Sharing(u)
      BY <1>0, <2>1, Shape DEF OpOK
    <3>2. op[u].pc = "share" => tree'[op[u].d] = {}
      BY <1>6, <3>1 DEF Sharing
    <3> QED BY <1>2, <2>1, <3>1, <3>2 DEF Sharing
  <2> QED BY <2>1, <2>2, <2>3, <2>4, <2>5, <2>6, OneOK
<1>11. ASSUME NEW x \in Modules PROVE ListOK(x)' /\ ModuleOK(x)'
  <2>1. ListOK(x) /\ ModuleOK(x) /\ mlist[x] \subseteq Nodes
    BY <1>0 DEF IInv, TypeOK
  <2>2. Listed(x)' = Listed(x) \ {n}
    BY <1>2, <1>6 DEF Listed
  <2>3. Queue(x)' = Queue(x) \ {n}
    <3>1. CASE x = m
      BY <1>2, <1>3, <1>8, <3>1 DEF Queue
    <3>2. CASE x # m
      <4>1. n \notin mlist[x]
        BY <1>4, <2>1, <3>2 DEF ListOK
      <4> QED BY <1>2, <1>3, <1>8, <3>2, <4>1 DEF Queue
    <3> QED BY <3>1, <3>2
  <2>4. ListOK(x)'
    BY <1>2, <1>6, <2>1, <2>2, <2>3 DEF ListOK
  <2>5. ModuleOK(x)'
    BY <1>2, <1>3, <1>8, <2>1 DEF ModuleOK
  <2> QED BY <2>4, <2>5
<1>12. SharedOK'
  BY <1>2 DEF IInv, SharedOK
<1>13. RefsExact'
  <2>1. \A x \in Nodes : placed(x)' <=> placed(x)
    <3> TAKE x \in Nodes
    <3>1. CASE x = n
      BY <1>2, <1>4, <3>1 DEF placed
    <3>2. CASE x # n
      BY <1>2, <1>6, <3>2 DEF placed
    <3> QED BY <3>1, <3>2
  <2>2. \A x \in Nodes : One(placed(x)') = One(placed(x)) /\ One(placed(x)) \in Nat
    BY <2>1 DEF One
  <2>3. \A x \in Nodes : node'[x].ref = node[x].ref + One(placed(x)') - One(placed(x))
    BY <1>0, <1>2, <2>2, NodeShape
  <2> QED BY <1>0, <1>2, <2>3, RefsOther
<1> QED BY <1>6, <1>9, <1>10, <1>11, <1>12, <1>13 DEF IInv
\* The collector empties the list of its module and is done.
LEMMA StepGcDrop ==
    ASSUME IInv, gc_drop
    PROVE  IInv'
<1> USE Names
<1>0. TypeOK /\ RefsExact
  BY DEF IInv
<1>1. PICK m : m = gc.m
  OBVIOUS
<1>2. gc.pc = "drop" /\ UNCHANGED <<tree, count, dstate, shdicts, op>>
  BY DEF gc_drop
<1>3. m \in Modules /\ gc.todo = {} /\ Queue(m) = {} /\ Listed(m) = {}
  <2>1. m \in Modules /\ gc.todo = {}
    BY <1>0, <1>1, <1>2, GcShape
  <2>2. Queue(m) = {}
    BY <1>1, <1>2, <2>1 DEF Queue
  <2> QED BY <2>1, <2>2 DEF IInv, ListOK
<1>4. \A u \in Tasks : op[u].pc # "idle" => op[u].m # m
  BY <1>1, <1>2, NotCollected
<1>5. ASSUME NEW n \in mlist[m], list_del({n}), node' = kvcache_node_drop(n), UNCHANGED <<gc, state>>
      PROVE  IInv'
  <2>1. n \in Nodes /\ node[n].module = m /\ node[n] # freed
    <3>1. n \in Nodes /\ node[n].module = m
      BY <1>0, <1>3 DEF IInv, TypeOK, ListOK
    <3> QED BY <1>0, <1>3, <3>1, NodeShape
  <2>2. /\ node' \in [Nodes -> Entry \cup {freed}]
        /\ \A x \in Nodes : x # n => node'[x] = node[x]
        /\ node'[n].ref = node[n].ref - 1
        /\ node[n].ref # 1 =>
             /\ node'[n] # freed /\ node'[n].dict = node[n].dict
             /\ node'[n].module = node[n].module
    BY <1>0, <1>5, <2>1, Dropped
  <2>3. \A x \in Nodes : x # n => Alike(x)
    BY <2>2 DEF Alike
  <2>4. \A d \in Dicts : n \notin tree[d]
    BY <1>3 DEF IInv, ListOK
  <2>5. \A x \in Modules : node[n].module = x <=> n \in mlist[x]
    BY <1>3, <2>1 DEF IInv, ListOK
  <2>6. /\ mlist' \in [Modules -> SUBSET Nodes] /\ mcount' \in [Modules -> Int]
        /\ \A x \in Modules : /\ mlist'[x] = mlist[x] \ {n}
                              /\ IsFiniteSet(mlist'[x]) /\ mcount'[x] = Cardinality(mlist'[x])
    <3> DEFINE S == {n}
    <3>1. S \in SUBSET Nodes /\ list_del(S)
          /\ \A x \in Modules : \A y \in S : node[y].module = x <=> y \in mlist[x]
      BY <1>5, <2>1, <2>5
    <3>2. S = {n}
      OBVIOUS
    <3> HIDE DEF S
    <3> QED BY <3>1, <3>2, ListDel
  <2>7. placed(n) /\ ~placed(n)'
    <3>1. placed(n)
      BY <1>3 DEF placed
    <3>2. \A u \in Tasks : ~(op[u].n = n /\ op[u].pc = "drop2")
      BY <1>3, Makers DEF OpOK
    <3>3. ~placed(n)'
      BY <1>2, <2>4, <2>6, <3>2 DEF placed
    <3> QED BY <3>1, <3>3
  <2>8. TypeOK'
    BY <1>0, <1>2, <1>5, <2>2, <2>6 DEF TypeOK
  <2>9. ASSUME NEW u \in Tasks PROVE OpOK(u)'
    <3>1. OpOK(u) /\ op'[u] = op[u]
      BY <1>2, Makers
    <3>2. op[u].pc # "idle" => Entered(u)'
      BY <1>2, <1>5, <3>1 DEF OpOK, Entered
    <3>3. op[u].pc \in Pinning => Alike(op[u].n)
      <4> SUFFICES ASSUME op[u].pc \in Pinning PROVE Alike(op[u].n)
        OBVIOUS
      <4>1. op[u].n \in Nodes
        BY <1>0, Shape
      <4>2. op[u].n = n => node[n].ref # 1
        BY <2>1, <2>7, LastUser
      <4> QED BY <2>2, <2>3, <4>1, <4>2 DEF Alike
    <3>4. op[u].pc = "drop2" => \A x \in Modules : op[u].n \notin mlist'[x]
      BY <2>6, <3>1 DEF OpOK
    <3>5. op[u].pc = "share" => Sharing(u)'
      BY <1>2, <3>1 DEF OpOK, Sharing
    <3> QED BY <1>2, <3>1, <3>2, <3>3, <3>4, <3>5, OneOK DEF OpOK
  <2>10. ASSUME NEW e \in Dicts PROVE TreeOK(e)'
    <3>1. TreeOK(e) /\ tree[e] \subseteq Nodes
      BY <1>0 DEF IInv, TypeOK
    <3>2. \A x \in tree'[e] : InTree(e, x)'
      BY <1>2, <2>2, <2>4, <3>1 DEF TreeOK, InTree
    <3> QED BY <1>2, <3>1, <3>2 DEF TreeOK
  <2>11. ASSUME NEW x \in Modules PROVE ListOK(x)' /\ ModuleOK(x)'
    <3>1. ListOK(x) /\ ModuleOK(x) /\ mlist[x] \subseteq Nodes
      BY <1>0 DEF IInv, TypeOK
    <3>2. n \notin Listed(x)
      BY <2>4 DEF Listed
    <3>3. Queue(x)' = Queue(x)
      <4>1. CASE x = m
        BY <1>1, <1>2, <1>5, <4>1 DEF Queue
      <4>2. CASE x # m
        <5>1. mlist'[x] = mlist[x]
          <6>1. n \notin mlist[x] /\ mlist'[x] = mlist[x] \ {n}
            BY <2>1, <2>5, <2>6, <4>2
          <6> QED BY <6>1
        <5> QED BY <1>5, <5>1 DEF Queue
      <4> QED BY <4>1, <4>2
    <3>4. Listed(x)' = Listed(x)
      <4>1. \A y \in Nodes : y \in Listed(x)' <=> y \in Listed(x)
        <5> TAKE y \in Nodes
        <5>1. CASE y = n
          BY <1>2, <2>4, <3>2, <5>1 DEF Listed
        <5>2. CASE y # n
          BY <1>2, <2>2, <5>2 DEF Listed
        <5> QED BY <5>1, <5>2
      <4> QED BY <4>1 DEF Listed
    <3>5. \A y \in mlist'[x] : node'[y].module = x
      BY <2>2, <2>6, <3>1 DEF ListOK
    <3>6. Queue(x) \subseteq mlist'[x]
      BY <2>6, <3>1, <3>2 DEF ListOK
    <3>7. ListOK(x)'
      BY <1>2, <2>6, <3>1, <3>3, <3>4, <3>5, <3>6 DEF ListOK
    <3>8. ModuleOK(x)'
      BY <1>2, <1>5, <2>6, <3>1 DEF ModuleOK
    <3> QED BY <3>7, <3>8
  <2>12. SharedOK'
    BY <1>2, <1>5 DEF IInv, SharedOK
  <2>13. RefsExact'
    <3>1. \A x \in Nodes : node'[x].ref = node[x].ref + One(placed(x)') - One(placed(x))
      <4> TAKE x \in Nodes
      <4>1. CASE x = n
        BY <1>0, <2>2, <2>7, <4>1, NodeShape DEF One
      <4>2. CASE x # n
        <5>1. placed(x)' <=> placed(x)
          BY <1>2, <2>6, <4>2 DEF placed
        <5>2. One(placed(x)') = One(placed(x)) /\ One(placed(x)) \in Nat
          BY <5>1 DEF One
        <5> QED BY <1>0, <2>2, <4>2, <5>2, NodeShape
      <4> QED BY <4>1, <4>2
    <3> QED BY <1>0, <1>2, <3>1, RefsOther
  <2> QED BY <2>8, <2>9, <2>10, <2>11, <2>12, <2>13 DEF IInv
<1>6. CASE /\ mlist[m] = {} /\ gc' = gcidle /\ state' = [state EXCEPT ![m] = "FREED"]
           /\ UNCHANGED <<node, mlist, mcount>>
  <2>1. /\ state' \in [Modules -> {"LIVE", "GOING", "FREED"}]
        /\ state'[m] = "FREED" /\ \A x \in Modules : x # m => state'[x] = state[x]
    BY <1>0, <1>3, <1>6 DEF TypeOK
  <2>2. gc' \in Gc /\ gc'.pc = "idle" /\ gc'.m = NULL
    BY <1>6 DEF Gc, gcidle
  <2>3. ASSUME NEW u \in Tasks, op[u].pc # "idle" PROVE Entered(u)'
    <3>1. Entered(u) /\ op[u].m \in Modules /\ op[u].m # m
      BY <1>0, <1>4, <2>3, Makers, Shape DEF OpOK
    <3> QED BY <1>2, <2>1, <2>2, <3>1 DEF Entered
  <2>4. ASSUME NEW x \in Modules PROVE Queue(x)' = Queue(x) /\ ModuleOK(x)'
    <3>1. Queue(x)' = Queue(x)
      BY <1>1, <1>3, <1>6, <2>2 DEF Queue
    <3>2. ModuleOK(x)'
      <4>1. ModuleOK(x) /\ x # NULL
        BY DEF IInv
      <4>2. CASE x = m
        BY <1>1, <1>2, <1>6, <2>1, <2>2, <4>1, <4>2 DEF ModuleOK
      <4>3. CASE x # m
        BY <1>1, <1>2, <1>6, <2>1, <2>2, <4>1, <4>3 DEF ModuleOK
      <4> QED BY <4>2, <4>3
    <3> QED BY <3>1, <3>2
  <2> QED BY <1>2, <1>6, <2>1, <2>2, <2>3, <2>4, GcFrame
<1> QED BY <1>1, <1>5, <1>6 DEF gc_drop

-----------------------------------------------------------------------------
(* Every reachable state.                                                  *)

\* In the beginning nothing is allocated.
LEMMA InitOK == Init => IInv
<1> SUFFICES ASSUME Init PROVE IInv
  OBVIOUS
<1> USE Names
<1>1. /\ \A n \in Nodes : node[n] = freed
      /\ \A d \in Dicts : tree[d] = {} /\ count[d] = 0 /\ dstate[d] = "freed"
      /\ \A m \in Modules : /\ mlist[m] = {} /\ mcount[m] = 0
                            /\ shdicts[m] = {} /\ state[m] = "FREED"
      /\ \A t \in Tasks : op[t] = idle
      /\ gc = gcidle
  BY DEF Init
<1>2. /\ idle.pc = "idle" /\ idle.n = NULL /\ idle \in Op
      /\ gcidle.pc = "idle" /\ gcidle.m = NULL /\ gcidle \in Gc
      /\ freed.ref = 0 /\ freed.module = NULL
  BY DEF idle, gcidle, freed, Op, Gc
<1> HIDE DEF idle, gcidle, freed
<1>3. TypeOK
  BY <1>2 DEF Init, TypeOK
<1>4. \A t \in Tasks : OpOK(t)
  BY <1>1, <1>2 DEF OpOK, Pinning
<1>5. \A d \in Dicts : TreeOK(d)
  BY <1>1, FS_EmptySet, KvAssumption DEF TreeOK
<1>6. ASSUME NEW m \in Modules PROVE ListOK(m) /\ ModuleOK(m)
  <2>1. Queue(m) = {} /\ Listed(m) = {}
    BY <1>1, <1>2 DEF Queue, Listed
  <2> QED BY <1>1, <1>2, <2>1, FS_EmptySet DEF ListOK, ModuleOK
<1>7. SharedOK
  BY <1>1 DEF SharedOK
<1>8. ASSUME NEW n \in Nodes PROVE refs(n) = node[n].ref
  <2>1. ~placed(n)
    BY <1>1, <1>2 DEF placed
  <2>2. Cardinality({t \in Tasks : op[t].n = n}) = 0
    <3>1. {t \in Tasks : op[t].n = n} = {}
      BY <1>1, <1>2
    <3> QED BY <3>1, FS_EmptySet
  <2>3. node[n].ref = 0
    BY <1>1, <1>2
  <2> QED BY <2>1, <2>2, <2>3 DEF refs
<1> QED BY <1>3, <1>4, <1>5, <1>6, <1>7, <1>8 DEF IInv, RefsExact

\* No step leads out of the invariant.
LEMMA NextOK ==
    ASSUME OneDeleter, IInv, [Next]_vars
    PROVE  IInv'
<1>1. ASSUME NEW t \in Tasks, kvcache_lookup(t) \/ lua_shared_index_alloc(t) \/ Operate(t)
      PROVE  IInv'
  BY <1>1, StepLookup, StepShareAlloc, StepAlloc, StepLink, StepUnlink, StepDrop, StepShareAdd
     DEF Operate
<1>2. ASSUME NEW d \in ObjDicts, kvcache_dict_init(d) \/ kvcache_dict_free(d) PROVE IInv'
  <2>1. d \in Dicts
    BY Names
  <2> QED BY <1>2, <2>1, StepInit, StepFree
<1>3. ASSUME NEW d \in Dicts, Release(d) PROVE IInv'
  BY <1>3, StepDetach, StepFreeUnlink DEF Release
<1>4. ASSUME NEW m \in Modules, lua_lsm_module_register(m) \/ lua_lsm_module_unregister(m)
      PROVE  IInv'
  BY <1>4, StepRegister, StepUnregister
<1>5. ASSUME UNCHANGED <<node, tree, count, dstate, mlist, mcount, shdicts, state, op, gc>>
      PROVE  IInv'
  <2>1. \A m \in Modules : Queue(m)' = Queue(m) /\ ModuleOK(m)'
    BY <1>5 DEF IInv, Queue, ModuleOK
  <2>2. \A u \in Tasks : op[u].pc # "idle" => Entered(u)'
    BY <1>5, Makers DEF OpOK, Entered
  <2>3. state' \in [Modules -> {"LIVE", "GOING", "FREED"}] /\ gc' \in Gc
    BY <1>5 DEF IInv, TypeOK
  <2> QED BY <1>5, <2>1, <2>2, <2>3, GcFrame
<1>6. ASSUME Collect PROVE IInv'
  <2>1. ASSUME NEW d \in ShDicts, kvcache_dict_free(d) PROVE IInv'
    <3>1. d \in Dicts
      BY Names
    <3> QED BY <2>1, <3>1, StepFree
  <2>2. CASE gc_unlock
    BY <1>5, <2>2 DEF gc_unlock
  <2> QED BY <1>6, <2>1, <2>2, StepCollector, StepGcUnlink, StepGcDrop DEF Collect
<1>7. CASE UNCHANGED vars
  BY <1>5, <1>7 DEF vars
<1> QED BY <1>1, <1>2, <1>3, <1>4, <1>6, <1>7 DEF Next

\* The inductive invariant holds for ever, whoever uses, ends and collects.
THEOREM Invariance == ASSUME OneDeleter PROVE Spec => []IInv
<1>1. Init => IInv
  BY InitOK
<1>2. IInv /\ [Next]_vars => IInv'
  BY NextOK
<1> QED BY <1>1, <1>2, PTL DEF Spec

\* What the invariant says of the counters and the lists.
LEMMA ListsFollow == IInv => NodesExact
<1> SUFFICES ASSUME IInv PROVE NodesExact
  OBVIOUS
<1>1. \A d \in Dicts : count[d] = Cardinality(tree[d]) /\ count[d] <= Capacity
  BY DEF IInv, TreeOK
<1>2. ASSUME NEW m \in Modules
      PROVE  /\ mcount[m] = Cardinality(mlist[m])
             /\ gc.m # m => mlist[m] = {n \in UNION {tree[d] : d \in Dicts} :
                                node[n].module = m /\ dstate[node[n].dict] # "unlink"}
  <2>1. mcount[m] = Cardinality(mlist[m])
    BY DEF IInv, ListOK
  <2>2. gc.m # m => mlist[m] = Listed(m)
    BY DEF IInv, ListOK, Queue
  <2>3. Listed(m) = {n \in UNION {tree[d] : d \in Dicts} :
                       node[n].module = m /\ dstate[node[n].dict] # "unlink"}
    <3> DEFINE L == {n \in UNION {tree[d] : d \in Dicts} :
                       node[n].module = m /\ dstate[node[n].dict] # "unlink"}
    <3>1. ASSUME NEW n \in Listed(m) PROVE n \in L
      <4>1. PICK d \in Dicts : n \in tree[d] /\ dstate[d] # "unlink"
        BY DEF Listed
      <4>2. node[n].dict = d /\ node[n].module = m
        BY <4>1, OneTree DEF Listed
      <4> QED BY <4>1, <4>2
    <3>2. ASSUME NEW n \in L PROVE n \in Listed(m)
      <4>1. PICK d \in Dicts : n \in tree[d]
        OBVIOUS
      <4>2. n \in Nodes /\ node[n].dict = d
        BY <4>1, OneTree
      <4> QED BY <4>1, <4>2 DEF Listed
    <3> QED BY <3>1, <3>2
  <2> QED BY <2>1, <2>2, <2>3
<1>3. RefsExact
  BY DEF IInv
<1> QED BY <1>1, <1>2, <1>3 DEF NodesExact, ListsExact

\* The reference counts, the counters, the lists and the trees agree for ever
\* (kvcache_lookup(), kvcache_module_link() and the three ways out of a tree).
THEOREM CountsAgree == ASSUME OneDeleter PROVE Spec => []NodesExact
BY Invariance, ListsFollow, PTL

\* A module that is freed has no entry that could be found.
LEMMA GoneFollows == IInv => ModuleGone
<1> SUFFICES ASSUME IInv, NEW m \in Modules, state[m] = "FREED"
             PROVE  /\ shdicts[m] = {}
                    /\ \A n \in Nodes : node[n].module = m =>
                          dstate[node[n].dict] = "unlink" /\ \A t \in Tasks : op[t].n # n
  BY DEF ModuleGone
<1> USE Names
<1>0. TypeOK /\ RefsExact
  BY DEF IInv
<1>1. shdicts[m] = {} /\ mlist[m] = {}
  BY DEF IInv, ModuleOK
<1>2. ASSUME NEW n \in Nodes, node[n].module = m
      PROVE  dstate[node[n].dict] = "unlink" /\ \A t \in Tasks : op[t].n # n
  <2>1. node[n] # freed /\ node[n].ref \in Nat /\ node[n].ref # 0
    BY <1>0, <1>2, NodeShape
  <2>2. \A t \in Tasks : op[t].n # n
    <3> SUFFICES ASSUME NEW t \in Tasks, op[t].n = n PROVE FALSE
      OBVIOUS
    <3>1. op[t].pc \in Pinning
      BY <1>0, Shape
    <3>2. op[t].pc # "idle" /\ op[t].m = m
      BY <1>2, <3>1, NotCollected DEF Pinning, owner
    <3> QED BY <3>2, Makers DEF OpOK, Entered
  <2>3. Cardinality(Users(n)) = 0
    BY <2>2, SomeUser
  <2>4. placed(n)
    <3>1. node[n].ref = One(placed(n)) + Cardinality(Users(n))
      BY <1>0, RefsAre
    <3> QED BY <2>1, <2>3, <3>1 DEF One
  <2>5. \A x \in Modules : n \notin mlist[x]
    BY <1>1, <1>2 DEF IInv, ListOK
  <2>6. PICK d \in Dicts : n \in tree[d]
    BY <2>2, <2>4, <2>5 DEF placed
  <2> QED BY <1>2, <2>2, <2>5, <2>6, OneTree
<1> QED BY <1>1, <1>2

\* Nothing refers to a module that lua_lsm_module_unregister() freed.
THEOREM FreedIsGone == ASSUME OneDeleter PROVE Spec => []ModuleGone
BY Invariance, GoneFollows, PTL

\* The dictionaries of one name in a module.
LEMMA SharedFollows == IInv => SharedOnce
<1> SUFFICES ASSUME IInv PROVE SharedOnce
  OBVIOUS
<1>1. ASSUME NEW m \in Modules PROVE Cardinality(shdicts[m]) <= 1
  <2>1. \A d, e \in shdicts[m] : d = e
    BY DEF IInv, ModuleOK
  <2>2. CASE shdicts[m] = {}
    <3>1. Cardinality(shdicts[m]) = 0
      BY <2>2, FS_EmptySet
    <3> QED BY <3>1
  <2>3. CASE shdicts[m] # {}
    <3>1. PICK d : shdicts[m] = {d}
      BY <2>1, <2>3
    <3>2. Cardinality(shdicts[m]) = 1
      BY <3>1, FS_Singleton
    <3> QED BY <3>2
  <2> QED BY <2>2, <2>3
<1>2. SharedOK
  BY DEF IInv
<1> QED BY <1>1, <1>2 DEF SharedOnce, SharedOK

\* The states of a module share one dictionary (lua_shared_index()).
THEOREM OneShared == ASSUME OneDeleter PROVE Spec => []SharedOnce
BY Invariance, SharedFollows, PTL

\* The invariant speaks of the count of every tree, the empty ones included.
LEMMA ZeroFollows == IInv => EmptiedCountsZero
<1> SUFFICES ASSUME IInv, NEW d \in Dicts, tree[d] = {} PROVE count[d] = 0
  BY DEF EmptiedCountsZero
<1>1. count[d] = Cardinality(tree[d])
  BY DEF IInv, TreeOK
<1> QED BY <1>1, FS_EmptySet

\* With one deleter the WARN_ON() at the end of kvcache_dict_free() is silent:
\* the two tasks of MCLuaDelete.cfg are what it takes.
THEOREM WarnSilent == ASSUME OneDeleter PROVE Spec => []EmptiedCountsZero
BY Invariance, ZeroFollows, PTL
=============================================================================
