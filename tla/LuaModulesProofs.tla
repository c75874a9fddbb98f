-------------------------- MODULE LuaModulesProofs --------------------------
(***************************************************************************)
(* Proofs about LuaModules, for every number of tasks, CPUs and modules    *)
(* and any number of hooks under way.                                      *)
(***************************************************************************)
EXTENDS LuaModules, FiniteSetTheorems, TLAPS

-----------------------------------------------------------------------------
(* The inductive invariant.                                                *)

Unregisters == {"sync", "tasks", "pcpu", "swapper", "retry", "end"}

HookRec == [pc : {"out", "nhooks", "run", "call", "leave"}, todo : SUBSET Modules,
            cur : Modules \cup {NULL}, res : {"default", "deny"}, must : SUBSET Modules]
AdmRec == [pc : {"idle", "register", "free"} \cup Unregisters, m : Modules \cup {NULL},
           count : Int, nbusy : Int, loop : Int, todo : SUBSET Actors, wait : SUBSET Actors]

\* The types of the variables; a pooled state has no modules.
TypeOK ==
    /\ list \in SUBSET Modules
    /\ state \in [Modules -> {"FREE", "LIVE", "GOING", "ZOMBIE"}]
    /\ nloaded \in [Modules -> Int]
    /\ nhooks \in Int /\ active \in Int
    /\ alive \in [Tasks -> {"no", "yes", "unhashed"}]
    /\ vm \in [Actors -> (SUBSET Modules) \cup {NULL}]
    /\ dirty \in [Tasks -> BOOLEAN]
    /\ pool \in [Cpus -> Seq({{}})]
    /\ hook \in [Actors -> HookRec]
    /\ adm \in AdmRec

\* A state that was never written to has no modules, so that it may be pooled
\* as it is; a task that is not there has no state, one in a hook is alive.
StatesClean ==
    /\ \A t \in Tasks : /\ vm[t] # NULL /\ ~dirty[t] => vm[t] = {}
                        /\ alive[t] = "no" => vm[t] = NULL
                        /\ hook[t].pc # "out" => alive[t] = "yes"
    /\ \A c \in Cpus : vm[c] # NULL

\* Who has module m, for the states v.
Holders(v, m) == {a \in Actors : v[a] # NULL /\ m \in v[a]}

CountersExact == \A m \in Modules :
    nloaded[m] - (IF adm.m = m THEN adm.count ELSE 0) = Cardinality(Holders(vm, m))

LoadedListed == \A a \in Actors : vm[a] # NULL => vm[a] \subseteq list

\* The state of a module, its place on the list and the call that is under way.
StatesMatch ==
    /\ adm.pc = "idle" <=> adm.m = NULL
    /\ adm.pc \in {"idle", "register", "sync", "free"} => adm.count = 0
    /\ adm.pc = "register" => state[adm.m] = "LIVE"
    /\ adm.pc \in Unregisters => state[adm.m] \in {"GOING", "ZOMBIE"} /\ adm.m \in list
    /\ adm.pc = "free" => state[adm.m] \in {"GOING", "ZOMBIE"} /\ adm.m \notin list
    /\ \A c \in Cpus : c \in adm.todo => adm.pc = "pcpu"
    /\ \A m \in Modules : /\ state[m] = "LIVE" => m \in list
                          /\ state[m] = "ZOMBIE" => m \in list \/ adm.m = m
                          /\ state[m] = "GOING" => adm.m = m
                          /\ state[m] = "FREE" => m \notin list

\* A hook that is about to call into a module found it LIVE, and the grace
\* period of unregistering waits for that hook.
CallsCovered == \A a \in Actors :
    /\ hook[a].pc \in {"run", "call"} => vm[a] # NULL
    /\ hook[a].pc = "call" =>
         /\ hook[a].cur \in list
         /\ state[hook[a].cur] # "LIVE" =>
               adm.pc = "sync" /\ adm.m = hook[a].cur /\ a \in adm.wait

\* Behind the static branch and behind the hook's counter.
Branched(st, ad) == {m \in Modules : st[m] = "LIVE" /\ ~(ad.pc = "register" /\ ad.m = m)}
Counted(st) == {m \in Hooking : st[m] = "LIVE"}
GatesExact ==
    /\ active = Cardinality(Branched(state, adm))
    /\ nhooks = Cardinality(Counted(state))

\* The modules a hook must ask are LIVE, and those that deny are still to come,
\* are being called, or have denied.
DenialsAhead == \A a \in Actors :
    LET denying == hook[a].must \cap Denying IN
    /\ \A m \in hook[a].must : m \in Hooking /\ state[m] = "LIVE" /\ adm.m # m
    /\ hook[a].pc = "run" => denying \subseteq hook[a].todo
    /\ hook[a].pc = "call" => denying \subseteq hook[a].todo \cup {hook[a].cur}
    /\ hook[a].pc = "leave" => denying = {} \/ hook[a].res = "deny"

IInv == /\ TypeOK
        /\ StatesClean
        /\ CountersExact
        /\ LoadedListed
        /\ StatesMatch
        /\ CallsCovered
        /\ GatesExact
        /\ DenialsAhead

USE DEF Unregisters

-----------------------------------------------------------------------------
(* Facts that the proofs about the steps share.                            *)

\* Sets of actors and of modules are finite; what adding an element and taking
\* one away does to their cardinality.
LEMMA Finite ==
    ASSUME NEW S, S \subseteq Actors \/ S \subseteq Modules
    PROVE  /\ Cardinality(S) \in Nat
           /\ \A x : x \notin S => Cardinality(S \cup {x}) = Cardinality(S) + 1
           /\ \A x : x \in S => Cardinality(S \ {x}) = Cardinality(S) - 1
           /\ Cardinality(S) = 0 => S = {}
           /\ S = {} => Cardinality(S) = 0
<1>1. IsFiniteSet(Actors)
  BY ModulesAssumption, FS_Union DEF Actors
<1>2. IsFiniteSet(S)
  BY <1>1, FS_Subset, ModulesAssumption
<1> QED BY <1>2, FS_CardinalityType, FS_AddElement, FS_RemoveElement, FS_EmptySet

LEMMA Disjoint ==
    /\ Tasks \subseteq Actors /\ Cpus \subseteq Actors
    /\ \A a \in Actors : a \in Tasks \/ a \in Cpus
    /\ \A t \in Tasks : t \notin Cpus
    /\ Admin \in Tasks /\ NULL \notin Modules /\ Hooking \subseteq Modules
    /\ {} # NULL
BY ModulesAssumption DEF Actors

LEMMA HoldersType ==
    \A v, m : Holders(v, m) \subseteq Actors
BY DEF Holders

\* Only the state of a changes: the modules it had and has say how the number
\* of holders changes.
LEMMA HoldersStep ==
    ASSUME NEW v, NEW w, NEW a \in Actors, NEW m,
           \A b \in Actors : b # a => w[b] = v[b]
    PROVE  LET had == v[a] # NULL /\ m \in v[a]
               has == w[a] # NULL /\ m \in w[a]
               n   == Cardinality(Holders(v, m))
           IN  /\ n \in Nat
               /\ (had <=> has) => Cardinality(Holders(w, m)) = n
               /\ ~had /\ has => Cardinality(Holders(w, m)) = n + 1
               /\ had /\ ~has => Cardinality(Holders(w, m)) = n - 1
<1> DEFINE had == v[a] # NULL /\ m \in v[a]
           has == w[a] # NULL /\ m \in w[a]
<1>1. CASE had <=> has
  <2>1. Holders(w, m) = Holders(v, m)
    BY <1>1 DEF Holders
  <2> QED BY <1>1, <2>1, HoldersType, Finite
<1>2. CASE ~had /\ has
  <2>1. Holders(w, m) = Holders(v, m) \cup {a} /\ a \notin Holders(v, m)
    BY <1>2 DEF Holders
  <2> QED BY <1>2, <2>1, HoldersType, Finite
<1>3. CASE had /\ ~has
  <2>1. Holders(w, m) = Holders(v, m) \ {a} /\ a \in Holders(v, m)
    BY <1>3 DEF Holders
  <2> QED BY <1>3, <2>1, HoldersType, Finite
<1> QED BY <1>1, <1>2, <1>3

\* The same for a state that only lost module n.
LEMMA HoldersLess ==
    ASSUME NEW v, NEW w, NEW a \in Actors, NEW m, NEW n,
           \A b \in Actors : b # a => w[b] = v[b],
           v[a] # NULL, w[a] # NULL, n \in v[a], w[a] = v[a] \ {n}
    PROVE  Cardinality(Holders(w, m)) = Cardinality(Holders(v, m)) - (IF m = n THEN 1 ELSE 0)
<1>1. CASE m = n
  <2>1. Holders(w, m) = Holders(v, m) \ {a} /\ a \in Holders(v, m)
    BY <1>1 DEF Holders
  <2> QED BY <1>1, <2>1, HoldersType, Finite
<1>2. CASE m # n
  <2>1. Holders(w, m) = Holders(v, m)
    BY <1>2 DEF Holders
  <2> QED BY <1>2, <2>1, HoldersType, Finite
<1> QED BY <1>1, <1>2

\* Steps that leave the counted sets alone.
LEMMA GatesFrame ==
    ASSUME GatesExact, UNCHANGED <<state, active, nhooks>>,
           Branched(state, adm') = Branched(state, adm)
    PROVE  GatesExact'
BY DEF GatesExact, Counted

\* What the invariant says of the gates when they are closed.
LEMMA GatesClosed ==
    ASSUME IInv
    PROVE  /\ active = 0 => \A m \in Modules : state[m] = "LIVE" => adm.m = m
           /\ nhooks = 0 => \A m \in Hooking : state[m] # "LIVE"
           /\ active >= 0 /\ nhooks >= 0
<1>1. Branched(state, adm) \subseteq Modules /\ Counted(state) \subseteq Modules
  BY Disjoint DEF Branched, Counted
<1>2. active = 0 => Branched(state, adm) = {}
  BY <1>1, Finite DEF IInv, GatesExact
<1>3. nhooks = 0 => Counted(state) = {}
  BY <1>1, Finite DEF IInv, GatesExact
<1>4. active >= 0 /\ nhooks >= 0
  BY <1>1, Finite DEF IInv, GatesExact
<1> QED BY <1>2, <1>3, <1>4 DEF Branched, Counted

-----------------------------------------------------------------------------
(* Every step keeps the invariant.                                         *)

LEMMA InvInit == Init => IInv
<1> SUFFICES ASSUME Init PROVE IInv
  OBVIOUS
<1> USE ModulesAssumption, Disjoint DEF Init, outside, admidle
<1>1. TypeOK
  BY DEF TypeOK, HookRec, AdmRec
<1>2. StatesClean
  BY DEF StatesClean
<1>3. CountersExact
  <2> SUFFICES ASSUME NEW m \in Modules
               PROVE  Cardinality(Holders(vm, m)) = 0
    BY DEF CountersExact
  <2>1. Holders(vm, m) = {}
    BY DEF Holders
  <2> QED BY <2>1, Finite
<1>4. LoadedListed
  BY DEF LoadedListed
<1>5. StatesMatch
  BY DEF StatesMatch
<1>6. CallsCovered
  BY DEF CallsCovered
<1>7. GatesExact
  <2>1. Branched(state, adm) = {} /\ Counted(state) = {}
    BY DEF Branched, Counted
  <2> QED BY <2>1, Finite DEF GatesExact
<1>8. DenialsAhead
  BY DEF DenialsAhead
<1> QED BY <1>1, <1>2, <1>3, <1>4, <1>5, <1>6, <1>7, <1>8 DEF IInv

LEMMA StepHook ==
    ASSUME IInv, NEW a \in Actors, lua_lsm_hook(a)
    PROVE  IInv'
<1> USE Disjoint DEF lua_lsm_hook, outside, mods
<1>1. TypeOK'
  BY DEF IInv, TypeOK, HookRec
<1>2. StatesClean'
  BY DEF IInv, TypeOK, HookRec, StatesClean
<1>3. CountersExact'
  BY DEF IInv, CountersExact
<1>4. LoadedListed'
  BY DEF IInv, LoadedListed
<1>5. StatesMatch'
  BY DEF IInv, StatesMatch
<1>6. CallsCovered'
  BY DEF IInv, TypeOK, HookRec, CallsCovered
<1>7. GatesExact'
  BY GatesFrame DEF IInv
<1>8. DenialsAhead'
  <2>1. ASSUME active = 0 PROVE hook'[a].must = {}
    BY <2>1, GatesClosed DEF IInv, TypeOK, HookRec
  <2>2. active > 0 \/ active = 0
    BY GatesClosed DEF IInv, TypeOK
  <2> QED BY <2>1, <2>2 DEF IInv, TypeOK, HookRec, DenialsAhead
<1> QED BY <1>1, <1>2, <1>3, <1>4, <1>5, <1>6, <1>7, <1>8 DEF IInv

LEMMA StepGet ==
    ASSUME IInv, NEW a \in Actors, lvm_get(a)
    PROVE  IInv'
<1> USE Disjoint
<1>0. /\ hook[a].pc = "nhooks" /\ hook \in [Actors -> HookRec] /\ hook[a] \in HookRec
      /\ a \in Tasks => alive[a] = "yes"
      /\ vm \in [Actors -> (SUBSET Modules) \cup {NULL}] /\ list \in SUBSET Modules
      /\ pool \in [Cpus -> Seq({{}})]
      /\ UNCHANGED <<mods, nloaded, alive, dirty, adm>>
  BY DEF lvm_get, IInv, TypeOK, StatesClean
\* Either the hook leaves, or it has a state and walks over the list.
<1>h. /\ \A b \in Actors : b # a => hook'[b] = hook[b]
      /\ hook' \in [Actors -> HookRec]
      /\ hook'[a].must = hook[a].must
      /\ \/ hook'[a].pc = "leave" /\ (nhooks = 0 \/ hook'[a].res = "deny")
         \/ hook'[a].pc = "run" /\ hook'[a].todo = list /\ vm'[a] # NULL
  <2>1. CASE nhooks = 0 /\ hook' = [hook EXCEPT ![a].pc = "leave"]
    BY <1>0, <2>1 DEF HookRec
  <2>2. CASE /\ nhooks > 0 /\ vm'[a] # NULL
             /\ hook' = [hook EXCEPT ![a] = [@ EXCEPT !.pc = "run", !.todo = list]]
    BY <1>0, <2>2 DEF HookRec
  <2>3. CASE hook' = [hook EXCEPT ![a] = [@ EXCEPT !.pc = "leave", !.res = "deny"]]
    BY <1>0, <2>3 DEF HookRec
  <2> QED BY <1>0, <2>1, <2>2, <2>3 DEF lvm_get
\* A state that is new to the actor has no modules.
<1> DEFINE Got == /\ \A b \in Actors : b # a => vm'[b] = vm[b]
                  /\ vm'[a] = vm[a] \/ (vm[a] = NULL /\ vm'[a] = {})
                  /\ vm' \in [Actors -> (SUBSET Modules) \cup {NULL}]
                  /\ pool' \in [Cpus -> Seq({{}})]
<1>v. Got
  <2>1. CASE UNCHANGED <<vm, pool>>
    BY <1>0, <2>1
  <2>2. ASSUME NEW c \in Cpus, vm[a] = NULL, pool[c] # <<>>,
               vm' = [vm EXCEPT ![a] = Head(pool[c])],
               pool' = [pool EXCEPT ![c] = Tail(@)]
        PROVE  Got
    <3>1. Head(pool[c]) \in {{}} /\ Tail(pool[c]) \in Seq({{}})
      BY <1>0, <2>2
    <3> QED BY <1>0, <2>2, <3>1
  <2>3. CASE vm[a] = NULL /\ vm' = [vm EXCEPT ![a] = {}] /\ UNCHANGED pool
    BY <1>0, <2>3
  <2> QED BY <2>1, <2>2, <2>3 DEF lvm_get
<1>1. TypeOK'
  BY <1>0, <1>h, <1>v DEF IInv, TypeOK, mods
<1>2. StatesClean'
  BY <1>0, <1>h, <1>v DEF IInv, StatesClean
<1>3. CountersExact'
  <2> SUFFICES ASSUME NEW m \in Modules
               PROVE  Cardinality(Holders(vm', m)) = Cardinality(Holders(vm, m))
    BY <1>0 DEF IInv, CountersExact
  <2>1. (vm'[a] # NULL /\ m \in vm'[a]) <=> (vm[a] # NULL /\ m \in vm[a])
    BY <1>v
  <2>2. \A b \in Actors : b # a => vm'[b] = vm[b]
    BY <1>v
  <2> QED BY <2>1, <2>2, HoldersStep
<1>4. LoadedListed'
  BY <1>0, <1>v DEF IInv, LoadedListed, mods
<1>5. StatesMatch'
  BY <1>0 DEF IInv, StatesMatch, mods
<1>6. CallsCovered'
  BY <1>0, <1>h, <1>v DEF IInv, CallsCovered, mods
<1>7. GatesExact'
  BY <1>0, GatesFrame DEF IInv, mods
<1>8. DenialsAhead'
  <2>1. \A m \in hook[a].must : m \in Hooking /\ state[m] = "LIVE" /\ adm.m # m
    BY DEF IInv, DenialsAhead
  <2>2. nhooks = 0 => hook[a].must = {}
    BY <2>1, GatesClosed
  <2>3. hook[a].must \subseteq list
    BY <2>1 DEF IInv, StatesMatch
  <2> QED BY <1>0, <1>h, <2>1, <2>2, <2>3 DEF IInv, DenialsAhead, mods
<1> QED BY <1>1, <1>2, <1>3, <1>4, <1>5, <1>6, <1>7, <1>8 DEF IInv

LEMMA StepNext ==
    ASSUME IInv, NEW a \in Actors, next_module(a)
    PROVE  IInv'
<1> USE Disjoint
<1>0. /\ hook[a].pc = "run" /\ hook \in [Actors -> HookRec] /\ hook[a] \in HookRec
      /\ a \in Tasks => alive[a] = "yes"
      /\ UNCHANGED <<mods, nloaded, alive, vm, dirty, pool, adm>>
  BY DEF next_module, IInv, TypeOK, StatesClean
\* The module taken from the list is called only when the hook must ask it or
\* may, and passed over when it is not LIVE.
<1> DEFINE Walks ==
        /\ \A b \in Actors : b # a => hook'[b] = hook[b]
        /\ hook' \in [Actors -> HookRec]
        /\ hook'[a].must = hook[a].must
        /\ \/ hook'[a].pc = "leave" /\ hook[a].todo = {}
           \/ \E m \in Modules :
                /\ hook'[a].todo = hook[a].todo \ {m}
                /\ \/ /\ hook'[a].pc = "call" /\ hook'[a].cur = m
                      /\ m \in Hooking /\ state[m] = "LIVE"
                   \/ hook'[a].pc = "run" /\ ~(m \in Hooking /\ state[m] = "LIVE")
<1>h. Walks
  <2>1. CASE hook[a].todo = {} /\ hook' = [hook EXCEPT ![a].pc = "leave"]
    BY <1>0, <2>1 DEF HookRec
  <2>2. ASSUME NEW m \in hook[a].todo, m \in Hooking, state[m] = "LIVE",
               hook' = [hook EXCEPT ![a] = [@ EXCEPT !.todo = hook[a].todo \ {m}, !.pc = "call",
                                                     !.cur = m]]
        PROVE  Walks
    <3> DEFINE h == [hook[a] EXCEPT !.todo = @ \ {m}, !.pc = "call", !.cur = m]
    <3>1. m \in Modules
      BY <1>0 DEF HookRec
    <3>2. h \in HookRec /\ h.todo = hook[a].todo \ {m} /\ h.pc = "call" /\ h.cur = m
          /\ h.must = hook[a].must
      BY <1>0, <3>1 DEF HookRec
    <3>3. hook' = [hook EXCEPT ![a] = h]
      BY <2>2
    <3> HIDE DEF h
    <3> QED BY <1>0, <2>2, <3>1, <3>2, <3>3
  <2>3. ASSUME NEW m \in hook[a].todo, ~(m \in Hooking /\ state[m] = "LIVE"),
               hook' = [hook EXCEPT ![a] = [@ EXCEPT !.todo = hook[a].todo \ {m}, !.pc = "run",
                                                     !.cur = NULL]]
        PROVE  Walks
    <3> DEFINE h == [hook[a] EXCEPT !.todo = @ \ {m}, !.pc = "run", !.cur = NULL]
    <3>1. m \in Modules
      BY <1>0 DEF HookRec
    <3>2. h \in HookRec /\ h.todo = hook[a].todo \ {m} /\ h.pc = "run"
          /\ h.must = hook[a].must
      BY <1>0, <3>1 DEF HookRec
    <3>3. hook' = [hook EXCEPT ![a] = h]
      BY <2>3
    <3> HIDE DEF h
    <3> QED BY <1>0, <2>3, <3>1, <3>2, <3>3
  <2>4. CASE hook[a].todo = {}
    BY <2>1, <2>4 DEF next_module
  <2>5. CASE hook[a].todo # {}
    <3>1. PICK m \in hook[a].todo :
             hook' = [hook EXCEPT ![a] =
                 [@ EXCEPT !.todo = hook[a].todo \ {m},
                           !.pc = IF m \in Hooking /\ state[m] = "LIVE" THEN "call" ELSE "run",
                           !.cur = IF m \in Hooking /\ state[m] = "LIVE" THEN m ELSE NULL]]
      BY <2>5 DEF next_module
    <3>2. CASE m \in Hooking /\ state[m] = "LIVE"
      BY <2>2, <3>1, <3>2
    <3>3. CASE ~(m \in Hooking /\ state[m] = "LIVE")
      BY <2>3, <3>1, <3>3
    <3> QED BY <3>2, <3>3
  <2> QED BY <2>4, <2>5
<1>1. TypeOK'
  BY <1>0, <1>h DEF IInv, TypeOK, mods
<1>2. StatesClean'
  BY <1>0, <1>h DEF IInv, StatesClean
<1>3. CountersExact'
  BY <1>0 DEF IInv, CountersExact
<1>4. LoadedListed'
  BY <1>0 DEF IInv, LoadedListed, mods
<1>5. StatesMatch'
  BY <1>0 DEF IInv, StatesMatch, mods
<1>6. CallsCovered'
  <2>1. \A m \in Modules : state[m] = "LIVE" => m \in list
    BY DEF IInv, StatesMatch
  <2> QED BY <1>0, <1>h, <2>1 DEF IInv, CallsCovered, mods
<1>7. GatesExact'
  BY <1>0, GatesFrame DEF IInv, mods
<1>8. DenialsAhead'
  BY <1>0, <1>h DEF IInv, DenialsAhead, mods
<1> QED BY <1>1, <1>2, <1>3, <1>4, <1>5, <1>6, <1>7, <1>8 DEF IInv

\* What the end of a call leaves of the hook.
LEMMA AnswerType ==
    ASSUME NEW h \in HookRec, NEW m
    PROVE  /\ answer(h, m) \in HookRec
           /\ answer(h, m).must = h.must /\ answer(h, m).todo = h.todo
           /\ \/ answer(h, m).pc = "leave" /\ answer(h, m).res = "deny"
              \/ answer(h, m).pc = "run" /\ m \notin Denying
BY DEF answer, HookRec

LEMMA StepIndex ==
    ASSUME IInv, NEW a \in Actors, lua_modules_index(a)
    PROVE  IInv'
<1> USE Disjoint
<1> DEFINE m == hook[a].cur
<1>0. /\ hook[a].pc = "call" /\ hook \in [Actors -> HookRec] /\ hook[a] \in HookRec
      /\ m \in Modules /\ m \in list /\ vm[a] # NULL /\ m \notin vm[a]
      /\ a \in Tasks => alive[a] = "yes"
      /\ vm \in [Actors -> (SUBSET Modules) \cup {NULL}] /\ nloaded \in [Modules -> Int]
      /\ dirty' = [t \in Tasks |-> dirty[t] \/ t = a]
      /\ UNCHANGED <<mods, alive, pool, adm>>
  BY DEF lua_modules_index, IInv, TypeOK, StatesClean, CallsCovered
\* The call ends; a module that cannot be loaded is no longer to be asked.
<1>h. /\ \A b \in Actors : b # a => hook'[b] = hook[b]
      /\ hook' \in [Actors -> HookRec]
      /\ hook'[a].todo = hook[a].todo
      /\ \/ hook'[a].pc = "leave" /\ hook'[a].res = "deny" /\ hook'[a].must = hook[a].must
         \/ /\ hook'[a].pc = "run"
            /\ \/ hook'[a].must = hook[a].must /\ m \notin Denying
               \/ hook'[a].must = hook[a].must \ {m}
  <2>1. CASE hook' = [hook EXCEPT ![a] = answer(@, m)]
    BY <1>0, <2>1, AnswerType
  <2>2. CASE hook' = [hook EXCEPT ![a] = [@ EXCEPT !.pc = "run", !.cur = NULL,
                                                   !.must = hook[a].must \ {m}]]
    <3> DEFINE h == [hook[a] EXCEPT !.pc = "run", !.cur = NULL, !.must = @ \ {m}]
    <3>1. h \in HookRec /\ h.todo = hook[a].todo /\ h.pc = "run"
          /\ h.must = hook[a].must \ {m}
      BY <1>0 DEF HookRec
    <3>2. hook' = [hook EXCEPT ![a] = h]
      BY <2>2
    <3> HIDE DEF h
    <3> QED BY <1>0, <3>1, <3>2
  <2> QED BY <2>1, <2>2 DEF lua_modules_index
<1>v. \/ /\ vm' = [vm EXCEPT ![a] = @ \cup {m}]
         /\ nloaded' = [nloaded EXCEPT ![m] = @ + 1]
      \/ UNCHANGED <<vm, nloaded>>
  BY DEF lua_modules_index
<1>w. /\ \A b \in Actors : b # a => vm'[b] = vm[b]
      /\ vm'[a] # NULL /\ vm'[a] \subseteq vm[a] \cup {m}
      /\ vm' \in [Actors -> (SUBSET Modules) \cup {NULL}]
      /\ nloaded' \in [Modules -> Int]
  <2>1. vm[a] \cup {m} \in SUBSET Modules /\ vm[a] \cup {m} # NULL
    BY <1>0, ModulesAssumption
  <2> QED BY <1>0, <1>v, <2>1
<1>d. /\ dirty' \in [Tasks -> BOOLEAN]
      /\ \A t \in Tasks : t # a => dirty'[t] = dirty[t]
      /\ a \in Tasks => dirty'[a]
  BY <1>0 DEF IInv, TypeOK
<1>1. TypeOK'
  BY <1>0, <1>h, <1>w, <1>d DEF IInv, TypeOK, mods
<1>2. StatesClean'
  BY <1>0, <1>h, <1>w, <1>d DEF IInv, StatesClean
<1>3. CountersExact'
  <2> SUFFICES ASSUME NEW n \in Modules
               PROVE  nloaded'[n] - (IF adm.m = n THEN adm.count ELSE 0)
                         = Cardinality(Holders(vm', n))
    BY <1>0 DEF CountersExact
  <2>0. /\ nloaded[n] - (IF adm.m = n THEN adm.count ELSE 0) = Cardinality(Holders(vm, n))
        /\ adm.count \in Int
    BY DEF IInv, CountersExact, TypeOK, AdmRec
  <2>1. CASE UNCHANGED <<vm, nloaded>>
    BY <2>0, <2>1
  <2>2. CASE /\ vm' = [vm EXCEPT ![a] = @ \cup {m}]
             /\ nloaded' = [nloaded EXCEPT ![m] = @ + 1]
    <3>1. vm'[a] = vm[a] \cup {m}
      BY <1>0, <2>2
    <3>2. CASE n = m
      <4>1. nloaded'[n] = nloaded[n] + 1
        BY <1>0, <2>2, <3>2
      <4>2. Cardinality(Holders(vm', n)) = Cardinality(Holders(vm, n)) + 1
        BY <1>0, <1>w, <3>1, <3>2, HoldersStep
      <4> QED BY <1>0, <2>0, <4>1, <4>2
    <3>3. CASE n # m
      <4>1. nloaded'[n] = nloaded[n]
        BY <1>0, <2>2, <3>3
      <4>2. Cardinality(Holders(vm', n)) = Cardinality(Holders(vm, n))
        BY <1>0, <1>w, <3>1, <3>3, HoldersStep
      <4> QED BY <2>0, <4>1, <4>2
    <3> QED BY <3>2, <3>3
  <2> QED BY <1>v, <2>1, <2>2
<1>4. LoadedListed'
  BY <1>0, <1>w DEF IInv, LoadedListed, mods
<1>5. StatesMatch'
  BY <1>0 DEF IInv, StatesMatch, mods
<1>6. CallsCovered'
  BY <1>0, <1>h, <1>w DEF IInv, CallsCovered, mods
<1>7. GatesExact'
  BY <1>0, GatesFrame DEF IInv, mods
<1>8. DenialsAhead'
  BY <1>0, <1>h DEF IInv, DenialsAhead, mods
<1> QED BY <1>1, <1>2, <1>3, <1>4, <1>5, <1>6, <1>7, <1>8 DEF IInv

LEMMA StepPcall ==
    ASSUME IInv, NEW a \in Actors, lua_pcall(a)
    PROVE  IInv'
<1> USE Disjoint
<1>0. /\ hook[a].pc = "call" /\ hook \in [Actors -> HookRec] /\ hook[a] \in HookRec
      /\ vm[a] # NULL /\ (a \in Tasks => alive[a] = "yes")
      /\ hook' = [hook EXCEPT ![a] = answer(@, @.cur)]
      /\ UNCHANGED <<mods, nloaded, alive, vm, dirty, pool, adm>>
  BY DEF lua_pcall, IInv, TypeOK, StatesClean, CallsCovered
<1>h. /\ \A b \in Actors : b # a => hook'[b] = hook[b]
      /\ hook' \in [Actors -> HookRec]
      /\ hook'[a].must = hook[a].must /\ hook'[a].todo = hook[a].todo
      /\ \/ hook'[a].pc = "leave" /\ hook'[a].res = "deny"
         \/ hook'[a].pc = "run" /\ hook[a].cur \notin Denying
  BY <1>0, AnswerType
<1>1. TypeOK'
  BY <1>0, <1>h DEF IInv, TypeOK, mods
<1>2. StatesClean'
  BY <1>0, <1>h DEF IInv, StatesClean
<1>3. CountersExact'
  BY <1>0 DEF IInv, CountersExact
<1>4. LoadedListed'
  BY <1>0 DEF IInv, LoadedListed, mods
<1>5. StatesMatch'
  BY <1>0 DEF IInv, StatesMatch, mods
<1>6. CallsCovered'
  BY <1>0, <1>h DEF IInv, CallsCovered, mods
<1>7. GatesExact'
  BY <1>0, GatesFrame DEF IInv, mods
<1>8. DenialsAhead'
  BY <1>0, <1>h DEF IInv, DenialsAhead, mods
<1> QED BY <1>1, <1>2, <1>3, <1>4, <1>5, <1>6, <1>7, <1>8 DEF IInv

LEMMA StepPut ==
    ASSUME IInv, NEW a \in Actors, lvm_put(a)
    PROVE  IInv'
<1> USE Disjoint
<1>0. /\ hook[a].pc = "leave" /\ hook \in [Actors -> HookRec] /\ adm \in AdmRec
      /\ hook' = [hook EXCEPT ![a] = outside]
      /\ adm' = [adm EXCEPT !.wait = @ \ {a}]
      /\ UNCHANGED <<mods, nloaded, alive, vm, dirty, pool>>
  BY DEF lvm_put, IInv, TypeOK
<1>h. /\ \A b \in Actors : b # a => hook'[b] = hook[b]
      /\ hook' \in [Actors -> HookRec]
      /\ hook'[a].pc = "out" /\ hook'[a].must = {}
  BY <1>0 DEF outside, HookRec
<1>a. /\ adm' \in AdmRec /\ adm'.pc = adm.pc /\ adm'.m = adm.m /\ adm'.count = adm.count
      /\ adm'.wait = adm.wait \ {a}
  BY <1>0 DEF AdmRec
<1>1. TypeOK'
  BY <1>0, <1>h, <1>a DEF IInv, TypeOK, mods
<1>2. StatesClean'
  BY <1>0, <1>h DEF IInv, StatesClean
<1>3. CountersExact'
  BY <1>0, <1>a DEF IInv, CountersExact
<1>4. LoadedListed'
  BY <1>0 DEF IInv, LoadedListed, mods
<1>5. StatesMatch'
  BY <1>0, <1>a DEF IInv, StatesMatch, mods
<1>6. CallsCovered'
  BY <1>0, <1>h, <1>a DEF IInv, CallsCovered, mods
<1>7. GatesExact'
  BY <1>0, <1>a, GatesFrame DEF IInv, mods, Branched
<1>8. DenialsAhead'
  BY <1>0, <1>h, <1>a DEF IInv, DenialsAhead, mods
<1> QED BY <1>1, <1>2, <1>3, <1>4, <1>5, <1>6, <1>7, <1>8 DEF IInv

LEMMA StepBlobInit ==
    ASSUME IInv, NEW t \in Tasks, task_blob_init(t)
    PROVE  IInv'
<1> USE Disjoint
<1>0. /\ alive[t] = "no" /\ vm[t] = NULL
      /\ alive \in [Tasks -> {"no", "yes", "unhashed"}] /\ dirty \in [Tasks -> BOOLEAN]
      /\ vm \in [Actors -> (SUBSET Modules) \cup {NULL}]
      /\ alive' = [alive EXCEPT ![t] = "yes"] /\ vm' = [vm EXCEPT ![t] = NULL]
      /\ dirty' = [dirty EXCEPT ![t] = FALSE]
      /\ UNCHANGED <<mods, nloaded, pool, hook, adm>>
  BY DEF task_blob_init, IInv, TypeOK, StatesClean
<1>v. vm' = vm
  BY <1>0
<1>1. TypeOK'
  BY <1>0, <1>v DEF IInv, TypeOK, mods
<1>2. StatesClean'
  <2>1. \A u \in Tasks : u # t => dirty'[u] = dirty[u]
    BY <1>0
  <2> QED BY <1>0, <1>v, <2>1 DEF IInv, StatesClean
<1>3. CountersExact'
  BY <1>0, <1>v DEF IInv, CountersExact
<1>4. LoadedListed'
  BY <1>0, <1>v DEF IInv, LoadedListed, mods
<1>5. StatesMatch'
  BY <1>0 DEF IInv, StatesMatch, mods
<1>6. CallsCovered'
  BY <1>0, <1>v DEF IInv, CallsCovered, mods
<1>7. GatesExact'
  BY <1>0, GatesFrame DEF IInv, mods
<1>8. DenialsAhead'
  BY <1>0 DEF IInv, DenialsAhead, mods
<1> QED BY <1>1, <1>2, <1>3, <1>4, <1>5, <1>6, <1>7, <1>8 DEF IInv

LEMMA StepRelease ==
    ASSUME IInv, NEW t \in Tasks, release_task(t)
    PROVE  IInv'
<1> USE Disjoint DEF release_task
<1>1. TypeOK'
  BY DEF IInv, TypeOK, mods
<1>2. StatesClean'
  BY DEF IInv, TypeOK, StatesClean
<1>3. CountersExact'
  BY DEF IInv, CountersExact
<1>4. LoadedListed'
  BY DEF IInv, LoadedListed, mods
<1>5. StatesMatch'
  BY DEF IInv, StatesMatch, mods
<1>6. CallsCovered'
  BY DEF IInv, CallsCovered, mods
<1>7. GatesExact'
  BY GatesFrame DEF IInv, mods
<1>8. DenialsAhead'
  BY DEF IInv, DenialsAhead, mods
<1> QED BY <1>1, <1>2, <1>3, <1>4, <1>5, <1>6, <1>7, <1>8 DEF IInv

\* Only a state without modules goes back to a pool.
LEMMA PoolPut ==
    ASSUME pool \in [Cpus -> Seq({{}})], lvm_pool_put({})
    PROVE  pool' \in [Cpus -> Seq({{}})]
<1>1. PICK c \in Cpus :
         pool' = [pool EXCEPT ![c] = IF Len(@) < PoolMax THEN <<{}>> \o @ ELSE @]
  BY DEF lvm_pool_put
<1>2. <<{}>> \o pool[c] \in Seq({{}})
  OBVIOUS
<1> QED BY <1>1, <1>2

LEMMA StepBlobFree ==
    ASSUME IInv, NEW t \in Tasks, task_blob_free(t)
    PROVE  IInv'
<1> USE Disjoint
<1>0. /\ alive[t] = "unhashed" /\ hook[t].pc = "out"
      /\ alive \in [Tasks -> {"no", "yes", "unhashed"}] /\ dirty \in [Tasks -> BOOLEAN]
      /\ vm \in [Actors -> (SUBSET Modules) \cup {NULL}] /\ nloaded \in [Modules -> Int]
      /\ pool \in [Cpus -> Seq({{}})]
      /\ vm[t] # NULL => vm[t] \subseteq list
      /\ alive' = [alive EXCEPT ![t] = "no"] /\ vm' = [vm EXCEPT ![t] = NULL]
      /\ UNCHANGED <<mods, hook, adm>>
  BY DEF task_blob_free, IInv, TypeOK, StatesClean, LoadedListed
<1>v. /\ \A b \in Actors : b # t => vm'[b] = vm[b]
      /\ vm'[t] = NULL /\ vm' \in [Actors -> (SUBSET Modules) \cup {NULL}]
  BY <1>0
<1>d. dirty' \in [Tasks -> BOOLEAN] /\ \A u \in Tasks : u # t => dirty'[u] = dirty[u]
  <2>1. UNCHANGED dirty \/ dirty' = [dirty EXCEPT ![t] = FALSE]
    BY DEF task_blob_free
  <2> QED BY <1>0, <2>1
\* The counters lose what the state had; the pool gets a clean one.
<1>n. /\ nloaded' \in [Modules -> Int]
      /\ \A m \in Modules :
           nloaded'[m] = nloaded[m] - (IF vm[t] # NULL /\ m \in vm[t] THEN 1 ELSE 0)
      /\ pool' \in [Cpus -> Seq({{}})]
  <2>1. CASE vm[t] = NULL
    <3>1. UNCHANGED <<pool, nloaded>>
      BY <2>1 DEF task_blob_free
    <3> QED BY <1>0, <2>1, <3>1
  <2>2. CASE vm[t] # NULL /\ dirty[t]
    <3>1. /\ nloaded' = [m \in Modules |-> nloaded[m] - (IF m \in list \cap vm[t] THEN 1 ELSE 0)]
          /\ lvm_pool_put({})
      BY <2>2 DEF task_blob_free
    <3>2. pool' \in [Cpus -> Seq({{}})]
      BY <1>0, <3>1, PoolPut
    <3> QED BY <1>0, <2>2, <3>1, <3>2
  <2>3. CASE vm[t] # NULL /\ ~dirty[t]
    <3>1. vm[t] = {}
      BY <2>3 DEF IInv, StatesClean
    <3>2. UNCHANGED nloaded /\ lvm_pool_put({})
      BY <2>3, <3>1 DEF task_blob_free
    <3>3. pool' \in [Cpus -> Seq({{}})]
      BY <1>0, <3>2, PoolPut
    <3> QED BY <1>0, <3>1, <3>2, <3>3
  <2> QED BY <2>1, <2>2, <2>3
<1>1. TypeOK'
  BY <1>0, <1>v, <1>d, <1>n DEF IInv, TypeOK, mods
<1>2. StatesClean'
  BY <1>0, <1>v, <1>d DEF IInv, StatesClean
<1>3. CountersExact'
  <2> SUFFICES ASSUME NEW m \in Modules
               PROVE  nloaded'[m] - (IF adm.m = m THEN adm.count ELSE 0)
                         = Cardinality(Holders(vm', m))
    BY <1>0 DEF CountersExact
  <2>0. /\ nloaded[m] - (IF adm.m = m THEN adm.count ELSE 0) = Cardinality(Holders(vm, m))
        /\ adm.count \in Int /\ nloaded[m] \in Int
    BY DEF IInv, CountersExact, TypeOK, AdmRec
  <2>1. CASE vm[t] # NULL /\ m \in vm[t]
    <3>1. Cardinality(Holders(vm', m)) = Cardinality(Holders(vm, m)) - 1
      BY <1>v, <2>1, HoldersStep
    <3> QED BY <1>n, <2>0, <2>1, <3>1
  <2>2. CASE ~(vm[t] # NULL /\ m \in vm[t])
    <3>1. Cardinality(Holders(vm', m)) = Cardinality(Holders(vm, m))
      BY <1>v, <2>2, HoldersStep
    <3> QED BY <1>n, <2>0, <2>2, <3>1
  <2> QED BY <2>1, <2>2
<1>4. LoadedListed'
  BY <1>0, <1>v DEF IInv, LoadedListed, mods
<1>5. StatesMatch'
  BY <1>0 DEF IInv, StatesMatch, mods
<1>6. CallsCovered'
  BY <1>0, <1>v DEF IInv, CallsCovered, mods
<1>7. GatesExact'
  BY <1>0, GatesFrame DEF IInv, mods
<1>8. DenialsAhead'
  BY <1>0 DEF IInv, DenialsAhead, mods
<1> QED BY <1>1, <1>2, <1>3, <1>4, <1>5, <1>6, <1>7, <1>8 DEF IInv

LEMMA StepRegister ==
    ASSUME IInv, NEW m \in Modules, lua_lsm_module_register(m)
    PROVE  IInv'
<1> USE Disjoint
<1>0. /\ adm.pc = "idle" /\ adm.m = NULL /\ adm.count = 0 /\ m \notin list
      /\ state[m] = "FREE"
      /\ state \in [Modules -> {"FREE", "LIVE", "GOING", "ZOMBIE"}]
      /\ nhooks \in Int /\ list \in SUBSET Modules
      /\ nhooks' = nhooks + (IF m \in Hooking THEN 1 ELSE 0)
      /\ state' = [state EXCEPT ![m] = "LIVE"]
      /\ list' = list \cup {m}
      /\ UNCHANGED <<nloaded, active, alive, vm, dirty, pool, hook>>
  BY DEF lua_lsm_module_register, IInv, TypeOK, StatesMatch
<1>a. /\ adm' \in AdmRec /\ adm'.pc = "register" /\ adm'.m = m /\ adm'.count = 0
      /\ adm'.todo = {}
  <2>1. adm' = [pc |-> "register", m |-> m, count |-> 0, nbusy |-> 0, loop |-> 0,
                todo |-> {}, wait |-> {}]
    BY DEF lua_lsm_module_register, admidle
  <2> QED BY <2>1 DEF AdmRec
<1>s. /\ state'[m] = "LIVE" /\ \A n \in Modules : n # m => state'[n] = state[n]
      /\ state' \in [Modules -> {"FREE", "LIVE", "GOING", "ZOMBIE"}]
  BY <1>0
<1>1. TypeOK'
  BY <1>0, <1>a, <1>s DEF IInv, TypeOK
<1>2. StatesClean'
  BY <1>0 DEF IInv, StatesClean
<1>3. CountersExact'
  BY <1>0, <1>a DEF IInv, CountersExact
<1>4. LoadedListed'
  BY <1>0 DEF IInv, LoadedListed
<1>5. StatesMatch'
  BY <1>0, <1>a, <1>s DEF IInv, StatesMatch
<1>6. CallsCovered'
  <2>1. \A a \in Actors : hook[a].pc = "call" =>
            hook[a].cur \in list /\ hook[a].cur # m /\ state[hook[a].cur] = "LIVE"
    BY <1>0 DEF IInv, CallsCovered
  <2> QED BY <1>0, <1>s, <2>1 DEF IInv, CallsCovered
<1>7. GatesExact'
  <2>1. Branched(state', adm') = Branched(state, adm)
    BY <1>0, <1>a, <1>s DEF Branched
  <2>2. CASE m \in Hooking
    <3>1. Counted(state') = Counted(state) \cup {m} /\ m \notin Counted(state)
      BY <1>0, <1>s, <2>2 DEF Counted
    <3>2. Counted(state) \subseteq Modules
      BY DEF Counted
    <3>3. Cardinality(Counted(state')) = Cardinality(Counted(state)) + 1
      BY <3>1, <3>2, Finite
    <3> QED BY <1>0, <2>1, <2>2, <3>3 DEF IInv, GatesExact
  <2>3. CASE m \notin Hooking
    <3>1. Counted(state') = Counted(state)
      BY <1>0, <1>s, <2>3 DEF Counted
    <3> QED BY <1>0, <2>1, <2>3, <3>1 DEF IInv, GatesExact
  <2> QED BY <2>2, <2>3
<1>8. DenialsAhead'
  BY <1>0, <1>a, <1>s DEF IInv, DenialsAhead
<1> QED BY <1>1, <1>2, <1>3, <1>4, <1>5, <1>6, <1>7, <1>8 DEF IInv

LEMMA StepBranch ==
    ASSUME IInv, static_branch_inc
    PROVE  IInv'
<1> USE Disjoint
<1>0. /\ adm.pc = "register" /\ adm.m \in Modules /\ state[adm.m] = "LIVE"
      /\ adm.count = 0 /\ active \in Int /\ active' = active + 1
      /\ UNCHANGED <<list, state, nhooks, nloaded, alive, vm, dirty, pool, hook>>
  BY DEF static_branch_inc, IInv, TypeOK, AdmRec, StatesMatch
<1>a. adm' \in AdmRec /\ adm'.pc = "idle" /\ adm'.m = NULL /\ adm'.count = 0 /\ adm'.todo = {}
  BY DEF static_branch_inc, admidle, AdmRec
<1>1. TypeOK'
  BY <1>0, <1>a DEF IInv, TypeOK
<1>2. StatesClean'
  BY <1>0 DEF IInv, StatesClean
<1>3. CountersExact'
  BY <1>0, <1>a DEF IInv, CountersExact
<1>4. LoadedListed'
  BY <1>0 DEF IInv, LoadedListed
<1>5. StatesMatch'
  BY <1>0, <1>a DEF IInv, StatesMatch
<1>6. CallsCovered'
  BY <1>0 DEF IInv, CallsCovered
<1>7. GatesExact'
  <2>1. Branched(state', adm') = Branched(state, adm) \cup {adm.m}
        /\ adm.m \notin Branched(state, adm)
    BY <1>0, <1>a DEF Branched
  <2>2. Branched(state, adm) \subseteq Modules
    BY DEF Branched
  <2>3. Cardinality(Branched(state', adm')) = Cardinality(Branched(state, adm)) + 1
    BY <2>1, <2>2, Finite
  <2> QED BY <1>0, <2>3 DEF IInv, GatesExact
<1>8. DenialsAhead'
  BY <1>0, <1>a DEF IInv, DenialsAhead
<1> QED BY <1>1, <1>2, <1>3, <1>4, <1>5, <1>6, <1>7, <1>8 DEF IInv

LEMMA StepUnregister ==
    ASSUME IInv, NEW m \in Modules, lua_lsm_module_unregister(m)
    PROVE  IInv'
<1> USE Disjoint
<1>0. /\ adm.pc = "idle" /\ adm.m = NULL /\ adm.count = 0 /\ m \in list
      /\ state[m] \in {"LIVE", "ZOMBIE"}
      /\ state \in [Modules -> {"FREE", "LIVE", "GOING", "ZOMBIE"}]
      /\ nhooks \in Int /\ active \in Int /\ hook \in [Actors -> HookRec]
      /\ hook' = [a \in Actors |-> [hook[a] EXCEPT !.must = @ \ {m}]]
      /\ UNCHANGED <<list, nloaded, alive, vm, dirty, pool>>
  BY DEF lua_lsm_module_unregister, IInv, TypeOK, StatesMatch
<1>a. /\ adm' \in AdmRec /\ adm'.pc = "sync" /\ adm'.m = m /\ adm'.count = 0
      /\ adm'.wait = inHook /\ adm'.todo = {}
  <2>1. adm' = [pc |-> "sync", m |-> m, count |-> 0, nbusy |-> 0, loop |-> 0,
                todo |-> {}, wait |-> inHook]
    BY DEF lua_lsm_module_unregister, admidle
  <2>2. inHook \subseteq Actors
    BY DEF inHook
  <2> QED BY <2>1, <2>2 DEF AdmRec
<1>s. /\ state'[m] \in {"GOING", "ZOMBIE"} /\ \A n \in Modules : n # m => state'[n] = state[n]
      /\ state' \in [Modules -> {"FREE", "LIVE", "GOING", "ZOMBIE"}]
      /\ \/ /\ state[m] = "LIVE" /\ active' = active - 1
            /\ nhooks' = nhooks - (IF m \in Hooking THEN 1 ELSE 0)
         \/ state[m] # "LIVE" /\ UNCHANGED <<active, nhooks>>
  BY <1>0 DEF lua_lsm_module_unregister
<1>h. /\ hook' \in [Actors -> HookRec]
      /\ \A a \in Actors : /\ hook'[a].pc = hook[a].pc /\ hook'[a].todo = hook[a].todo
                           /\ hook'[a].cur = hook[a].cur /\ hook'[a].res = hook[a].res
                           /\ hook'[a].must = hook[a].must \ {m}
  <2>1. ASSUME NEW a \in Actors
        PROVE  /\ hook'[a] \in HookRec
               /\ hook'[a].pc = hook[a].pc /\ hook'[a].todo = hook[a].todo
               /\ hook'[a].cur = hook[a].cur /\ hook'[a].res = hook[a].res
               /\ hook'[a].must = hook[a].must \ {m}
    <3>1. hook'[a] = [hook[a] EXCEPT !.must = @ \ {m}] /\ hook[a] \in HookRec
      BY <1>0
    <3> HIDE <1>0
    <3> QED BY <3>1 DEF HookRec
  <2>2. hook' = [a \in Actors |-> hook'[a]]
    BY <1>0
  <2> QED BY <2>1, <2>2
<1>1. TypeOK'
  BY <1>0, <1>a, <1>s, <1>h DEF IInv, TypeOK
<1>2. StatesClean'
  BY <1>0, <1>h DEF IInv, StatesClean
<1>3. CountersExact'
  BY <1>0, <1>a DEF IInv, CountersExact
<1>4. LoadedListed'
  BY <1>0 DEF IInv, LoadedListed
<1>5. StatesMatch'
  BY <1>0, <1>a, <1>s DEF IInv, StatesMatch
<1>6. CallsCovered'
  <2>1. \A a \in Actors : hook[a].pc = "call" =>
            hook[a].cur \in Modules /\ a \in inHook /\ state[hook[a].cur] = "LIVE"
    BY <1>0 DEF IInv, TypeOK, CallsCovered, inHook
  <2>2. \A a \in Actors : hook[a].pc \in {"run", "call"} => vm[a] # NULL
    BY DEF IInv, CallsCovered
  <2>3. \A a \in Actors : hook[a].pc = "call" => hook[a].cur \in list
    BY DEF IInv, CallsCovered
  <2>4. ASSUME NEW a \in Actors, hook[a].pc = "call", state'[hook[a].cur] # "LIVE"
        PROVE  hook[a].cur = m /\ a \in inHook
    BY <1>s, <2>1, <2>4
  <2>5. UNCHANGED <<list, vm>>
    BY <1>0
  <2> QED BY <1>a, <1>h, <2>2, <2>3, <2>4, <2>5 DEF CallsCovered
<1>7. GatesExact'
  <2>0. /\ Counted(state) \subseteq Modules /\ Branched(state, adm) \subseteq Modules
        /\ active = Cardinality(Branched(state, adm)) /\ nhooks = Cardinality(Counted(state))
    BY DEF IInv, GatesExact, Counted, Branched
  <2>1. CASE state[m] # "LIVE"
    <3>1. Branched(state', adm') = Branched(state, adm) /\ Counted(state') = Counted(state)
      BY <1>0, <1>a, <1>s, <2>1 DEF Branched, Counted
    <3> QED BY <1>s, <2>0, <2>1, <3>1 DEF GatesExact
  <2>2. CASE state[m] = "LIVE"
    <3>1. Branched(state', adm') = Branched(state, adm) \ {m} /\ m \in Branched(state, adm)
      BY <1>0, <1>a, <1>s, <2>2 DEF Branched
    <3>2. Cardinality(Branched(state', adm')) = Cardinality(Branched(state, adm)) - 1
      BY <2>0, <3>1, Finite
    <3>3. Counted(state') = Counted(state) \ {m}
      BY <1>0, <1>s, <2>2 DEF Counted
    <3>4. m \in Hooking <=> m \in Counted(state)
      BY <2>2 DEF Counted
    <3>5. Cardinality(Counted(state')) =
              Cardinality(Counted(state)) - (IF m \in Hooking THEN 1 ELSE 0)
      <4>1. CASE m \in Hooking
        BY <2>0, <3>3, <3>4, <4>1, Finite
      <4>2. CASE m \notin Hooking
        <5>1. Counted(state') = Counted(state)
          BY <3>3, <3>4, <4>2
        <5> QED BY <1>0, <2>0, <4>2, <5>1
      <4> QED BY <4>1, <4>2
    <3> QED BY <1>s, <2>0, <2>2, <3>2, <3>5 DEF GatesExact
  <2> QED BY <2>1, <2>2
<1>8. DenialsAhead'
  <2> SUFFICES ASSUME NEW a \in Actors
               PROVE  LET denying == hook'[a].must \cap Denying IN
                      /\ \A n \in hook'[a].must :
                            n \in Hooking /\ state'[n] = "LIVE" /\ adm'.m # n
                      /\ hook'[a].pc = "run" => denying \subseteq hook'[a].todo
                      /\ hook'[a].pc = "call" =>
                            denying \subseteq hook'[a].todo \cup {hook'[a].cur}
                      /\ hook'[a].pc = "leave" => denying = {} \/ hook'[a].res = "deny"
    BY DEF DenialsAhead
  <2>1. \A n \in hook'[a].must : n \in Hooking /\ state'[n] = "LIVE" /\ adm'.m # n
    BY <1>a, <1>s, <1>h DEF IInv, DenialsAhead
  <2>2. hook'[a].must \subseteq hook[a].must
    BY <1>h
  <2> QED BY <1>h, <2>1, <2>2 DEF IInv, DenialsAhead
<1> QED BY <1>1, <1>2, <1>3, <1>4, <1>5, <1>6, <1>7, <1>8 DEF IInv

\* Steps of an unregistering that stay in it and touch nothing else but, from
\* the pass over the states on, the states and the count of those they cleaned.
LEMMA VisitFrame ==
    ASSUME IInv, UNCHANGED <<mods, nloaded, alive, dirty, pool, hook>>,
           adm.pc \in Unregisters, adm' \in AdmRec, adm'.m = adm.m,
           adm'.pc \in Unregisters \ {"sync"},
           adm.pc = "sync" => adm.wait = {},
           \A c \in Cpus : c \in adm'.todo => adm'.pc = "pcpu",
           vm' \in [Actors -> (SUBSET Modules) \cup {NULL}],
           \A a \in Actors : /\ vm'[a] = NULL <=> vm[a] = NULL
                             /\ vm[a] # NULL => vm'[a] \subseteq vm[a],
           CountersExact'
    PROVE  IInv'
<1> USE Disjoint
<1>0. adm.m \in Modules /\ adm \in AdmRec /\ \A m \in Modules : state[m] = "LIVE" => adm.m # m
  BY DEF IInv, TypeOK, AdmRec, StatesMatch
<1>1. TypeOK'
  BY DEF IInv, TypeOK, mods
<1>2. StatesClean'
  BY DEF IInv, StatesClean
<1>4. LoadedListed'
  BY DEF IInv, LoadedListed, mods
<1>5. StatesMatch'
  BY DEF IInv, StatesMatch, mods
<1>6. CallsCovered'
  <2>1. \A a \in Actors : hook[a].pc = "call" =>
            hook[a].cur \in list /\ state[hook[a].cur] = "LIVE"
    BY DEF IInv, CallsCovered
  <2> QED BY <2>1 DEF IInv, CallsCovered, mods
<1>7. GatesExact'
  <2>1. Branched(state, adm') = Branched(state, adm)
    BY DEF Branched
  <2> QED BY <2>1, GatesFrame DEF IInv, mods
<1>8. DenialsAhead'
  BY DEF IInv, DenialsAhead, mods
<1> QED BY <1>1, <1>2, <1>4, <1>5, <1>6, <1>7, <1>8 DEF IInv

LEMMA StepSync ==
    ASSUME IInv, synchronize_srcu
    PROVE  IInv'
<1>1. /\ adm' \in AdmRec /\ adm'.m = adm.m /\ adm'.pc \in {"tasks", "end"}
      /\ adm'.count = adm.count /\ adm'.todo \subseteq Tasks
  <2>1. adm \in AdmRec /\ threads \subseteq Actors /\ threads \subseteq Tasks
    BY Disjoint DEF IInv, TypeOK, threads
  <2>2. CASE nloaded[adm.m] > 0
    <3>1. adm' = [adm EXCEPT !.pc = "tasks", !.todo = threads]
      BY <2>2 DEF synchronize_srcu
    <3> QED BY <2>1, <3>1 DEF AdmRec
  <2>3. CASE ~(nloaded[adm.m] > 0)
    <3>1. adm' = [adm EXCEPT !.pc = "end", !.todo = {}]
      BY <2>3 DEF synchronize_srcu
    <3> QED BY <2>1, <3>1 DEF AdmRec
  <2> QED BY <2>2, <2>3
<1>2. CountersExact'
  BY <1>1 DEF synchronize_srcu, IInv, CountersExact
<1>3. vm' = vm /\ vm \in [Actors -> (SUBSET Modules) \cup {NULL}]
  BY DEF synchronize_srcu, IInv, TypeOK
<1>4. \A c \in Cpus : c \notin adm'.todo
  BY <1>1, Disjoint
<1> QED BY <1>1, <1>2, <1>3, <1>4, VisitFrame DEF synchronize_srcu

LEMMA StepNextPass ==
    ASSUME IInv, next_pass
    PROVE  IInv'
<1>1. /\ adm' \in AdmRec /\ adm'.m = adm.m /\ adm'.count = adm.count
      /\ adm'.pc \in {"pcpu", "swapper", "retry", "end"}
      /\ adm'.pc = "pcpu" \/ adm'.todo \subseteq Tasks
  <2>1. /\ adm \in AdmRec /\ adm.loop + 1 \in Int /\ adm.todo = {}
        /\ threads \subseteq Actors /\ Cpus \subseteq Actors /\ Idles \subseteq Actors
        /\ threads \subseteq Tasks /\ Idles \subseteq Tasks
    BY Disjoint, ModulesAssumption DEF IInv, TypeOK, threads, AdmRec, next_pass
  <2>2. CASE adm' = [adm EXCEPT !.pc = "pcpu", !.todo = Cpus]
    BY <2>1, <2>2 DEF AdmRec
  <2>3. CASE adm' = [adm EXCEPT !.pc = "swapper", !.todo = Idles]
    BY <2>1, <2>3 DEF AdmRec
  <2>4. CASE adm' = [adm EXCEPT !.pc = "retry", !.nbusy = 0, !.loop = @ + 1, !.todo = threads]
    <3>1. adm' = [pc |-> "retry", m |-> adm.m, count |-> adm.count, nbusy |-> 0,
                  loop |-> adm.loop + 1, todo |-> threads, wait |-> adm.wait]
      BY <2>1, <2>4 DEF AdmRec
    <3> QED BY <2>1, <3>1 DEF AdmRec
  <2>5. CASE adm' = [adm EXCEPT !.pc = "end"]
    BY <2>1, <2>5 DEF AdmRec
  <2> QED BY <2>2, <2>3, <2>4, <2>5 DEF next_pass
<1>2. CountersExact'
  BY <1>1 DEF next_pass, IInv, CountersExact
<1>3. vm' = vm /\ vm \in [Actors -> (SUBSET Modules) \cup {NULL}]
  BY DEF next_pass, IInv, TypeOK
<1>4. adm.pc \in {"tasks", "pcpu", "swapper", "retry"}
      /\ UNCHANGED <<mods, nloaded, alive, dirty, pool, hook>>
  BY DEF next_pass
<1>5. \A c \in Cpus : c \in adm'.todo => adm'.pc = "pcpu"
  BY <1>1, Disjoint
<1> QED BY <1>1, <1>2, <1>3, <1>4, <1>5, VisitFrame

\* Without the module in it a state stays as it is.
LEMMA RemoveType ==
    ASSUME IInv, NEW a \in Actors, vm[a] # NULL, vm' = [vm EXCEPT ![a] = @ \ {adm.m}]
    PROVE  /\ vm' \in [Actors -> (SUBSET Modules) \cup {NULL}]
           /\ \A b \in Actors : /\ vm'[b] = NULL <=> vm[b] = NULL
                                /\ vm[b] # NULL => vm'[b] \subseteq vm[b]
           /\ adm.m \notin vm[a] => vm' = vm
           /\ vm'[a] # NULL /\ vm'[a] = vm[a] \ {adm.m}
           /\ \A b \in Actors : b # a => vm'[b] = vm[b]
<1>1. vm \in [Actors -> (SUBSET Modules) \cup {NULL}]
  BY DEF IInv, TypeOK
<1>2. vm'[a] = vm[a] \ {adm.m} /\ vm'[a] \in SUBSET Modules /\ vm'[a] # NULL
  BY <1>1, ModulesAssumption
<1>3. adm.m \notin vm[a] => vm[a] \ {adm.m} = vm[a]
  BY <1>1
<1> QED BY <1>1, <1>2, <1>3

\* Taking the module out of one state, and counting that, keeps the counters.
LEMMA CountersRemove ==
    ASSUME IInv, NEW a \in Actors, UNCHANGED nloaded, adm.m \in Modules,
           vm[a] # NULL, adm.m \in vm[a],
           vm'[a] # NULL, vm'[a] = vm[a] \ {adm.m},
           \A b \in Actors : b # a => vm'[b] = vm[b],
           adm'.m = adm.m, adm'.count = adm.count + 1
    PROVE  CountersExact'
<1> SUFFICES ASSUME NEW m \in Modules
             PROVE  nloaded[m] - (IF adm.m = m THEN adm.count + 1 ELSE 0)
                       = Cardinality(Holders(vm', m))
  BY DEF CountersExact
<1>0. /\ nloaded[m] - (IF adm.m = m THEN adm.count ELSE 0) = Cardinality(Holders(vm, m))
      /\ adm.count \in Int /\ nloaded[m] \in Int
  BY DEF IInv, CountersExact, TypeOK, AdmRec
<1>1. PICK n, w : n = adm.m /\ w = vm'
  OBVIOUS
<1>2. /\ a \in Actors /\ \A b \in Actors : b # a => w[b] = vm[b]
      /\ vm[a] # NULL /\ w[a] # NULL /\ n \in vm[a] /\ w[a] = vm[a] \ {n}
  BY <1>1
<1>3. Cardinality(Holders(w, m)) = Cardinality(Holders(vm, m)) - (IF m = n THEN 1 ELSE 0)
  BY ONLY <1>2, HoldersLess
<1> QED BY <1>0, <1>1, <1>3

LEMMA StepTaskRemove ==
    ASSUME IInv, task_remove_module
    PROVE  IInv'
<1>0. PICK t \in adm.todo \cap Tasks :
        /\ adm.pc \in {"tasks", "swapper", "retry"}
        /\ \/ /\ t # Admin
              /\ adm' = [adm EXCEPT !.todo = @ \ {t},
                           !.nbusy = IF adm.pc = "swapper" THEN @ ELSE @ + 1]
              /\ UNCHANGED vm
           \/ /\ vm[t] = NULL \/ hook[t].pc \in {"out", "nhooks"}
              /\ IF vm[t] # NULL /\ adm.m \in vm[t]
                 THEN /\ vm' = [vm EXCEPT ![t] = @ \ {adm.m}]
                      /\ adm' = [adm EXCEPT !.todo = @ \ {t}, !.count = @ + 1]
                 ELSE adm' = [adm EXCEPT !.todo = @ \ {t}] /\ UNCHANGED vm
        /\ UNCHANGED <<mods, nloaded, alive, dirty, pool, hook>>
  BY DEF task_remove_module
<1>1. /\ adm \in AdmRec /\ t \in Actors /\ vm \in [Actors -> (SUBSET Modules) \cup {NULL}]
      /\ adm.m \in Modules /\ adm.nbusy + 1 \in Int /\ adm.count + 1 \in Int
      /\ adm.todo \ {t} \in SUBSET Actors
      /\ \A c \in Cpus : c \notin adm.todo
  BY <1>0, Disjoint DEF IInv, TypeOK, StatesMatch, AdmRec
<1>2. CASE /\ adm' = [adm EXCEPT !.todo = @ \ {t},
                           !.nbusy = IF adm.pc = "swapper" THEN @ ELSE @ + 1]
           /\ UNCHANGED vm
  <2>1. /\ adm' \in AdmRec /\ adm'.m = adm.m /\ adm'.pc = adm.pc /\ adm'.count = adm.count
        /\ adm'.todo = adm.todo \ {t}
    <3>1. CASE adm' = [adm EXCEPT !.todo = adm.todo \ {t}, !.nbusy = adm.nbusy]
      BY <1>1, <3>1 DEF AdmRec
    <3>2. CASE adm' = [adm EXCEPT !.todo = adm.todo \ {t}, !.nbusy = adm.nbusy + 1]
      BY <1>1, <3>2 DEF AdmRec
    <3> QED BY <1>2, <3>1, <3>2
  <2>2. CountersExact'
    BY <1>0, <1>2, <2>1 DEF IInv, CountersExact
  <2> QED BY <1>0, <1>1, <1>2, <2>1, <2>2, VisitFrame
<1>3. CASE adm' = [adm EXCEPT !.todo = @ \ {t}] /\ UNCHANGED vm
  <2>1. /\ adm' \in AdmRec /\ adm'.m = adm.m /\ adm'.pc = adm.pc /\ adm'.count = adm.count
        /\ adm'.todo = adm.todo \ {t}
    BY <1>1, <1>3 DEF AdmRec
  <2>2. CountersExact'
    BY <1>0, <1>3, <2>1 DEF IInv, CountersExact
  <2> QED BY <1>0, <1>1, <1>3, <2>1, <2>2, VisitFrame
<1>4. CASE /\ vm[t] # NULL /\ adm.m \in vm[t]
           /\ vm' = [vm EXCEPT ![t] = @ \ {adm.m}]
           /\ adm' = [adm EXCEPT !.todo = @ \ {t}, !.count = @ + 1]
  <2>1. /\ adm' \in AdmRec /\ adm'.m = adm.m /\ adm'.pc = adm.pc
        /\ adm'.count = adm.count + 1 /\ adm'.todo = adm.todo \ {t}
    <3>1. adm' = [adm EXCEPT !.todo = adm.todo \ {t}, !.count = adm.count + 1]
      BY <1>4
    <3> HIDE <1>4
    <3> QED BY <1>1, <3>1 DEF AdmRec
  <2>2. CountersExact'
    BY <1>0, <1>1, <1>4, <2>1, RemoveType, CountersRemove
  <2> QED BY <1>0, <1>1, <1>4, <2>1, <2>2, RemoveType, VisitFrame
<1> QED BY <1>0, <1>2, <1>3, <1>4
LEMMA StepSoftirqRemove ==
    ASSUME IInv, softirq_lvm_remove_module
    PROVE  IInv'
<1>0. PICK c \in adm.todo \cap Cpus :
        /\ hook[c].pc = "out"
        /\ vm' = [vm EXCEPT ![c] = @ \ {adm.m}]
        /\ adm' = [adm EXCEPT !.todo = @ \ {c},
                     !.count = IF adm.m \in vm[c] THEN @ + 1 ELSE @]
        /\ UNCHANGED <<mods, nloaded, alive, dirty, pool, hook>>
  BY DEF softirq_lvm_remove_module
<1>1. /\ adm \in AdmRec /\ c \in Actors /\ vm[c] # NULL /\ adm.pc = "pcpu"
      /\ adm.m \in Modules /\ adm.count + 1 \in Int /\ adm.todo \ {c} \in SUBSET Actors
  BY <1>0, Disjoint DEF IInv, TypeOK, StatesClean, StatesMatch, AdmRec
<1>2. /\ vm' \in [Actors -> (SUBSET Modules) \cup {NULL}]
      /\ \A b \in Actors : /\ vm'[b] = NULL <=> vm[b] = NULL
                           /\ vm[b] # NULL => vm'[b] \subseteq vm[b]
      /\ adm.m \notin vm[c] => vm' = vm
      /\ vm'[c] # NULL /\ vm'[c] = vm[c] \ {adm.m}
      /\ \A b \in Actors : b # c => vm'[b] = vm[b]
  BY <1>0, <1>1, RemoveType
<1>3. CASE adm.m \in vm[c]
  <2>1. adm' = [adm EXCEPT !.todo = adm.todo \ {c}, !.count = adm.count + 1]
    BY <1>0, <1>3
  <2>2. /\ adm' \in AdmRec /\ adm'.m = adm.m /\ adm'.pc = adm.pc
        /\ adm'.count = adm.count + 1
    BY <1>1, <2>1 DEF AdmRec
  <2>3. CountersExact'
    BY <1>0, <1>1, <1>2, <1>3, <2>2, CountersRemove
  <2> QED BY <1>0, <1>1, <1>2, <2>2, <2>3, VisitFrame
<1>4. CASE adm.m \notin vm[c]
  <2>1. adm' = [adm EXCEPT !.todo = adm.todo \ {c}, !.count = adm.count]
    BY <1>0, <1>4
  <2>2. /\ adm' \in AdmRec /\ adm'.m = adm.m /\ adm'.pc = adm.pc /\ adm'.count = adm.count
    BY <1>1, <2>1 DEF AdmRec
  <2>3. CountersExact'
    BY <1>0, <1>2, <1>4, <2>2 DEF IInv, CountersExact
  <2> QED BY <1>0, <1>1, <1>2, <2>2, <2>3, VisitFrame
<1> QED BY <1>3, <1>4

\* The module leaves the list only when nobody has it.
LEMMA StepEnd ==
    ASSUME IInv, unregister_end
    PROVE  IInv'
<1> USE Disjoint
<1> DEFINE m == adm.m
<1>0. /\ adm.pc = "end" /\ m \in Modules /\ m \in list /\ state[m] \in {"GOING", "ZOMBIE"}
      /\ adm \in AdmRec /\ adm.count \in Int /\ nloaded \in [Modules -> Int]
      /\ nloaded[m] - adm.count = Cardinality(Holders(vm, m))
      /\ nloaded' = [nloaded EXCEPT ![m] = @ - adm.count]
      /\ state \in [Modules -> {"FREE", "LIVE", "GOING", "ZOMBIE"}]
      /\ UNCHANGED <<nhooks, active, alive, vm, dirty, pool, hook>>
  BY DEF unregister_end, IInv, TypeOK, AdmRec, StatesMatch, CountersExact
<1>n. /\ nloaded' \in [Modules -> Int] /\ nloaded'[m] = Cardinality(Holders(vm, m))
      /\ \A n \in Modules : n # m => nloaded'[n] = Cardinality(Holders(vm, n))
  BY <1>0 DEF IInv, CountersExact
<1>l. \A n \in Modules : state'[n] = "LIVE" <=> state[n] = "LIVE"
  BY <1>0 DEF unregister_end
<1>c. \A a \in Actors : hook[a].pc = "call" =>
          hook[a].cur \in list /\ hook[a].cur # m /\ state[hook[a].cur] = "LIVE"
  BY <1>0 DEF IInv, CallsCovered
<1>2. StatesClean'
  BY <1>0 DEF IInv, StatesClean
<1>3. CASE nloaded'[m] = 0
  <2>0. /\ list' = list \ {m} /\ state' = state
        /\ adm' = [adm EXCEPT !.pc = "free", !.count = 0, !.wait = inHook]
    BY <1>3 DEF unregister_end
  <2>a. adm' \in AdmRec /\ adm'.pc = "free" /\ adm'.m = m /\ adm'.count = 0
        /\ adm'.todo = adm.todo
    <3>1. inHook \in SUBSET Actors
      BY DEF inHook
    <3>2. adm' = [pc |-> "free", m |-> m, count |-> 0, nbusy |-> adm.nbusy,
                  loop |-> adm.loop, todo |-> adm.todo, wait |-> inHook]
      BY <1>0, <2>0 DEF AdmRec
    <3> QED BY <1>0, <3>1, <3>2 DEF AdmRec
  <2>h. Holders(vm, m) = {}
    BY <1>n, <1>3, Finite, HoldersType
  <2>1. TypeOK'
    BY <1>0, <1>n, <2>0, <2>a DEF IInv, TypeOK
  <2>3. CountersExact'
    BY <1>0, <1>n, <2>a DEF CountersExact
  <2>4. LoadedListed'
    BY <1>0, <2>0, <2>h DEF IInv, LoadedListed, Holders
  <2>5. StatesMatch'
    BY <1>0, <2>0, <2>a DEF IInv, StatesMatch
  <2>6. CallsCovered'
    BY <1>0, <1>c, <2>0 DEF IInv, CallsCovered
  <2>7. GatesExact'
    <3>1. Branched(state, adm') = Branched(state, adm)
      BY <1>0, <2>a DEF Branched
    <3> QED BY <1>0, <2>0, <3>1, GatesFrame DEF IInv
  <2>8. DenialsAhead'
    BY <1>0, <2>0, <2>a DEF IInv, DenialsAhead
  <2> QED BY <1>2, <2>1, <2>3, <2>4, <2>5, <2>6, <2>7, <2>8 DEF IInv
<1>4. CASE nloaded'[m] # 0
  <2>0. /\ list' = list /\ state' = [state EXCEPT ![m] = "ZOMBIE"] /\ adm' = admidle
    BY <1>4 DEF unregister_end
  <2>a. adm' \in AdmRec /\ adm'.pc = "idle" /\ adm'.m = NULL /\ adm'.count = 0 /\ adm'.todo = {}
    BY <2>0 DEF AdmRec, admidle
  <2>s. /\ state'[m] = "ZOMBIE" /\ \A n \in Modules : n # m => state'[n] = state[n]
        /\ state' \in [Modules -> {"FREE", "LIVE", "GOING", "ZOMBIE"}]
    BY <1>0, <2>0
  <2>1. TypeOK'
    BY <1>0, <1>n, <2>0, <2>a, <2>s DEF IInv, TypeOK
  <2>3. CountersExact'
    BY <1>0, <1>n, <2>a DEF CountersExact
  <2>4. LoadedListed'
    BY <1>0, <2>0 DEF IInv, LoadedListed
  <2>5. StatesMatch'
    BY <1>0, <2>0, <2>a, <2>s DEF IInv, StatesMatch
  <2>6. CallsCovered'
    <3>1. \A a \in Actors : hook[a].pc = "call" => state'[hook[a].cur] = "LIVE"
      BY <1>c, <2>s DEF IInv, TypeOK
    <3> QED BY <1>0, <1>c, <2>0, <3>1 DEF IInv, CallsCovered
  <2>7. GatesExact'
    <3>1. Branched(state', adm') = Branched(state, adm) /\ Counted(state') = Counted(state)
      BY <1>0, <1>l, <2>a DEF Branched, Counted
    <3> QED BY <1>0, <3>1 DEF IInv, GatesExact
  <2>8. DenialsAhead'
    BY <1>0, <1>l, <2>a DEF IInv, DenialsAhead
  <2> QED BY <1>2, <2>1, <2>3, <2>4, <2>5, <2>6, <2>7, <2>8 DEF IInv
<1> QED BY <1>3, <1>4

LEMMA StepModuleFree ==
    ASSUME IInv, lua_lsm_module_free
    PROVE  IInv'
<1> USE Disjoint
<1> DEFINE m == adm.m
<1>0. /\ adm.pc = "free" /\ m \in Modules /\ m \notin list /\ adm.count = 0
      /\ state[m] \in {"GOING", "ZOMBIE"}
      /\ state \in [Modules -> {"FREE", "LIVE", "GOING", "ZOMBIE"}]
      /\ state' = [state EXCEPT ![m] = "FREE"] /\ adm' = admidle
      /\ UNCHANGED <<list, nhooks, active, nloaded, alive, vm, dirty, pool, hook>>
  BY DEF lua_lsm_module_free, IInv, TypeOK, AdmRec, StatesMatch
<1>a. adm' \in AdmRec /\ adm'.pc = "idle" /\ adm'.m = NULL /\ adm'.count = 0 /\ adm'.todo = {}
  BY <1>0 DEF AdmRec, admidle
<1>s. /\ state'[m] = "FREE" /\ \A n \in Modules : n # m => state'[n] = state[n]
      /\ state' \in [Modules -> {"FREE", "LIVE", "GOING", "ZOMBIE"}]
  BY <1>0
<1>1. TypeOK'
  BY <1>0, <1>a, <1>s DEF IInv, TypeOK
<1>2. StatesClean'
  BY <1>0 DEF IInv, StatesClean
<1>3. CountersExact'
  BY <1>0, <1>a DEF IInv, CountersExact
<1>4. LoadedListed'
  BY <1>0 DEF IInv, LoadedListed
<1>5. StatesMatch'
  BY <1>0, <1>a, <1>s DEF IInv, StatesMatch
<1>6. CallsCovered'
  <2>1. \A a \in Actors : hook[a].pc = "call" =>
            hook[a].cur \in list /\ hook[a].cur # m /\ state[hook[a].cur] = "LIVE"
    BY <1>0 DEF IInv, CallsCovered
  <2>2. \A a \in Actors : hook[a].pc = "call" => state'[hook[a].cur] = "LIVE"
    BY <1>s, <2>1 DEF IInv, TypeOK
  <2> QED BY <1>0, <2>1, <2>2 DEF IInv, CallsCovered
<1>7. GatesExact'
  <2>1. Branched(state', adm') = Branched(state, adm) /\ Counted(state') = Counted(state)
    BY <1>0, <1>a, <1>s DEF Branched, Counted
  <2> QED BY <1>0, <2>1 DEF IInv, GatesExact
<1>8. DenialsAhead'
  BY <1>0, <1>a, <1>s DEF IInv, DenialsAhead
<1> QED BY <1>1, <1>2, <1>3, <1>4, <1>5, <1>6, <1>7, <1>8 DEF IInv

LEMMA StepStutter ==
    ASSUME IInv, UNCHANGED vars
    PROVE  IInv'
<1> USE DEF vars
<1>1. TypeOK' /\ StatesClean' /\ CountersExact' /\ LoadedListed'
  BY DEF IInv, TypeOK, StatesClean, CountersExact, LoadedListed
<1>2. StatesMatch' /\ CallsCovered' /\ DenialsAhead'
  BY DEF IInv, StatesMatch, CallsCovered, DenialsAhead
<1>3. GatesExact'
  BY GatesFrame DEF IInv
<1> QED BY <1>1, <1>2, <1>3 DEF IInv

LEMMA InvStep == IInv /\ [Next]_vars => IInv'
<1> SUFFICES ASSUME IInv, [Next]_vars PROVE IInv'
  OBVIOUS
<1>1. ASSUME NEW a \in Actors, lua_lsm_hook(a) \/ Run(a)
      PROVE  IInv'
  BY <1>1, StepHook, StepGet, StepNext, StepIndex, StepPcall, StepPut DEF Run
<1>2. ASSUME NEW t \in Tasks, task_blob_init(t) \/ release_task(t) \/ task_blob_free(t)
      PROVE  IInv'
  BY <1>2, StepBlobInit, StepRelease, StepBlobFree
<1>3. ASSUME NEW m \in Modules, lua_lsm_module_register(m) \/ lua_lsm_module_unregister(m)
      PROVE  IInv'
  BY <1>3, StepRegister, StepUnregister
<1>4. CASE Administer
  BY <1>4, StepBranch, StepSync, StepTaskRemove, StepSoftirqRemove, StepNextPass, StepEnd,
     StepModuleFree DEF Administer
<1> QED BY <1>1, <1>2, <1>3, <1>4, StepStutter DEF Next

\* The invariant holds in every state of every behaviour.
THEOREM Invariance == Spec => []IInv
BY InvInit, InvStep, PTL DEF Spec

-----------------------------------------------------------------------------
(* The properties.                                                         *)

\* Whatever hooks load, tasks give back and unregistering cleans, the counters
\* of a module say who has it, and no Lua state, pooled ones included, keeps a
\* module that unregister_end() took off the list.
THEOREM ModulesSafety == Spec => []ModulesSafe
<1>1. IInv => ModulesSafe
  <2> SUFFICES ASSUME IInv PROVE ModulesSafe
    OBVIOUS
  <2>1. \A c \in Cpus : \A i \in 1..Len(pool[c]) : pool[c][i] = {}
    <3> SUFFICES ASSUME NEW c \in Cpus, NEW i \in 1..Len(pool[c])
                 PROVE  pool[c][i] = {}
      OBVIOUS
    <3>1. pool[c] \in Seq({{}})
      BY DEF IInv, TypeOK
    <3>2. pool[c][i] \in {{}}
      BY <3>1
    <3> QED BY <3>2
  <2>2. NoDanglingModule
    BY <2>1 DEF IInv, LoadedListed, NoDanglingModule, states
  <2>3. LoadedExact
    BY <2>1 DEF IInv, CountersExact, LoadedExact, Holders
  <2> QED BY <2>2, <2>3 DEF ModulesSafe
<1> QED BY <1>1, Invariance, PTL

\* A module that is registered throughout a hook and denies is heard, however
\* the static branch, the hook's counter and the states of modules move.
THEOREM DenialsHonoured == Spec => []DenialHonoured
<1>1. IInv => DenialHonoured
  BY DEF IInv, DenialsAhead, DenialHonoured
<1> QED BY <1>1, Invariance, PTL
=============================================================================
