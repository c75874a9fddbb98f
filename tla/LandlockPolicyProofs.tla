------------------------ MODULE LandlockPolicyProofs ------------------------
(***************************************************************************)
(* Proofs about LandlockRuleset, continued: the shapes of rules and what a *)
(* domain under construction has taken from its parent and from the        *)
(* ruleset; and the refinement of LandlockPolicy: whatever rulesets,       *)
(* domains and credentials do in memory, to their users they are sets of   *)
(* rights and stacks of copies of them, which is what the walks of fs.c    *)
(* read.                                                                   *)
(***************************************************************************)
EXTENDS LandlockDomainProofs

-----------------------------------------------------------------------------
(* The shapes are kept.                                                    *)

\* At first there is no ruleset.
LEMMA ShapeInit == Init => ShapeInv
<1> SUFFICES ASSUME Init PROVE ShapeInv
  OBVIOUS
<1> USE RulesetAssumption
<1>1. \A t \in Tasks : pc[t] = "idle" /\ Label(t) = "idle"
  BY DEF Init, Label, FreeLabels, Threads
<1>2. NoRules \in [Objects -> Layers]
  BY DEF NoRules, Layers
<1>3. ShapeTypes
  BY <1>1, <1>2 DEF Init, ShapeTypes, OrNull
<1>4. LocksOK
  BY <1>1 DEF Init, LocksOK, Locks
<1>5. RulesOK
  BY DEF Init, RulesOK
<1>6. StacksOK
  BY <1>1 DEF StacksOK, StackOK, Committing
<1> QED BY <1>3, <1>4, <1>5, <1>6 DEF ShapeInv

\* A rule with layers has a first one.
LEMMA FirstLayer ==
    ASSUME NEW s \in Layers, s # <<>> \/ Len(s) = 1
    PROVE  s[1] \in [level : Nat, access : SUBSET Access]
<1>1. s \in Seq([level : Nat, access : SUBSET Access])
  BY DEF Layers
<1>2. Len(s) \in Nat \ {0}
  BY <1>1, EmptySeq
<1>3. 1 \in 1 .. Len(s)
  BY <1>2
<1> QED BY <1>1, <1>3, ElementOfSeq

\* insert_rule() makes layers out of layers.
LEMMA InsertedTyped ==
    ASSUME ShapeTypes, NEW r \in Rulesets, NEW o \in Objects, NEW layers \in Layers,
           ~InsertWarns(r, o, layers)
    PROVE  Inserted(r, o, layers) \in Layers
<1>1. PICK this : this = tree[r][o]
  OBVIOUS
<1>2. this \in Layers
  BY <1>1 DEF ShapeTypes
<1>3. CASE this = <<>>
  BY <1>1, <1>3 DEF Inserted
<1>4. CASE this # <<>>
  <2>1. Len(layers) = 1
    BY <1>1, <1>4 DEF InsertWarns
  <2>2. this[1] \in [level : Nat, access : SUBSET Access]
    BY <1>2, <1>4, FirstLayer
  <2>3. layers[1] \in [level : Nat, access : SUBSET Access]
    BY <2>1, FirstLayer
  <2>4. Append(this, layers[1]) \in Layers
    BY <1>2, <2>3 DEF Layers
  <2>5. [level |-> 0, access |-> this[1].access \cup layers[1].access]
           \in [level : Nat, access : SUBSET Access]
    BY <2>2, <2>3
  <2>6. <<[level |-> 0, access |-> this[1].access \cup layers[1].access]>> \in Layers
    BY <2>5 DEF Layers
  <2> QED BY <1>1, <1>4, <2>4, <2>6 DEF Inserted
<1> QED BY <1>3, <1>4

\* The arguments of landlock_insert_rule() in landlock_add_rule(2).
LEMMA ArgTyped ==
    ASSUME ShapeTypes, NEW t \in Tasks, pc[t] = "insert_rule"
    PROVE  \E o \in Objects, a \in SUBSET Access :
              arg[t][1] = o /\ arg[t][2] = <<[level |-> 0, access |-> a]>>
BY DEF ShapeTypes, ArgOf

\* A rule is inserted: only its tree changes.
LEMMA InsertTyped ==
    ASSUME ShapeTypes, NEW r \in Rulesets, NEW o \in Objects, NEW layers \in Layers,
           InsertRule(r, o, layers)
    PROVE  /\ tree' \in [Rulesets -> [Objects -> Layers]]
           /\ tree'[r][o] = Inserted(r, o, layers)
           /\ \A p \in Objects \ {o} : tree'[r][p] = tree[r][p]
           /\ \A q \in Rulesets \ {r} : tree'[q] = tree[q]
<1>1. Inserted(r, o, layers) \in Layers
  BY InsertedTyped DEF InsertRule
<1>2. PICK new : new = Inserted(r, o, layers)
  OBVIOUS
<1>3. tree' = [tree EXCEPT ![r][o] = new]
  BY <1>2 DEF InsertRule
<1> QED BY <1>1, <1>2, <1>3 DEF ShapeTypes

\* Which locals the steps of a merge use.
LEMMA MergeLocals ==
    ASSUME Core, PreparedOK, NEW t \in Tasks
    PROVE  /\ pc[t] \in StackLabels =>
                 /\ newdom[t] \in Rulesets /\ rs[t] \in Rulesets /\ ncred[t] \in Creds
                 /\ tcred[t] \in Creds /\ Label(t) = pc[t]
           /\ pc[t] \in {"inherit_lock", "inherit"} =>
                 Parent(t) = DomainOf(t) /\ Parent(t) \in Rulesets
<1>1. pc[t] \in StackLabels => Label(t) = pc[t]
  BY DEF StackLabels, Label, FreeLabels
<1>2. pc[t] \in {"inherit_lock", "inherit"} => Parent(t) = DomainOf(t) /\ Parent(t) # NULL
  BY <1>1 DEF PreparedOK, Merging, Parent, StackLabels
<1> QED BY <1>1, <1>2, Using DEF StackLabels, CallLabels, DomainLabels, WalkLabels,
   Prepared, Core, Types, OrNull, Parent

\* A domain has some number of layers.
LEMMA DepthNat ==
    ASSUME Core, ShapeTypes, NEW t \in Tasks, tcred[t] \in Creds
    PROVE  /\ Depth(t) \in Nat
           /\ \A o \in Objects : Base(t, o) \in Layers
<1>1. DomainOf(t) = NULL \/ DomainOf(t) \in Rulesets
  BY DEF Core, Types, DomainOf, OrNull
<1>2. DomainOf(t) \in Rulesets => Len(masks[DomainOf(t)]) \in Nat
  BY DEF ShapeTypes
<1>3. Depth(t) \in Nat
  BY <1>1, <1>2 DEF Depth
<1>4. <<>> \in Layers
  BY DEF Layers
<1>5. ASSUME NEW o \in Objects PROVE Base(t, o) \in Layers
  BY <1>1, <1>4 DEF Base, ShapeTypes
<1> QED BY <1>3, <1>5

\* Types are kept by the steps that make a ruleset or a domain...
LEMMA ShapeAlloc ==
    ASSUME Core, ShapeTypes, NEW t \in Tasks, AllocStep(t)
    PROVE  ShapeTypes'
<1>0. Types /\ (pc[t] = "merge" => Parent(t) = NULL \/ Parent(t) \in Rulesets)
  BY Using DEF Core, Types, Prepared, Parent, OrNull
<1> SUFFICES ASSUME NEW r \in Rulesets, NEW h, NEW layers \in Seq(SUBSET Access), Alloc(r, layers, h),
                    arg' = arg, nextid' \in 0 .. MaxDomains,
                    \A u \in Tasks : pc'[u] = "insert_rule" => pc[u] = "insert_rule"
             PROVE  ShapeTypes'
  <2>1. ASSUME NEW r \in Rulesets, NEW handled \in SUBSET Access,
               CreateRuleset(t, r, handled) \/ CreateRulesetNoFd(t, r, handled)
        PROVE  ShapeTypes'
    <3>1. <<handled>> \in Seq(SUBSET Access)
      OBVIOUS
    <3>2. Alloc(r, <<handled>>, NULL) /\ arg' = arg /\ nextid' = nextid
      BY <2>1 DEF CreateRuleset, CreateRulesetNoFd, locals, ghosts
    <3>3. \A u \in Tasks : pc'[u] = "insert_rule" => pc[u] = "insert_rule"
      BY <1>0, <2>1 DEF CreateRuleset, CreateRulesetNoFd, Goto, Types, Threads
    <3> QED BY <3>1, <3>2, <3>3 DEF ShapeTypes
  <2>2. ASSUME NEW r \in Rulesets, NEW h, nextid' \in 0 .. MaxDomains, arg' = arg, pc[t] = "merge",
               Alloc(r, [i \in 1 .. NewLayers(t) |-> {}], h),
               Goto(t, "put_dom") \/ Goto(t, "merge_lock") \/ Goto(t, "inherit_lock")
        PROVE  ShapeTypes'
    <3>1. NewLayers(t) \in Nat
      <4>1. Parent(t) # NULL /\ Parent(t) \in Rulesets => Len(masks[Parent(t)]) \in Nat
        BY DEF ShapeTypes
      <4>2. Parent(t) = NULL \/ Parent(t) \in Rulesets
        BY <1>0, <2>2
      <4> QED BY <4>1, <4>2 DEF NewLayers
    <3>2. [i \in 1 .. NewLayers(t) |-> {}] \in Seq(SUBSET Access)
      BY <3>1
    <3>3. \A u \in Tasks : pc'[u] = "insert_rule" => pc[u] = "insert_rule"
      BY <1>0, <2>2 DEF Goto, Types, Threads
    <3> QED BY <2>2, <3>2, <3>3
  <2>3. ASSUME NEW r \in Rulesets, NEW h \in Hierarchies, CreateDomain(t, r, h)
        PROVE  ShapeTypes'
    <3>1. nextid' \in 0 .. MaxDomains
      BY <2>3, RulesetAssumption DEF CreateDomain, ShapeTypes
    <3>2. arg' = arg /\ Alloc(r, [i \in 1 .. NewLayers(t) |-> {}], h) /\ pc[t] = "merge"
      BY <2>3 DEF CreateDomain, At
    <3>3. Goto(t, "merge_lock") \/ Goto(t, "inherit_lock")
      BY <2>3 DEF CreateDomain
    <3> QED BY <2>2, <3>1, <3>2, <3>3
  <2>4. ASSUME NEW r \in Rulesets, CreateHierarchyFails(t, r) PROVE ShapeTypes'
    <3>1. nextid' \in 0 .. MaxDomains
      BY <2>4 DEF CreateHierarchyFails, ShapeTypes, ghosts
    <3>2. arg' = arg /\ Alloc(r, [i \in 1 .. NewLayers(t) |-> {}], NULL) /\ Goto(t, "put_dom")
          /\ pc[t] = "merge"
      BY <2>4 DEF CreateHierarchyFails, At
    <3> QED BY <2>2, <3>1, <3>2
  <2> QED BY <2>1, <2>3, <2>4 DEF AllocStep
<1>1. masks' \in [Rulesets -> Seq(SUBSET Access)]
  BY DEF Alloc, ShapeTypes
<1>2. NoRules \in [Objects -> Layers]
  BY DEF NoRules, Layers
<1>3. tree' \in [Rulesets -> [Objects -> Layers]]
  BY <1>2 DEF Alloc, ShapeTypes
<1> QED BY <1>1, <1>3 DEF ShapeTypes

\* ...by those that prepare and insert a rule...
LEMMA ShapeRule ==
    ASSUME Core, ShapeTypes, NEW t \in Tasks,
           \/ \E r \in Rulesets, o \in Objects, allowed \in SUBSET Access : AddRule(t, r, o, allowed)
           \/ AppendFsRule(t) \/ AppendFsRuleFails(t)
    PROVE  ShapeTypes'
<1>0. Types
  BY DEF Core
<1>1. ASSUME NEW r \in Rulesets, NEW o \in Objects, NEW allowed \in SUBSET Access, AddRule(t, r, o, allowed)
      PROVE  ShapeTypes'
  <2>1. PICK a : a = AbsoluteAccess(r, allowed)
    OBVIOUS
  <2>2. a \in SUBSET Access
    BY <2>1 DEF AbsoluteAccess
  <2>3. PICK v : v = <<o, <<[level |-> 0, access |-> a]>> >> /\ v \in ArgOf
    <3>1. PICK w : w = <<[level |-> 0, access |-> a]>>
      OBVIOUS
    <3>2. w \in {<<[level |-> 0, access |-> x]>> : x \in SUBSET Access}
      BY <2>2, <3>1
    <3>3. <<o, w>> \in ArgOf
      BY <3>2 DEF ArgOf
    <3> QED BY <3>1, <3>3
  <2>4. UNCHANGED <<masks, tree, nextid>>
    BY <1>1 DEF AddRule, ghosts
  <2>5. \/ arg' = [arg EXCEPT ![t] = v]
           /\ pc' = [pc EXCEPT ![t] = "insert_rule"]
        \/ arg' = arg /\ pc' = [pc EXCEPT ![t] = "put_ruleset"]
    BY <1>1, <2>1, <2>3 DEF AddRule, Goto
  <2>6. pc \in [Threads -> Labels] /\ arg \in [Tasks -> OrNull(ArgOf)] /\ t \in Threads
    BY <1>0 DEF Types, ShapeTypes, Threads
  <2>7. arg' \in [Tasks -> OrNull(ArgOf)]
    BY <2>3, <2>5, <2>6 DEF OrNull
  <2>8. \A u \in Tasks : pc'[u] = "insert_rule" => arg'[u] \in ArgOf
    <3>1. \A u \in Tasks : pc[u] = "insert_rule" => arg[u] \in ArgOf
      BY DEF ShapeTypes
    <3>2. ASSUME NEW u \in Tasks, u # t, pc'[u] = "insert_rule" PROVE arg'[u] \in ArgOf
      <4>1. u \in Threads /\ pc'[u] = pc[u] /\ arg'[u] = arg[u]
        BY <2>5, <2>6, <3>2 DEF Threads
      <4> QED BY <3>1, <3>2, <4>1
    <3>3. ASSUME pc'[t] = "insert_rule" PROVE arg'[t] \in ArgOf
      <4>1. arg'[t] = v
        BY <2>5, <2>6, <3>3
      <4> QED BY <2>3, <4>1
    <3> QED BY <3>2, <3>3
  <2> QED BY <2>4, <2>7, <2>8 DEF ShapeTypes
<1>2. ASSUME AppendFsRule(t) PROVE ShapeTypes'
  <2>1. PICK r, o, layers : r = rs[t] /\ o = arg[t][1] /\ layers = arg[t][2]
    OBVIOUS
  <2>2. pc[t] = "insert_rule" /\ InsertRule(r, o, layers)
    BY <1>2, <2>1 DEF AppendFsRule, At
  <2>3. r \in Rulesets
    BY <2>1, <2>2, Using DEF CallLabels
  <2>4. o \in Objects /\ layers \in Layers
    <3>1. PICK a \in SUBSET Access : layers = <<[level |-> 0, access |-> a]>>
      BY <2>1, <2>2, ArgTyped
    <3>2. PICK l : l = [level |-> 0, access |-> a]
      OBVIOUS
    <3>3. l \in [level : Nat, access : SUBSET Access]
      BY <3>2
    <3>4. <<l>> \in Layers
      BY <3>3 DEF Layers
    <3> QED BY <2>1, <2>2, <3>1, <3>2, <3>4, ArgTyped
  <2>5. tree' \in [Rulesets -> [Objects -> Layers]]
    BY <2>2, <2>3, <2>4, InsertTyped
  <2>6. UNCHANGED <<masks, nextid>> /\ arg' = [arg EXCEPT ![t] = NULL]
        /\ pc' = [pc EXCEPT ![t] = "put_ruleset"]
    BY <1>2 DEF AppendFsRule, Goto, ghosts
  <2> QED BY <1>0, <2>5, <2>6 DEF ShapeTypes, Types, Threads, OrNull
<1>3. ASSUME AppendFsRuleFails(t) PROVE ShapeTypes'
  <2>1. UNCHANGED <<masks, tree, nextid>> /\ arg' = [arg EXCEPT ![t] = NULL]
        /\ pc' = [pc EXCEPT ![t] = "put_ruleset"]
    BY <1>3 DEF AppendFsRuleFails, Goto, ghosts, rvars
  <2> QED BY <1>0, <2>1 DEF ShapeTypes, Types, Threads, OrNull
<1> QED BY <1>1, <1>2, <1>3

\* ...by those that write a domain under construction...
LEMMA ShapeWrite ==
    ASSUME Core, PreparedOK, ShapeTypes, RulesOK, StacksOK, NEW t \in Tasks, LayerWrite(t)
    PROVE  ShapeTypes'
<1>0. Types
  BY DEF Core
<1>1. ASSUME NEW o \in Objects, InheritRule(t, o) PROVE ShapeTypes'
  <2>1. PICK d, layers : d = newdom[t] /\ layers = tree[Parent(t)][o]
    OBVIOUS
  <2>2. d \in Rulesets /\ layers \in Layers /\ InsertRule(d, o, layers)
    BY <1>1, <2>1, MergeLocals DEF InheritRule, At, StackLabels, ShapeTypes
  <2>3. UNCHANGED <<masks, arg, nextid, pc>>
    BY <1>1 DEF InheritRule, ghosts
  <2> QED BY <2>2, <2>3, InsertTyped DEF ShapeTypes
<1>2. ASSUME NEW o \in Objects, MergeRule(t, o) PROVE ShapeTypes'
  <2>1. PICK d, layers : d = newdom[t] /\ layers = MergedLayer(t, o)
    OBVIOUS
  <2>2. d \in Rulesets /\ InsertRule(d, o, layers) /\ pc[t] = "merge_rules" /\ rs[t] \in Rulesets
    BY <1>2, <2>1, MergeLocals DEF MergeRule, At, StackLabels
  <2>3. UNCHANGED <<masks, arg, nextid, pc>>
    BY <1>2 DEF MergeRule, ghosts
  <2>4. layers \in Layers
    <3>1. PICK s : s = tree[rs[t]][o]
      OBVIOUS
    <3>2. o \in todo[t]
      BY <1>2 DEF MergeRule
    <3>3. s # <<>>
      BY <2>2, <3>1, <3>2, MergeLocals DEF StacksOK, StackOK, StackLabels
    <3>4. s \in Layers
      BY <2>2, <3>1 DEF ShapeTypes
    <3>5. s[1].access \in SUBSET Access
      BY <3>3, <3>4, FirstLayer
    <3>6. Len(masks[d]) \in Nat
      BY <2>2 DEF ShapeTypes
    <3>7. PICK l : l = [level |-> Len(masks[d]), access |-> s[1].access]
      OBVIOUS
    <3>8. l \in [level : Nat, access : SUBSET Access]
      BY <3>5, <3>6, <3>7
    <3> QED BY <2>1, <3>1, <3>7, <3>8 DEF MergedLayer, Layers
  <2> QED BY <2>2, <2>3, <2>4, InsertTyped DEF ShapeTypes
<1>3. ASSUME InheritDone(t) PROVE ShapeTypes'
  <2>1. PICK d, p : d = newdom[t] /\ p = Parent(t)
    OBVIOUS
  <2>2. d \in Rulesets /\ p \in Rulesets
    BY <1>3, <2>1, MergeLocals DEF InheritDone, At, StackLabels
  <2>3. PICK m : m = [i \in DOMAIN masks[d] |-> IF i <= Len(masks[p]) THEN masks[p][i] ELSE masks[d][i]]
    OBVIOUS
  <2>4. masks' = [masks EXCEPT ![d] = m]
    BY <1>3, <2>1, <2>3 DEF InheritDone
  <2>5. UNCHANGED <<tree, arg, nextid>> /\ pc' = [pc EXCEPT ![t] = "merge_lock"]
    BY <1>3 DEF InheritDone, Goto, locals, ghosts
  <2>6. m \in Seq(SUBSET Access)
    <3>1. masks[d] \in Seq(SUBSET Access) /\ masks[p] \in Seq(SUBSET Access)
      BY <2>2 DEF ShapeTypes
    <3>2. Len(masks[d]) \in Nat /\ Len(masks[p]) \in Nat /\ DOMAIN masks[d] = 1 .. Len(masks[d])
      BY <3>1, LenProperties
    <3>3. \A i \in 1 .. Len(masks[d]) : m[i] \in SUBSET Access
      BY <2>3, <3>1, <3>2, ElementOfSeq
    <3>4. m = [i \in 1 .. Len(masks[d]) |-> m[i]]
      BY <2>3, <3>2
    <3> QED BY <3>2, <3>3, <3>4
  <2> QED BY <1>0, <2>4, <2>5, <2>6 DEF ShapeTypes, Types, Threads
<1>4. ASSUME MergeLock(t) PROVE ShapeTypes'
  <2>1. PICK d, q, n : d = newdom[t] /\ q = rs[t] /\ n = Len(masks[d])
    OBVIOUS
  <2>2. d \in Rulesets /\ q \in Rulesets
    BY <1>4, <2>1, MergeLocals DEF MergeLock, At, StackLabels
  <2>3. PICK a : a = masks[q][1]
    OBVIOUS
  <2>4. a \in SUBSET Access
    <3>1. masks[q] \in Seq(SUBSET Access)
      BY <2>2 DEF ShapeTypes
    <3>2. Len(masks[q]) = 1
      BY <2>1, <2>2, RulesetAssumption DEF RulesOK
    <3> QED BY <2>3, <3>1, <3>2, ElementOfSeq
  <2>5. masks' = [masks EXCEPT ![d] = [masks[d] EXCEPT ![n] = a]]
    BY <1>4, <2>1, <2>3 DEF MergeLock
  <2>6. [masks[d] EXCEPT ![n] = a] \in Seq(SUBSET Access)
    <3>1. masks[d] \in Seq(SUBSET Access) /\ n \in Nat /\ DOMAIN masks[d] = 1 .. n
      BY <2>1, <2>2, LenProperties DEF ShapeTypes
    <3>2. n = Depth(t) + 1 /\ Depth(t) \in Nat
      <4>1. pc[t] = "merge_lock"
        BY <1>4 DEF MergeLock, At
      <4> QED BY <2>1, <4>1, MergeLocals, DepthNat DEF StacksOK, StackOK, StackLabels, Extends
    <3>3. n \in 1 .. n
      BY <3>2
    <3> QED BY <2>1, <2>4, <3>1, <3>3, ExceptSeq
  <2>7. UNCHANGED <<tree, arg, nextid>> /\ pc' = [pc EXCEPT ![t] = "merge_rules"]
    BY <1>4 DEF MergeLock, Goto, ghosts
  <2> QED BY <1>0, <2>5, <2>6, <2>7 DEF ShapeTypes, Types, Threads
<1> QED BY <1>1, <1>2, <1>3, <1>4 DEF LayerWrite

\* ...and by the freeing of a ruleset, hence by all.
LEMMA ShapeTypesStep ==
    ASSUME Core, PreparedOK, ShapeTypes, RulesOK, StacksOK, [Next]_vars
    PROVE  ShapeTypes'
<1>0. Types
  BY DEF Core
<1>1. ASSUME UNCHANGED shapevars, \A x \in Tasks : Insert(x) PROVE ShapeTypes'
  BY <1>1 DEF ShapeTypes, shapevars, Insert
<1>2. ASSUME NEW t \in Tasks, ShapeStep(t) PROVE ShapeTypes'
  BY <1>2, ShapeAlloc, ShapeRule, ShapeWrite DEF ShapeStep
<1>3. ASSUME NEW t \in Threads, FreeRuleset(t) PROVE ShapeTypes'
  <2>1. NoRules \in [Objects -> Layers]
    BY DEF NoRules, Layers
  <2>2. tree' = [tree EXCEPT ![fr[t]] = NoRules] /\ UNCHANGED <<masks, arg, nextid>>
        /\ pc' = [pc EXCEPT ![t] = "put_hierarchy"]
    BY <1>3 DEF FreeRuleset, Goto, locals, ghosts
  <2>3. \A u \in Tasks : pc'[u] = "insert_rule" => pc[u] = "insert_rule"
    BY <1>0, <2>2 DEF Types, Threads
  <2>4. tree' \in [Rulesets -> [Objects -> Layers]]
    BY <2>1, <2>2 DEF ShapeTypes
  <2> QED BY <2>2, <2>3, <2>4 DEF ShapeTypes
<1>4. ASSUME NEW t \in Threads, Kfree(t) PROVE ShapeTypes'
  <2>1. <<>> \in Seq(SUBSET Access)
    OBVIOUS
  <2>2. masks' = [masks EXCEPT ![fr[t]] = <<>>] /\ UNCHANGED <<tree, arg, nextid>>
        /\ pc' = [pc EXCEPT ![t] = ret[t]]
    BY <1>4 DEF Kfree, Goto, locals
  <2>3. ret[t] # "insert_rule"
    BY <1>0 DEF Types, Returns
  <2>4. \A u \in Tasks : pc'[u] = "insert_rule" => pc[u] = "insert_rule"
    BY <1>0, <2>2, <2>3 DEF Types, Threads
  <2>5. masks' \in [Rulesets -> Seq(SUBSET Access)]
    BY <2>1, <2>2 DEF ShapeTypes
  <2> QED BY <2>2, <2>4, <2>5 DEF ShapeTypes
<1> QED BY <1>0, <1>1, <1>2, <1>3, <1>4, ShapeSteps

\* A credential in use keeps its domain, but for the merge that prepared it.
LEMMA CredKept ==
    ASSUME Core, CredsOK, [Next]_vars, NEW c \in Creds, cstate[c] = "live"
    PROVE  \/ cdom'[c] = cdom[c]
           \/ \E t \in Tasks : ncred[t] = c /\ (ReplaceDomain(t) \/ AssignDomain(t))
<1> USE RulesetAssumption, Using DEF Core, Types, Idle, OrNull
<1>1. CASE UNCHANGED credvars
  BY <1>1 DEF credvars
<1>2. ASSUME NEW t \in Tasks, NEW d \in Creds, PrepareCreds(t, d) PROVE cdom'[c] = cdom[c]
  BY <1>2 DEF PrepareCreds, NewCred
<1>3. ASSUME NEW t \in Tasks, NEW d \in Creds, ChangeCreds(t, d) PROVE cdom'[c] = cdom[c]
  BY <1>3 DEF ChangeCreds
<1>4. ASSUME NEW t \in Tasks, NEW d \in Creds, NEW u \in Tasks, Fork(t, u, d) PROVE cdom'[c] = cdom[c]
  BY <1>4 DEF Fork, NewCred
<1>5. ASSUME NEW t \in Tasks, NEW u \in Tasks, CloneThread(t, u) PROVE cdom'[c] = cdom[c]
  BY <1>5 DEF CloneThread, cvars
<1>6. ASSUME NEW t \in Tasks, ReplaceDomain(t) \/ AssignDomain(t), ncred[t] # c PROVE cdom'[c] = cdom[c]
  BY <1>6 DEF ReplaceDomain, AssignDomain
<1>7. ASSUME NEW t \in Tasks, CommitCreds(t) PROVE cdom'[c] = cdom[c]
  BY <1>7 DEF CommitCreds
<1>8. ASSUME NEW t \in Tasks, AbortCreds(t) PROVE cdom'[c] = cdom[c]
  BY <1>8 DEF AbortCreds
<1>9. ASSUME NEW t \in Tasks, Exit(t) PROVE cdom'[c] = cdom[c]
  BY <1>9 DEF Exit
<1>10. ASSUME NEW d \in Creds, CredFree(d) PROVE cdom'[c] = cdom[c]
  BY <1>10 DEF CredFree
<1> QED BY <1>1, <1>2, <1>3, <1>4, <1>5, <1>6, <1>7, <1>8, <1>9, <1>10, CredSteps DEF CredStep

\* Two mutexes are taken...
LEMMA TwoTaken ==
    ASSUME Types, LocksOK, NEW t \in Tasks, NEW a \in Rulesets, NEW b \in Rulesets,
           rlock[a] = NULL, rlock[b] = NULL, rlock' = [rlock EXCEPT ![a] = t, ![b] = t],
           \A r \in Rulesets : ~Locks(t, r) /\ (Locks(t, r)' <=> r \in {a, b}),
           \A u \in Tasks \ {t} : \A r \in Rulesets : Locks(u, r)' <=> Locks(u, r)
    PROVE  LocksOK'
<1>1. \A r \in Rulesets : rlock'[r] = IF r \in {a, b} THEN t ELSE rlock[r]
  BY DEF Types
<1>2. ASSUME NEW u \in Tasks, NEW r \in Rulesets, u # t PROVE rlock'[r] = u <=> Locks(u, r)'
  <2>1. Locks(u, r)' <=> rlock[r] = u
    BY <1>2 DEF LocksOK
  <2>2. r \in {a, b} => rlock[r] = NULL
    OBVIOUS
  <2>3. u # NULL
    BY RulesetAssumption
  <2>4. Locks(u, r)' <=> Locks(u, r)
    BY <1>2
  <2> QED BY ONLY <1>1, <1>2, <2>1, <2>2, <2>3, <2>4
<1>3. ASSUME NEW r \in Rulesets PROVE rlock'[r] = t <=> Locks(t, r)'
  BY <1>1 DEF LocksOK
<1>4. \A u \in Tasks, r \in Rulesets : rlock'[r] = u <=> Locks(u, r)'
  BY ONLY <1>2, <1>3
<1> QED BY ONLY <1>4 DEF LocksOK

\* ...or released.
LEMMA TwoReleased ==
    ASSUME Types, LocksOK, NEW t \in Tasks, NEW a \in Rulesets, NEW b \in Rulesets,
           rlock' = [rlock EXCEPT ![a] = NULL, ![b] = NULL],
           \A r \in Rulesets : (Locks(t, r) <=> r \in {a, b}) /\ ~Locks(t, r)',
           \A u \in Tasks \ {t} : \A r \in Rulesets : Locks(u, r)' <=> Locks(u, r)
    PROVE  LocksOK'
<1>1. \A r \in Rulesets : rlock'[r] = IF r \in {a, b} THEN NULL ELSE rlock[r]
  BY DEF Types
<1>2. ASSUME NEW u \in Tasks, NEW r \in Rulesets, u # t PROVE rlock'[r] = u <=> Locks(u, r)'
  <2>1. Locks(u, r)' <=> rlock[r] = u
    BY <1>2 DEF LocksOK
  <2>2. r \in {a, b} => rlock[r] = t
    BY DEF LocksOK
  <2> QED BY <1>1, <1>2, <2>1, <2>2, RulesetAssumption
<1>3. ASSUME NEW r \in Rulesets PROVE rlock'[r] = t <=> Locks(t, r)'
  <2>1. rlock[r] = t <=> r \in {a, b}
    BY DEF LocksOK
  <2> QED BY <1>1, <2>1, RulesetAssumption
<1>4. \A u \in Tasks, r \in Rulesets : rlock'[r] = u <=> Locks(u, r)'
  BY ONLY <1>2, <1>3
<1> QED BY ONLY <1>4 DEF LocksOK

\* A mutex is held by the walk that locked it, and by no other.
LEMMA LocksStep ==
    ASSUME Core, CredsOK, PreparedOK, LocksOK, [Next]_vars
    PROVE  LocksOK'
<1>0. Types
  BY DEF Core
<1>1. ASSUME \A x \in Tasks : WalkFrame(x) PROVE LocksOK'
  <2>1. ASSUME NEW x \in Tasks, NEW r \in Rulesets PROVE Locks(x, r)' <=> Locks(x, r)
    <3>1. CASE pc[x] \notin WalkLabels /\ pc'[x] \notin WalkLabels
      BY <3>1 DEF Locks, WalkLabels
    <3>2. CASE pc'[x] = pc[x] /\ pc[x] = "merge_rules"
      BY <1>1, <3>2 DEF Locks, WalkFrame, WalkLabels
    <3>3. CASE pc'[x] = pc[x] /\ pc[x] = "inherit"
      <4>1. ncred[x] \in Creds /\ ncred'[x] = ncred[x] /\ newdom'[x] = newdom[x]
        BY <1>1, <3>3, MergeLocals DEF WalkFrame, WalkLabels, StackLabels
      <4>2. cstate[ncred[x]] = "live" /\ \A t \in Tasks : ncred[t] = ncred[x] => t = x
        BY <4>1, RulesetAssumption DEF CredsOK
      <4>3. ~ReplaceDomain(x) /\ ~AssignDomain(x)
        BY <3>3 DEF ReplaceDomain, AssignDomain, At
      <4>4. cdom'[ncred[x]] = cdom[ncred[x]]
        BY <4>1, <4>2, <4>3, CredKept
      <4> QED BY <3>3, <4>1, <4>4 DEF Locks, Parent
    <3> QED BY <1>1, <3>1, <3>2, <3>3 DEF WalkFrame, WalkLabels
  <2>2. rlock' = rlock \/ Tasks = {}
    BY <1>1 DEF WalkFrame
  <2> QED BY <2>1, <2>2 DEF LocksOK
<1>2. ASSUME NEW t \in Tasks, MutexStep(t) PROVE LocksOK'
  <2>1. /\ UNCHANGED <<newdom, rs, ncred, cdom>>
        /\ \A u \in Tasks \ {t} : pc'[u] = pc[u]
    BY <1>0, <1>2 DEF MutexStep, InheritLock, InheritFails, InheritDone, MergeLock, MergeRuleFails,
       MergeDone, Goto, Types, cvars, locals, Threads
  <2>2. \A u \in Tasks \ {t} : \A r \in Rulesets : Locks(u, r)' <=> Locks(u, r)
    BY <2>1 DEF Locks, Parent
  <2>3. CASE InheritLock(t)
    <3>1. PICK p, d : p = Parent(t) /\ d = newdom[t]
      OBVIOUS
    <3>2. p \in Rulesets /\ d \in Rulesets /\ pc[t] = "inherit_lock" /\ pc'[t] = "inherit"
      BY <1>0, <2>3, <3>1, MergeLocals DEF InheritLock, At, Goto, StackLabels, Types, Threads
    <3>3. rlock[p] = NULL /\ rlock[d] = NULL /\ rlock' = [rlock EXCEPT ![p] = t, ![d] = t]
      BY <2>3, <3>1 DEF InheritLock, Lock, Unlocked
    <3>4. \A r \in Rulesets : ~Locks(t, r) /\ (Locks(t, r)' <=> r \in {p, d})
      BY <2>1, <3>1, <3>2 DEF Locks, Parent
    <3> QED BY <1>0, <2>2, <3>2, <3>3, <3>4, TwoTaken
  <2>4. CASE MergeLock(t)
    <3>1. PICK p, d : p = rs[t] /\ d = newdom[t]
      OBVIOUS
    <3>2. p \in Rulesets /\ d \in Rulesets /\ pc[t] = "merge_lock" /\ pc'[t] = "merge_rules"
      BY <1>0, <2>4, <3>1, MergeLocals DEF MergeLock, At, Goto, StackLabels, Types, Threads
    <3>3. rlock[p] = NULL /\ rlock[d] = NULL /\ rlock' = [rlock EXCEPT ![p] = t, ![d] = t]
      BY <2>4, <3>1 DEF MergeLock, Lock, Unlocked
    <3>4. \A r \in Rulesets : ~Locks(t, r) /\ (Locks(t, r)' <=> r \in {p, d})
      BY <2>1, <3>1, <3>2 DEF Locks, Parent
    <3> QED BY <1>0, <2>2, <3>2, <3>3, <3>4, TwoTaken
  <2>5. CASE InheritFails(t) \/ InheritDone(t)
    <3>1. PICK p, d : p = Parent(t) /\ d = newdom[t]
      OBVIOUS
    <3>2. p \in Rulesets /\ d \in Rulesets /\ pc[t] = "inherit"
      BY <2>5, <3>1, MergeLocals DEF InheritFails, InheritDone, At, StackLabels
    <3>3. pc'[t] \in {"put_dom", "merge_lock"} /\ rlock' = [rlock EXCEPT ![p] = NULL, ![d] = NULL]
      BY <1>0, <2>5, <3>1 DEF InheritFails, InheritDone, Goto, Unlock, Types, Threads
    <3>4. \A r \in Rulesets : (Locks(t, r) <=> r \in {p, d}) /\ ~Locks(t, r)'
      BY <3>1, <3>2, <3>3 DEF Locks
    <3> QED BY <1>0, <2>2, <3>2, <3>3, <3>4, TwoReleased
  <2>6. CASE MergeRuleFails(t) \/ MergeDone(t)
    <3>1. PICK p, d : p = rs[t] /\ d = newdom[t]
      OBVIOUS
    <3>2. p \in Rulesets /\ d \in Rulesets /\ pc[t] = "merge_rules"
      BY <2>6, <3>1, MergeLocals DEF MergeRuleFails, MergeDone, At, StackLabels
    <3>3. pc'[t] \in {"put_dom", "replace"} /\ rlock' = [rlock EXCEPT ![p] = NULL, ![d] = NULL]
      BY <1>0, <2>6, <3>1 DEF MergeRuleFails, MergeDone, Goto, Unlock, Types, Threads
    <3>4. \A r \in Rulesets : (Locks(t, r) <=> r \in {p, d}) /\ ~Locks(t, r)'
      BY <3>1, <3>2, <3>3 DEF Locks
    <3> QED BY <1>0, <2>2, <3>2, <3>3, <3>4, TwoReleased
  <2> QED BY <1>2, <2>3, <2>4, <2>5, <2>6 DEF MutexStep
<1> QED BY <1>1, <1>2, WalkMoves

\* The layers of a rule, and one more on top.
LEMMA SortedAppend ==
    ASSUME NEW s \in Layers, NEW n \in Nat, Sorted(s, n), NEW a \in SUBSET Access
    PROVE  /\ Sorted(s, n + 1)
           /\ Sorted(Append(s, [level |-> n + 1, access |-> a]), n + 1)
           /\ Sorted(<<[level |-> n + 1, access |-> a]>>, n + 1)
           /\ Len(s) <= n
           /\ Append(s, [level |-> n + 1, access |-> a]) \in Layers
<1>1. PICK l : l = [level |-> n + 1, access |-> a]
  OBVIOUS
<1>2. l \in [level : Nat, access : SUBSET Access] /\ l.level = n + 1
  BY <1>1
<1>3. s \in Seq([level : Nat, access : SUBSET Access])
  BY DEF Layers
<1>4. Len(s) \in Nat /\ \A i \in 1 .. Len(s) : s[i].level \in Nat /\ s[i].level \in i .. n
  BY <1>3, ElementOfSeq DEF Sorted
<1>5. Len(s) <= n
  <2>1. CASE Len(s) = 0
    BY <2>1
  <2>2. CASE Len(s) # 0
    <3>1. Len(s) \in 1 .. Len(s)
      BY <1>4, <2>2
    <3>2. s[Len(s)].level \in Len(s) .. n /\ s[Len(s)].level \in Nat
      BY <1>4, <3>1
    <3> QED BY <1>4, <3>2
  <2> QED BY <2>1, <2>2
<1>6. PICK u : u = Append(s, l)
  OBVIOUS
<1>7. /\ u \in Seq([level : Nat, access : SUBSET Access]) /\ Len(u) = Len(s) + 1
      /\ \A i \in 1 .. Len(s) : u[i] = s[i]
      /\ u[Len(s) + 1] = l
  BY <1>2, <1>3, <1>6, AppendProperties
<1>8. Sorted(u, n + 1)
  <2>1. ASSUME NEW i \in 1 .. Len(u) PROVE u[i].level \in i .. n + 1
    <3>1. CASE i \in 1 .. Len(s)
      <4>1. u[i].level = s[i].level /\ s[i].level \in i .. n
        BY <1>4, <1>7, <3>1
      <4> QED BY <4>1
    <3>2. CASE i = Len(s) + 1
      BY <1>2, <1>4, <1>5, <1>7, <3>2
    <3> QED BY <1>4, <1>7, <3>1, <3>2
  <2>2. ASSUME NEW i \in 2 .. Len(u) PROVE u[i - 1].level < u[i].level
    <3>1. CASE i \in 2 .. Len(s)
      <4>1. i - 1 \in 1 .. Len(s) /\ i \in 1 .. Len(s)
        BY <1>4, <3>1
      <4> QED BY <1>7, <3>1, <4>1 DEF Sorted
    <3>2. CASE i = Len(s) + 1
      <4>1. i - 1 \in 1 .. Len(s) /\ i - 1 = Len(s)
        BY <1>4, <1>7, <3>2
      <4>2. u[i - 1].level = s[i - 1].level /\ s[i - 1].level \in i - 1 .. n /\ s[i - 1].level \in Nat
        BY <1>4, <1>7, <4>1
      <4> QED BY <1>2, <1>7, <3>2, <4>2
    <3> QED BY <1>4, <1>7, <3>1, <3>2
  <2> QED BY <2>1, <2>2 DEF Sorted
<1>9. Sorted(s, n + 1)
  <2>1. \A i \in 1 .. Len(s) : s[i].level \in i .. n + 1
    BY <1>4
  <2> QED BY <2>1 DEF Sorted
<1>10. Sorted(<<l>>, n + 1)
  BY <1>2 DEF Sorted
<1>11. u \in Layers
  BY <1>7 DEF Layers
<1> QED BY <1>1, <1>5, <1>6, <1>8, <1>9, <1>10, <1>11

\* The layers of a task's domain are in order.
LEMMA BaseSorted ==
    ASSUME Core, UsagesOK, KindsOK, ShapeTypes, RulesOK, NEW t \in Tasks, tcred[t] \in Creds,
           NEW o \in Objects
    PROVE  Sorted(Base(t, o), Depth(t))
<1>1. CASE DomainOf(t) = NULL
  BY <1>1 DEF Base, Depth, Sorted
<1>2. CASE DomainOf(t) # NULL
  <2>1. PICK d : d = DomainOf(t)
    OBVIOUS
  <2>2. d \in Rulesets /\ rstate[d] = "live" /\ hier[d] # NULL
    BY <1>2, <2>1, NotFree DEF Core, DomainOf, KindsOK
  <2> QED BY <1>2, <2>1, <2>2 DEF RulesOK, Ordered, Base, Depth
<1> QED BY <1>1, <1>2

\* The step of inherit_ruleset() and merge_ruleset() on one rule.
LEMMA RuleWritten ==
    ASSUME Core, PreparedOK, UsagesOK, KindsOK, ShapeTypes, RulesOK, StacksOK,
           NEW t \in Tasks, NEW o \in Objects, InheritRule(t, o) \/ MergeRule(t, o)
    PROVE  \E d \in Rulesets, new \in Layers :
              /\ d = newdom[t] /\ Len(masks[d]) = Depth(t) + 1
              /\ tree'[d][o] = new
              /\ Sorted(new, Depth(t) + 1)
              /\ InheritRule(t, o) => new = Base(t, o)
              /\ MergeRule(t, o) => new = OneMore(t, o, tree[rs[t]][o][1].access)
              /\ tree[rs[t]][o][1].access \in SUBSET Access \/ InheritRule(t, o)
              /\ tree' \in [Rulesets -> [Objects -> Layers]]
              /\ \A p \in Objects \ {o} : tree'[d][p] = tree[d][p]
              /\ \A q \in Rulesets \ {d} : tree'[q] = tree[q]
<1>1. PICK d : d = newdom[t]
  OBVIOUS
<1>2. /\ pc[t] \in {"inherit", "merge_rules"} /\ Label(t) = pc[t] /\ o \in todo[t]
      /\ d \in Rulesets /\ rs[t] \in Rulesets /\ tcred[t] \in Creds
  BY <1>1, MergeLocals DEF InheritRule, MergeRule, At, StackLabels
<1>3. Len(masks[d]) = Depth(t) + 1 /\ Depth(t) \in Nat /\ Base(t, o) \in Layers /\ Sorted(Base(t, o), Depth(t))
  BY <1>1, <1>2, DepthNat, BaseSorted DEF StacksOK, StackOK, Extends
<1>4. CASE InheritRule(t, o)
  <2>1. pc[t] = "inherit" /\ Parent(t) \in Rulesets /\ tree[Parent(t)][o] = Base(t, o)
    BY <1>4, RulesetAssumption, MergeLocals DEF InheritRule, At, Base
  <2>2. InsertRule(d, o, Base(t, o))
    BY <1>1, <1>4, <2>1 DEF InheritRule
  <2>3. tree[d][o] = <<>>
    BY <1>1, <1>2, <2>1 DEF StacksOK, StackOK
  <2>4. Inserted(d, o, Base(t, o)) = Base(t, o)
    BY <2>3 DEF Inserted
  <2>5. Sorted(Base(t, o), Depth(t) + 1)
    BY <1>3, SortedAppend
  <2>6. ~MergeRule(t, o)
    BY <2>1 DEF MergeRule, At
  <2> QED BY <1>1, <1>2, <1>3, <1>4, <2>2, <2>4, <2>5, <2>6, InsertTyped
<1>5. CASE MergeRule(t, o)
  <2>1. pc[t] = "merge_rules" /\ InsertRule(d, o, MergedLayer(t, o)) /\ ~InheritRule(t, o)
    BY <1>1, <1>5 DEF MergeRule, InheritRule, At
  <2>2. PICK a : a = tree[rs[t]][o][1].access
    OBVIOUS
  <2>3. a \in SUBSET Access
    <3>1. PICK s : s = tree[rs[t]][o]
      OBVIOUS
    <3>2. s # <<>> /\ s \in Layers
      BY <1>2, <2>1, <3>1 DEF StacksOK, StackOK, ShapeTypes
    <3> QED BY <2>2, <3>1, <3>2, FirstLayer
  <2>4. PICK l : l = [level |-> Depth(t) + 1, access |-> a]
    OBVIOUS
  <2>5. l \in [level : Nat, access : SUBSET Access] /\ l.level = Depth(t) + 1
    BY <1>3, <2>3, <2>4
  <2>6. MergedLayer(t, o) = <<l>> /\ <<l>> \in Layers
    BY <1>1, <1>3, <2>2, <2>4, <2>5 DEF MergedLayer, Layers
  <2>7. tree[d][o] = Base(t, o)
    BY <1>1, <1>2, <2>1 DEF StacksOK, StackOK
  <2>8. Inserted(d, o, <<l>>) = Append(Base(t, o), l)
    <3>1. l.level # 0
      BY <1>3, <2>5
    <3>2. Base(t, o) = <<>> => Append(Base(t, o), l) = <<l>>
      OBVIOUS
    <3> QED BY <2>7, <3>1, <3>2 DEF Inserted
  <2>9. OneMore(t, o, a) = Append(Base(t, o), l) /\ Sorted(Append(Base(t, o), l), Depth(t) + 1)
        /\ Append(Base(t, o), l) \in Layers
    BY <1>3, <2>3, <2>4, SortedAppend DEF OneMore
  <2>10. PICK new : new = Append(Base(t, o), l)
    OBVIOUS
  <2>11. /\ tree' \in [Rulesets -> [Objects -> Layers]]
         /\ tree'[d][o] = new
         /\ \A p \in Objects \ {o} : tree'[d][p] = tree[d][p]
         /\ \A q \in Rulesets \ {d} : tree'[q] = tree[q]
    BY <1>2, <2>1, <2>6, <2>8, <2>10, InsertTyped
  <2>12. new \in Layers /\ Sorted(new, Depth(t) + 1) /\ new = OneMore(t, o, tree[rs[t]][o][1].access)
    BY <2>2, <2>9, <2>10
  <2>13. tree[rs[t]][o][1].access \in SUBSET Access
    BY <2>2, <2>3
  <2> QED BY ONLY <1>1, <1>2, <1>3, <2>1, <2>11, <2>12, <2>13
<1> QED BY <1>4, <1>5

\* Writing masks or the parent node leaves the number of layers alone.
LEMMA MasksWritten ==
    ASSUME Core, PreparedOK, ShapeTypes, RulesOK, StacksOK,
           NEW t \in Tasks, InheritDone(t) \/ MergeLock(t)
    PROVE  \E d \in Rulesets :
              /\ d = newdom[t] /\ tree' = tree
              /\ Len(masks'[d]) = Len(masks[d]) /\ Len(masks[d]) = Depth(t) + 1
              /\ \A i \in 1 .. Depth(t) : masks'[d][i] =
                    IF InheritDone(t) THEN masks[DomainOf(t)][i] ELSE masks[d][i]
              /\ MergeLock(t) => masks'[d][Depth(t) + 1] = masks[rs[t]][1]
              /\ \A q \in Rulesets \ {d} : masks'[q] = masks[q]
<1>1. PICK d, n : d = newdom[t] /\ n = Len(masks[d])
  OBVIOUS
<1>2. /\ pc[t] \in {"inherit", "merge_lock"} /\ Label(t) = pc[t]
      /\ d \in Rulesets /\ rs[t] \in Rulesets /\ tcred[t] \in Creds
  BY <1>1, MergeLocals DEF InheritDone, MergeLock, At, StackLabels
<1>3. n = Depth(t) + 1 /\ Depth(t) \in Nat
  BY <1>1, <1>2, DepthNat DEF StacksOK, StackOK, Extends
<1>4. masks[d] \in Seq(SUBSET Access) /\ DOMAIN masks[d] = 1 .. n
  BY <1>1, <1>2, LenProperties DEF ShapeTypes
<1>5. CASE InheritDone(t)
  <2>1. PICK p : p = Parent(t)
    OBVIOUS
  <2>2. pc[t] = "inherit" /\ p \in Rulesets /\ p = DomainOf(t) /\ Depth(t) = Len(masks[p]) /\ ~MergeLock(t)
    BY <1>5, <2>1, RulesetAssumption, MergeLocals DEF InheritDone, MergeLock, At, Depth
  <2>3. PICK m : m = [i \in DOMAIN masks[d] |-> IF i <= Len(masks[p]) THEN masks[p][i] ELSE masks[d][i]]
    OBVIOUS
  <2>4. masks' = [masks EXCEPT ![d] = m] /\ tree' = tree
    BY <1>1, <1>5, <2>1, <2>3 DEF InheritDone
  <2>5. masks'[d] = m /\ \A q \in Rulesets \ {d} : masks'[q] = masks[q]
    BY <1>2, <2>4 DEF ShapeTypes
  <2>6. m = [i \in 1 .. n |-> IF i <= Depth(t) THEN masks[p][i] ELSE masks[d][i]]
    BY <1>4, <2>2, <2>3
  <2>7. Len(m) = n
    BY <1>3, <2>6
  <2>8. \A i \in 1 .. Depth(t) : m[i] = masks[p][i]
    BY <1>3, <2>6
  <2>9. \A i \in 1 .. Depth(t) : masks'[d][i] =
           IF InheritDone(t) THEN masks[DomainOf(t)][i] ELSE masks[d][i]
    BY ONLY <1>5, <2>2, <2>5, <2>8
  <2>10. Len(masks'[d]) = Len(masks[d]) /\ Len(masks[d]) = Depth(t) + 1
    BY ONLY <1>1, <1>3, <2>5, <2>7
  <2> QED BY ONLY <1>1, <1>2, <2>2, <2>4, <2>5, <2>9, <2>10
<1>6. CASE MergeLock(t)
  <2>1. PICK a : a = masks[rs[t]][1]
    OBVIOUS
  <2>2. a \in SUBSET Access
    <3>1. PICK s : s = masks[rs[t]]
      OBVIOUS
    <3>2. s \in Seq(SUBSET Access) /\ Len(s) = 1
      BY <1>2, <3>1, RulesetAssumption DEF ShapeTypes, RulesOK
    <3> QED BY <2>1, <3>1, <3>2, ElementOfSeq
  <2>3. PICK m : m = [masks[d] EXCEPT ![n] = a]
    OBVIOUS
  <2>4. masks' = [masks EXCEPT ![d] = m] /\ tree' = tree /\ ~InheritDone(t)
    BY <1>1, <1>6, <2>1, <2>3 DEF MergeLock, InheritDone, At
  <2>5. masks'[d] = m /\ \A q \in Rulesets \ {d} : masks'[q] = masks[q]
    BY <1>2, <2>4 DEF ShapeTypes
  <2>6. n \in 1 .. Len(masks[d])
    BY <1>1, <1>3
  <2>7. Len(m) = n /\ \A i \in 1 .. n : m[i] = IF i = n THEN a ELSE masks[d][i]
    BY <1>1, <1>4, <2>2, <2>3, <2>6, ExceptSeq
  <2>8. m[Depth(t) + 1] = a /\ \A i \in 1 .. Depth(t) : m[i] = masks[d][i]
    BY <1>3, <2>7
  <2>9. \A i \in 1 .. Depth(t) : masks'[d][i] =
           IF InheritDone(t) THEN masks[DomainOf(t)][i] ELSE masks[d][i]
    BY ONLY <2>4, <2>5, <2>8
  <2>10. Len(masks'[d]) = Len(masks[d]) /\ Len(masks[d]) = Depth(t) + 1
    BY ONLY <1>1, <1>3, <2>5, <2>7
  <2>11. masks'[d][Depth(t) + 1] = masks[rs[t]][1]
    BY ONLY <2>1, <2>5, <2>8
  <2> QED BY ONLY <1>1, <1>2, <2>4, <2>5, <2>9, <2>10, <2>11
<1> QED BY <1>5, <1>6

\* Nobody writes the domain of a task.
LEMMA DomainKept ==
    ASSUME Core, CredsOK, UsagesOK, Exclusive, KindsOK, ShapeTypes, [Next]_vars,
           NEW t \in Tasks, tcred[t] # NULL, DomainOf(t) # NULL
    PROVE  LayerFrame(DomainOf(t))
<1>1. PICK d : d = DomainOf(t)
  OBVIOUS
<1>2. tcred[t] \in Creds /\ d = cdom[tcred[t]]
  BY <1>1 DEF Core, Types, OrNull, DomainOf
<1>3. d \in Rulesets /\ rstate[d] = "live" /\ hier[d] # NULL
  BY <1>1, <1>2, NotFree DEF Core, KindsOK
<1>4. LayerMove(d)
  BY <1>3, LayerMoves
<1>5. ASSUME NEW u \in Tasks, rs[u] = d PROVE FALSE
  BY <1>3, <1>5, RulesetAssumption DEF KindsOK
<1>6. ASSUME NEW u \in Tasks, newdom[u] = d PROVE FALSE
  BY <1>1, <1>3, <1>6, NotOthers DEF OwnDomain
<1> QED BY <1>1, <1>4, <1>5, <1>6 DEF LayerMove

\* Nobody but its task writes the domain under construction.
LEMMA OwnKept ==
    ASSUME Core, UsagesOK, Exclusive, ShapeTypes, [Next]_vars,
           NEW t \in Tasks, NEW d \in Rulesets, OwnDomain(t, d)
    PROVE  LayerFrame(d) \/ (newdom[t] = d /\ LayerWrite(t))
<1>1. rstate[d] = "live"
  BY RulesetAssumption, NotFree DEF Core, Types, OrNull, OwnDomain, Committing
<1>2. LayerMove(d)
  BY <1>1, LayerMoves
<1>3. \A u \in Tasks : rs[u] # d /\ (newdom[u] = d => u = t)
  BY DEF Exclusive
<1> QED BY <1>2, <1>3 DEF LayerMove

\* A ruleset in use changes only by landlock_add_rule(2), and not while a
\* merge reads it.
LEMMA RulesetKept ==
    ASSUME Core, UsagesOK, Exclusive, ShapeTypes, [Next]_vars,
           NEW r \in Rulesets, r \in fd \/ \E t \in Tasks : rs[t] = r
    PROVE  LayerFrame(r) \/ \E t \in Tasks : rs[t] = r /\ AppendFsRule(t)
<1>1. rstate[r] = "live"
  BY RulesetAssumption, NotFree DEF Core
<1>2. LayerMove(r)
  BY <1>1, LayerMoves
<1>3. \A t \in Tasks : newdom[t] # r
  BY DEF Exclusive, OwnDomain
<1> QED BY <1>2, <1>3 DEF LayerMove

\* landlock_add_rule(2) adds to a ruleset.
LEMMA RuleAppended ==
    ASSUME Core, UsagesOK, KindsOK, ShapeTypes, RulesOK, NEW t \in Tasks, AppendFsRule(t)
    PROVE  \E r \in Rulesets, o \in Objects, a \in SUBSET Access :
              /\ r = rs[t] /\ rlock[r] = NULL /\ rstate[r] = "live" /\ hier[r] = NULL
              /\ tree' \in [Rulesets -> [Objects -> Layers]]
              /\ \A p \in Objects \ {o} : tree'[r][p] = tree[r][p]
              /\ \A q \in Rulesets \ {r} : tree'[q] = tree[q]
              /\ tree[r][o] = <<>> => tree'[r][o] = <<[level |-> 0, access |-> a]>>
              /\ tree[r][o] # <<>> =>
                    tree'[r][o] = <<[level |-> 0, access |-> tree[r][o][1].access \cup a]>>
              /\ UNCHANGED masks
<1>1. PICK r : r = rs[t]
  OBVIOUS
<1>2. pc[t] = "insert_rule" /\ rlock[r] = NULL /\ InsertRule(r, arg[t][1], arg[t][2]) /\ UNCHANGED masks
  BY <1>1 DEF AppendFsRule, At
<1>3. r \in Rulesets /\ rstate[r] = "live" /\ hier[r] = NULL
  <2>1. rs[t] \in Rulesets
    BY <1>2, Using DEF CallLabels
  <2> QED BY <1>1, <2>1, RulesetAssumption, NotFree DEF Core, KindsOK
<1>4. PICK o \in Objects, a \in SUBSET Access : arg[t][1] = o /\ arg[t][2] = <<[level |-> 0, access |-> a]>>
  BY <1>2, ArgTyped
<1>5. PICK l : l = [level |-> 0, access |-> a]
  OBVIOUS
<1>6. l \in [level : Nat, access : SUBSET Access] /\ l.level = 0 /\ l.access = a
  BY <1>5
<1>7. <<l>> \in Layers /\ InsertRule(r, o, <<l>>)
  BY <1>2, <1>4, <1>5, <1>6 DEF Layers
<1>8. Inserted(r, o, <<l>>) = IF tree[r][o] = <<>> THEN <<l>>
                             ELSE <<[level |-> 0, access |-> tree[r][o][1].access \cup a]>>
  BY <1>6 DEF Inserted
<1>9. /\ tree' \in [Rulesets -> [Objects -> Layers]]
      /\ tree'[r][o] = Inserted(r, o, <<l>>)
      /\ \A p \in Objects \ {o} : tree'[r][p] = tree[r][p]
      /\ \A q \in Rulesets \ {r} : tree'[q] = tree[q]
  BY <1>3, <1>7, InsertTyped
<1>10. /\ tree[r][o] = <<>> => tree'[r][o] = <<[level |-> 0, access |-> a]>>
       /\ tree[r][o] # <<>> =>
             tree'[r][o] = <<[level |-> 0, access |-> tree[r][o][1].access \cup a]>>
  BY ONLY <1>5, <1>8, <1>9
<1> QED BY ONLY <1>1, <1>2, <1>3, <1>4, <1>9, <1>10

\* A new ruleset has one layer and no rule; a new domain has a layer more
\* than its parent, which has room for it.
LEMMA BornMeans ==
    ASSUME Core, PreparedOK, ShapeTypes, NEW q \in Rulesets, Born(q)
    PROVE  /\ rstate[q] = "free" /\ tree'[q] = NoRules /\ Len(masks'[q]) <= MaxLayers
           /\ (q \in fd' /\ q \notin fd) \/ (\E x \in Tasks : rs'[x] = q /\ rs[x] # q)
                 => Len(masks'[q]) = 1 /\ (\A t \in Tasks, h \in Hierarchies : ~CreateDomain(t, q, h))
<1>0. Types
  BY DEF Core
<1>1. ASSUME NEW t \in Tasks, NEW handled \in SUBSET Access,
             CreateRuleset(t, q, handled) \/ CreateRulesetNoFd(t, q, handled)
      PROVE  /\ rstate[q] = "free" /\ tree'[q] = NoRules /\ Len(masks'[q]) = 1
             /\ pc'[t] \in {"idle", "put_ruleset"} /\ newdom' = newdom
  BY <1>0, <1>1, RulesetAssumption DEF CreateRuleset, CreateRulesetNoFd, Alloc, ShapeTypes, locals,
     Idle, At, Goto, Types, Threads
<1>2. ASSUME NEW t \in Tasks, NEW h, Alloc(q, [i \in 1 .. NewLayers(t) |-> {}], h), MayMerge(t),
             pc[t] = "merge"
      PROVE  rstate[q] = "free" /\ tree'[q] = NoRules /\ Len(masks'[q]) <= MaxLayers
  <2>1. NewLayers(t) \in Nat /\ NewLayers(t) <= MaxLayers
    <3>1. Parent(t) = NULL \/ Parent(t) \in Rulesets
      BY <1>2, Using DEF Core, Types, Prepared, Parent, OrNull
    <3>2. Parent(t) \in Rulesets => Len(masks[Parent(t)]) \in Nat
      BY DEF ShapeTypes
    <3> QED BY <1>2, <3>1, <3>2 DEF NewLayers, MayMerge
  <2>2. PICK m : m = [i \in 1 .. NewLayers(t) |-> {}]
    OBVIOUS
  <2>3. Len(m) = NewLayers(t)
    BY <2>1, <2>2
  <2>4. masks'[q] = m /\ tree'[q] = NoRules /\ rstate[q] = "free"
    BY <1>2, <2>2 DEF Alloc, ShapeTypes
  <2> QED BY <2>1, <2>3, <2>4
<1>3. ASSUME NEW t \in Tasks, \/ \E h \in Hierarchies : CreateDomain(t, q, h)
                              \/ CreateHierarchyFails(t, q)
      PROVE  /\ rstate[q] = "free" /\ tree'[q] = NoRules /\ Len(masks'[q]) <= MaxLayers
             /\ fd' = fd /\ rs' = rs
  BY <1>2, <1>3 DEF CreateDomain, CreateHierarchyFails, At
<1> QED
  <2>1. ASSUME NEW t \in Tasks, NEW handled \in SUBSET Access,
               CreateRuleset(t, q, handled) \/ CreateRulesetNoFd(t, q, handled),
               NEW u \in Tasks, NEW h \in Hierarchies, CreateDomain(u, q, h)
        PROVE  FALSE
    <3>1. newdom' = newdom
      BY <1>1, <2>1
    <3>2. hier'[q] = NULL /\ hier'[q] = h
      BY <1>0, <2>1 DEF CreateRuleset, CreateRulesetNoFd, CreateDomain, Alloc, Types
    <3> QED BY <3>2, RulesetAssumption
  <2>2. MaxLayers \in Nat /\ MaxLayers >= 1
    BY RulesetAssumption
  <2>3. CASE \E t \in Tasks, handled \in SUBSET Access :
                CreateRuleset(t, q, handled) \/ CreateRulesetNoFd(t, q, handled)
    <3>1. \A u \in Tasks, h \in Hierarchies : ~CreateDomain(u, q, h)
      BY <2>1, <2>3
    <3>2. rstate[q] = "free" /\ tree'[q] = NoRules /\ Len(masks'[q]) = 1
      BY <1>1, <2>3
    <3> QED BY <2>2, <3>1, <3>2
  <2>4. CASE \E t \in Tasks : (\E h \in Hierarchies : CreateDomain(t, q, h)) \/ CreateHierarchyFails(t, q)
    <3>1. /\ rstate[q] = "free" /\ tree'[q] = NoRules /\ Len(masks'[q]) <= MaxLayers
          /\ fd' = fd /\ rs' = rs
      BY <1>3, <2>4
    <3> QED BY <3>1
  <2> QED BY <2>3, <2>4 DEF Born

\* The layers of rules stay in order, and those of a ruleset single.
LEMMA RulesStep ==
    ASSUME Core, PreparedOK, UsagesOK, Exclusive, KindsOK, ShapeTypes, RulesOK,
           StacksOK, [Next]_vars
    PROVE  RulesOK'
<1>1. ASSUME NEW q \in Rulesets, rstate'[q] = "live" PROVE Ordered(q)' /\ Len(masks'[q]) <= MaxLayers
  <2>1. CASE Born(q)
    <3>1. \A o \in Objects : tree'[q][o] = <<>>
      BY <2>1, BornMeans DEF NoRules
    <3> QED BY <2>1, <3>1, BornMeans DEF Ordered, Single, Sorted
  <2>2. CASE rstate[q] = "live"
    <3>1. Ordered(q) /\ Len(masks[q]) <= MaxLayers
      BY <2>2 DEF RulesOK
    <3>2. CASE LayerFrame(q)
      BY <3>1, <3>2 DEF LayerFrame, Ordered
    <3>3. ASSUME NEW t \in Tasks, rs[t] = q, AppendFsRule(t) PROVE Ordered(q)' /\ Len(masks'[q]) <= MaxLayers
      <4>1. PICK r \in Rulesets, o \in Objects, a \in SUBSET Access :
              /\ r = rs[t] /\ rlock[r] = NULL /\ rstate[r] = "live" /\ hier[r] = NULL
              /\ tree' \in [Rulesets -> [Objects -> Layers]]
              /\ \A p \in Objects \ {o} : tree'[r][p] = tree[r][p]
              /\ \A y \in Rulesets \ {r} : tree'[y] = tree[y]
              /\ tree[r][o] = <<>> => tree'[r][o] = <<[level |-> 0, access |-> a]>>
              /\ tree[r][o] # <<>> =>
                    tree'[r][o] = <<[level |-> 0, access |-> tree[r][o][1].access \cup a]>>
              /\ UNCHANGED masks
        BY <3>3, RuleAppended
      <4>0. r = q
        BY <3>3, <4>1
      <4>2. hier' = hier
        BY <3>3 DEF AppendFsRule
      <4>3. \A p \in Objects : Single(tree'[q][p])
        <5>1. Single(tree'[q][o])
          <6>1. PICK b : tree'[r][o] = <<[level |-> 0, access |-> b]>>
            BY <4>1
          <6>2. PICK l : l = [level |-> 0, access |-> b]
            OBVIOUS
          <6>3. l.level = 0 /\ tree'[q][o] = <<l>>
            BY <4>0, <6>1, <6>2
          <6> QED BY <6>3 DEF Single
        <5>2. ASSUME NEW p \in Objects \ {o} PROVE Single(tree'[q][p])
          BY <3>1, <4>0, <4>1, <5>2 DEF Ordered
        <5> QED BY <5>1, <5>2
      <4> QED BY <3>1, <4>0, <4>1, <4>2, <4>3 DEF Ordered
    <3>4. ASSUME NEW t \in Tasks, newdom[t] = q, NEW o \in Objects, InheritRule(t, o) \/ MergeRule(t, o)
          PROVE  Ordered(q)' /\ Len(masks'[q]) <= MaxLayers
      <4>1. PICK new \in Layers :
              /\ Len(masks[q]) = Depth(t) + 1 /\ tree'[q][o] = new /\ Sorted(new, Depth(t) + 1)
              /\ \A p \in Objects \ {o} : tree'[q][p] = tree[q][p]
        BY <3>4, RuleWritten
      <4>2. hier' = hier /\ masks' = masks
        BY <3>4 DEF InheritRule, MergeRule
      <4>3. hier[q] # NULL
        <5>1. Label(t) \in DomainLabels \ {"put_dom"}
          BY <3>4, MergeLocals DEF InheritRule, MergeRule, At, StackLabels, DomainLabels, WalkLabels
        <5> QED BY <3>4, <5>1 DEF KindsOK
      <4>4. ASSUME NEW p \in Objects PROVE Sorted(tree'[q][p], Len(masks[q]))
        <5>1. CASE p = o
          BY <4>1, <5>1
        <5>2. CASE p # o
          BY <3>1, <4>1, <4>3, <5>2 DEF Ordered
        <5> QED BY <5>1, <5>2
      <4> QED BY <3>1, <4>2, <4>3, <4>4 DEF Ordered
    <3>5. ASSUME NEW t \in Tasks, newdom[t] = q, InheritDone(t) \/ MergeLock(t)
          PROVE  Ordered(q)' /\ Len(masks'[q]) <= MaxLayers
      <4>1. Len(masks'[q]) = Len(masks[q]) /\ tree' = tree
        BY <3>5, MasksWritten
      <4>2. hier' = hier
        BY <3>5 DEF InheritDone, MergeLock
      <4> QED BY <3>1, <4>1, <4>2 DEF Ordered
    <3> QED BY <2>2, <3>2, <3>3, <3>4, <3>5, LayerMoves DEF LayerMove, LayerWrite
  <2> QED BY <1>1, <2>1, <2>2, LiveMoves
<1>2. ASSUME NEW q \in Rulesets, q \in fd' \/ \E x \in Tasks : rs'[x] = q PROVE Len(masks'[q]) = 1
  <2>1. CASE q \in fd \/ \E x \in Tasks : rs[x] = q
    <3>1. Len(masks[q]) = 1
      BY <2>1, RulesetAssumption DEF RulesOK
    <3>2. CASE LayerFrame(q)
      BY <3>1, <3>2 DEF LayerFrame
    <3>3. ASSUME NEW t \in Tasks, AppendFsRule(t) PROVE masks' = masks
      BY <3>3 DEF AppendFsRule
    <3> QED BY <2>1, <3>1, <3>2, <3>3, RulesetKept
  <2>2. CASE Born(q) /\ ~(q \in fd \/ \E x \in Tasks : rs[x] = q)
    BY <1>2, <2>2, BornMeans
  <2> QED BY <1>2, <2>1, <2>2, HeldMoves
<1>3. Core' => /\ \A q \in fd' : q \in Rulesets
               /\ \A t \in Tasks : rs'[t] # NULL => rs'[t] \in Rulesets
  BY DEF Core, Types, OrNull
<1>4. Core'
  BY PreparedMeans, CoreKept
<1> QED BY <1>1, <1>2, <1>3, <1>4 DEF RulesOK

\* The domain of a task, as a merge sees it.
BaseSame(t) ==
    /\ Depth(t)' = Depth(t)
    /\ \A o \in Objects : Base(t, o)' = Base(t, o)
    /\ DomainOf(t)' = DomainOf(t)
    /\ DomainOf(t) # NULL => masks'[DomainOf(t)] = masks[DomainOf(t)]

\* What a task's domain gives to the one it builds stays the same.
LEMMA BaseKept ==
    ASSUME Core, CredsOK, UsagesOK, Exclusive, KindsOK, ShapeTypes, [Next]_vars,
           NEW t \in Tasks, tcred[t] # NULL, tcred'[t] # NULL, ~CommitCreds(t)
    PROVE  BaseSame(t)
<1>1. DomainOf(t)' = DomainOf(t)
  BY DomainMove DEF DomainOf
<1>2. DomainOf(t) # NULL => LayerFrame(DomainOf(t))
  BY DomainKept
<1>3. PICK d : d = DomainOf(t)
  OBVIOUS
<1>4. d # NULL => masks'[d] = masks[d] /\ tree'[d] = tree[d]
  BY <1>2, <1>3 DEF LayerFrame
<1>5. Depth(t) = IF d = NULL THEN 0 ELSE Len(masks[d])
  BY <1>3 DEF Depth
<1>6. Depth(t)' = IF d = NULL THEN 0 ELSE Len(masks'[d])
  BY <1>1, <1>3 DEF Depth
<1>7. \A o \in Objects : Base(t, o) = IF d = NULL THEN <<>> ELSE tree[d][o]
  BY <1>3 DEF Base
<1>8. \A o \in Objects : Base(t, o)' = IF d = NULL THEN <<>> ELSE tree'[d][o]
  BY <1>1, <1>3 DEF Base
<1> QED BY <1>1, <1>3, <1>4, <1>5, <1>6, <1>7, <1>8 DEF BaseSame


\* So what has been said of the domain under construction still holds.
LEMMA ViewKept ==
    ASSUME NEW t \in Tasks, NEW d, BaseSame(t), Depth(t) \in Nat, LayerFrame(d)
    PROVE  /\ \A o \in Objects, a \in SUBSET Access : OneMore(t, o, a)' = OneMore(t, o, a)
           /\ Extends(t, d) => Extends(t, d)'
           /\ Built(t, d) => Built(t, d)'
<1>1. PICK c, n : c = DomainOf(t) /\ n = Depth(t)
  OBVIOUS
<1>2. DomainOf(t)' = c /\ Depth(t)' = n /\ n \in Nat /\ (c # NULL => masks'[c] = masks[c])
  BY <1>1 DEF BaseSame
<1>3. \A o \in Objects : Base(t, o)' = Base(t, o)
  BY DEF BaseSame
<1>4. masks'[d] = masks[d] /\ tree'[d] = tree[d]
  BY DEF LayerFrame
<1>5. c = NULL => n = 0
  BY <1>1 DEF Depth
<1>6. ASSUME Extends(t, d) PROVE Extends(t, d)'
  <2>1. Len(masks[d]) = n + 1 /\ \A i \in 1 .. n : masks[d][i] = masks[c][i]
    BY <1>1, <1>6 DEF Extends
  <2>2. \A i \in 1 .. n : masks'[d][i] = masks'[c][i]
    BY <1>2, <1>4, <1>5, <2>1
  <2> QED BY <1>2, <1>4, <2>1, <2>2 DEF Extends
<1>7. ASSUME NEW o \in Objects, NEW a \in SUBSET Access PROVE OneMore(t, o, a)' = OneMore(t, o, a)
  <2>1. Base(t, o)' = Base(t, o)
    BY <1>3
  <2> QED BY <1>1, <1>2, <2>1 DEF OneMore
<1>8. ASSUME Built(t, d) PROVE Built(t, d)'
  <2>1. \A o \in Objects : \/ tree[d][o] = Base(t, o)
                           \/ \E a \in SUBSET Access : tree[d][o] = OneMore(t, o, a)
    BY <1>8 DEF Built
  <2>2. ASSUME NEW o \in Objects
        PROVE  \/ tree'[d][o] = Base(t, o)'
               \/ \E a \in SUBSET Access : tree'[d][o] = OneMore(t, o, a)'
    BY <1>3, <1>4, <1>7, <2>1
  <2>3. Extends(t, d)'
    BY <1>6, <1>8 DEF Built
  <2> QED BY <2>2, <2>3 DEF Built
<1> QED BY <1>6, <1>7, <1>8

\* A task that builds a domain has credentials, and no other task the domain.
LEMMA Merges ==
    ASSUME Core, NEW t \in Tasks, Label(t) \in StackLabels \/ Committing(t)
    PROVE  /\ tcred[t] \in Creds
           /\ Label(t) \in StackLabels => newdom[t] \in Rulesets /\ rs[t] \in Rulesets
           /\ ncred[t] \in Creds
<1>1. pc[t] # "idle"
  BY DEF Label, StackLabels, Committing, FreeLabels
<1>2. Label(t) \in StackLabels => Label(t) \in DomainLabels /\ Label(t) \in CallLabels /\ Label(t) \in Prepared
  BY DEF StackLabels, DomainLabels, CallLabels, WalkLabels, Prepared
<1> QED BY <1>1, <1>2, Using DEF Core, Types, Control, CallLocals, OrNull, Committing

\* What other tasks do leaves it alone.
LEMMA StackKept ==
    ASSUME Core, CredsOK, PreparedOK, UsagesOK, Exclusive, KindsOK, ShapeTypes, LocksOK,
           [Next]_vars, NEW x \in Tasks, StackOK(x), StackFrame(x), ~StackStep(x)
    PROVE  StackOK(x)'
<1>0. Core'
  BY PreparedMeans, CoreKept
<1>1. ~CommitCreds(x) /\ ~LayerWrite(x) /\ ~ReplaceDomain(x) /\ ~AssignDomain(x)
  <2>1. ASSUME CommitCreds(x) PROVE FALSE
    <3>1. pc[x] = "commit_creds" /\ pc'[x] = "idle"
      BY <2>1 DEF CommitCreds, At, Goto, Core, Types, Threads
    <3> QED BY <3>1 DEF StackFrame, Label, FreeLabels
  <2> QED BY <2>1 DEF StackStep, LayerWrite
<1>2. CASE Label(x) \notin StackLabels /\ ~Committing(x)
  <2>1. Label(x)' \notin StackLabels /\ ~Committing(x)'
    BY <1>2 DEF StackFrame, Committing
  <2> QED BY <2>1 DEF StackOK, StackLabels
<1>3. ASSUME Label(x) \in StackLabels \/ Committing(x)
      PROVE  BaseSame(x) /\ Depth(x) \in Nat /\ (\A o \in Objects : Base(x, o) \in Layers)
  <2>1. (Label(x) \in StackLabels \/ Committing(x))'
    BY <1>3 DEF StackFrame, Committing
  <2>2. (tcred[x] \in Creds)'
    <3>1. pc'[x] # "idle"
      BY <2>1 DEF Label, StackLabels, Committing, FreeLabels
    <3> QED BY <1>0, <3>1 DEF Core, Types, Control, CallLocals, OrNull
  <2>3. tcred[x] # NULL /\ tcred'[x] # NULL /\ tcred[x] \in Creds
    BY <1>3, <2>2, Merges, RulesetAssumption
  <2> QED BY <1>1, <2>3, BaseKept, DepthNat
<1>4. CASE Label(x) \in StackLabels
  <2>1. PICK d : d = newdom[x]
    OBVIOUS
  <2>2. d \in Rulesets /\ newdom'[x] = d /\ todo'[x] = todo[x] /\ Label(x)' = Label(x)
    BY <1>4, <2>1, Merges DEF StackFrame
  <2>3. LayerFrame(d)
    BY <1>1, <2>1, <2>2, OwnKept DEF OwnDomain
  <2>4. masks'[d] = masks[d] /\ tree'[d] = tree[d]
    BY <2>3 DEF LayerFrame
  <2>5. Depth(x)' = Depth(x) /\ (\A o \in Objects : Base(x, o)' = Base(x, o))
    BY <1>3, <1>4 DEF BaseSame
  <2>6. /\ \A o \in Objects, a \in SUBSET Access : OneMore(x, o, a)' = OneMore(x, o, a)
        /\ Extends(x, d) => Extends(x, d)'
        /\ Built(x, d) => Built(x, d)'
    BY <1>3, <1>4, <2>3, ViewKept
  <2>7. ~Committing(x)'
    BY <1>4, <2>2 DEF Committing, StackLabels
  <2>8. CASE Label(x) = "merge_rules"
    <3>1. PICK r : r = rs[x]
      OBVIOUS
    <3>2. r \in Rulesets /\ rs'[x] = r /\ pc[x] = "merge_rules"
      <4>1. pc[x] = "merge_rules"
        <5>1. pc[x] \in FreeLabels => ret[x] \in Returns
          BY DEF Core, Types, Threads
        <5> QED BY <2>8, <5>1 DEF Label, Returns
      <4> QED BY <1>4, <2>8, <3>1, <4>1, Merges DEF StackFrame
    <3>3. rlock[r] = x
      BY <3>1, <3>2 DEF LocksOK, Locks
    <3>4. LayerFrame(r)
      <4>1. ASSUME NEW u \in Tasks, rs[u] = r, AppendFsRule(u) PROVE FALSE
        BY <3>3, <4>1, RulesetAssumption DEF AppendFsRule
      <4> QED BY <3>1, <3>2, <4>1, RulesetKept
    <3>5. masks'[r] = masks[r] /\ tree'[r] = tree[r]
      BY <3>4 DEF LayerFrame
    <3>6. /\ Extends(x, d) /\ masks[d][Depth(x) + 1] = masks[r][1]
          /\ \A o \in Objects :
                IF o \in todo[x] \/ tree[r][o] = <<>> THEN tree[d][o] = Base(x, o)
                ELSE tree[d][o] = OneMore(x, o, tree[r][o][1].access)
          /\ \A o \in todo[x] : tree[r][o] # <<>>
      BY <2>1, <2>8, <3>1 DEF StackOK
    <3>7. ASSUME NEW o \in Objects
          PROVE  IF o \in todo'[x] \/ tree'[r][o] = <<>> THEN tree'[d][o] = Base(x, o)'
                 ELSE tree'[d][o] = OneMore(x, o, tree[r][o][1].access)'
      <4>1. PICK s : s = tree[r][o]
        OBVIOUS
      <4>2. s \in Layers /\ tree'[r][o] = s
        BY <3>2, <3>5, <4>1 DEF ShapeTypes
      <4>3. CASE o \in todo[x] \/ s = <<>>
        BY <2>2, <2>4, <2>5, <3>6, <4>1, <4>2, <4>3
      <4>4. CASE ~(o \in todo[x] \/ s = <<>>)
        <5>1. PICK a : a = s[1].access
          OBVIOUS
        <5>2. a \in SUBSET Access
          BY <4>2, <4>4, <5>1, FirstLayer
        <5>3. tree[d][o] = OneMore(x, o, a)
          BY <3>6, <4>1, <4>4, <5>1
        <5>4. OneMore(x, o, a)' = OneMore(x, o, a)
          BY <2>6, <5>2
        <5>5. tree'[d][o] = OneMore(x, o, tree[r][o][1].access)'
          BY <2>4, <4>2, <5>1, <5>3, <5>4 DEF OneMore
        <5> QED BY <2>2, <4>2, <4>4, <5>5
      <4> QED BY <4>3, <4>4
    <3>8. (/\ Extends(x, d) /\ masks[d][Depth(x) + 1] = masks[r][1]
           /\ \A o \in todo[x] : tree[r][o] # <<>>)'
      BY <2>2, <2>4, <2>5, <2>6, <3>5, <3>6
    <3> QED BY <2>2, <2>7, <2>8, <3>2, <3>7, <3>8 DEF StackOK
  <2>9. CASE Label(x) = "inherit_lock"
    <3>1. Len(masks[d]) = Depth(x) + 1 /\ tree[d] = NoRules
      BY <2>1, <2>9 DEF StackOK
    <3>2. Len(masks'[d]) = Depth(x)' + 1 /\ tree'[d] = NoRules
      BY <2>4, <2>5, <3>1
    <3> QED BY <2>2, <2>7, <2>9, <3>2 DEF StackOK, NoRules
  <2>10. CASE Label(x) = "inherit"
    <3>1. /\ Len(masks[d]) = Depth(x) + 1
          /\ \A o \in Objects : tree[d][o] = IF o \in todo[x] THEN <<>> ELSE Base(x, o)
      BY <2>1, <2>10 DEF StackOK
    <3>2. /\ Len(masks'[d]) = Depth(x)' + 1
          /\ \A o \in Objects : tree'[d][o] = IF o \in todo'[x] THEN <<>> ELSE Base(x, o)'
      BY <2>2, <2>4, <2>5, <3>1
    <3> QED BY <2>2, <2>7, <2>10, <3>2 DEF StackOK
  <2>11. CASE Label(x) = "merge_lock"
    <3>1. Extends(x, d) /\ \A o \in Objects : tree[d][o] = Base(x, o)
      BY <2>1, <2>11 DEF StackOK
    <3>2. Extends(x, d)' /\ \A o \in Objects : tree'[d][o] = Base(x, o)'
      BY <2>4, <2>5, <2>6, <3>1
    <3> QED BY <2>2, <2>7, <2>11, <3>2 DEF StackOK
  <2>12. CASE Label(x) \in {"replace", "assign"}
    <3>1. Built(x, d)'
      BY <2>1, <2>6, <2>12 DEF StackOK
    <3> QED BY <2>2, <2>7, <2>12, <3>1 DEF StackOK
  <2> QED BY <1>4, <2>8, <2>9, <2>10, <2>11, <2>12 DEF StackLabels
<1>5. CASE Committing(x)
  <2>1. PICK c, d : c = ncred[x] /\ d = cdom[c]
    OBVIOUS
  <2>2. c \in Creds /\ cstate[c] = "live" /\ \A u \in Tasks : ncred[u] = c => u = x
    BY <1>5, <2>1, Merges, RulesetAssumption DEF CredsOK, Committing
  <2>3. cdom'[c] = d /\ ncred'[x] = c
    BY <1>1, <2>1, <2>2, CredKept DEF StackFrame
  <2>4. d \in Rulesets
    BY <1>5, <2>1, <2>2 DEF PreparedOK, Core, Types, OrNull
  <2>5. LayerFrame(d)
    BY <1>1, <1>5, <2>1, <2>4, OwnKept DEF OwnDomain
  <2>6. Built(x, d)'
    BY <1>3, <1>5, <2>1, <2>5, ViewKept DEF StackOK
  <2>7. Label(x)' \notin StackLabels
    BY <1>5 DEF StackFrame, Committing, StackLabels
  <2> QED BY <2>3, <2>6, <2>7 DEF StackOK, StackLabels
<1> QED BY <1>2, <1>4, <1>5

\* A task's own steps on the way to a new domain leave its domain alone.
LEMMA OwnBase ==
    ASSUME Core, CredsOK, PreparedOK, UsagesOK, Exclusive, KindsOK, ShapeTypes,
           [Next]_vars, NEW x \in Tasks, StackStep(x)
    PROVE  /\ BaseSame(x) /\ Depth(x) \in Nat /\ \A o \in Objects : Base(x, o) \in Layers
           /\ tcred[x] \in Creds
<1>1. pc[x] # "idle" /\ pc[x] # "commit_creds" /\ tcred' = tcred
  BY DEF StackStep, CreateDomain, InheritLock, InheritDone, MergeLock, MergeDone, InheritRule,
     MergeRule, ReplaceDomain, AssignDomain, PutRuleset, At, cvars
<1>2. ~CommitCreds(x)
  BY <1>1 DEF CommitCreds, At
<1>3. tcred[x] \in Creds
  BY <1>1, Using
<1> QED BY <1>1, <1>2, <1>3, BaseKept, DepthNat, RulesetAssumption

\* create_ruleset() in landlock_merge_ruleset()
LEMMA StackCreate ==
    ASSUME Core, CredsOK, PreparedOK, UsagesOK, Exclusive, KindsOK, ShapeTypes,
           [Next]_vars, NEW x \in Tasks, NEW r \in Rulesets, NEW h \in Hierarchies, CreateDomain(x, r, h)
    PROVE  StackOK(x)'
<1>1. BaseSame(x) /\ Depth(x) \in Nat /\ (\A o \in Objects : Base(x, o) \in Layers) /\ tcred[x] \in Creds
  BY OwnBase DEF StackStep
<1>2. pc[x] = "merge" /\ Label(x) = "merge"
  BY DEF CreateDomain, At, Label, FreeLabels
<1>3. Parent(x) = DomainOf(x)
  BY <1>2 DEF PreparedOK, Merging, Parent
<1>4. NewLayers(x) = Depth(x) + 1
  BY <1>3 DEF NewLayers, Depth
<1>5. PICK n, m : n = Depth(x) + 1 /\ m = [i \in 1 .. n |-> {}]
  OBVIOUS
<1>6. n \in Nat /\ Len(m) = n
  BY <1>1, <1>5
<1>7. masks'[r] = m /\ tree'[r] = NoRules /\ newdom'[x] = r
  BY <1>4, <1>5 DEF CreateDomain, Alloc, ShapeTypes, Core, Types
<1>8. pc'[x] = IF DomainOf(x) = NULL THEN "merge_lock" ELSE "inherit_lock"
  BY <1>3 DEF CreateDomain, Goto, Core, Types, Threads
<1>9. Label(x)' = pc'[x] /\ ~Committing(x)'
  BY <1>8 DEF Label, FreeLabels, Committing
<1>10. Depth(x)' = Depth(x) /\ \A o \in Objects : Base(x, o)' = Base(x, o)
  BY <1>1 DEF BaseSame
<1>11. CASE DomainOf(x) = NULL
  <2>1. Depth(x) = 0 /\ \A o \in Objects : Base(x, o) = <<>>
    BY <1>11 DEF Depth, Base
  <2>2. Extends(x, r)'
    BY <1>5, <1>6, <1>7, <1>10, <2>1 DEF Extends
  <2>3. \A o \in Objects : tree'[r][o] = Base(x, o)'
    BY <1>7, <1>10, <2>1 DEF NoRules
  <2> QED BY <1>7, <1>8, <1>9, <1>11, <2>2, <2>3 DEF StackOK
<1>12. CASE DomainOf(x) # NULL
  <2>1. Len(masks'[r]) = Depth(x)' + 1 /\ tree'[r] = NoRules
    BY <1>5, <1>6, <1>7, <1>10
  <2> QED BY <1>7, <1>8, <1>9, <1>12, <2>1 DEF StackOK, NoRules
<1> QED BY <1>11, <1>12

\* inherit_ruleset() locks...
LEMMA StackInheritLock ==
    ASSUME Core, CredsOK, PreparedOK, UsagesOK, Exclusive, KindsOK, ShapeTypes,
           [Next]_vars, NEW x \in Tasks, StackOK(x), InheritLock(x)
    PROVE  StackOK(x)'
<1>1. BaseSame(x)
  BY OwnBase DEF StackStep
<1>2. PICK d, p : d = newdom[x] /\ p = Parent(x)
  OBVIOUS
<1>3. pc[x] = "inherit_lock" /\ Label(x) = "inherit_lock" /\ p = DomainOf(x) /\ p \in Rulesets
  BY <1>2, MergeLocals DEF InheritLock, At, StackLabels
<1>4. /\ UNCHANGED <<masks, tree, newdom>> /\ todo' = [todo EXCEPT ![x] = RulesOf(p)]
      /\ pc' = [pc EXCEPT ![x] = "inherit"]
  BY <1>2 DEF InheritLock, Goto
<1>5. todo'[x] = RulesOf(p) /\ pc'[x] = "inherit"
  BY <1>4 DEF Core, Types, Threads
<1>6. Label(x)' = "inherit" /\ ~Committing(x)'
  BY <1>5 DEF Label, FreeLabels, Committing
<1>7. Len(masks[d]) = Depth(x) + 1 /\ tree[d] = NoRules
  BY <1>2, <1>3 DEF StackOK
<1>8. Depth(x)' = Depth(x) /\ \A o \in Objects : Base(x, o)' = tree[p][o]
  BY <1>1, <1>3, RulesetAssumption DEF BaseSame, Base
<1>9. \A o \in Objects : tree'[d][o] = IF o \in todo'[x] THEN <<>> ELSE Base(x, o)'
  BY <1>4, <1>5, <1>7, <1>8 DEF NoRules, RulesOf
<1>10. Len(masks'[d]) = Depth(x)' + 1 /\ newdom'[x] = d
  BY <1>2, <1>4, <1>7, <1>8
<1> QED BY <1>6, <1>9, <1>10 DEF StackOK

\* ...and copies rules...
LEMMA StackInheritRule ==
    ASSUME Core, CredsOK, PreparedOK, UsagesOK, Exclusive, KindsOK, ShapeTypes, RulesOK, StacksOK,
           [Next]_vars, NEW x \in Tasks, NEW o \in Objects, InheritRule(x, o)
    PROVE  StackOK(x)'
<1>1. BaseSame(x)
  BY OwnBase DEF StackStep
<1>2. PICK d \in Rulesets, new \in Layers :
         /\ d = newdom[x] /\ Len(masks[d]) = Depth(x) + 1
         /\ tree'[d][o] = new
         /\ InheritRule(x, o) => new = Base(x, o)
         /\ \A p \in Objects \ {o} : tree'[d][p] = tree[d][p]
  BY RuleWritten
<1>3. pc[x] = "inherit" /\ Label(x) = "inherit"
  BY DEF InheritRule, At, Label, FreeLabels
<1>4. /\ UNCHANGED <<masks, newdom, pc>> /\ todo'[x] = todo[x] \ {o}
  BY DEF InheritRule, Core, Types
<1>5. Label(x)' = "inherit" /\ ~Committing(x)'
  BY <1>3, <1>4 DEF Label, FreeLabels, Committing
<1>6. \A p \in Objects : tree[d][p] = IF p \in todo[x] THEN <<>> ELSE Base(x, p)
  BY <1>2, <1>3 DEF StacksOK, StackOK
<1>7. Depth(x)' = Depth(x) /\ \A p \in Objects : Base(x, p)' = Base(x, p)
  BY <1>1 DEF BaseSame
<1>8. ASSUME NEW p \in Objects
      PROVE  tree'[d][p] = IF p \in todo'[x] THEN <<>> ELSE Base(x, p)'
  <2>1. CASE p = o
    BY <1>2, <1>4, <1>7, <2>1
  <2>2. CASE p # o
    BY <1>2, <1>4, <1>6, <1>7, <2>2
  <2> QED BY <2>1, <2>2
<1>9. Len(masks'[d]) = Depth(x)' + 1 /\ newdom'[x] = d
  BY <1>2, <1>4, <1>7
<1> QED BY <1>5, <1>8, <1>9 DEF StackOK

\* ...and at last the layers.
LEMMA StackInheritDone ==
    ASSUME Core, CredsOK, PreparedOK, UsagesOK, Exclusive, KindsOK, ShapeTypes, RulesOK, StacksOK,
           [Next]_vars, NEW x \in Tasks, InheritDone(x)
    PROVE  StackOK(x)'
<1>1. BaseSame(x) /\ Depth(x) \in Nat
  BY OwnBase DEF StackStep
<1>2. PICK d \in Rulesets :
         /\ d = newdom[x] /\ tree' = tree
         /\ Len(masks'[d]) = Len(masks[d]) /\ Len(masks[d]) = Depth(x) + 1
         /\ \A i \in 1 .. Depth(x) : masks'[d][i] =
               IF InheritDone(x) THEN masks[DomainOf(x)][i] ELSE masks[d][i]
  BY MasksWritten
<1>3. pc[x] = "inherit" /\ Label(x) = "inherit" /\ todo[x] = {}
  BY DEF InheritDone, At, Label, FreeLabels
<1>4. newdom' = newdom /\ pc'[x] = "merge_lock"
  BY DEF InheritDone, Goto, Core, Types, Threads, locals
<1>5. Label(x)' = "merge_lock" /\ ~Committing(x)'
  BY <1>4 DEF Label, FreeLabels, Committing
<1>6. \A p \in Objects : tree[d][p] = Base(x, p)
  BY <1>2, <1>3 DEF StacksOK, StackOK
<1>7. PICK c, n : c = DomainOf(x) /\ n = Depth(x)
  OBVIOUS
<1>8. Depth(x)' = n /\ DomainOf(x)' = c /\ (\A p \in Objects : Base(x, p)' = Base(x, p))
      /\ (c # NULL => masks'[c] = masks[c]) /\ (c = NULL => n = 0) /\ n \in Nat
  BY <1>1, <1>7 DEF BaseSame, Depth
<1>9. Extends(x, d)'
  <2>1. \A i \in 1 .. n : masks'[d][i] = masks'[c][i]
    BY <1>2, <1>7, <1>8
  <2> QED BY <1>2, <1>7, <1>8, <2>1 DEF Extends
<1>10. \A p \in Objects : tree'[d][p] = Base(x, p)'
  BY <1>2, <1>6, <1>8
<1> QED BY <1>2, <1>4, <1>5, <1>9, <1>10 DEF StackOK

\* merge_ruleset() adds the layer of the ruleset...
LEMMA StackMergeLock ==
    ASSUME Core, CredsOK, PreparedOK, UsagesOK, Exclusive, KindsOK, ShapeTypes, RulesOK, StacksOK,
           [Next]_vars, NEW x \in Tasks, MergeLock(x)
    PROVE  StackOK(x)'
<1>1. BaseSame(x) /\ Depth(x) \in Nat
  BY OwnBase DEF StackStep
<1>2. PICK d \in Rulesets :
         /\ d = newdom[x] /\ tree' = tree
         /\ Len(masks'[d]) = Len(masks[d]) /\ Len(masks[d]) = Depth(x) + 1
         /\ \A i \in 1 .. Depth(x) : masks'[d][i] =
               IF InheritDone(x) THEN masks[DomainOf(x)][i] ELSE masks[d][i]
         /\ MergeLock(x) => masks'[d][Depth(x) + 1] = masks[rs[x]][1]
         /\ \A q \in Rulesets \ {d} : masks'[q] = masks[q]
  BY MasksWritten
<1>3. PICK r : r = rs[x]
  OBVIOUS
<1>4. pc[x] = "merge_lock" /\ Label(x) = "merge_lock" /\ r \in Rulesets /\ ~InheritDone(x)
  BY <1>3, MergeLocals DEF MergeLock, InheritDone, At, StackLabels
<1>5. r # d
  BY <1>2, <1>3 DEF Exclusive, OwnDomain
<1>6. newdom' = newdom /\ rs' = rs /\ pc'[x] = "merge_rules" /\ todo'[x] = RulesOf(r)
  BY <1>3 DEF MergeLock, Goto, Core, Types, Threads
<1>7. Label(x)' = "merge_rules" /\ ~Committing(x)'
  BY <1>6 DEF Label, FreeLabels, Committing
<1>8. Extends(x, d) /\ \A p \in Objects : tree[d][p] = Base(x, p)
  BY <1>2, <1>4 DEF StacksOK, StackOK
<1>9. PICK c, n : c = DomainOf(x) /\ n = Depth(x)
  OBVIOUS
<1>10. Depth(x)' = n /\ DomainOf(x)' = c /\ (\A p \in Objects : Base(x, p)' = Base(x, p))
       /\ (c # NULL => masks'[c] = masks[c]) /\ (c = NULL => n = 0) /\ n \in Nat
  BY <1>1, <1>9 DEF BaseSame, Depth
<1>11. Extends(x, d)'
  <2>1. \A i \in 1 .. n : masks[d][i] = masks[c][i]
    BY <1>8, <1>9 DEF Extends
  <2>2. \A i \in 1 .. n : masks'[d][i] = masks'[c][i]
    BY <1>2, <1>4, <1>9, <1>10, <2>1
  <2> QED BY <1>2, <1>9, <1>10, <2>2 DEF Extends
<1>12. masks'[d][Depth(x)' + 1] = masks'[r][1]
  BY <1>2, <1>3, <1>4, <1>5, <1>9, <1>10
<1>13. ASSUME NEW o \in Objects
       PROVE  /\ o \in todo'[x] \/ tree'[r][o] = <<>>
              /\ tree'[d][o] = Base(x, o)'
              /\ o \in todo'[x] => tree'[r][o] # <<>>
  BY <1>2, <1>6, <1>8, <1>10 DEF RulesOf
<1>14. todo'[x] \subseteq Objects
  BY <1>6 DEF RulesOf
<1>15. PICK td : td = todo'[x]
  OBVIOUS
<1>16. /\ \A o \in Objects : IF o \in td \/ tree'[r][o] = <<>> THEN tree'[d][o] = Base(x, o)'
                             ELSE tree'[d][o] = OneMore(x, o, tree[r][o][1].access)'
       /\ \A o \in td : tree'[r][o] # <<>>
  BY <1>13, <1>14, <1>15
<1>17. newdom'[x] = d /\ rs'[x] = r
  BY <1>2, <1>3, <1>6
<1> QED BY <1>7, <1>11, <1>12, <1>15, <1>16, <1>17 DEF StackOK

\* ...and its rules, each on top of the parent's layers.
LEMMA StackMergeRule ==
    ASSUME Core, CredsOK, PreparedOK, UsagesOK, Exclusive, KindsOK, ShapeTypes, RulesOK, StacksOK,
           [Next]_vars, NEW x \in Tasks, NEW o \in Objects, MergeRule(x, o)
    PROVE  StackOK(x)'
<1>1. BaseSame(x) /\ Depth(x) \in Nat
  BY OwnBase DEF StackStep
<1>2. PICK d \in Rulesets, new \in Layers :
         /\ d = newdom[x]
         /\ tree'[d][o] = new
         /\ MergeRule(x, o) => new = OneMore(x, o, tree[rs[x]][o][1].access)
         /\ \A p \in Objects \ {o} : tree'[d][p] = tree[d][p]
         /\ \A q \in Rulesets \ {d} : tree'[q] = tree[q]
  BY RuleWritten
<1>3. PICK r : r = rs[x]
  OBVIOUS
<1>4. pc[x] = "merge_rules" /\ Label(x) = "merge_rules" /\ r \in Rulesets /\ o \in todo[x]
  BY <1>3, MergeLocals DEF MergeRule, At, StackLabels
<1>5. r # d
  BY <1>2, <1>3 DEF Exclusive, OwnDomain
<1>6. UNCHANGED <<masks, newdom, rs, pc>> /\ todo'[x] = todo[x] \ {o} /\ tree'[r] = tree[r]
  BY <1>2, <1>4, <1>5 DEF MergeRule, Core, Types
<1>7. Label(x)' = "merge_rules" /\ ~Committing(x)'
  BY <1>4, <1>6 DEF Label, FreeLabels, Committing
<1>8. /\ Extends(x, d) /\ masks[d][Depth(x) + 1] = masks[r][1]
      /\ \A p \in Objects :
            IF p \in todo[x] \/ tree[r][p] = <<>> THEN tree[d][p] = Base(x, p)
            ELSE tree[d][p] = OneMore(x, p, tree[r][p][1].access)
      /\ \A p \in todo[x] : tree[r][p] # <<>>
  BY <1>2, <1>3, <1>4 DEF StacksOK, StackOK
<1>9. PICK c, n : c = DomainOf(x) /\ n = Depth(x)
  OBVIOUS
<1>10. Depth(x)' = n /\ DomainOf(x)' = c /\ (\A p \in Objects : Base(x, p)' = Base(x, p))
  BY <1>1, <1>9 DEF BaseSame
<1>11. Extends(x, d)'
  BY <1>6, <1>8, <1>9, <1>10 DEF Extends
<1>12. masks'[d][Depth(x)' + 1] = masks'[r][1]
  BY <1>6, <1>8, <1>9, <1>10
<1>13. ASSUME NEW p \in Objects
       PROVE  OneMore(x, p, tree[r][p][1].access)' = OneMore(x, p, tree[r][p][1].access)
  <2>1. PICK a : a = tree[r][p][1].access
    OBVIOUS
  <2>2. tree'[r][p][1].access = a
    BY <1>6, <2>1
  <2>3. OneMore(x, p, a)' = OneMore(x, p, a)
    BY <1>9, <1>10 DEF OneMore
  <2>4. OneMore(x, p, tree[r][p][1].access)' = OneMore(x, p, a)'
    BY <2>2 DEF OneMore
  <2> QED BY <2>1, <2>3, <2>4
<1>14. PICK td : td = todo'[x]
  OBVIOUS
<1>15. ASSUME NEW p \in Objects
       PROVE  IF p \in td \/ tree'[r][p] = <<>> THEN tree'[d][p] = Base(x, p)'
              ELSE tree'[d][p] = OneMore(x, p, tree[r][p][1].access)'
  <2>1. Base(x, p)' = Base(x, p) /\ tree'[r][p] = tree[r][p]
    BY <1>6, <1>10
  <2>2. CASE p = o
    <3>1. p \notin td /\ tree[r][p] # <<>>
      BY <1>4, <1>6, <1>8, <1>14, <2>2
    <3>2. tree'[d][p] = OneMore(x, p, tree[r][p][1].access)
      BY <1>2, <1>3, <2>2
    <3> QED BY <1>13, <2>1, <3>1, <3>2
  <2>3. CASE p # o
    <3>1. p \in td <=> p \in todo[x]
      BY <1>6, <1>14, <2>3
    <3>2. tree'[d][p] = tree[d][p]
      BY <1>2, <2>3
    <3> QED BY <1>8, <1>13, <2>1, <3>1, <3>2
  <2> QED BY <2>2, <2>3
<1>16. \A p \in td : tree'[r][p] # <<>>
  BY <1>6, <1>8, <1>14
<1>17. newdom'[x] = d /\ rs'[x] = r
  BY <1>2, <1>3, <1>6
<1> QED BY <1>7, <1>11, <1>12, <1>14, <1>15, <1>16, <1>17 DEF StackOK

\* The domain is complete...
LEMMA StackMergeDone ==
    ASSUME Core, CredsOK, PreparedOK, UsagesOK, Exclusive, KindsOK, ShapeTypes, StacksOK,
           [Next]_vars, NEW x \in Tasks, MergeDone(x)
    PROVE  StackOK(x)'
<1>1. BaseSame(x) /\ Depth(x) \in Nat
  BY OwnBase DEF StackStep
<1>2. PICK d, r : d = newdom[x] /\ r = rs[x]
  OBVIOUS
<1>3. pc[x] = "merge_rules" /\ Label(x) = "merge_rules" /\ r \in Rulesets /\ todo[x] = {}
  BY <1>2, MergeLocals DEF MergeDone, At, StackLabels
<1>4. /\ Extends(x, d)
      /\ \A p \in Objects :
            IF p \in todo[x] \/ tree[r][p] = <<>> THEN tree[d][p] = Base(x, p)
            ELSE tree[d][p] = OneMore(x, p, tree[r][p][1].access)
  BY <1>2, <1>3 DEF StacksOK, StackOK
<1>5. ASSUME NEW p \in Objects
      PROVE  tree[d][p] = Base(x, p) \/ \E a \in SUBSET Access : tree[d][p] = OneMore(x, p, a)
  <2>1. PICK s : s = tree[r][p]
    OBVIOUS
  <2>2. s \in Layers
    BY <1>3, <2>1 DEF ShapeTypes
  <2>3. s # <<>> => s[1].access \in SUBSET Access
    BY <2>2, FirstLayer
  <2> QED BY <1>3, <1>4, <2>1, <2>3
<1>6. Built(x, d)
  BY <1>4, <1>5 DEF Built
<1>7. UNCHANGED <<masks, tree, hier, newdom>> /\ pc'[x] = "replace"
  BY DEF MergeDone, Goto, Core, Types, Threads, locals
<1>8. LayerFrame(d)
  BY <1>7 DEF LayerFrame
<1>9. Built(x, d)'
  BY <1>1, <1>6, <1>8, ViewKept
<1>10. Label(x)' = "replace" /\ ~Committing(x)'
  BY <1>7 DEF Label, FreeLabels, Committing
<1> QED BY <1>2, <1>7, <1>9, <1>10 DEF StackOK

\* ...and the prepared credential takes it over.
LEMMA StackCommit ==
    ASSUME Core, CredsOK, PreparedOK, UsagesOK, Exclusive, KindsOK, ShapeTypes, StacksOK,
           [Next]_vars, NEW x \in Tasks, ReplaceDomain(x) \/ AssignDomain(x) \/ PutRuleset(x)
    PROVE  StackOK(x)'
<1>1. BaseSame(x) /\ Depth(x) \in Nat
  BY OwnBase DEF StackStep
<1>2. UNCHANGED <<masks, tree, hier>>
  BY DEF ReplaceDomain, AssignDomain, PutRuleset, rvars
<1>3. ASSUME NEW d, Built(x, d) PROVE Built(x, d)'
  BY <1>1, <1>2, <1>3, ViewKept DEF LayerFrame
<1>4. CASE ReplaceDomain(x)
  <2>1. pc[x] = "replace" /\ Label(x) = "replace" /\ newdom' = newdom
    BY <1>4 DEF ReplaceDomain, At, Label, FreeLabels, locals
  <2>2. Label(x)' = "assign"
    BY <1>4 DEF ReplaceDomain, Put, Goto, Label, FreeLabels, Core, Types, Threads
  <2>3. Built(x, newdom[x])
    BY <2>1 DEF StacksOK, StackOK
  <2>4. PICK d : d = newdom[x] /\ newdom'[x] = d
    BY <2>1
  <2>5. Built(x, d)'
    BY <1>3, <2>3, <2>4
  <2>6. ~Committing(x)'
    BY <2>2 DEF Committing
  <2> QED BY <2>2, <2>4, <2>5, <2>6 DEF StackOK
<1>5. CASE AssignDomain(x)
  <2>1. pc[x] = "assign" /\ Label(x) = "assign" /\ ncred[x] \in Creds /\ ncred' = ncred
    BY <1>5, MergeLocals DEF AssignDomain, At, StackLabels
  <2>2. Label(x)' = "put_ruleset" /\ cdom'[ncred[x]] = newdom[x]
    BY <1>5, <2>1 DEF AssignDomain, Goto, Label, FreeLabels, Core, Types, Threads
  <2>3. Built(x, newdom[x])
    BY <2>1 DEF StacksOK, StackOK
  <2>4. PICK d : d = newdom[x] /\ cdom'[ncred'[x]] = d
    BY <2>1, <2>2
  <2>5. Built(x, d)'
    BY <1>3, <2>3, <2>4
  <2> QED BY <2>2, <2>4, <2>5 DEF StackOK
<1>6. CASE PutRuleset(x)
  <2>1. pc[x] = "put_ruleset" /\ Label(x) = "put_ruleset" /\ ncred' = ncred /\ cdom' = cdom
    BY <1>6 DEF PutRuleset, At, Label, FreeLabels, cvars
  <2>2. Label(x)' = IF ncred[x] # NULL THEN "commit_creds" ELSE "idle"
    BY <1>6 DEF PutRuleset, Put, Goto, Label, FreeLabels, Core, Types, Threads
  <2>3. CASE ncred[x] = NULL
    <3>1. Label(x)' = "idle" /\ ~Committing(x)'
      BY <2>1, <2>2, <2>3 DEF Committing
    <3> QED BY <3>1 DEF StackOK
  <2>4. CASE ncred[x] # NULL
    <3>1. Committing(x) /\ Label(x)' = "commit_creds"
      BY <2>1, <2>2, <2>4 DEF Committing
    <3>2. PICK d : d = cdom[ncred[x]] /\ cdom'[ncred'[x]] = d
      BY <2>1
    <3>3. Built(x, d)'
      BY <1>3, <3>1, <3>2 DEF StacksOK, StackOK
    <3> QED BY <3>1, <3>2, <3>3 DEF StackOK
  <2> QED BY <2>3, <2>4
<1> QED BY <1>4, <1>5, <1>6

\* Every domain under construction has what it should have so far.
LEMMA StacksStep ==
    ASSUME Core, CredsOK, PreparedOK, UsagesOK, Exclusive, KindsOK, ShapeInv, [Next]_vars
    PROVE  StacksOK'
<1>1. ShapeTypes /\ LocksOK /\ RulesOK /\ StacksOK
  BY DEF ShapeInv
<1>2. ASSUME NEW x \in Tasks PROVE StackOK(x)'
  <2>1. StackOK(x)
    BY <1>1 DEF StacksOK
  <2>2. ASSUME NEW r \in Rulesets, NEW h \in Hierarchies, CreateDomain(x, r, h) PROVE StackOK(x)'
    BY <1>1, <2>2, StackCreate
  <2>3. CASE InheritLock(x)
    BY <1>1, <2>1, <2>3, StackInheritLock
  <2>4. ASSUME NEW o \in Objects, InheritRule(x, o) PROVE StackOK(x)'
    BY <1>1, <2>4, StackInheritRule
  <2>5. CASE InheritDone(x)
    BY <1>1, <2>5, StackInheritDone
  <2>6. CASE MergeLock(x)
    BY <1>1, <2>6, StackMergeLock
  <2>7. ASSUME NEW o \in Objects, MergeRule(x, o) PROVE StackOK(x)'
    BY <1>1, <2>7, StackMergeRule
  <2>8. CASE MergeDone(x)
    BY <1>1, <2>8, StackMergeDone
  <2>9. CASE ReplaceDomain(x) \/ AssignDomain(x) \/ PutRuleset(x)
    BY <1>1, <2>9, StackCommit
  <2>10. CASE StackFrame(x) /\ ~StackStep(x)
    BY <1>1, <2>1, <2>10, StackKept
  <2>11. CASE Label(x)' \notin StackLabels /\ ~Committing(x)'
    BY <2>11 DEF StackOK, StackLabels
  <2> QED BY <2>2, <2>3, <2>4, <2>5, <2>6, <2>7, <2>8, <2>9, <2>10, <2>11, StackMoves
             DEF StackMove, StackStep
<1> QED BY <1>2 DEF StacksOK

\* Every step keeps the shapes.
LEMMA ShapeStepInv ==
    ASSUME Core, CredsOK, PreparedOK, UsagesOK, Exclusive, KindsOK, ShapeInv, [Next]_vars
    PROVE  ShapeInv'
<1>1. ShapeTypes /\ LocksOK /\ RulesOK /\ StacksOK
  BY DEF ShapeInv
<1>2. ShapeTypes'
  BY <1>1, ShapeTypesStep
<1>3. LocksOK'
  BY <1>1, LocksStep
<1>4. RulesOK'
  BY <1>1, RulesStep
<1>5. StacksOK'
  BY StacksStep
<1> QED BY ONLY <1>2, <1>3, <1>4, <1>5 DEF ShapeInv

\* The types of all variables, and that a walk alone holds mutexes.
LEMMA TypeMeans ==
    ASSUME Core, UsagesOK, NodesOK, ShapeTypes, LocksOK
    PROVE  TypeOK
<1>1. Returns \subseteq Labels
  BY DEF Returns, Labels, CallLabels, DomainLabels
<1>2. ASSUME NEW r \in Rulesets, rlock[r] # NULL
      PROVE  pc[rlock[r]] \in WalkLabels /\ r \in {newdom[rlock[r]], rs[rlock[r]], Parent(rlock[r])}
  <2>1. PICK t \in Tasks : rlock[r] = t
    BY <1>2 DEF Core, Types, OrNull
  <2>2. Locks(t, r)
    BY <2>1 DEF LocksOK
  <2> QED BY <2>1, <2>2 DEF Locks, WalkLabels
<1>3. \A t \in Tasks :
         /\ (rs[t] # NULL) <=> (Label(t) \in CallLabels)
         /\ (newdom[t] # NULL) <=> (Label(t) \in DomainLabels)
         /\ (fr[t] # NULL) <=> (pc[t] \in FreeLabels)
         /\ (t \in rcu) <=> (pc[t] \in {"dom_child", "domain_scope_le"})
  BY DEF Core, Control, CallLocals, FreeLocals, Threads
<1>4. /\ rstate \in [Rulesets -> {"free", "live", "work", "freeing"}]
      /\ rlock \in [Rulesets -> OrNull(Tasks)]
      /\ hier \in [Rulesets -> OrNull(Hierarchies)]
      /\ hparent \in [Hierarchies -> OrNull(Hierarchies)]
      /\ fd \subseteq Rulesets
      /\ cstate \in [Creds -> {"free", "live", "rcu"}]
      /\ cdom \in [Creds -> OrNull(Rulesets)]
      /\ cgp \in [Creds -> SUBSET Tasks]
      /\ tcred \in [Tasks -> OrNull(Creds)]
      /\ pc \in [Threads -> Labels]
      /\ rs \in [Tasks -> OrNull(Rulesets)]
      /\ ncred \in [Tasks -> OrNull(Creds)]
      /\ newdom \in [Tasks -> OrNull(Rulesets)]
      /\ todo \in [Tasks -> SUBSET Objects]
      /\ fr \in [Threads -> OrNull(Rulesets)]
      /\ wh \in [Threads -> OrNull(Hierarchies)]
      /\ rcu \subseteq Tasks
  BY DEF Core, Types
<1>5. ret \in [Threads -> Labels]
  BY <1>1 DEF Core, Types
<1>6. rusage \in [Rulesets -> Nat] /\ husage \in [Hierarchies -> Nat]
  <2>1. \A h \in Hierarchies : husage[h] \in Nat
    BY HeldNode
  <2>2. husage = [h \in Hierarchies |-> husage[h]]
    BY DEF NodesOK
  <2>3. husage \in [Hierarchies -> Nat]
    BY ONLY <2>1, <2>2
  <2> QED BY <2>3 DEF UsagesOK
<1>7. /\ masks \in [Rulesets -> Seq(SUBSET Access)] /\ tree \in [Rulesets -> [Objects -> Layers]]
      /\ nextid \in 0 .. MaxDomains
  BY DEF ShapeTypes
<1> QED BY ONLY <1>2, <1>3, <1>4, <1>5, <1>6, <1>7 DEF TypeOK

\* Sorted layers are what unmask_layers() relies on.
LEMMA LayersMean == ASSUME ShapeTypes, RulesOK PROVE LayersOrdered
<1>1. ASSUME NEW r \in Rulesets, NEW o \in Objects, rstate[r] = "live"
      PROVE  LET layers == tree[r][o]
                 n == Len(masks[r])  IN
             IF hier[r] = NULL
             THEN layers = <<>> \/ (Len(layers) = 1 /\ layers[1].level = 0)
             ELSE /\ \A i \in 1..Len(layers) : layers[i].level \in 1..n
                  /\ \A i \in 2..Len(layers) : layers[i-1].level < layers[i].level
  <2>1. PICK s, n : s = tree[r][o] /\ n = Len(masks[r])
    OBVIOUS
  <2>2. n \in Nat /\ s \in Layers
    BY <2>1 DEF ShapeTypes
  <2>3. IF hier[r] = NULL THEN Single(s) ELSE Sorted(s, n)
    BY <1>1, <2>1 DEF RulesOK, Ordered
  <2>4. hier[r] # NULL => /\ \A i \in 1..Len(s) : s[i].level \in 1..n
                          /\ \A i \in 2..Len(s) : s[i-1].level < s[i].level
    BY <2>2, <2>3 DEF Sorted, Layers
  <2> QED BY <2>1, <2>3, <2>4 DEF Single
<1> QED BY <1>1 DEF LayersOrdered

\* No call of insert_rule() finds a rule of the wrong shape.
LEMMA WarningMeans ==
    ASSUME Core, PreparedOK, UsagesOK, KindsOK, ShapeInv
    PROVE  NoWarning
<1>1. ShapeTypes /\ RulesOK /\ StacksOK
  BY DEF ShapeInv
<1>2. \A r \in fd : Len(masks[r]) = 1
  BY <1>1 DEF RulesOK
<1>3. ASSUME NEW t \in Tasks, pc[t] = "insert_rule" PROVE ~InsertWarns(rs[t], arg[t][1], arg[t][2])
  <2>1. PICK o \in Objects, a \in SUBSET Access : arg[t][1] = o /\ arg[t][2] = <<[level |-> 0, access |-> a]>>
    BY <1>1, <1>3, ArgTyped
  <2>2. PICK r, s, l : r = rs[t] /\ s = tree[r][o] /\ l = [level |-> 0, access |-> a]
    OBVIOUS
  <2>3. r \in Rulesets /\ hier[r] = NULL /\ rstate[r] = "live"
    <3>1. rs[t] \in Rulesets
      BY <1>3, Using DEF CallLabels
    <3> QED BY <2>2, <3>1, RulesetAssumption, NotFree DEF Core, KindsOK
  <2>4. Single(s)
    BY <1>1, <2>2, <2>3 DEF RulesOK, Ordered
  <2>5. arg[t][2] = <<l>> /\ l.level = 0
    BY <2>1, <2>2
  <2>6. Len(<<l>>) = 1 /\ <<l>>[1] = l
    OBVIOUS
  <2> QED BY <2>1, <2>2, <2>4, <2>5, <2>6 DEF InsertWarns, Single
<1>4. ASSUME NEW t \in Tasks, pc[t] = "merge" PROVE Parent(t) # rs[t]
  <2>1. rs[t] \in Rulesets /\ ncred[t] \in Creds
    BY <1>4, Using DEF CallLabels, Prepared
  <2> QED BY <2>1, RulesetAssumption DEF KindsOK, Parent
<1>5. ASSUME NEW t \in Tasks, pc[t] = "inherit"
      PROVE  /\ Len(masks[newdom[t]]) > Len(masks[Parent(t)])
             /\ hier[Parent(t)] # NULL
             /\ \A o \in todo[t] : ~InsertWarns(newdom[t], o, tree[Parent(t)][o])
  <2>1. /\ Parent(t) = DomainOf(t) /\ Parent(t) \in Rulesets /\ Label(t) = "inherit"
        /\ tcred[t] \in Creds /\ ncred[t] \in Creds
    BY <1>5, MergeLocals DEF StackLabels
  <2>2. /\ Len(masks[newdom[t]]) = Depth(t) + 1
        /\ \A o \in Objects : tree[newdom[t]][o] = IF o \in todo[t] THEN <<>> ELSE Base(t, o)
    BY <1>1, <2>1 DEF StacksOK, StackOK
  <2>3. Depth(t) = Len(masks[Parent(t)]) /\ Depth(t) \in Nat
    BY <1>1, <2>1, DepthNat, RulesetAssumption DEF Depth
  <2>4. hier[Parent(t)] # NULL
    BY <2>1, RulesetAssumption DEF KindsOK, Parent
  <2>5. todo[t] \subseteq Objects
    BY DEF Core, Types
  <2>6. \A o \in todo[t] : ~InsertWarns(newdom[t], o, tree[Parent(t)][o])
    BY <2>2, <2>5 DEF InsertWarns
  <2>7. Len(masks[newdom[t]]) > Len(masks[Parent(t)])
    BY <2>2, <2>3
  <2> QED BY <2>4, <2>6, <2>7
<1>6. ASSUME NEW t \in Tasks, pc[t] = "merge_rules"
      PROVE  /\ hier[newdom[t]] # NULL /\ Len(masks[rs[t]]) = 1
             /\ \A o \in todo[t] :
                   /\ Len(tree[rs[t]][o]) = 1 /\ tree[rs[t]][o][1].level = 0
                   /\ ~InsertWarns(newdom[t], o, MergedLayer(t, o))
  <2>1. PICK d, r : d = newdom[t] /\ r = rs[t]
    OBVIOUS
  <2>2. d \in Rulesets /\ r \in Rulesets /\ tcred[t] \in Creds /\ Label(t) = "merge_rules"
    BY <1>6, <2>1, MergeLocals DEF StackLabels
  <2>3. rstate[d] = "live" /\ rstate[r] = "live" /\ hier[r] = NULL
    BY <2>1, <2>2, RulesetAssumption, NotFree DEF Core, KindsOK
  <2>4. hier[d] # NULL
    BY <2>1, <2>2 DEF KindsOK, DomainLabels, WalkLabels
  <2>5. Len(masks[r]) = 1
    BY <1>1, <2>1, <2>2, RulesetAssumption DEF RulesOK
  <2>6. Len(masks[d]) = Depth(t) + 1 /\ Len(masks[d]) <= MaxLayers /\ Depth(t) \in Nat
    BY <1>1, <2>1, <2>2, <2>3, DepthNat DEF StacksOK, StackOK, Extends, RulesOK
  <2>7. ASSUME NEW o \in todo[t]
        PROVE  /\ Len(tree[r][o]) = 1 /\ tree[r][o][1].level = 0
               /\ ~InsertWarns(d, o, MergedLayer(t, o))
    <3>1. o \in Objects
      BY DEF Core, Types
    <3>2. tree[r][o] # <<>> /\ tree[d][o] = Base(t, o)
      BY <1>1, <2>1, <2>2, <3>1 DEF StacksOK, StackOK
    <3>3. Single(tree[r][o])
      BY <1>1, <2>2, <2>3, <3>1 DEF RulesOK, Ordered
    <3>4. PICK s, a, l : s = Base(t, o) /\ a = tree[r][o][1].access /\ l = [level |-> Len(masks[d]), access |-> a]
      OBVIOUS
    <3>5. MergedLayer(t, o) = <<l>> /\ l.level = Depth(t) + 1
      BY <2>1, <2>6, <3>4 DEF MergedLayer
    <3>6. Sorted(s, Depth(t)) /\ s \in Layers
      BY <1>1, <2>2, <3>1, <3>4, BaseSorted, DepthNat
    <3>7. Len(s) <= Depth(t)
      BY <2>6, <3>6, SortedAppend
    <3>8. s # <<>> => s[1].level # 0
      <4>1. s # <<>> => 1 \in 1 .. Len(s)
        BY <3>6, EmptySeq DEF Layers
      <4> QED BY <4>1, <3>6, <2>6 DEF Sorted
    <3>9. Len(<<l>>) = 1 /\ <<l>>[1] = l
      OBVIOUS
    <3>10. Len(s) \in Nat
      BY <3>6 DEF Layers
    <3>11. ~(Len(s) >= MaxLayers)
      BY <2>6, <3>7, <3>10, RulesetAssumption
    <3>12. ~InsertWarns(d, o, <<l>>)
      <4>1. tree[d][o] = s
        BY <3>2, <3>4
      <4>2. l.level # 0
        BY <2>6, <3>5
      <4> QED BY <3>8, <3>9, <3>11, <4>1, <4>2 DEF InsertWarns
    <3> QED BY <3>2, <3>3, <3>5, <3>12 DEF Single
  <2> QED BY <2>1, <2>4, <2>5, <2>7
<1> QED BY <1>2, <1>3, <1>4, <1>5, <1>6 DEF NoWarning, At

\* Every rule has the layers it should have, in every reachable state.
THEOREM ShapeInvariance == Spec => [](IInv /\ ShapeInv)
<1>1. Init => ShapeInv
  BY ShapeInit
<1>2. IInv /\ ShapeInv /\ [Next]_vars => ShapeInv'
  BY ShapeStepInv DEF IInv
<1> QED BY <1>1, <1>2, Invariance, PTL DEF Spec

\* landlock_insert_rule(), inherit_ruleset() and merge_ruleset() never meet
\* the shapes they warn about, no path leaves a mutex locked, and the layers
\* of a domain's rule are sorted, for any order of the calls.
THEOREM ShapesKept == Spec => []WellFormed
<1>1. IInv /\ ShapeInv => WellFormed
  <2> SUFFICES ASSUME IInv, ShapeInv PROVE WellFormed
    OBVIOUS
  <2>1. Core /\ CredsOK /\ PreparedOK /\ UsagesOK /\ KindsOK /\ NodesOK
    BY DEF IInv
  <2>2. ShapeTypes /\ LocksOK /\ RulesOK
    BY DEF ShapeInv
  <2> QED BY <2>1, <2>2, TypeMeans, LayersMean, WarningMeans DEF WellFormed
<1> QED BY <1>1, ShapeInvariance, PTL

-----------------------------------------------------------------------------
(* Rulesets and domains implement LandlockPolicy.                          *)

\* A ruleset in use by a call or by a descriptor.
InUse(r) == r \in fd \/ \E t \in Tasks : rs[t] = r

\* A live ruleset or domain is referred to by one of the four kinds of references.
LEMMA LiveReferenced ==
    ASSUME Types, UsagesOK, NEW r \in Rulesets, rstate[r] = "live"
    PROVE  \/ r \in fd \/ \E t \in Tasks : rs[t] = r \/ newdom[t] = r
           \/ \E c \in Creds : cdom[c] = r
<1> SUFFICES ASSUME r \notin fd, \A t \in Tasks : rs[t] # r /\ newdom[t] # r,
                    \A c \in Creds : cdom[c] # r
             PROVE  FALSE
  OBVIOUS
<1>1. /\ {r} \cap fd = {} /\ {t \in Tasks : rs[t] = r} = {}
      /\ {t \in Tasks : newdom[t] = r} = {} /\ {c \in Creds : cdom[c] = r} = {}
  OBVIOUS
<1>2. Count({}) = 0
  BY FS_EmptySet DEF Count
<1>3. rusage[r] = 0
  BY <1>1, <1>2 DEF UsagesOK, RulesetUsageExact
<1> QED BY <1>3 DEF UsagesOK

\* The rulesets of the refinement mapping are those that are in use.
LEMMA RulesetMeans ==
    ASSUME Types, UsagesOK, Exclusive, KindsOK, NEW r \in Rulesets
    PROVE  IsRuleset(r) <=> InUse(r)
<1>1. ASSUME IsRuleset(r) PROVE InUse(r)
  BY <1>1, LiveReferenced, RulesetAssumption DEF IsRuleset, InUse, KindsOK
<1>2. ASSUME InUse(r) PROVE IsRuleset(r)
  <2>1. rstate[r] = "live"
    BY <1>2, NotFree, RulesetAssumption DEF InUse
  <2>2. hier[r] = NULL
    BY <1>2, RulesetAssumption DEF InUse, KindsOK
  <2>3. \A t \in Tasks : newdom[t] # r
    BY <1>2 DEF InUse, Exclusive, OwnDomain
  <2> QED BY <2>1, <2>2, <2>3 DEF IsRuleset
<1> QED BY <1>1, <1>2

\* What the mapping makes of a thread's copy of a ruleset.
Copied(t) ==
    IF Label(t) = "merge_rules" THEN LayerAt(rs[t], 1, 0)
    ELSE IF Label(t) \in {"replace", "assign"} THEN Top(newdom[t])
    ELSE IF Committing(t) THEN Top(cdom[ncred[t]]) ELSE NULL

PolicyOf(t) == IF tcred[t] = NULL THEN NULL ELSE Decode(DomainOf(t))
ContentOf(r) == IF InUse(r) THEN LayerAt(r, 1, 0) ELSE NULL

\* The refinement mapping of the model is the one above.
LEMMA MappedMeans ==
    ASSUME Types, UsagesOK, Exclusive, KindsOK
    PROVE  /\ MappedContent = [r \in Rulesets |-> ContentOf(r)]
           /\ MappedPolicy = [t \in Tasks |-> PolicyOf(t)]
           /\ MappedCopied = [t \in Tasks |-> Copied(t)]
<1>1. \A r \in Rulesets : (IF IsRuleset(r) THEN LayerAt(r, 1, 0) ELSE NULL) = ContentOf(r)
  BY RulesetMeans DEF ContentOf
<1>2. MappedCopied = [t \in Tasks |-> Copied(t)]
  BY DEF MappedCopied, Copied, Committing
<1>3. MappedPolicy = [t \in Tasks |-> PolicyOf(t)]
  BY DEF MappedPolicy, PolicyOf
<1> QED BY <1>1, <1>2, <1>3 DEF MappedContent

\* Layers are those of LandlockPolicy.
LEMMA LayerTyped ==
    ASSUME ShapeTypes, NEW r \in Rulesets, NEW i \in 1 .. Len(masks[r]), NEW level
    PROVE  LayerAt(r, i, level) \in Policy!Layer
<1>1. masks[r][i] \in SUBSET Access
  BY ElementOfSeq DEF ShapeTypes
<1> QED BY <1>1 DEF LayerAt, Policy!Layer

\* A layer is read from the masks and rules of its ruleset or domain only.
LEMMA LayerSame ==
    ASSUME NEW r, masks'[r] = masks[r], tree'[r] = tree[r], NEW i, NEW level
    PROVE  LayerAt(r, i, level)' = LayerAt(r, i, level)
BY DEF LayerAt

\* So is the layer on top...
LEMMA TopSame ==
    ASSUME NEW r, masks'[r] = masks[r], tree'[r] = tree[r]
    PROVE  Top(r)' = Top(r)
BY DEF LayerAt, Top

\* ...and the whole stack.
LEMMA DecodeSame ==
    ASSUME NEW r, r # NULL => masks'[r] = masks[r] /\ tree'[r] = tree[r]
    PROVE  Decode(r)' = Decode(r)
<1>1. CASE r = NULL
  BY <1>1 DEF Decode
<1>2. CASE r # NULL
  <2>1. \A i : LayerAt(r, i, i)' = LayerAt(r, i, i)
    BY <1>2, LayerSame
  <2> QED BY <1>2, <2>1 DEF Decode
<1> QED BY <1>1, <1>2

\* Policies are stacks of layers.
LEMMA DecodeTyped ==
    ASSUME ShapeTypes, RulesOK, NEW r, r # NULL => r \in Rulesets /\ rstate[r] = "live"
    PROVE  /\ Decode(r) \in Seq(Policy!Layer) /\ Decode(r) # NULL
           /\ Len(Decode(r)) = IF r = NULL THEN 0 ELSE Len(masks[r])
           /\ r # NULL => Len(masks[r]) \in Nat
           /\ r # NULL => \A i \in 1 .. Len(masks[r]) : Decode(r)[i] = LayerAt(r, i, i)
<1>1. CASE r = NULL
  <2>1. <<>> \in [1 .. 0 -> Policy!Layer]
    OBVIOUS
  <2>2. <<>> # NULL
    <3>1. 0 \in 0 .. MaxLayers
      BY RulesetAssumption
    <3> QED BY <2>1, <3>1, NullAssumption
  <2>3. <<>> \in Seq(Policy!Layer) /\ Len(<<>>) = 0
    BY EmptySeq
  <2> QED BY <1>1, <2>2, <2>3 DEF Decode
<1>2. CASE r # NULL
  <2>1. PICK n : n = Len(masks[r])
    OBVIOUS
  <2>2. n \in Nat /\ n <= MaxLayers
    BY <1>2, <2>1, LenProperties DEF ShapeTypes, RulesOK
  <2>3. PICK f : f = [i \in 1 .. n |-> LayerAt(r, i, i)]
    OBVIOUS
  <2>4. \A i \in 1 .. n : LayerAt(r, i, i) \in Policy!Layer
    BY <1>2, <2>1, LayerTyped
  <2>5. f \in [1 .. n -> Policy!Layer]
    BY <2>3, <2>4
  <2>6. Decode(r) = f
    BY <1>2, <2>1, <2>3 DEF Decode
  <2>7. f # NULL
    <3>1. n \in 0 .. MaxLayers
      BY <2>2, RulesetAssumption
    <3> QED BY <2>5, <3>1, NullAssumption
  <2>8. f \in Seq(Policy!Layer) /\ Len(f) = n
    <3>1. f \in Seq(Policy!Layer)
      BY <2>2, <2>5, SeqDef
    <3>2. DOMAIN f = 1 .. n /\ DOMAIN f = 1 .. Len(f) /\ Len(f) \in Nat
      BY <2>5, <3>1, LenProperties
    <3> QED BY <2>2, <3>1, <3>2
  <2> QED BY <1>2, <2>1, <2>2, <2>3, <2>6, <2>7, <2>8
<1> QED BY <1>1, <1>2

-----------------------------------------------------------------------------
(* Which steps change what the mapping shows.                              *)

\* A ruleset goes out of use.
Released(r) == \E t \in Tasks : Close(t, r) \/ (rs[t] = r /\ PutRuleset(t))

\* Only close(2) and the end of a call drop a reference to a ruleset.
LEMMA InUseLeaves ==
    ASSUME Core, [Next]_vars, NEW q \in Rulesets, InUse(q)
    PROVE  InUse(q)' \/ Released(q)
<1> USE RulesetAssumption, Using DEF Core, Types, Control, CallLocals, Released, InUse, Label,
    CallLabels, DomainLabels, WalkLabels, FreeLabels, Prepared, Threads, OrNull, At, Goto, Idle,
    rvars, hvars, cvars, locals, frvars, ptvars, ghosts
<1>1. ASSUME NEW t \in Tasks, AllocStep(t) PROVE InUse(q)' \/ Released(q)
  <2>1. ASSUME NEW r \in Rulesets, NEW handled \in SUBSET Access, CreateRuleset(t, r, handled)
        PROVE  InUse(q)' \/ Released(q)
    BY <2>1 DEF CreateRuleset
  <2>2. ASSUME NEW r \in Rulesets, NEW handled \in SUBSET Access, CreateRulesetNoFd(t, r, handled)
        PROVE  InUse(q)' \/ Released(q)
    <3>1. rs[t] = NULL /\ fd' = fd /\ \A u \in Tasks \ {t} : rs'[u] = rs[u]
      BY <2>2 DEF CreateRulesetNoFd
    <3> QED BY <3>1
  <2>3. ASSUME NEW r \in Rulesets, NEW h \in Hierarchies, CreateDomain(t, r, h)
        PROVE  InUse(q)' \/ Released(q)
    BY <2>3 DEF CreateDomain
  <2>4. ASSUME NEW r \in Rulesets, CreateHierarchyFails(t, r)
        PROVE  InUse(q)' \/ Released(q)
    BY <2>4 DEF CreateHierarchyFails
  <2> QED BY <1>1, <2>1, <2>2, <2>3, <2>4 DEF AllocStep
<1>2. ASSUME NEW t \in Tasks, CallStep(t) PROVE InUse(q)' \/ Released(q)
  <2>1. ASSUME NEW r \in Rulesets, NEW o \in Objects, NEW allowed \in SUBSET Access,
             AddRule(t, r, o, allowed)
        PROVE  InUse(q)' \/ Released(q)
    <3>1. rs[t] = NULL /\ fd' = fd /\ \A u \in Tasks \ {t} : rs'[u] = rs[u]
      BY <2>1 DEF AddRule
    <3> QED BY <3>1
  <2>2. ASSUME NEW r \in Rulesets, Close(t, r)
        PROVE  InUse(q)' \/ Released(q)
    <3>1. rs' = rs /\ fd' = fd \ {r}
      BY <2>2 DEF Close
    <3> QED BY <2>2, <3>1
  <2>3. ASSUME NEW r \in Rulesets, RestrictSelf(t, r)
        PROVE  InUse(q)' \/ Released(q)
    <3>1. rs[t] = NULL /\ fd' = fd /\ \A u \in Tasks \ {t} : rs'[u] = rs[u]
      BY <2>3 DEF RestrictSelf
    <3> QED BY <3>1
  <2>4. ASSUME NEW c \in Creds, ChangeCreds(t, c)
        PROVE  InUse(q)' \/ Released(q)
    BY <2>4 DEF ChangeCreds, GetDomain, DomainOf
  <2>5. ASSUME NEW c \in Creds, NEW u \in Tasks, Fork(t, u, c)
        PROVE  InUse(q)' \/ Released(q)
    BY <2>5 DEF Fork, NewCred, GetDomain, DomainOf
  <2>6. ASSUME NEW u \in Tasks, CloneThread(t, u)
        PROVE  InUse(q)' \/ Released(q)
    BY <2>6 DEF CloneThread
  <2>7. ASSUME NEW p \in Tasks, NEW c \in Tasks, TaskPtrace(t, p, c)
        PROVE  InUse(q)' \/ Released(q)
    BY <2>7 DEF TaskPtrace
  <2>8. CASE Exit(t)
    BY <2>8 DEF Exit, PutCred
  <2> QED BY <1>2, <2>1, <2>2, <2>3, <2>4, <2>5, <2>6, <2>7, <2>8 DEF CallStep
<1>3. ASSUME NEW t \in Tasks, LockStep(t) PROVE InUse(q)' \/ Released(q)
  <2>1. CASE AppendFsRule(t)
    BY <2>1 DEF AppendFsRule, InsertRule
  <2>2. CASE InheritLock(t)
    BY <2>2 DEF InheritLock, Unlocked, Lock, RulesOf
  <2>3. CASE MergeLock(t)
    BY <2>3 DEF MergeLock, Unlocked, Lock, RulesOf
  <2> QED BY <1>3, <2>1, <2>2, <2>3 DEF LockStep
<1>4. ASSUME NEW t \in Tasks, KernelStep(t) PROVE InUse(q)' \/ Released(q)
  <2>1. CASE AppendFsRuleFails(t)
    BY <2>1 DEF AppendFsRuleFails
  <2>2. CASE PutRuleset(t)
    <3>1. fd' = fd /\ \A u \in Tasks \ {t} : rs'[u] = rs[u]
      BY <2>2 DEF PutRuleset
    <3> QED BY <2>2, <3>1
  <2>3. ASSUME NEW c \in Creds, PrepareCreds(t, c)
        PROVE  InUse(q)' \/ Released(q)
    BY <2>3 DEF PrepareCreds, NewCred, GetDomain, DomainOf
  <2>4. CASE PrepareCredsFails(t)
    BY <2>4 DEF PrepareCredsFails
  <2>5. CASE MergeFails(t)
    BY <2>5 DEF MergeFails
  <2>6. ASSUME NEW o \in Objects, InheritRule(t, o)
        PROVE  InUse(q)' \/ Released(q)
    BY <2>6 DEF InheritRule, InsertRule
  <2>7. ASSUME NEW o \in Objects, MergeRule(t, o)
        PROVE  InUse(q)' \/ Released(q)
    BY <2>7 DEF MergeRule, InsertRule
  <2>8. CASE InheritFails(t)
    BY <2>8 DEF InheritFails, Unlock
  <2>9. CASE InheritDone(t)
    BY <2>9 DEF InheritDone, Unlock
  <2>10. CASE MergeRuleFails(t)
    BY <2>10 DEF MergeRuleFails, Unlock
  <2>11. CASE MergeDone(t)
    BY <2>11 DEF MergeDone, Unlock
  <2>12. CASE PutDom(t)
    BY <2>12 DEF PutDom, Put
  <2>13. CASE ReplaceDomain(t)
    BY <2>13 DEF ReplaceDomain, Put
  <2>14. CASE AssignDomain(t)
    BY <2>14 DEF AssignDomain
  <2>15. CASE CommitCreds(t)
    BY <2>15 DEF CommitCreds, PutCred
  <2>16. CASE AbortCreds(t)
    BY <2>16 DEF AbortCreds, PutCred
  <2>17. CASE TaskIsScoped(t)
    BY <2>17 DEF TaskIsScoped, DomainOf
  <2>18. CASE DomChild(t)
    BY <2>18 DEF DomChild, DomainOf
  <2>19. CASE DomainScopeLe(t)
    BY <2>19 DEF DomainScopeLe, ScopeDecided
  <2> QED BY <1>4, <2>1, <2>2, <2>3, <2>4, <2>5, <2>6, <2>7, <2>8, <2>9, <2>10, <2>11, <2>12, <2>13, <2>14, <2>15, <2>16, <2>17, <2>18, <2>19 DEF KernelStep
<1>5. ASSUME NEW t \in Threads, FreeStep(t) PROVE InUse(q)' \/ Released(q)
  <2>1. CASE FreeRuleset(t)
    BY <2>1 DEF FreeRuleset
  <2>2. CASE PutHierarchy(t)
    BY <2>2 DEF PutHierarchy
  <2>3. CASE Kfree(t)
    BY <2>3 DEF Kfree
  <2> QED BY <1>5, <2>1, <2>2, <2>3 DEF FreeStep
<1>6. ASSUME NEW c \in Creds, CredFree(c) PROVE InUse(q)' \/ Released(q)
  BY <1>6 DEF CredFree
<1>7. ASSUME NEW r \in Rulesets, FreeRulesetWork(r) PROVE InUse(q)' \/ Released(q)
  BY <1>7 DEF FreeRulesetWork
<1>8. CASE UNCHANGED vars
  BY <1>8 DEF vars
<1> QED BY <1>1, <1>2, <1>3, <1>4, <1>5, <1>6, <1>7, <1>8 DEF Next

\* A task stops or goes on building a domain.
CopyMove(x) == StackFrame(x) \/ StackStep(x) \/ MergeRuleFails(x) \/ CommitCreds(x)

\* A merge with a copy of the ruleset ends in one of these ways.
LEMMA CopyLeaves ==
    ASSUME Core, [Next]_vars, NEW x \in Tasks,
           Label(x) \in {"merge_rules", "replace", "assign"} \/ Committing(x)
    PROVE  CopyMove(x)
<1> USE RulesetAssumption, Using DEF Core, Types, Control, CopyMove, StackStep, StackFrame, StackLabels, Committing,
    Returns, Threads, Label, At, Goto, Idle, CallLocals, FreeLocals, Labels, CallLabels, DomainLabels,
    WalkLabels, PtraceLabels, FreeLabels, Prepared, OrNull, rvars, hvars, cvars, locals, frvars, ptvars, ghosts, Alloc
<1>1. ASSUME NEW t \in Tasks, AllocStep(t) PROVE CopyMove(x)
  <2>1. ASSUME NEW r \in Rulesets, NEW handled \in SUBSET Access, CreateRuleset(t, r, handled)
        PROVE  CopyMove(x)
    BY <2>1 DEF CreateRuleset
  <2>2. ASSUME NEW r \in Rulesets, NEW handled \in SUBSET Access, CreateRulesetNoFd(t, r, handled)
        PROVE  CopyMove(x)
    BY <2>2 DEF CreateRulesetNoFd
  <2>3. ASSUME NEW r \in Rulesets, NEW h \in Hierarchies, CreateDomain(t, r, h)
        PROVE  CopyMove(x)
    <3>1. CASE x = t
      BY <2>3, <3>1 DEF StackStep
    <3>2. CASE x # t
      BY <2>3, <3>2 DEF CreateDomain
    <3> QED BY <3>1, <3>2
  <2>4. ASSUME NEW r \in Rulesets, CreateHierarchyFails(t, r)
        PROVE  CopyMove(x)
    BY <2>4 DEF CreateHierarchyFails
  <2> QED BY <1>1, <2>1, <2>2, <2>3, <2>4 DEF AllocStep
<1>2. ASSUME NEW t \in Tasks, CallStep(t) PROVE CopyMove(x)
  <2>1. ASSUME NEW r \in Rulesets, NEW o \in Objects, NEW allowed \in SUBSET Access,
             AddRule(t, r, o, allowed)
        PROVE  CopyMove(x)
    BY <2>1 DEF AddRule, Get
  <2>2. ASSUME NEW r \in Rulesets, Close(t, r)
        PROVE  CopyMove(x)
    BY <2>2 DEF Close, Put
  <2>3. ASSUME NEW r \in Rulesets, RestrictSelf(t, r)
        PROVE  CopyMove(x)
    BY <2>3 DEF RestrictSelf, Get
  <2>4. ASSUME NEW c \in Creds, ChangeCreds(t, c)
        PROVE  CopyMove(x)
    BY <2>4 DEF ChangeCreds, GetDomain, DomainOf
  <2>5. ASSUME NEW c \in Creds, NEW u \in Tasks, Fork(t, u, c)
        PROVE  CopyMove(x)
    BY <2>5 DEF Fork, NewCred, GetDomain, DomainOf
  <2>6. ASSUME NEW u \in Tasks, CloneThread(t, u)
        PROVE  CopyMove(x)
    BY <2>6 DEF CloneThread
  <2>7. ASSUME NEW p \in Tasks, NEW c \in Tasks, TaskPtrace(t, p, c)
        PROVE  CopyMove(x)
    BY <2>7 DEF TaskPtrace
  <2>8. CASE Exit(t)
    BY <2>8 DEF Exit, PutCred
  <2> QED BY <1>2, <2>1, <2>2, <2>3, <2>4, <2>5, <2>6, <2>7, <2>8 DEF CallStep
<1>3. ASSUME NEW t \in Tasks, LockStep(t) PROVE CopyMove(x)
  <2>1. CASE AppendFsRule(t)
    BY <2>1 DEF AppendFsRule, InsertRule
  <2>2. CASE InheritLock(t)
    <3>1. CASE x = t
      BY <2>2, <3>1 DEF StackStep
    <3>2. CASE x # t
      BY <2>2, <3>2 DEF InheritLock, Lock
    <3> QED BY <3>1, <3>2
  <2>3. CASE MergeLock(t)
    <3>1. CASE x = t
      BY <2>3, <3>1 DEF StackStep
    <3>2. CASE x # t
      BY <2>3, <3>2 DEF MergeLock
    <3> QED BY <3>1, <3>2
  <2> QED BY <1>3, <2>1, <2>2, <2>3 DEF LockStep
<1>4. ASSUME NEW t \in Tasks, KernelStep(t) PROVE CopyMove(x)
  <2>1. CASE AppendFsRuleFails(t)
    BY <2>1 DEF AppendFsRuleFails
  <2>2. CASE PutRuleset(t)
    <3>1. CASE x = t
      BY <2>2, <3>1 DEF StackStep
    <3>2. CASE x # t
      BY <2>2, <3>2 DEF PutRuleset, Put
    <3> QED BY <3>1, <3>2
  <2>3. ASSUME NEW c \in Creds, PrepareCreds(t, c)
        PROVE  CopyMove(x)
    BY <2>3 DEF PrepareCreds, NewCred, GetDomain, DomainOf
  <2>4. CASE PrepareCredsFails(t)
    BY <2>4 DEF PrepareCredsFails
  <2>5. CASE MergeFails(t)
    BY <2>5 DEF MergeFails
  <2>6. ASSUME NEW o \in Objects, InheritRule(t, o)
        PROVE  CopyMove(x)
    <3>1. CASE x = t
      BY <2>6, <3>1 DEF StackStep
    <3>2. CASE x # t
      BY <2>6, <3>2 DEF InheritRule
    <3> QED BY <3>1, <3>2
  <2>7. ASSUME NEW o \in Objects, MergeRule(t, o)
        PROVE  CopyMove(x)
    <3>1. CASE x = t
      BY <2>7, <3>1 DEF StackStep
    <3>2. CASE x # t
      BY <2>7, <3>2 DEF MergeRule
    <3> QED BY <3>1, <3>2
  <2>8. CASE InheritFails(t)
    BY <2>8 DEF InheritFails, Unlock
  <2>9. CASE InheritDone(t)
    <3>1. CASE x = t
      BY <2>9, <3>1 DEF StackStep
    <3>2. CASE x # t
      BY <2>9, <3>2 DEF InheritDone
    <3> QED BY <3>1, <3>2
  <2>10. CASE MergeRuleFails(t)
    <3>1. CASE x = t
      BY <2>10, <3>1 DEF StackStep
    <3>2. CASE x # t
      BY <2>10, <3>2 DEF MergeRuleFails
    <3> QED BY <3>1, <3>2
  <2>11. CASE MergeDone(t)
    <3>1. CASE x = t
      BY <2>11, <3>1 DEF StackStep
    <3>2. CASE x # t
      BY <2>11, <3>2 DEF MergeDone
    <3> QED BY <3>1, <3>2
  <2>12. CASE PutDom(t)
    BY <2>12 DEF PutDom, Put
  <2>13. CASE ReplaceDomain(t)
    <3>1. CASE x = t
      BY <2>13, <3>1 DEF StackStep
    <3>2. CASE x # t
      BY <2>13, <3>2 DEF ReplaceDomain, Put
    <3> QED BY <3>1, <3>2
  <2>14. CASE AssignDomain(t)
    <3>1. CASE x = t
      BY <2>14, <3>1 DEF StackStep
    <3>2. CASE x # t
      BY <2>14, <3>2 DEF AssignDomain
    <3> QED BY <3>1, <3>2
  <2>15. CASE CommitCreds(t)
    <3>1. CASE x = t
      BY <2>15, <3>1 DEF StackStep
    <3>2. CASE x # t
      BY <2>15, <3>2 DEF CommitCreds
    <3> QED BY <3>1, <3>2
  <2>16. CASE AbortCreds(t)
    BY <2>16 DEF AbortCreds, PutCred
  <2>17. CASE TaskIsScoped(t)
    BY <2>17 DEF TaskIsScoped, DomainOf
  <2>18. CASE DomChild(t)
    BY <2>18 DEF DomChild, DomainOf
  <2>19. CASE DomainScopeLe(t)
    BY <2>19 DEF DomainScopeLe, ScopeDecided
  <2> QED BY <1>4, <2>1, <2>2, <2>3, <2>4, <2>5, <2>6, <2>7, <2>8, <2>9, <2>10, <2>11, <2>12, <2>13, <2>14, <2>15, <2>16, <2>17, <2>18, <2>19 DEF KernelStep
<1>5. ASSUME NEW t \in Threads, FreeStep(t) PROVE CopyMove(x)
  <2>1. CASE FreeRuleset(t)
    BY <2>1 DEF FreeRuleset
  <2>2. CASE PutHierarchy(t)
    BY <2>2 DEF PutHierarchy
  <2>3. CASE Kfree(t)
    BY <2>3 DEF Kfree
  <2> QED BY <1>5, <2>1, <2>2, <2>3 DEF FreeStep
<1>6. ASSUME NEW c \in Creds, CredFree(c) PROVE CopyMove(x)
  BY <1>6 DEF CredFree
<1>7. ASSUME NEW r \in Rulesets, FreeRulesetWork(r) PROVE CopyMove(x)
  BY <1>7 DEF FreeRulesetWork
<1>8. CASE UNCHANGED vars
  BY <1>8 DEF vars
<1> QED BY <1>1, <1>2, <1>3, <1>4, <1>5, <1>6, <1>7, <1>8 DEF Next

\* The parts of the invariants.
LEMMA Parts ==
    ASSUME IInv, ShapeInv
    PROVE  /\ Core /\ Types /\ CredsOK /\ PreparedOK /\ UsagesOK /\ Exclusive /\ KindsOK
           /\ ShapeTypes /\ LocksOK /\ RulesOK /\ StacksOK
BY DEF IInv, ShapeInv, Core

\* The same ruleset or domain, seen through a local.
LEMMA LayerThrough ==
    ASSUME NEW x \in Tasks, NEW r
    PROVE  /\ rs'[x] = r => LayerAt(rs[x], 1, 0)' = LayerAt(r, 1, 0)'
           /\ newdom'[x] = r => Top(newdom[x])' = Top(r)'
           /\ cdom'[ncred'[x]] = r => Top(cdom[ncred[x]])' = Top(r)'
BY DEF LayerAt, Top

\* Where a task is when it has a copy.
LEMMA CopyPlaces ==
    ASSUME Core, NEW x \in Tasks
    PROVE  /\ Label(x) = "merge_rules" => pc[x] = "merge_rules" /\ rs[x] \in Rulesets /\ newdom[x] \in Rulesets
           /\ Label(x) \in {"replace", "assign"} => newdom[x] \in Rulesets
           /\ Label(x) \in {"replace", "assign"} \/ Committing(x) => ~LayerWrite(x)
           /\ Committing(x) => ncred[x] \in Creds /\ ~ReplaceDomain(x) /\ ~AssignDomain(x)
<1> USE DEF Label, Committing, FreeLabels, Returns, CallLabels, DomainLabels, WalkLabels
<1>1. pc[x] \in FreeLabels => ret[x] \in Returns
  BY DEF Core, Types, Threads
<1>2. /\ rs[x] # NULL => rs[x] \in Rulesets
      /\ newdom[x] # NULL => newdom[x] \in Rulesets
      /\ ncred[x] # NULL => ncred[x] \in Creds
      /\ (rs[x] # NULL) <=> (Label(x) \in CallLabels)
      /\ (newdom[x] # NULL) <=> (Label(x) \in DomainLabels)
  BY DEF Core, Types, Control, CallLocals, OrNull
<1>3. ASSUME LayerWrite(x) PROVE pc[x] \in {"inherit", "merge_rules", "merge_lock"}
  BY <1>3 DEF LayerWrite, InheritRule, MergeRule, InheritDone, MergeLock, At
<1>4. ReplaceDomain(x) \/ AssignDomain(x) => pc[x] \in {"replace", "assign"}
  BY DEF ReplaceDomain, AssignDomain, At
<1> QED BY <1>1, <1>2, <1>3, <1>4

\* The ruleset of a merge is locked.
LEMMA CopyLocked ==
    ASSUME IInv, ShapeInv, [Next]_vars, NEW x \in Tasks, Label(x) = "merge_rules"
    PROVE  LayerFrame(rs[x])
<1>1. PICK r \in Rulesets : r = rs[x]
  BY Parts, CopyPlaces
<1>2. rlock[r] = x
  BY <1>1, Parts, CopyPlaces DEF LocksOK, Locks
<1>3. LayerFrame(r) \/ \E t \in Tasks : rs[t] = r /\ AppendFsRule(t)
  BY <1>1, Parts, RulesetKept
<1>4. ASSUME NEW t \in Tasks, rs[t] = r, AppendFsRule(t) PROVE FALSE
  BY <1>2, <1>4, RulesetAssumption DEF AppendFsRule
<1> QED BY <1>1, <1>3, <1>4

\* The new domain is its task's own.
LEMMA CopyOwned ==
    ASSUME IInv, ShapeInv, [Next]_vars, NEW x \in Tasks
    PROVE  /\ Label(x) \in {"replace", "assign"} => LayerFrame(newdom[x])
           /\ Committing(x) => /\ cdom'[ncred[x]] = cdom[ncred[x]]
                               /\ LayerFrame(cdom[ncred[x]])
<1>1. ASSUME Label(x) \in {"replace", "assign"} PROVE LayerFrame(newdom[x])
  <2>1. newdom[x] \in Rulesets /\ ~LayerWrite(x)
    BY <1>1, Parts, CopyPlaces
  <2>2. OwnDomain(x, newdom[x])
    BY DEF OwnDomain
  <2> QED BY <2>1, <2>2, Parts, OwnKept
<1>2. ASSUME Committing(x)
      PROVE  cdom'[ncred[x]] = cdom[ncred[x]] /\ LayerFrame(cdom[ncred[x]])
  <2>1. PICK c \in Creds : c = ncred[x]
    BY <1>2, Parts, CopyPlaces
  <2>2. PICK d : d = cdom[c]
    OBVIOUS
  <2>3. d \in Rulesets /\ d # NULL
    BY <1>2, <2>1, <2>2, Parts DEF PreparedOK, Types, OrNull
  <2>4. OwnDomain(x, d)
    BY <1>2, <2>1, <2>2 DEF OwnDomain
  <2>5. LayerFrame(d)
    BY <1>2, <2>3, <2>4, Parts, OwnKept, CopyPlaces
  <2>6. cstate[c] = "live" /\ \A t \in Tasks : ncred[t] = c => t = x
    <3>1. c # NULL /\ NULL \notin Creds
      BY RulesetAssumption
    <3> QED BY <2>1, <3>1, Parts DEF CredsOK
  <2>7. cdom'[c] = cdom[c] \/ \E t \in Tasks : ncred[t] = c /\ (ReplaceDomain(t) \/ AssignDomain(t))
    BY <2>6, Parts, CredKept
  <2>8. cdom'[c] = cdom[c]
    BY <1>2, <2>6, <2>7, Parts, CopyPlaces
  <2> QED BY <2>1, <2>2, <2>5, <2>8
<1> QED BY <1>1, <1>2

\* While a task stays where it is, so does its copy.
LEMMA CopyFrameKept ==
    ASSUME IInv, ShapeInv, [Next]_vars, NEW x \in Tasks, StackFrame(x)
    PROVE  Copied(x)' = Copied(x)
<1>1. /\ Label(x)' = Label(x) /\ newdom'[x] = newdom[x] /\ ncred'[x] = ncred[x]
      /\ Label(x) = "merge_rules" => rs'[x] = rs[x]
      /\ Committing(x)' <=> Committing(x)
  BY DEF StackFrame, Committing
<1>2. CASE Label(x) = "merge_rules"
  <2>1. PICK r : r = rs[x]
    OBVIOUS
  <2>2. LayerAt(rs[x], 1, 0)' = LayerAt(r, 1, 0)'
    BY <1>1, <1>2, <2>1, LayerThrough
  <2>3. LayerAt(r, 1, 0)' = LayerAt(r, 1, 0)
    BY <1>2, <2>1, CopyLocked, LayerSame DEF LayerFrame
  <2>4. Copied(x)' = LayerAt(rs[x], 1, 0)' /\ Copied(x) = LayerAt(r, 1, 0)
    BY <1>1, <1>2, <2>1 DEF Copied
  <2> QED BY <2>2, <2>3, <2>4
<1>3. CASE Label(x) \in {"replace", "assign"}
  <2>1. PICK d : d = newdom[x]
    OBVIOUS
  <2>2. Top(newdom[x])' = Top(d)'
    BY <1>1, <2>1, LayerThrough
  <2>3. Top(d)' = Top(d)
    BY <1>3, <2>1, CopyOwned, TopSame DEF LayerFrame
  <2>4. Copied(x)' = Top(newdom[x])' /\ Copied(x) = Top(d)
    BY <1>1, <1>3, <2>1 DEF Copied
  <2> QED BY <2>2, <2>3, <2>4
<1>4. CASE Committing(x)
  <2>1. PICK d : d = cdom[ncred[x]]
    OBVIOUS
  <2>2. Top(cdom[ncred[x]])' = Top(d)'
    BY <1>1, <1>4, <2>1, CopyOwned, LayerThrough
  <2>3. Top(d)' = Top(d)
    BY <1>4, <2>1, CopyOwned, TopSame DEF LayerFrame
  <2>4. Copied(x)' = Top(cdom[ncred[x]])' /\ Copied(x) = Top(d)
    BY <1>1, <1>4, <2>1 DEF Copied, Committing
  <2> QED BY <2>2, <2>3, <2>4
<1>5. CASE Label(x) \notin {"merge_rules", "replace", "assign"} /\ ~Committing(x)
  BY <1>1, <1>5 DEF Copied
<1> QED BY <1>2, <1>3, <1>4, <1>5

\* Where the steps of a merge lead.
LEMMA CopyGoes ==
    ASSUME Core, NEW x \in Tasks
    PROVE  /\ \A r \in Rulesets, h \in Hierarchies : CreateDomain(x, r, h) =>
                 Label(x) = "merge" /\ Label(x)' \in {"merge_lock", "inherit_lock"}
           /\ InheritLock(x) => Label(x) = "inherit_lock" /\ Label(x)' = "inherit"
           /\ \A o \in Objects : InheritRule(x, o) => Label(x) = "inherit" /\ Label(x)' = "inherit"
           /\ InheritDone(x) => Label(x) = "inherit" /\ Label(x)' = "merge_lock"
           /\ MergeLock(x) => Label(x) = "merge_lock" /\ Label(x)' = "merge_rules" /\ rs' = rs
           /\ \A o \in Objects : MergeRule(x, o) =>
                 Label(x) = "merge_rules" /\ Label(x)' = "merge_rules" /\ rs' = rs
           /\ MergeDone(x) => Label(x) = "merge_rules" /\ Label(x)' = "replace" /\ newdom' = newdom
           /\ MergeRuleFails(x) => Label(x) = "merge_rules" /\ Label(x)' = "put_dom"
           /\ ReplaceDomain(x) => Label(x) = "replace" /\ Label(x)' = "assign" /\ newdom' = newdom
           /\ AssignDomain(x) => /\ Label(x) = "assign" /\ Label(x)' = "put_ruleset" /\ ncred[x] \in Creds
                                 /\ ncred' = ncred /\ cdom'[ncred[x]] = newdom[x]
           /\ PutRuleset(x) => /\ Label(x) = "put_ruleset" /\ cdom' = cdom /\ ncred' = ncred
                               /\ Label(x)' = IF ncred[x] # NULL THEN "commit_creds" ELSE "idle"
           /\ CommitCreds(x) => Label(x) = "commit_creds" /\ Label(x)' = "idle" /\ ncred[x] \in Creds
<1> USE Using DEF Core, Types, Threads, Label, FreeLabels, At, Goto, Parent, Returns, Prepared,
        DomainLabels, WalkLabels, locals
<1>1. ASSUME NEW r \in Rulesets, NEW h \in Hierarchies, CreateDomain(x, r, h)
      PROVE  Label(x) = "merge" /\ Label(x)' \in {"merge_lock", "inherit_lock"}
  BY <1>1 DEF CreateDomain
<1>2. ASSUME InheritLock(x) PROVE Label(x) = "inherit_lock" /\ Label(x)' = "inherit"
  BY <1>2 DEF InheritLock
<1>3. ASSUME NEW o \in Objects, InheritRule(x, o) PROVE Label(x) = "inherit" /\ Label(x)' = "inherit"
  BY <1>3 DEF InheritRule
<1>4. ASSUME InheritDone(x) PROVE Label(x) = "inherit" /\ Label(x)' = "merge_lock"
  BY <1>4 DEF InheritDone
<1>5. ASSUME MergeLock(x) PROVE Label(x) = "merge_lock" /\ Label(x)' = "merge_rules" /\ rs' = rs
  BY <1>5 DEF MergeLock
<1>6. ASSUME NEW o \in Objects, MergeRule(x, o)
      PROVE  Label(x) = "merge_rules" /\ Label(x)' = "merge_rules" /\ rs' = rs
  BY <1>6 DEF MergeRule
<1>7. ASSUME MergeDone(x) PROVE Label(x) = "merge_rules" /\ Label(x)' = "replace" /\ newdom' = newdom
  BY <1>7 DEF MergeDone
<1>8. ASSUME MergeRuleFails(x) PROVE Label(x) = "merge_rules" /\ Label(x)' = "put_dom"
  BY <1>8 DEF MergeRuleFails
<1>9. ASSUME ReplaceDomain(x) PROVE Label(x) = "replace" /\ Label(x)' = "assign" /\ newdom' = newdom
  BY <1>9 DEF ReplaceDomain, Put
<1>10. ASSUME AssignDomain(x)
       PROVE  /\ Label(x) = "assign" /\ Label(x)' = "put_ruleset" /\ ncred[x] \in Creds
              /\ ncred' = ncred /\ cdom'[ncred[x]] = newdom[x]
  BY <1>10 DEF AssignDomain
<1>11. ASSUME PutRuleset(x)
       PROVE  /\ Label(x) = "put_ruleset" /\ cdom' = cdom /\ ncred' = ncred
              /\ Label(x)' = IF ncred[x] # NULL THEN "commit_creds" ELSE "idle"
  BY <1>11 DEF PutRuleset, Put, cvars
<1>12. ASSUME CommitCreds(x) PROVE Label(x) = "commit_creds" /\ Label(x)' = "idle" /\ ncred[x] \in Creds
  BY <1>12 DEF CommitCreds
<1> HIDE DEF Core, Types, Threads, Label, FreeLabels, At, Goto, Parent, Returns, Prepared,
        DomainLabels, WalkLabels
<1> QED BY ONLY <1>1, <1>2, <1>3, <1>4, <1>5, <1>6, <1>7, <1>8, <1>9, <1>10, <1>11, <1>12

\* The rights of the layers of one level of a rule.
LevelRights(s, level, m) ==
    m \cap UNION {l.access : l \in {s[k] : k \in {j \in 1 .. Len(s) : s[j].level = level}}}

\* A layer, with its rights by the operator above.
LEMMA LayerRights ==
    ASSUME NEW r, NEW i, NEW level
    PROVE  LayerAt(r, i, level) =
              [handled |-> masks[r][i],
               rights |-> [o \in Objects |-> LevelRights(tree[r][o], level, masks[r][i])]]
BY DEF LayerAt, LevelRights

\* One more layer of a rule does not change those below...
LEMMA RightsBelow ==
    ASSUME NEW s \in Layers, NEW n \in Nat, NEW a \in SUBSET Access, NEW i \in 1 .. n, NEW m
    PROVE  LevelRights(Append(s, [level |-> n + 1, access |-> a]), i, m) = LevelRights(s, i, m)
<1>1. PICK e : e = [level |-> n + 1, access |-> a]
  OBVIOUS
<1>2. e \in [level : Nat, access : SUBSET Access] /\ e.level = n + 1 /\ e.access = a
  BY <1>1
<1>3. PICK t : t = Append(s, e)
  OBVIOUS
<1>4. t \in Layers /\ Len(t) = Len(s) + 1 /\ t[Len(s) + 1] = e /\ \A k \in 1 .. Len(s) : t[k] = s[k]
  BY <1>2, <1>3, AppendProperties DEF Layers
<1>5. Len(s) \in Nat
  BY LenProperties DEF Layers
<1>6. {j \in 1 .. Len(t) : t[j].level = i} = {j \in 1 .. Len(s) : s[j].level = i}
  BY <1>2, <1>4, <1>5
<1>7. {t[k] : k \in {j \in 1 .. Len(t) : t[j].level = i}} = {s[k] : k \in {j \in 1 .. Len(s) : s[j].level = i}}
  BY <1>4, <1>6
<1>8. LevelRights(t, i, m) = LevelRights(s, i, m)
  BY <1>7 DEF LevelRights
<1> QED BY <1>1, <1>3, <1>8

\* ...and is the only one of its level.
LEMMA RightsOnTop ==
    ASSUME NEW s \in Layers, NEW n \in Nat, Sorted(s, n), NEW a \in SUBSET Access, NEW m
    PROVE  /\ LevelRights(s, n + 1, m) = {}
           /\ LevelRights(Append(s, [level |-> n + 1, access |-> a]), n + 1, m) = m \cap a
<1>1. PICK e : e = [level |-> n + 1, access |-> a]
  OBVIOUS
<1>2. e \in [level : Nat, access : SUBSET Access] /\ e.level = n + 1 /\ e.access = a
  BY <1>1
<1>3. PICK t : t = Append(s, e)
  OBVIOUS
<1>4. t \in Layers /\ Len(t) = Len(s) + 1 /\ t[Len(s) + 1] = e /\ \A k \in 1 .. Len(s) : t[k] = s[k]
  BY <1>2, <1>3, AppendProperties DEF Layers
<1>5. Len(s) \in Nat
  BY LenProperties DEF Layers
<1>6. \A j \in 1 .. Len(s) : s[j].level # n + 1
  BY <1>5 DEF Sorted
<1>7. {j \in 1 .. Len(s) : s[j].level = n + 1} = {}
  BY <1>6
<1>8. {j \in 1 .. Len(t) : t[j].level = n + 1} = {Len(s) + 1}
  BY <1>2, <1>4, <1>5, <1>6
<1>9. {t[k] : k \in {j \in 1 .. Len(t) : t[j].level = n + 1}} = {e}
  BY <1>4, <1>8
<1>10. {s[k] : k \in {j \in 1 .. Len(s) : s[j].level = n + 1}} = {}
  BY <1>7
<1>11. UNION {l.access : l \in {e}} = a /\ UNION {l.access : l \in {}} = {}
  BY <1>2
<1>12. LevelRights(s, n + 1, m) = {}
  BY <1>10, <1>11 DEF LevelRights
<1>13. LevelRights(t, n + 1, m) = m \cap a
  BY <1>9, <1>11 DEF LevelRights
<1> QED BY <1>1, <1>3, <1>12, <1>13

\* A rule of a ruleset has its rights in a layer of level 0.
LEMMA RightsSingle ==
    ASSUME NEW s \in Layers, Single(s), NEW m
    PROVE  LevelRights(s, 0, m) = IF s = <<>> THEN {} ELSE m \cap s[1].access
<1>1. CASE s = <<>>
  <2>1. {j \in 1 .. Len(s) : s[j].level = 0} = {}
    BY <1>1, EmptySeq
  <2>2. {s[k] : k \in {j \in 1 .. Len(s) : s[j].level = 0}} = {}
    BY <2>1
  <2>3. UNION {l.access : l \in {}} = {}
    OBVIOUS
  <2> QED BY <1>1, <2>2, <2>3 DEF LevelRights
<1>2. CASE s # <<>>
  <2>1. {j \in 1 .. Len(s) : s[j].level = 0} = {1}
    BY <1>2 DEF Single
  <2>2. {s[k] : k \in {j \in 1 .. Len(s) : s[j].level = 0}} = {s[1]}
    BY <2>1
  <2>3. UNION {l.access : l \in {s[1]}} = s[1].access
    OBVIOUS
  <2> QED BY <1>2, <2>2, <2>3 DEF LevelRights
<1> QED BY <1>1, <1>2

\* Once all rules are merged, the layer on top of the new domain is the ruleset's.
LEMMA CopyMerged ==
    ASSUME IInv, ShapeInv, NEW x \in Tasks, Label(x) = "merge_rules", todo[x] = {}
    PROVE  Top(newdom[x]) = LayerAt(rs[x], 1, 0)
<1>1. PICK d \in Rulesets, r \in Rulesets : d = newdom[x] /\ r = rs[x]
  BY Parts, CopyPlaces
<1>2. PICK n : n = Depth(x)
  OBVIOUS
<1>3. tcred[x] \in Creds /\ n \in Nat /\ \A o \in Objects : Base(x, o) \in Layers /\ Sorted(Base(x, o), n)
  <2>1. tcred[x] \in Creds
    BY Parts, Merges DEF StackLabels
  <2> QED BY <1>2, <2>1, Parts, DepthNat, BaseSorted
<1>4. StackOK(x)
  BY Parts DEF StacksOK
<1>5. /\ Len(masks[d]) = n + 1 /\ masks[d][n + 1] = masks[r][1]
      /\ \A o \in Objects : IF tree[r][o] = <<>> THEN tree[d][o] = Base(x, o)
                            ELSE tree[d][o] = OneMore(x, o, tree[r][o][1].access)
  BY <1>1, <1>2, <1>4 DEF StackOK, Extends
<1>6. \A o \in Objects : tree[r][o] \in Layers /\ Single(tree[r][o])
  <2>1. rstate[r] = "live" /\ hier[r] = NULL
    BY <1>1, Parts, NotFree, RulesetAssumption DEF KindsOK
  <2> QED BY <2>1, Parts DEF RulesOK, Ordered, ShapeTypes
<1>7. PICK m : m = masks[r][1]
  OBVIOUS
<1>8. ASSUME NEW o \in Objects
      PROVE  LayerAt(d, n + 1, n + 1).rights[o] = LayerAt(r, 1, 0).rights[o]
  <2>1. PICK s, b, t : s \in Layers /\ b \in Layers /\ s = tree[r][o] /\ b = Base(x, o) /\ t = tree[d][o]
    BY <1>3, <1>6
  <2>2. /\ LayerAt(d, n + 1, n + 1).rights[o] =
              LevelRights(t, n + 1, m)
        /\ LayerAt(r, 1, 0).rights[o] =
              LevelRights(s, 0, m)
    BY <1>5, <1>7, <2>1, LayerRights
  <2>3. LayerAt(r, 1, 0).rights[o] = IF s = <<>> THEN {} ELSE m \cap s[1].access
    BY <1>6, <2>1, <2>2, RightsSingle
  <2>4. CASE s = <<>>
    <3>1. t = b
      BY <1>5, <2>1, <2>4
    <3>2. LevelRights(b, n + 1, m) = {}
      BY <1>3, <2>1, RightsOnTop
    <3> QED BY <2>2, <2>3, <2>4, <3>1, <3>2
  <2>5. CASE s # <<>>
    <3>1. PICK a : a = s[1].access
      OBVIOUS
    <3>2. a \in SUBSET Access
      BY <2>1, <2>5, <3>1, FirstLayer
    <3>3. t = Append(b, [level |-> n + 1, access |-> a])
      BY <1>2, <1>5, <2>1, <2>5, <3>1 DEF OneMore
    <3>4. LevelRights(t, n + 1, m) = m \cap a
      BY <1>3, <2>1, <3>2, <3>3, RightsOnTop
    <3> QED BY <2>2, <2>3, <2>5, <3>1, <3>4
  <2> QED BY <2>4, <2>5
<1>9. LayerAt(d, n + 1, n + 1) = LayerAt(r, 1, 0)
  <2>1. /\ LayerAt(d, n + 1, n + 1) = [handled |-> m, rights |-> [o \in Objects |-> LayerAt(d, n + 1, n + 1).rights[o]]]
        /\ LayerAt(r, 1, 0) = [handled |-> m, rights |-> [o \in Objects |-> LayerAt(r, 1, 0).rights[o]]]
    BY <1>5, <1>7, LayerRights
  <2>2. [o \in Objects |-> LayerAt(d, n + 1, n + 1).rights[o]] = [o \in Objects |-> LayerAt(r, 1, 0).rights[o]]
    BY <1>8
  <2> QED BY <2>1, <2>2
<1>10. Top(d) = LayerAt(d, n + 1, n + 1)
  BY <1>5 DEF Top
<1> QED BY <1>1, <1>9, <1>10

\* A task that goes on with a merge keeps its copy, unless it takes one.
LEMMA CopyStepKept ==
    ASSUME IInv, ShapeInv, [Next]_vars, NEW x \in Tasks, StackStep(x), ~MergeLock(x)
    PROVE  Copied(x)' = Copied(x)
<1>0. Core
  BY Parts
<1>1. ASSUME \/ \E r \in Rulesets, h \in Hierarchies : CreateDomain(x, r, h)
             \/ InheritLock(x) \/ InheritDone(x) \/ \E o \in Objects : InheritRule(x, o)
      PROVE  Copied(x)' = Copied(x)
  <2>1. /\ Label(x) \in {"merge", "inherit_lock", "inherit"}
        /\ Label(x)' \in {"merge_lock", "inherit_lock", "inherit"}
    BY <1>0, <1>1, CopyGoes
  <2>2. Copied(x) = NULL
    BY <2>1 DEF Copied, Committing
  <2>3. Copied(x)' = NULL
    BY <2>1 DEF Copied, Committing
  <2> QED BY <2>2, <2>3
<1>2. ASSUME NEW o \in Objects, MergeRule(x, o) PROVE Copied(x)' = Copied(x)
  <2>1. Label(x) = "merge_rules" /\ Label(x)' = "merge_rules" /\ rs' = rs
    BY <1>0, <1>2, CopyGoes
  <2>2. PICK r : r = rs[x]
    OBVIOUS
  <2>3. LayerAt(rs[x], 1, 0)' = LayerAt(r, 1, 0)'
    BY <2>1, <2>2, LayerThrough
  <2>4. LayerAt(r, 1, 0)' = LayerAt(r, 1, 0)
    BY <2>1, <2>2, CopyLocked, LayerSame DEF LayerFrame
  <2>5. Copied(x)' = LayerAt(rs[x], 1, 0)' /\ Copied(x) = LayerAt(r, 1, 0)
    BY <2>1, <2>2 DEF Copied
  <2> QED BY <2>3, <2>4, <2>5
<1>3. ASSUME MergeDone(x) PROVE Copied(x)' = Copied(x)
  <2>1. Label(x) = "merge_rules" /\ Label(x)' = "replace" /\ newdom' = newdom
    BY <1>0, <1>3, CopyGoes
  <2>2. todo[x] = {} /\ masks' = masks /\ tree' = tree
    BY <1>3 DEF MergeDone
  <2>3. PICK d : d = newdom[x]
    OBVIOUS
  <2>4. Top(newdom[x])' = Top(d)' /\ Top(d)' = Top(d)
    BY <2>1, <2>2, <2>3, LayerThrough, TopSame
  <2>5. Copied(x)' = Top(newdom[x])' /\ Copied(x) = LayerAt(rs[x], 1, 0)
    BY <2>1 DEF Copied
  <2>6. Top(d) = LayerAt(rs[x], 1, 0)
    BY <2>1, <2>2, <2>3, CopyMerged
  <2> QED BY <2>4, <2>5, <2>6
<1>4. ASSUME ReplaceDomain(x) PROVE Copied(x)' = Copied(x)
  <2>1. Label(x) = "replace" /\ Label(x)' = "assign" /\ newdom' = newdom
    BY <1>0, <1>4, CopyGoes
  <2>2. PICK d : d = newdom[x]
    OBVIOUS
  <2>3. Top(newdom[x])' = Top(d)' /\ Top(d)' = Top(d)
    BY <2>1, <2>2, LayerThrough, CopyOwned, TopSame DEF LayerFrame
  <2>4. Copied(x)' = Top(newdom[x])' /\ Copied(x) = Top(d)
    BY <2>1, <2>2 DEF Copied
  <2> QED BY <2>3, <2>4
<1>5. ASSUME AssignDomain(x) PROVE Copied(x)' = Copied(x)
  <2>1. /\ Label(x) = "assign" /\ Label(x)' = "put_ruleset" /\ ncred[x] \in Creds
        /\ ncred' = ncred /\ cdom'[ncred[x]] = newdom[x]
    BY <1>0, <1>5, CopyGoes
  <2>2. PICK d : d = newdom[x]
    OBVIOUS
  <2>3. Top(cdom[ncred[x]])' = Top(d)' /\ Top(d)' = Top(d)
    BY <2>1, <2>2, LayerThrough, CopyOwned, TopSame DEF LayerFrame
  <2>4. Copied(x)' = Top(cdom[ncred[x]])' /\ Copied(x) = Top(d)
    BY <2>1, <2>2, RulesetAssumption DEF Copied, Committing
  <2> QED BY <2>3, <2>4
<1>6. ASSUME PutRuleset(x) PROVE Copied(x)' = Copied(x)
  <2>1. /\ Label(x) = "put_ruleset" /\ cdom' = cdom /\ ncred' = ncred
        /\ Label(x)' = IF ncred[x] # NULL THEN "commit_creds" ELSE "idle"
    BY <1>0, <1>6, CopyGoes
  <2>2. CASE ncred[x] = NULL
    <3>1. Copied(x)' = NULL /\ Copied(x) = NULL
      BY <2>1, <2>2 DEF Copied, Committing
    <3> QED BY <3>1
  <2>3. CASE ncred[x] # NULL
    <3>1. PICK d : d = cdom[ncred[x]]
      OBVIOUS
    <3>2. Committing(x) /\ Committing(x)'
      BY <2>1, <2>3 DEF Committing
    <3>3. Top(cdom[ncred[x]])' = Top(d)' /\ Top(d)' = Top(d)
      BY <2>1, <3>1, <3>2, LayerThrough, CopyOwned, TopSame DEF LayerFrame
    <3>4. Copied(x)' = Top(cdom[ncred[x]])' /\ Copied(x) = Top(d)
      BY <2>1, <2>3, <3>1, <3>2 DEF Copied
    <3> QED BY <3>3, <3>4
  <2> QED BY <2>2, <2>3
<1> QED BY <1>1, <1>2, <1>3, <1>4, <1>5, <1>6 DEF StackStep

\* A copy is taken by merge_lock and given up by a failed merge or a commit.
LEMMA CopyMoves ==
    ASSUME IInv, ShapeInv, [Next]_vars, NEW x \in Tasks
    PROVE  Copied(x)' = Copied(x) \/ MergeLock(x) \/ MergeRuleFails(x) \/ CommitCreds(x)
<1>1. CASE StackFrame(x)
  BY <1>1, CopyFrameKept
<1>2. CASE StackStep(x)
  BY <1>2, CopyStepKept
<1>3. CASE Label(x)' \notin StackLabels /\ ~Committing(x)' /\ ~StackFrame(x) /\ ~StackStep(x)
  <2>1. Copied(x)' = NULL
    BY <1>3 DEF Copied, StackLabels
  <2>2. CASE Label(x) \in {"merge_rules", "replace", "assign"} \/ Committing(x)
    BY <1>3, <2>2, CopyLeaves, Parts DEF CopyMove
  <2>3. CASE Label(x) \notin {"merge_rules", "replace", "assign"} /\ ~Committing(x)
    BY <2>1, <2>3 DEF Copied
  <2> QED BY <2>2, <2>3
<1>4. StackMove(x)
  BY Parts, StackMoves
<1> QED BY <1>1, <1>2, <1>3, <1>4 DEF StackMove

\* The policy of a task changes when it restricts itself, comes or goes.
LEMMA PolicyMoves ==
    ASSUME IInv, ShapeInv, [Next]_vars, NEW x \in Tasks
    PROVE  \/ PolicyOf(x)' = PolicyOf(x) \/ CommitCreds(x) \/ Exit(x)
           \/ \E t \in Tasks : CloneThread(t, x) \/ \E c \in Creds : Fork(t, x, c)
<1>1. CASE tcred[x] = NULL /\ tcred'[x] = NULL
  BY <1>1 DEF PolicyOf
<1>2. CASE tcred[x] # NULL /\ tcred'[x] # NULL /\ ~CommitCreds(x)
  <2>1. DomainOf(x)' = DomainOf(x)
    BY <1>2, Parts, BaseKept DEF BaseSame
  <2>2. PICK d : d = DomainOf(x)
    OBVIOUS
  <2>3. d # NULL => LayerFrame(d)
    BY <1>2, <2>2, Parts, DomainKept
  <2>4. Decode(d)' = Decode(d)
    BY <2>3, DecodeSame DEF LayerFrame
  <2>5. Decode(DomainOf(x))' = Decode(d)'
    BY <2>1, <2>2 DEF Decode, LayerAt
  <2>6. PolicyOf(x)' = Decode(DomainOf(x))' /\ PolicyOf(x) = Decode(d)
    BY <1>2, <2>2 DEF PolicyOf
  <2> QED BY <2>4, <2>5, <2>6
<1>3. CASE (tcred[x] = NULL) # (tcred'[x] = NULL)
  <2>1. \/ UNCHANGED credvars
        \/ \E t \in Tasks : CredStep(t)
        \/ \E c \in Creds : CredFree(c)
    BY CredSteps
  <2>2. ~UNCHANGED credvars /\ \A c \in Creds : ~CredFree(c)
    BY <1>3 DEF credvars, CredFree
  <2>3. PICK t \in Tasks : CredStep(t)
    BY <2>1, <2>2
  <2>4. tcred \in [Tasks -> OrNull(Creds)]
    BY Parts DEF Types
  <2>5. ASSUME NEW c \in Creds, PrepareCreds(t, c) \/ ChangeCreds(t, c) PROVE FALSE
    BY <1>3, <2>4, <2>5, RulesetAssumption DEF PrepareCreds, ChangeCreds, Idle
  <2>6. ASSUME NEW c \in Creds, NEW u \in Tasks, Fork(t, u, c) PROVE u = x
    BY <1>3, <2>4, <2>6 DEF Fork
  <2>7. ASSUME NEW u \in Tasks, CloneThread(t, u) PROVE u = x
    BY <1>3, <2>4, <2>7 DEF CloneThread
  <2>8. ASSUME ReplaceDomain(t) \/ AssignDomain(t) \/ AbortCreds(t) PROVE FALSE
    BY <1>3, <2>8 DEF ReplaceDomain, AssignDomain, AbortCreds
  <2>9. ASSUME CommitCreds(t) \/ Exit(t) PROVE t = x
    BY <1>3, <2>4, <2>9 DEF CommitCreds, Exit
  <2> QED BY <2>3, <2>5, <2>6, <2>7, <2>8, <2>9 DEF CredStep
<1> QED BY <1>1, <1>2, <1>3

\* What becomes of the layer that a ruleset stands for.
LEMMA ContentMoves ==
    ASSUME IInv, ShapeInv, [Next]_vars, NEW r \in Rulesets
    PROVE  \/ ContentOf(r)' = ContentOf(r) \/ Released(r)
           \/ \E t \in Tasks, handled \in SUBSET Access :
                 CreateRuleset(t, r, handled) \/ CreateRulesetNoFd(t, r, handled)
           \/ \E t \in Tasks : rs[t] = r /\ AppendFsRule(t)
<1>1. CASE InUse(r) /\ ~InUse(r)'
  BY <1>1, InUseLeaves, Parts
<1>2. CASE ~InUse(r) /\ ~InUse(r)'
  BY <1>2 DEF ContentOf
<1>3. CASE InUse(r) /\ InUse(r)'
  <2>1. LayerFrame(r) \/ \E t \in Tasks : rs[t] = r /\ AppendFsRule(t)
    BY <1>3, RulesetKept, Parts DEF InUse
  <2>2. CASE LayerFrame(r)
    <3>1. LayerAt(r, 1, 0)' = LayerAt(r, 1, 0)
      BY <2>2, LayerSame DEF LayerFrame
    <3> QED BY <1>3, <3>1 DEF ContentOf
  <2> QED BY <2>1, <2>2
<1>4. CASE ~InUse(r) /\ InUse(r)'
  <2>1. r \in fd' \/ \E x \in Tasks : rs'[x] = r
    BY <1>4 DEF InUse
  <2>2. Born(r)
    BY <1>4, <2>1, HeldMoves, Parts DEF InUse
  <2>3. ASSUME NEW t \in Tasks, NEW h \in Hierarchies, CreateDomain(t, r, h) PROVE FALSE
    BY <1>4, <2>3 DEF CreateDomain, InUse
  <2>4. ASSUME NEW t \in Tasks, CreateHierarchyFails(t, r) PROVE FALSE
    BY <1>4, <2>4 DEF CreateHierarchyFails, InUse
  <2> QED BY <2>2, <2>3, <2>4 DEF Born
<1> QED BY <1>1, <1>2, <1>3, <1>4

\* Steps that leave the rules and the users of a ruleset alone do not change
\* what it stands for.
LEMMA ContentSame ==
    ASSUME IInv, ShapeInv, [Next]_vars, NEW r \in Rulesets,
           InUse(r)' <=> InUse(r), tree'[r] = tree[r]
    PROVE  ContentOf(r)' = ContentOf(r)
<1>1. CASE ~InUse(r)
  BY <1>1 DEF ContentOf
<1>2. CASE InUse(r)
  <2>1. LayerFrame(r) \/ \E t \in Tasks : rs[t] = r /\ AppendFsRule(t)
    BY <1>2, RulesetKept, Parts DEF InUse
  <2>2. masks'[r] = masks[r]
    BY <2>1 DEF LayerFrame, AppendFsRule
  <2>3. LayerAt(r, 1, 0)' = LayerAt(r, 1, 0)
    BY <2>2, LayerSame
  <2> QED BY <1>2, <2>3 DEF ContentOf
<1> QED BY <1>1, <1>2

\* A task that stays where it is, or is elsewhere, neither takes nor gives up
\* a copy.
LEMMA CopySame ==
    ASSUME IInv, ShapeInv, [Next]_vars, NEW x \in Tasks,
           pc'[x] = pc[x] \/ pc[x] \notin {"merge_lock", "merge_rules", "commit_creds"}
    PROVE  Copied(x)' = Copied(x)
<1>1. Core /\ Types /\ x \in Threads
  BY Parts DEF Threads
<1>2. pc \in [Threads -> Labels]
  BY <1>1 DEF Types
<1>3. ~MergeLock(x)
  BY <1>1, <1>2 DEF MergeLock, At, Goto
<1>4. ~MergeRuleFails(x)
  BY <1>1, <1>2 DEF MergeRuleFails, At, Goto
<1>5. ~CommitCreds(x)
  BY <1>1, <1>2 DEF CommitCreds, At, Goto
<1> QED BY <1>3, <1>4, <1>5, CopyMoves

\* The policy of a task is that of its credential.
LEMMA PolicySame ==
    ASSUME IInv, ShapeInv, [Next]_vars, NEW x \in Tasks, tcred'[x] = tcred[x]
    PROVE  PolicyOf(x)' = PolicyOf(x)
<1>1. Core /\ CredsOK /\ tcred \in [Tasks -> OrNull(Creds)] /\ ncred \in [Tasks -> OrNull(Creds)]
  BY Parts DEF Types
<1>2. ~CommitCreds(x)
  <2> SUFFICES ASSUME CommitCreds(x) PROVE FALSE
    OBVIOUS
  <2>1. tcred'[x] = ncred[x] /\ ncred[x] \in Creds
    BY <1>1, CopyGoes DEF CommitCreds
  <2> QED BY <1>1, <2>1, RulesetAssumption DEF CredsOK
<1>3. ~Exit(x)
  BY <1>1 DEF Exit, Idle
<1>4. ASSUME NEW t \in Tasks, CloneThread(t, x) PROVE FALSE
  BY <1>1, <1>4 DEF CloneThread, Idle
<1>5. ASSUME NEW t \in Tasks, NEW c \in Creds, Fork(t, x, c) PROVE FALSE
  BY <1>1, <1>5, RulesetAssumption DEF Fork, Idle
<1> QED BY <1>2, <1>3, <1>4, <1>5, PolicyMoves

-----------------------------------------------------------------------------
(* Each step of LandlockRuleset is a step of LandlockPolicy or none.       *)

\* The refinement mapping, pointwise.
MapOK ==
    /\ MappedContent = [r \in Rulesets |-> ContentOf(r)]
    /\ MappedPolicy = [t \in Tasks |-> PolicyOf(t)]
    /\ MappedCopied = [t \in Tasks |-> Copied(t)]

\* All that a step has to change is named by the step.
LEMMA MapSteps ==
    ASSUME MapOK, MapOK'
    PROVE  /\ (\A r \in Rulesets : ContentOf(r)' = ContentOf(r)) => MappedContent' = MappedContent
           /\ (\A t \in Tasks : PolicyOf(t)' = PolicyOf(t)) => MappedPolicy' = MappedPolicy
           /\ (\A t \in Tasks : Copied(t)' = Copied(t)) => MappedCopied' = MappedCopied
           /\ \A q \in Rulesets :
                 (\A r \in Rulesets \ {q} : ContentOf(r)' = ContentOf(r))
                    => MappedContent' = [MappedContent EXCEPT ![q] = ContentOf(q)']
           /\ \A x \in Tasks :
                 (\A t \in Tasks \ {x} : PolicyOf(t)' = PolicyOf(t))
                    => MappedPolicy' = [MappedPolicy EXCEPT ![x] = PolicyOf(x)']
           /\ \A x \in Tasks :
                 (\A t \in Tasks \ {x} : Copied(t)' = Copied(t))
                    => MappedCopied' = [MappedCopied EXCEPT ![x] = Copied(x)']
           /\ \A r \in Rulesets : MappedContent[r] = ContentOf(r)
           /\ \A t \in Tasks : MappedPolicy[t] = PolicyOf(t) /\ MappedCopied[t] = Copied(t)
<1>1. PICK c, p, k : c = MappedContent /\ p = MappedPolicy /\ k = MappedCopied
  OBVIOUS
<1>2. PICK cn, pn, kn : cn = MappedContent' /\ pn = MappedPolicy' /\ kn = MappedCopied'
  OBVIOUS
<1>3. /\ c = [r \in Rulesets |-> ContentOf(r)]
      /\ p = [t \in Tasks |-> PolicyOf(t)]
      /\ k = [t \in Tasks |-> Copied(t)]
  BY <1>1 DEF MapOK
<1>4. /\ cn = [r \in Rulesets |-> ContentOf(r)']
      /\ pn = [t \in Tasks |-> PolicyOf(t)']
      /\ kn = [t \in Tasks |-> Copied(t)']
  BY <1>2 DEF MapOK
<1>5. /\ (\A r \in Rulesets : ContentOf(r)' = ContentOf(r)) => cn = c
      /\ (\A t \in Tasks : PolicyOf(t)' = PolicyOf(t)) => pn = p
      /\ (\A t \in Tasks : Copied(t)' = Copied(t)) => kn = k
  BY ONLY <1>3, <1>4
<1>6. \A q \in Rulesets :
         (\A r \in Rulesets \ {q} : ContentOf(r)' = ContentOf(r))
            => cn = [c EXCEPT ![q] = ContentOf(q)']
  BY ONLY <1>3, <1>4
<1>7. \A x \in Tasks :
         (\A t \in Tasks \ {x} : PolicyOf(t)' = PolicyOf(t))
            => pn = [p EXCEPT ![x] = PolicyOf(x)']
  BY ONLY <1>3, <1>4
<1>8. \A x \in Tasks :
         (\A t \in Tasks \ {x} : Copied(t)' = Copied(t))
            => kn = [k EXCEPT ![x] = Copied(x)']
  BY ONLY <1>3, <1>4
<1>9. /\ \A r \in Rulesets : c[r] = ContentOf(r)
      /\ \A t \in Tasks : p[t] = PolicyOf(t) /\ k[t] = Copied(t)
  BY ONLY <1>3
<1> QED BY ONLY <1>1, <1>2, <1>5, <1>6, <1>7, <1>8, <1>9

\* Rulesets have contents and tasks have policies.
LEMMA MapTyped ==
    ASSUME IInv, ShapeInv
    PROVE  /\ \A r \in Rulesets : InUse(r) => ContentOf(r) = LayerAt(r, 1, 0) /\ ContentOf(r) # NULL
           /\ \A t \in Tasks : tcred[t] # NULL =>
                 /\ PolicyOf(t) = Decode(DomainOf(t)) /\ PolicyOf(t) # NULL
                 /\ Len(PolicyOf(t)) = Depth(t) /\ PolicyOf(t) \in Seq(Policy!Layer)
<1>1. ASSUME NEW r \in Rulesets, InUse(r)
      PROVE  ContentOf(r) = LayerAt(r, 1, 0) /\ ContentOf(r) # NULL
  <2>1. Len(masks[r]) = 1
    BY <1>1, Parts, RulesetAssumption DEF InUse, RulesOK
  <2>2. LayerAt(r, 1, 0) \in Policy!Layer
    BY <2>1, Parts, LayerTyped
  <2> QED BY <1>1, <2>2, NullAssumption DEF ContentOf
<1>2. ASSUME NEW t \in Tasks, tcred[t] # NULL
      PROVE  /\ PolicyOf(t) = Decode(DomainOf(t)) /\ PolicyOf(t) # NULL
             /\ Len(PolicyOf(t)) = Depth(t) /\ PolicyOf(t) \in Seq(Policy!Layer)
  <2>1. PICK d : d = DomainOf(t)
    OBVIOUS
  <2>2. d # NULL => d \in Rulesets /\ rstate[d] = "live"
    <3>1. tcred[t] \in Creds /\ cdom[tcred[t]] \in OrNull(Rulesets)
      BY <1>2, Parts DEF Types, OrNull
    <3> QED BY <2>1, <3>1, Parts, NotFree DEF DomainOf, OrNull
  <2>3. /\ Decode(d) \in Seq(Policy!Layer) /\ Decode(d) # NULL
        /\ Len(Decode(d)) = IF d = NULL THEN 0 ELSE Len(masks[d])
    BY <2>2, Parts, DecodeTyped
  <2>4. PolicyOf(t) = Decode(d)
    BY <1>2, <2>1 DEF PolicyOf
  <2> QED BY <2>1, <2>3, <2>4 DEF Depth
<1> QED BY <1>1, <1>2

\* landlock_create_ruleset(2)
LEMMA RefineCreate ==
    ASSUME IInv, ShapeInv, MapOK, MapOK', [Next]_vars,
           NEW t \in Tasks, NEW r \in Rulesets, NEW handled \in SUBSET Access,
           CreateRuleset(t, r, handled) \/ CreateRulesetNoFd(t, r, handled)
    PROVE  Policy!Create(r, handled)
<1>0. Types /\ Core /\ t \in Threads /\ rs \in [Tasks -> OrNull(Rulesets)]
  BY Parts DEF Threads, Types
<1>1. Alloc(r, <<handled>>, NULL) /\ pc[t] = "idle" /\ UNCHANGED <<tcred, newdom>>
  BY DEF CreateRuleset, CreateRulesetNoFd, Idle, At, cvars, locals
<1>2. \A x \in Tasks : pc'[x] = pc[x] \/ pc[x] = "idle"
  BY <1>0, <1>1 DEF CreateRuleset, CreateRulesetNoFd, Goto, Types, Threads
<1>3. rstate[r] = "free" /\ masks'[r] = <<handled>> /\ tree'[r] = NoRules
      /\ \A q \in Rulesets \ {r} : tree'[q] = tree[q]
  BY <1>0, <1>1, Parts DEF Alloc, Types, ShapeTypes
<1>4. ~InUse(r)
  BY <1>3, Parts, NotFree, RulesetAssumption DEF InUse
<1>5. \/ rs' = rs /\ fd' = fd \cup {r}
      \/ rs[t] = NULL /\ rs' = [rs EXCEPT ![t] = r] /\ fd' = fd
  <2>1. rs[t] = NULL
    BY <1>1, Parts DEF Core, Types, Control, CallLocals, Label, FreeLabels, CallLabels,
       DomainLabels, WalkLabels
  <2> QED BY <2>1 DEF CreateRuleset, CreateRulesetNoFd, locals
<1>6. InUse(r)'
  BY <1>0, <1>5 DEF InUse
<1>7. \A q \in Rulesets \ {r} : InUse(q)' <=> InUse(q)
  BY <1>0, <1>5, RulesetAssumption DEF InUse
<1>8. \A q \in Rulesets \ {r} : ContentOf(q)' = ContentOf(q)
  BY <1>3, <1>7, ContentSame
<1>9. ContentOf(r)' = [handled |-> handled, rights |-> [o \in Objects |-> {}]]
  <2>1. ContentOf(r)' = LayerAt(r, 1, 0)'
    BY <1>6 DEF ContentOf
  <2>2. LayerAt(r, 1, 0)' =
           [handled |-> masks'[r][1],
            rights |-> [o \in Objects |-> LevelRights(tree'[r][o], 0, masks'[r][1])]]
    BY DEF LayerAt, LevelRights
  <2>3. masks'[r][1] = handled /\ \A o \in Objects : tree'[r][o] = <<>>
    BY <1>3 DEF NoRules
  <2>4. \A m : LevelRights(<<>>, 0, m) = {}
    <3>1. {j \in 1 .. Len(<<>>) : <<>>[j].level = 0} = {}
      BY EmptySeq
    <3>2. {<<>>[k] : k \in {j \in 1 .. Len(<<>>) : <<>>[j].level = 0}} = {}
      BY <3>1
    <3>3. UNION {l.access : l \in {}} = {}
      OBVIOUS
    <3> QED BY <3>2, <3>3 DEF LevelRights
  <2>5. [o \in Objects |-> LevelRights(tree'[r][o], 0, masks'[r][1])] = [o \in Objects |-> {}]
    BY <2>3, <2>4
  <2> QED BY <2>1, <2>2, <2>3, <2>5
<1>10. MappedContent' = [MappedContent EXCEPT ![r] =
           [handled |-> handled, rights |-> [o \in Objects |-> {}]]]
  BY <1>8, <1>9, MapSteps
<1>11. MappedContent[r] = NULL
  <2>1. ContentOf(r) = NULL
    BY <1>4 DEF ContentOf
  <2> QED BY <2>1, MapSteps
<1>12. MappedPolicy' = MappedPolicy
  BY <1>1, PolicySame, MapSteps
<1>13. MappedCopied' = MappedCopied
  <2>1. \A x \in Tasks : Copied(x)' = Copied(x)
    BY <1>2, CopySame
  <2> QED BY <2>1, MapSteps
<1> QED BY <1>10, <1>11, <1>12, <1>13 DEF Policy!Create

\* Rights are added to one object of a layer.
LEMMA RightsAdded ==
    ASSUME NEW layer, NEW m, NEW f \in [Objects -> SUBSET Access], NEW g,
           NEW o \in Objects, NEW b, layer = [handled |-> m, rights |-> f],
           g = [f EXCEPT ![o] = f[o] \cup b]
    PROVE  [layer EXCEPT !.rights[o] = @ \cup b] = [handled |-> m, rights |-> g]
OBVIOUS

\* landlock_add_rule(2): one more rule of a ruleset is a layer of level 0.
LEMMA RefineAllow ==
    ASSUME IInv, ShapeInv, MapOK, MapOK', [Next]_vars, NEW t \in Tasks, AppendFsRule(t)
    PROVE  \E r \in Rulesets, o \in Objects, allowed \in SUBSET Access : Policy!Allow(r, o, allowed)
<1>0. Types /\ Core /\ t \in Threads
  BY Parts DEF Threads
<1>1. pc[t] = "insert_rule" /\ UNCHANGED <<tcred, rs, fd, masks>>
  BY DEF AppendFsRule, At, cvars
<1>2. \A x \in Tasks : pc'[x] = pc[x] \/ pc[x] = "insert_rule"
  BY <1>0, <1>1 DEF AppendFsRule, Goto, Types, Threads
<1>3. PICK r \in Rulesets, o \in Objects, a \in SUBSET Access :
         /\ r = rs[t] /\ rlock[r] = NULL /\ rstate[r] = "live" /\ hier[r] = NULL
         /\ tree' \in [Rulesets -> [Objects -> Layers]]
         /\ \A p \in Objects \ {o} : tree'[r][p] = tree[r][p]
         /\ \A q \in Rulesets \ {r} : tree'[q] = tree[q]
         /\ tree[r][o] = <<>> => tree'[r][o] = <<[level |-> 0, access |-> a]>>
         /\ tree[r][o] # <<>> =>
               tree'[r][o] = <<[level |-> 0, access |-> tree[r][o][1].access \cup a]>>
         /\ UNCHANGED masks
  BY Parts, RuleAppended
<1>4. InUse(r)
  BY <1>3 DEF InUse
<1>5. \A q \in Rulesets : InUse(q)' <=> InUse(q)
  BY <1>1 DEF InUse
<1>6. \A q \in Rulesets \ {r} : ContentOf(q)' = ContentOf(q)
  BY <1>3, <1>5, ContentSame
<1>7. PICK m : m = masks[r][1]
  OBVIOUS
<1>8. m \in SUBSET Access
  <2>1. Len(masks[r]) = 1
    BY <1>3, <1>4, Parts, RulesetAssumption DEF RulesOK
  <2>2. masks[r] \in Seq(SUBSET Access) /\ 1 \in 1 .. Len(masks[r])
    BY <2>1, Parts DEF ShapeTypes
  <2> QED BY <1>7, <2>2, ElementOfSeq
<1>9. PICK b : b = m \cap a
  OBVIOUS
<1>10. PICK s, n : s = tree[r][o] /\ n = tree'[r][o]
  OBVIOUS
<1>11. LevelRights(n, 0, m) = LevelRights(s, 0, m) \cup b
  <2>1. s \in Layers /\ n \in Layers /\ Single(s)
    BY <1>3, <1>10, Parts DEF ShapeTypes, RulesOK, Ordered
  <2>2. PICK e : e = IF s = <<>> THEN a ELSE s[1].access \cup a
    OBVIOUS
  <2>6. n = <<[level |-> 0, access |-> e]>>
    BY <1>3, <1>10, <2>2
  <2>3. Single(n) /\ n # <<>> /\ n[1].access = e
    BY <2>6 DEF Single
  <2>4. LevelRights(n, 0, m) = m \cap e
    BY <2>1, <2>3, RightsSingle
  <2>5. LevelRights(s, 0, m) = IF s = <<>> THEN {} ELSE m \cap s[1].access
    BY <2>1, RightsSingle
  <2> QED BY <1>9, <2>2, <2>4, <2>5
<1>12. PICK f, g : /\ f = [p \in Objects |-> LevelRights(tree[r][p], 0, m)]
                   /\ g = [p \in Objects |-> LevelRights(tree'[r][p], 0, m)]
  OBVIOUS
<1>13. g = [f EXCEPT ![o] = f[o] \cup b]
  BY <1>3, <1>10, <1>11, <1>12
<1>14. ContentOf(r) = [handled |-> m, rights |-> f]
  <2>1. ContentOf(r) = LayerAt(r, 1, 0)
    BY <1>4 DEF ContentOf
  <2> QED BY <1>7, <1>12, <2>1, LayerRights
<1>15. ContentOf(r)' = [handled |-> m, rights |-> g]
  <2>1. ContentOf(r)' = LayerAt(r, 1, 0)'
    BY <1>4, <1>5 DEF ContentOf
  <2>2. LayerAt(r, 1, 0)' =
           [handled |-> masks'[r][1],
            rights |-> [p \in Objects |-> LevelRights(tree'[r][p], 0, masks'[r][1])]]
    BY DEF LayerAt, LevelRights
  <2> QED BY <1>1, <1>7, <1>12, <2>1, <2>2
<1>16. PICK c, cn : c = MappedContent /\ cn = MappedContent'
  OBVIOUS
<1>17. /\ cn = [c EXCEPT ![r] = [handled |-> m, rights |-> g]]
       /\ c[r] = [handled |-> m, rights |-> f] /\ c[r] # NULL
  BY <1>4, <1>6, <1>14, <1>15, <1>16, MapSteps, MapTyped
<1>18. [c EXCEPT ![r].rights[o] = @ \cup b] = cn
  <2>1. PICK layer : layer = c[r]
    OBVIOUS
  <2>2. [layer EXCEPT !.rights[o] = @ \cup b] = [handled |-> m, rights |-> g]
    <3>1. f \in [Objects -> SUBSET Access]
      <4>1. \A p \in Objects : LevelRights(tree[r][p], 0, m) \in SUBSET Access
        BY <1>8 DEF LevelRights
      <4> QED BY <1>12, <4>1
    <3>2. layer = [handled |-> m, rights |-> f]
      BY <1>17, <2>1
    <3> QED BY ONLY <1>13, <3>1, <3>2, RightsAdded
  <2>3. DOMAIN c = Rulesets
    BY <1>16, MapSteps DEF MapOK
  <2> QED BY ONLY <1>17, <2>1, <2>2, <2>3
<1>19. MappedPolicy' = MappedPolicy
  BY <1>1, PolicySame, MapSteps
<1>20. MappedCopied' = MappedCopied
  <2>1. \A x \in Tasks : Copied(x)' = Copied(x)
    BY <1>2, CopySame
  <2> QED BY <2>1, MapSteps
<1>21. b \in SUBSET Access /\ b \subseteq MappedContent[r].handled
  BY <1>8, <1>9, <1>16, <1>17
<1>22. MappedContent[r] # NULL /\ MappedContent' = [MappedContent EXCEPT ![r].rights[o] = @ \cup b]
  BY <1>16, <1>17, <1>18
<1>23. Policy!Allow(r, o, b)
  BY <1>19, <1>20, <1>21, <1>22 DEF Policy!Allow
<1> QED BY <1>21, <1>23

\* close(2) of a ruleset, or the end of a call that used it.
LEMMA RefineDrop ==
    ASSUME IInv, ShapeInv, MapOK, MapOK', [Next]_vars, NEW r \in Rulesets, Released(r)
    PROVE  Policy!Drop(r) \/ UNCHANGED Policy!pvars
<1>0. Types
  BY Parts
<1>1. PICK t \in Tasks : Close(t, r) \/ (rs[t] = r /\ PutRuleset(t))
  BY DEF Released
<1>2. t \in Threads /\ UNCHANGED <<tcred, tree>> /\ pc[t] \in {"idle", "put_ruleset"}
  BY <1>1 DEF Close, PutRuleset, Idle, At, Threads, cvars
<1>3. \A x \in Tasks : pc'[x] = pc[x] \/ pc[x] \in {"idle", "put_ruleset"}
  BY <1>0, <1>1, <1>2 DEF Close, PutRuleset, Put, Goto, Types, Threads
<1>4. \A q \in Rulesets \ {r} : InUse(q)' <=> InUse(q)
  <2>1. CASE Close(t, r)
    <3>1. rs' = rs /\ fd' = fd \ {r}
      BY <2>1 DEF Close, locals
    <3> QED BY <3>1 DEF InUse
  <2>2. CASE rs[t] = r /\ PutRuleset(t)
    <3>1. fd' = fd /\ rs'[t] = NULL /\ \A u \in Tasks \ {t} : rs'[u] = rs[u]
      BY <1>0, <2>2 DEF PutRuleset, Types
    <3> QED BY <2>2, <3>1, RulesetAssumption DEF InUse
  <2> QED BY <1>1, <2>1, <2>2
<1>5. \A q \in Rulesets \ {r} : ContentOf(q)' = ContentOf(q)
  BY <1>2, <1>4, ContentSame
<1>6. MappedPolicy' = MappedPolicy
  BY <1>2, PolicySame, MapSteps
<1>7. MappedCopied' = MappedCopied
  <2>1. \A x \in Tasks : Copied(x)' = Copied(x)
    BY <1>3, CopySame
  <2> QED BY <2>1, MapSteps
<1>8. CASE InUse(r)'
  <2>1. InUse(r)
    BY <1>1, RulesetAssumption DEF InUse, Close
  <2>2. ContentOf(r)' = ContentOf(r)
    BY <1>2, <1>8, <2>1, ContentSame
  <2>3. MappedContent' = MappedContent
    BY <1>5, <2>2, MapSteps
  <2> QED BY <1>6, <1>7, <2>3 DEF Policy!pvars
<1>9. CASE ~InUse(r)'
  <2>1. ContentOf(r)' = NULL
    BY <1>9 DEF ContentOf
  <2>2. MappedContent' = [MappedContent EXCEPT ![r] = NULL]
    BY <1>5, <2>1, MapSteps
  <2> QED BY <1>6, <1>7, <2>2 DEF Policy!Drop
<1> QED BY <1>8, <1>9

\* merge_ruleset() takes the mutex of the ruleset: the copy is taken.
LEMMA RefineCopy ==
    ASSUME IInv, ShapeInv, MapOK, MapOK', [Next]_vars, NEW t \in Tasks, MergeLock(t)
    PROVE  \E r \in Rulesets : Policy!Copy(t, r)
<1>0. Types /\ Core /\ t \in Threads
  BY Parts DEF Threads
<1>1. pc[t] = "merge_lock" /\ UNCHANGED <<tcred, rs, fd, tree>>
  BY DEF MergeLock, At, cvars
<1>2. \A x \in Tasks \ {t} : pc'[x] = pc[x]
  BY <1>0 DEF MergeLock, Goto, Types
<1>3. /\ Label(t) = "merge_lock" /\ Label(t)' = "merge_rules" /\ tcred[t] \in Creds
      /\ rs[t] \in Rulesets
  <2>1. Label(t) = "merge_lock" /\ Label(t)' = "merge_rules"
    BY <1>0, CopyGoes
  <2> QED BY <1>0, <2>1, Merges DEF StackLabels
<1>4. PICK r \in Rulesets : r = rs[t]
  BY <1>3
<1>5. InUse(r) /\ InUse(r)' /\ \A q \in Rulesets : InUse(q)' <=> InUse(q)
  BY <1>1, <1>4 DEF InUse
<1>6. \A q \in Rulesets : ContentOf(q)' = ContentOf(q)
  BY <1>1, <1>5, ContentSame
<1>7. MappedContent' = MappedContent
  BY <1>6, MapSteps
<1>8. MappedPolicy' = MappedPolicy
  BY <1>1, PolicySame, MapSteps
<1>9. Copied(t)' = ContentOf(r)
  <2>1. Copied(t)' = LayerAt(rs[t], 1, 0)'
    BY <1>3 DEF Copied
  <2>2. LayerAt(rs[t], 1, 0)' = LayerAt(r, 1, 0)'
    BY <1>1, <1>4, LayerThrough
  <2>3. LayerAt(r, 1, 0)' = ContentOf(r)'
    BY <1>5 DEF ContentOf
  <2> QED BY <1>6, <2>1, <2>2, <2>3
<1>10. MappedCopied' = [MappedCopied EXCEPT ![t] = MappedContent[r]]
  <2>1. \A x \in Tasks \ {t} : Copied(x)' = Copied(x)
    BY <1>2, CopySame
  <2> QED BY <1>9, <2>1, MapSteps
<1>11. MappedPolicy[t] # NULL /\ MappedCopied[t] = NULL /\ MappedContent[r] # NULL
  <2>1. PolicyOf(t) # NULL /\ ContentOf(r) # NULL
    BY <1>3, <1>5, MapTyped, RulesetAssumption
  <2>2. Copied(t) = NULL
    BY <1>3 DEF Copied, Committing
  <2> QED BY <2>1, <2>2, MapSteps
<1>12. Policy!Copy(t, r)
  BY <1>7, <1>8, <1>10, <1>11 DEF Policy!Copy
<1> QED BY <1>12

\* landlock_insert_rule() fails during the merge: the copy is given up.
LEMMA RefineGiveUp ==
    ASSUME IInv, ShapeInv, MapOK, MapOK', [Next]_vars, NEW t \in Tasks, MergeRuleFails(t)
    PROVE  Policy!GiveUp(t)
<1>0. Types /\ Core /\ t \in Threads
  BY Parts DEF Threads
<1>1. UNCHANGED <<tcred, rs, fd, tree>>
  BY DEF MergeRuleFails, cvars
<1>2. \A x \in Tasks \ {t} : pc'[x] = pc[x]
  BY <1>0 DEF MergeRuleFails, Goto, Types
<1>3. \A q \in Rulesets : InUse(q)' <=> InUse(q)
  BY <1>1 DEF InUse
<1>4. \A q \in Rulesets : ContentOf(q)' = ContentOf(q)
  BY <1>1, <1>3, ContentSame
<1>5. Copied(t)' = NULL
  <2>1. Label(t)' = "put_dom"
    BY <1>0, CopyGoes
  <2> QED BY <2>1 DEF Copied, Committing
<1>6. MappedContent' = MappedContent
  BY <1>4, MapSteps
<1>7. MappedPolicy' = MappedPolicy
  BY <1>1, PolicySame, MapSteps
<1>8. MappedCopied' = [MappedCopied EXCEPT ![t] = NULL]
  <2>1. \A x \in Tasks \ {t} : Copied(x)' = Copied(x)
    BY <1>2, CopySame
  <2> QED BY <1>5, <2>1, MapSteps
<1> QED BY <1>6, <1>7, <1>8 DEF Policy!GiveUp

\* A domain with one layer more than another is decoded to one layer more.
LEMMA DecodeBuilt ==
    ASSUME IInv, ShapeInv, NEW t \in Tasks, Committing(t)
    PROVE  /\ Decode(cdom[ncred[t]]) = Append(Decode(DomainOf(t)), Top(cdom[ncred[t]]))
           /\ Depth(t) < MaxLayers /\ Top(cdom[ncred[t]]) # NULL
<1>0. Types /\ Core /\ tcred[t] \in Creds /\ ncred[t] \in Creds
  BY Parts, Merges
<1>1. PICK d \in Rulesets : d = cdom[ncred[t]]
  BY <1>0, Parts DEF PreparedOK, Types, OrNull
<1>2. PICK p : p = DomainOf(t)
  OBVIOUS
<1>3. d # NULL /\ rstate[d] = "live"
  BY <1>0, <1>1, Parts, NotFree, RulesetAssumption
<1>4. p # NULL => p \in Rulesets /\ rstate[p] = "live"
  BY <1>0, <1>2, Parts, NotFree DEF DomainOf
<1>5. PICK n : n = Depth(t)
  OBVIOUS
<1>6. n \in Nat /\ n = IF p = NULL THEN 0 ELSE Len(masks[p])
  BY <1>0, <1>2, <1>5, Parts, DepthNat DEF Depth
<1>7. Built(t, d)
  BY <1>1, Parts DEF StacksOK, StackOK
<1>8. Len(masks[d]) = n + 1 /\ \A i \in 1 .. n : masks[d][i] = masks[p][i]
  BY <1>2, <1>5, <1>7 DEF Built, Extends
<1>9. n + 1 <= MaxLayers
  BY <1>3, <1>8, Parts DEF RulesOK
<1>10. PICK f, g : f = Decode(d) /\ g = Decode(p)
  OBVIOUS
<1>11. /\ f \in Seq(Policy!Layer) /\ Len(f) = n + 1
       /\ \A i \in 1 .. n + 1 : f[i] = LayerAt(d, i, i)
  BY <1>3, <1>8, <1>10, Parts, DecodeTyped
<1>12. /\ g \in Seq(Policy!Layer) /\ Len(g) = n
       /\ \A i \in 1 .. n : g[i] = LayerAt(p, i, i)
  BY <1>4, <1>6, <1>10, Parts, DecodeTyped
<1>13. ASSUME NEW i \in 1 .. n PROVE LayerAt(d, i, i) = LayerAt(p, i, i)
  <2>1. p # NULL /\ n = Len(masks[p])
    BY <1>6
  <2>2. PICK m : m = masks[p][i]
    OBVIOUS
  <2>3. masks[d][i] = m
    BY <1>8, <2>2
  <2>4. ASSUME NEW o \in Objects
        PROVE  LevelRights(tree[d][o], i, m) = LevelRights(tree[p][o], i, m)
    <3>1. Base(t, o) = tree[p][o] /\ Base(t, o) \in Layers
      BY <1>0, <1>2, <2>1, Parts, DepthNat DEF Base
    <3>2. CASE tree[d][o] = Base(t, o)
      BY <3>1, <3>2
    <3>3. ASSUME NEW a \in SUBSET Access, tree[d][o] = OneMore(t, o, a)
          PROVE  LevelRights(tree[d][o], i, m) = LevelRights(tree[p][o], i, m)
      <4>1. tree[d][o] = Append(tree[p][o], [level |-> n + 1, access |-> a])
        BY <1>5, <3>1, <3>3 DEF OneMore
      <4>2. PICK s \in Layers : s = tree[p][o]
        BY <3>1
      <4>3. LevelRights(Append(s, [level |-> n + 1, access |-> a]), i, m) = LevelRights(s, i, m)
        BY <1>6, RightsBelow
      <4> QED BY <4>1, <4>2, <4>3
    <3> QED BY <1>7, <3>2, <3>3 DEF Built
  <2>5. [o \in Objects |-> LevelRights(tree[d][o], i, m)] = [o \in Objects |-> LevelRights(tree[p][o], i, m)]
    BY <2>4
  <2> QED BY <2>2, <2>3, <2>5, LayerRights
<1>14. Top(d) = LayerAt(d, n + 1, n + 1) /\ Top(d) \in Policy!Layer
  <2>1. Top(d) = LayerAt(d, n + 1, n + 1)
    BY <1>8 DEF Top
  <2>2. n + 1 \in 1 .. Len(masks[d])
    BY <1>6, <1>8
  <2> QED BY <2>1, <2>2, Parts, LayerTyped
<1>15. PICK top : top = Top(d)
  OBVIOUS
<1>16. f = Append(g, top)
  <2>1. PICK h : h = Append(g, top)
    OBVIOUS
  <2>2. /\ h \in Seq(Policy!Layer) /\ Len(h) = n + 1 /\ h[n + 1] = top
        /\ \A i \in 1 .. n : h[i] = g[i]
    BY <1>12, <1>14, <1>15, <2>1, AppendProperties
  <2>3. \A i \in 1 .. n + 1 : f[i] = h[i]
    BY <1>6, <1>11, <1>12, <1>13, <1>14, <1>15, <2>2
  <2>4. f = h
    BY <1>11, <2>2, <2>3, SeqEqual
  <2> QED BY <2>1, <2>4
<1> QED BY <1>1, <1>2, <1>5, <1>6, <1>9, <1>10, <1>14, <1>15, <1>16, NullAssumption, RulesetAssumption

\* commit_creds(): the copy is stacked on the policy of the task.
LEMMA RefineRestrict ==
    ASSUME IInv, ShapeInv, MapOK, MapOK', [Next]_vars, NEW t \in Tasks, CommitCreds(t)
    PROVE  Policy!Restrict(t)
<1>0. Types /\ Core /\ t \in Threads
  BY Parts DEF Threads
<1>1. UNCHANGED <<rs, fd, tree, cdom>> /\ tcred' = [tcred EXCEPT ![t] = ncred[t]]
  BY DEF CommitCreds, rvars
<1>2. \A x \in Tasks \ {t} : pc'[x] = pc[x] /\ tcred'[x] = tcred[x]
  BY <1>0, <1>1 DEF CommitCreds, Goto, Types
<1>3. Label(t) = "commit_creds" /\ Label(t)' = "idle" /\ ncred[t] \in Creds /\ tcred'[t] = ncred[t]
  BY <1>0, <1>1, CopyGoes DEF Types
<1>4. Committing(t)
  BY <1>3, RulesetAssumption DEF Committing
<1>5. \A q \in Rulesets : InUse(q)' <=> InUse(q)
  BY <1>1 DEF InUse
<1>6. \A q \in Rulesets : ContentOf(q)' = ContentOf(q)
  BY <1>1, <1>5, ContentSame
<1>7. MappedContent' = MappedContent
  BY <1>6, MapSteps
<1>8. PICK d : d = cdom[ncred[t]]
  OBVIOUS
<1>9. Decode(d)' = Decode(d)
  BY <1>4, <1>8, CopyOwned, DecodeSame DEF LayerFrame
<1>10. tcred[t] # NULL
  BY <1>0, <1>4, Merges, RulesetAssumption
<1>11. PolicyOf(t) = Decode(DomainOf(t)) /\ Len(PolicyOf(t)) = Depth(t)
  BY <1>10, MapTyped
<1>12. Copied(t) = Top(d)
  BY <1>3, <1>4, <1>8 DEF Copied
<1>13. PolicyOf(t)' = Append(PolicyOf(t), Copied(t))
  <2>1. DomainOf(t)' = d
    BY <1>1, <1>3, <1>8 DEF DomainOf
  <2>2. Decode(DomainOf(t))' = Decode(d)'
    BY <2>1 DEF Decode, LayerAt
  <2>3. PolicyOf(t)' = Decode(DomainOf(t))'
    BY <1>3, RulesetAssumption DEF PolicyOf
  <2>4. Decode(d) = Append(Decode(DomainOf(t)), Top(d))
    BY <1>4, <1>8, DecodeBuilt
  <2> QED BY <1>9, <1>11, <1>12, <2>2, <2>3, <2>4
<1>14. MappedPolicy' = [MappedPolicy EXCEPT ![t] = Append(MappedPolicy[t], MappedCopied[t])]
  <2>1. \A x \in Tasks \ {t} : PolicyOf(x)' = PolicyOf(x)
    BY <1>2, PolicySame
  <2>2. MappedPolicy[t] = PolicyOf(t) /\ MappedCopied[t] = Copied(t)
    BY MapSteps
  <2> QED BY <1>13, <2>1, <2>2, MapSteps
<1>15. MappedCopied' = [MappedCopied EXCEPT ![t] = NULL]
  <2>1. Copied(t)' = NULL
    BY <1>3 DEF Copied, Committing
  <2>2. \A x \in Tasks \ {t} : Copied(x)' = Copied(x)
    BY <1>2, CopySame
  <2> QED BY <2>1, <2>2, MapSteps
<1>16. MappedCopied[t] # NULL /\ Len(MappedPolicy[t]) < MaxLayers
  <2>1. Depth(t) < MaxLayers /\ Top(d) # NULL
    BY <1>4, <1>8, DecodeBuilt
  <2>2. MappedPolicy[t] = PolicyOf(t) /\ MappedCopied[t] = Copied(t)
    BY MapSteps
  <2> QED BY <1>11, <1>12, <2>1, <2>2
<1> QED BY <1>7, <1>14, <1>15, <1>16 DEF Policy!Restrict

\* fork(2), for a process or a thread: the child starts with its parent's policy.
LEMMA RefineFork ==
    ASSUME IInv, ShapeInv, MapOK, MapOK', [Next]_vars, NEW t \in Tasks, NEW u \in Tasks,
           CloneThread(t, u) \/ \E c \in Creds : Fork(t, u, c)
    PROVE  Policy!Fork(t, u)
<1>0. Types /\ Core /\ t \in Threads
  BY Parts DEF Threads
<1>1. UNCHANGED <<rs, fd, tree, pc>> /\ tcred[t] # NULL /\ tcred[u] = NULL
  BY DEF CloneThread, Fork, Idle, rvars, locals
<1>2. /\ \A x \in Tasks \ {u} : tcred'[x] = tcred[x]
      /\ tcred'[u] # NULL /\ cdom'[tcred'[u]] = DomainOf(t)
  <2>1. CASE CloneThread(t, u)
    BY <1>0, <1>1, <2>1 DEF CloneThread, Types, DomainOf
  <2>2. ASSUME NEW c \in Creds, Fork(t, u, c)
        PROVE  /\ \A x \in Tasks \ {u} : tcred'[x] = tcred[x]
               /\ tcred'[u] # NULL /\ cdom'[tcred'[u]] = DomainOf(t)
    BY <1>0, <2>2, RulesetAssumption DEF Fork, NewCred, Types
  <2> QED BY <2>1, <2>2
<1>3. \A q \in Rulesets : InUse(q)' <=> InUse(q)
  BY <1>1 DEF InUse
<1>4. \A q \in Rulesets : ContentOf(q)' = ContentOf(q)
  BY <1>1, <1>3, ContentSame
<1>5. MappedContent' = MappedContent
  BY <1>4, MapSteps
<1>6. MappedCopied' = MappedCopied
  <2>1. \A x \in Tasks : Copied(x)' = Copied(x)
    BY <1>1, CopySame
  <2> QED BY <2>1, MapSteps
<1>7. PICK d : d = DomainOf(t)
  OBVIOUS
<1>8. Decode(d)' = Decode(d)
  <2>1. d # NULL => LayerFrame(d)
    BY <1>1, <1>7, Parts, DomainKept
  <2> QED BY <2>1, DecodeSame DEF LayerFrame
<1>9. PolicyOf(u)' = PolicyOf(t)
  <2>1. DomainOf(u)' = d
    BY <1>2, <1>7 DEF DomainOf
  <2>2. Decode(DomainOf(u))' = Decode(d)'
    BY <2>1 DEF Decode, LayerAt
  <2>3. PolicyOf(u)' = Decode(DomainOf(u))' /\ PolicyOf(t) = Decode(d)
    BY <1>1, <1>2, <1>7 DEF PolicyOf
  <2> QED BY <1>8, <2>2, <2>3
<1>10. MappedPolicy' = [MappedPolicy EXCEPT ![u] = MappedPolicy[t]]
  <2>1. \A x \in Tasks \ {u} : PolicyOf(x)' = PolicyOf(x)
    BY <1>2, PolicySame
  <2> QED BY <1>9, <2>1, MapSteps
<1>11. MappedPolicy[t] # NULL /\ MappedPolicy[u] = NULL
  <2>1. PolicyOf(t) # NULL
    BY <1>1, MapTyped
  <2>2. PolicyOf(u) = NULL
    BY <1>1 DEF PolicyOf
  <2> QED BY <2>1, <2>2, MapSteps
<1> QED BY <1>5, <1>6, <1>10, <1>11 DEF Policy!Fork

\* exit(2)
LEMMA RefineExit ==
    ASSUME IInv, ShapeInv, MapOK, MapOK', [Next]_vars, NEW t \in Tasks, Exit(t)
    PROVE  Policy!Exit(t)
<1>0. Types
  BY Parts
<1>1. UNCHANGED <<rs, fd, tree, pc>> /\ pc[t] = "idle"
  BY DEF Exit, Idle, At, rvars, locals
<1>2. tcred'[t] = NULL /\ \A x \in Tasks \ {t} : tcred'[x] = tcred[x]
  BY <1>0 DEF Exit, Types
<1>3. \A q \in Rulesets : InUse(q)' <=> InUse(q)
  BY <1>1 DEF InUse
<1>4. \A q \in Rulesets : ContentOf(q)' = ContentOf(q)
  BY <1>1, <1>3, ContentSame
<1>5. MappedContent' = MappedContent
  BY <1>4, MapSteps
<1>6. MappedCopied' = MappedCopied
  <2>1. \A x \in Tasks : Copied(x)' = Copied(x)
    BY <1>1, CopySame
  <2> QED BY <2>1, MapSteps
<1>7. MappedPolicy' = [MappedPolicy EXCEPT ![t] = NULL]
  <2>1. \A x \in Tasks \ {t} : PolicyOf(x)' = PolicyOf(x)
    BY <1>2, PolicySame
  <2>2. PolicyOf(t)' = NULL
    BY <1>2 DEF PolicyOf
  <2> QED BY <2>1, <2>2, MapSteps
<1>8. MappedCopied[t] = NULL
  <2>1. Label(t) = "idle"
    BY <1>1 DEF Label, FreeLabels
  <2>2. Copied(t) = NULL
    BY <2>1 DEF Copied, Committing
  <2> QED BY <2>2, MapSteps
<1> QED BY <1>5, <1>6, <1>7, <1>8 DEF Policy!Exit

\* The steps that users can tell apart.
PolicyStep ==
    \/ \E r \in Rulesets : Released(r)
    \/ \E t \in Tasks, r \in Rulesets, handled \in SUBSET Access :
          CreateRuleset(t, r, handled) \/ CreateRulesetNoFd(t, r, handled)
    \/ \E t \in Tasks : AppendFsRule(t) \/ MergeLock(t) \/ MergeRuleFails(t)
                        \/ CommitCreds(t) \/ Exit(t)
    \/ \E t, u \in Tasks : CloneThread(t, u) \/ \E c \in Creds : Fork(t, u, c)

\* All others stutter: walks over rules, reference counts, frees, ptrace...
LEMMA RefineStutter ==
    ASSUME IInv, ShapeInv, MapOK, MapOK', [Next]_vars, ~PolicyStep
    PROVE  UNCHANGED Policy!pvars
<1>1. \A r \in Rulesets : ContentOf(r)' = ContentOf(r)
  BY ContentMoves DEF PolicyStep
<1>2. \A t \in Tasks : PolicyOf(t)' = PolicyOf(t)
  BY PolicyMoves DEF PolicyStep
<1>3. \A t \in Tasks : Copied(t)' = Copied(t)
  BY CopyMoves DEF PolicyStep
<1> QED BY <1>1, <1>2, <1>3, MapSteps DEF Policy!pvars

\* Step simulation.
LEMMA RefineStep ==
    ASSUME IInv, ShapeInv, MapOK, MapOK', [Next]_vars
    PROVE  [Policy!PolicyNext]_(Policy!pvars)
<1>1. ASSUME NEW r \in Rulesets, Released(r) PROVE Policy!PolicyNext \/ UNCHANGED Policy!pvars
  BY <1>1, RefineDrop DEF Policy!PolicyNext
<1>2. ASSUME NEW t \in Tasks, NEW r \in Rulesets, NEW handled \in SUBSET Access,
             CreateRuleset(t, r, handled) \/ CreateRulesetNoFd(t, r, handled)
      PROVE  Policy!PolicyNext
  BY <1>2, RefineCreate DEF Policy!PolicyNext
<1>3. ASSUME NEW t \in Tasks, AppendFsRule(t) PROVE Policy!PolicyNext
  BY <1>3, RefineAllow DEF Policy!PolicyNext
<1>4. ASSUME NEW t \in Tasks, MergeLock(t) PROVE Policy!PolicyNext
  BY <1>4, RefineCopy DEF Policy!PolicyNext
<1>5. ASSUME NEW t \in Tasks, MergeRuleFails(t) PROVE Policy!PolicyNext
  BY <1>5, RefineGiveUp DEF Policy!PolicyNext
<1>6. ASSUME NEW t \in Tasks, CommitCreds(t) PROVE Policy!PolicyNext
  BY <1>6, RefineRestrict DEF Policy!PolicyNext
<1>7. ASSUME NEW t \in Tasks, Exit(t) PROVE Policy!PolicyNext
  BY <1>7, RefineExit DEF Policy!PolicyNext
<1>8. ASSUME NEW t \in Tasks, NEW u \in Tasks, CloneThread(t, u) \/ \E c \in Creds : Fork(t, u, c)
      PROVE  Policy!PolicyNext
  BY <1>8, RefineFork DEF Policy!PolicyNext
<1>9. CASE ~PolicyStep
  BY <1>9, RefineStutter
<1> QED BY <1>1, <1>2, <1>3, <1>4, <1>5, <1>6, <1>7, <1>8, <1>9 DEF PolicyStep

\* One task runs, without layers, and there are no rulesets yet.
LEMMA RefineInit ==
    ASSUME Init, IInv, MapOK
    PROVE  Policy!PolicyInit
<1>1. PICK t \in Tasks, c \in Creds : tcred = [u \in Tasks |-> IF u = t THEN c ELSE NULL]
  BY DEF Init
<1>2. \A r \in Rulesets : ContentOf(r) = NULL
  BY RulesetAssumption DEF Init, ContentOf, InUse
<1>3. \A u \in Tasks : Copied(u) = NULL
  BY DEF Init, Copied, Committing, Label, FreeLabels, Threads
<1>4. \A u \in Tasks : PolicyOf(u) = IF u = t THEN <<>> ELSE NULL
  BY <1>1, RulesetAssumption DEF Init, PolicyOf, Decode, DomainOf
<1>5. MappedContent = [r \in Rulesets |-> NULL]
  BY <1>2 DEF MapOK
<1>6. MappedCopied = [u \in Tasks |-> NULL]
  BY <1>3 DEF MapOK
<1>7. MappedPolicy = [u \in Tasks |-> IF u = t THEN <<>> ELSE NULL]
  BY <1>4 DEF MapOK
<1> QED BY <1>5, <1>6, <1>7 DEF Policy!PolicyInit

\* Rulesets, domains and credentials implement the policies that Landlock
\* documents: landlock_restrict_self(2) stacks exactly one layer, a consistent
\* copy of the ruleset, or nothing; rules and policies change no other way,
\* whatever the other threads do with the same ruleset or domain meanwhile.
THEOREM PolicyImplemented == Spec => ImplementsPolicy
<1>1. IInv /\ ShapeInv => MapOK
  BY MappedMeans, Parts DEF MapOK
<1>2. Init /\ IInv /\ MapOK => Policy!PolicyInit
  BY RefineInit
<1>3. IInv /\ ShapeInv /\ MapOK /\ MapOK' /\ [Next]_vars => [Policy!PolicyNext]_(Policy!pvars)
  BY RefineStep
<1> QED BY <1>1, <1>2, <1>3, ShapeInvariance, PTL DEF Spec, ImplementsPolicy, Policy!PolicySpec

-----------------------------------------------------------------------------
(* What the walks of fs.c make of the layers of a rule.                    *)

Fs == INSTANCE LandlockAccess

\* unmask_layers() never adds a layer to those that deny a right.
THEOREM UnmaskOnlyGrants ==
    ASSUME NEW rule, NEW request, NEW matrix, NEW a \in Fs!Access
    PROVE  Fs!UnmaskLayers(rule, request, matrix)[a] \subseteq matrix[a]
BY DEF Fs!UnmaskLayers

\* Unmasking by two rules does not depend on their order: the matrix at the end
\* of a walk is a matter of which rules are on the path only.
THEOREM UnmaskCommutes ==
    ASSUME NEW rule1, NEW rule2, NEW request, NEW matrix
    PROVE  Fs!UnmaskLayers(rule1, request, Fs!UnmaskLayers(rule2, request, matrix)) =
           Fs!UnmaskLayers(rule2, request, Fs!UnmaskLayers(rule1, request, matrix))
<1> DEFINE L == Fs!UnmaskLayers(rule1, request, Fs!UnmaskLayers(rule2, request, matrix))
           R == Fs!UnmaskLayers(rule2, request, Fs!UnmaskLayers(rule1, request, matrix))
<1>1. ASSUME NEW a \in Fs!Access PROVE L[a] = R[a]
  BY DEF Fs!UnmaskLayers
<1>2. L = [a \in Fs!Access |-> L[a]] /\ R = [a \in Fs!Access |-> R[a]]
  BY DEF Fs!UnmaskLayers
<1> HIDE DEF L, R
<1>3. [a \in Fs!Access |-> L[a]] = [a \in Fs!Access |-> R[a]]
  BY <1>1
<1>4. L = R
  BY <1>2, <1>3
<1> QED
  BY <1>4 DEF L, R

\* What no_more_access() found at some point of the common path of the source
\* and the destination stays true when the walk goes on, since each further
\* rule is unmasked on both sides.  This is why is_access_to_paths_allowed()
\* may stop comparing and check the requested rights only.
THEOREM NoMoreAccessStable ==
    ASSUME NEW rule, NEW request, NEW parent1, NEW parent2, NEW child1, NEW child2,
           NEW is_dir1 \in BOOLEAN, NEW is_dir2 \in BOOLEAN,
           Fs!NoMoreAccess(parent1, child1, is_dir1, parent2, child2, is_dir2)
    PROVE  Fs!NoMoreAccess(Fs!UnmaskLayers(rule, request, parent1), child1, is_dir1,
                           Fs!UnmaskLayers(rule, request, parent2), child2, is_dir2)
<1> DEFINE p1 == Fs!UnmaskLayers(rule, request, parent1)
           p2 == Fs!UnmaskLayers(rule, request, parent2)
<1>1. \A d \in BOOLEAN : Fs!Meaningful(d) \subseteq Fs!Access
  BY DEF Fs!Meaningful, Fs!Access
<1>2. ASSUME NEW a \in Fs!Meaningful(is_dir1)
      PROVE  p1[a] \cap child1[a] \subseteq p2[a]
  <2>1. a \in Fs!Access
    BY <1>1, <1>2
  <2>2. parent1[a] \cap child1[a] \subseteq parent2[a]
    BY <1>2 DEF Fs!NoMoreAccess
  <2> QED
    BY <2>1, <2>2 DEF Fs!UnmaskLayers
<1>3. ASSUME NEW a \in Fs!Meaningful(is_dir2)
      PROVE  p2[a] \cap child2[a] \subseteq p1[a]
  <2>1. a \in Fs!Access
    BY <1>1, <1>3
  <2>2. parent2[a] \cap child2[a] \subseteq parent1[a]
    BY <1>3 DEF Fs!NoMoreAccess
  <2> QED
    BY <2>1, <2>2 DEF Fs!UnmaskLayers
<1> QED
  BY <1>2, <1>3 DEF Fs!NoMoreAccess

\* The layers of a rule that grant a right are those of the policy that allow it.
GrantsMean(t, o) ==
    \A i \in 1 .. Len(PolicyOf(t)), a \in Access :
       a \in PolicyOf(t)[i].handled =>
          (i \in Fs!Granting(tree[DomainOf(t)][o], a) <=> a \in PolicyOf(t)[i].rights[o])

\* The rule that a walk of fs.c reads in the domain of a task says of every
\* layer that handles a right what the policy of the task says, in every
\* reachable state: unmask_layers() may take the layers that a rule grants off
\* without a look at fs_access_masks[].
THEOREM WalkReadsPolicy ==
    Spec => [](\A t \in Tasks, o \in Objects :
                  tcred[t] # NULL /\ DomainOf(t) # NULL => GrantsMean(t, o))
<1>1. IInv /\ ShapeInv => \A t \in Tasks, o \in Objects :
                             tcred[t] # NULL /\ DomainOf(t) # NULL => GrantsMean(t, o)
  <2> SUFFICES ASSUME IInv, ShapeInv, NEW t \in Tasks, NEW o \in Objects,
                      tcred[t] # NULL, DomainOf(t) # NULL
               PROVE  GrantsMean(t, o)
    OBVIOUS
  <2>1. PICK d \in Rulesets : d = DomainOf(t) /\ d # NULL /\ rstate[d] = "live"
    <3>1. tcred[t] \in Creds /\ cdom[tcred[t]] \in OrNull(Rulesets)
      BY Parts DEF Types, OrNull
    <3> QED BY <3>1, Parts, NotFree DEF DomainOf, OrNull
  <2>2. PICK p : p = PolicyOf(t)
    OBVIOUS
  <2>3. /\ Len(p) = Len(masks[d])
        /\ \A i \in 1 .. Len(masks[d]) : p[i] = LayerAt(d, i, i)
    BY <2>1, <2>2, Parts, MapTyped, DecodeTyped
  <2>4. PICK s : s = tree[d][o]
    OBVIOUS
  <2>5. ASSUME NEW i \in 1 .. Len(p), NEW a \in Access, a \in p[i].handled
        PROVE  i \in Fs!Granting(s, a) <=> a \in p[i].rights[o]
    <3>1. PICK m : m = masks[d][i]
      OBVIOUS
    <3>2. p[i] = [handled |-> m, rights |-> [q \in Objects |-> LevelRights(tree[d][q], i, m)]]
      BY <2>3, <3>1, LayerRights
    <3>3. a \in m /\ p[i].rights[o] = LevelRights(s, i, m)
      BY <2>4, <2>5, <3>2
    <3>4. a \in LevelRights(s, i, m) <=> \E k \in 1 .. Len(s) : s[k].level = i /\ a \in s[k].access
      BY <3>3 DEF LevelRights
    <3>5. i \in Fs!Granting(s, a) <=> \E k \in 1 .. Len(s) : s[k].level = i /\ a \in s[k].access
      BY DEF Fs!Granting
    <3> QED BY <3>3, <3>4, <3>5
  <2> QED BY <2>1, <2>2, <2>4, <2>5 DEF GrantsMean
<1> QED BY <1>1, ShapeInvariance, PTL
=============================================================================
