----------------------- MODULE LandlockRulesetProofs ------------------------
(***************************************************************************)
(* Proofs about LandlockRuleset, for any number of tasks, rulesets,        *)
(* credentials, rules and layers: counts and memory.  The invariant comes  *)
(* in parts, each about some of the variables: who is where, who owns a    *)
(* credential, what the counts of rulesets and of nodes count, and what a  *)
(* reader under RCU may reach.                                             *)
(***************************************************************************)
EXTENDS LandlockRuleset, FiniteSetTheorems, SequenceTheorems, TLAPS

-----------------------------------------------------------------------------
(* Types, where a thread is and which of its locals are in use.            *)

Returns == {"idle", "commit_creds", "abort_creds", "assign"}
Prepared == {"merge", "abort_creds", "commit_creds"} \cup DomainLabels

PtraceCall == [parent : OrNull(Tasks), child : OrNull(Tasks),
               dom_parent : OrNull(Rulesets), dom_child : OrNull(Rulesets),
               walker : OrNull(Hierarchies)]

Types ==
    /\ rstate \in [Rulesets -> {"free", "live", "work", "freeing"}]
    /\ rlock \in [Rulesets -> OrNull(Tasks)]
    /\ hier \in [Rulesets -> OrNull(Hierarchies)]
    /\ hparent \in [Hierarchies -> OrNull(Hierarchies)]
    /\ fd \in SUBSET Rulesets
    /\ cstate \in [Creds -> {"free", "live", "rcu"}]
    /\ cdom \in [Creds -> OrNull(Rulesets)]
    /\ cgp \in [Creds -> SUBSET Tasks]
    /\ tcred \in [Tasks -> OrNull(Creds)]
    /\ pc \in [Threads -> Labels]
    /\ rs \in [Tasks -> OrNull(Rulesets)]
    /\ ncred \in [Tasks -> OrNull(Creds)]
    /\ newdom \in [Tasks -> OrNull(Rulesets)]
    /\ todo \in [Tasks -> SUBSET Objects]
    /\ fr \in [Threads -> OrNull(Rulesets)]
    /\ wh \in [Threads -> OrNull(Hierarchies)]
    /\ ret \in [Threads -> Returns]
    /\ pt \in [Tasks -> PtraceCall]
    /\ rcu \in SUBSET Tasks

FreeLocals(t) ==
    /\ (fr[t] # NULL) <=> (pc[t] \in FreeLabels)
    /\ ret[t] # "idle" => pc[t] \in FreeLabels
    /\ wh[t] # NULL => pc[t] = "put_hierarchy"

CallLocals(t) ==
    /\ (rs[t] # NULL) <=> (Label(t) \in CallLabels)
    /\ (newdom[t] # NULL) <=> (Label(t) \in DomainLabels)
    /\ ncred[t] # NULL => Label(t) \in Prepared \cup {"put_ruleset"}
    /\ Label(t) \in Prepared => ncred[t] # NULL
    /\ todo[t] # {} => pc[t] \in WalkLabels
    /\ tcred[t] = NULL => pc[t] = "idle"
    /\ (t \in rcu) <=> (pc[t] \in {"dom_child", "domain_scope_le"})

\* A ptrace check holds on to both tasks.
PtraceLocals(t) ==
    /\ pc[t] \notin PtraceLabels => pt[t] = NoPtrace
    /\ pc[t] \in PtraceLabels =>
          /\ pt[t].parent \in Tasks /\ pt[t].child \in Tasks
          /\ pt[t].parent # pt[t].child /\ t \in {pt[t].parent, pt[t].child}
          /\ tcred[pt[t].parent] # NULL /\ tcred[pt[t].child] # NULL
          /\ pc[t] = "task_is_scoped" => pt[t].dom_parent = NULL
          /\ pc[t] # "domain_scope_le" => pt[t].dom_child = NULL /\ pt[t].walker = NULL
          /\ pt[t].dom_child = NULL => pt[t].walker = NULL

Control ==
    /\ \A t \in Threads : FreeLocals(t)
    /\ \A t \in Tasks : CallLocals(t)
    /\ pc[Worker] \in {"idle"} \cup FreeLabels /\ ret[Worker] = "idle"

Ptracing == \A t \in Tasks : PtraceLocals(t)

Core == Types /\ Control /\ Ptracing

\* inherit_ruleset() runs only if there is a parent.
ParentKnown ==
    \A t \in Tasks : pc[t] \in {"inherit_lock", "inherit"} => cdom[ncred[t]] # NULL

\* replace put the old domain of the prepared credential.
AssignEmpty == \A t \in Tasks : Label(t) = "assign" => cdom[ncred[t]] = NULL
\* Initially one task runs and everything is free.
LEMMA CoreInit == Init => Core
BY RulesetAssumption DEF Init, Core, Types, Control, Ptracing, FreeLocals,
   CallLocals, PtraceLocals,
   Threads, Labels, CallLabels, DomainLabels, WalkLabels, PtraceLabels, FreeLabels,
   Returns, Prepared, Label, PtraceCall, OrNull, NoPtrace

\* Which locals are set where.
LEMMA Using ==
    ASSUME Core, NEW t \in Tasks
    PROVE  /\ pc[t] \in CallLabels => rs[t] \in Rulesets
           /\ pc[t] \in DomainLabels => newdom[t] \in Rulesets
           /\ pc[t] \in Prepared => ncred[t] \in Creds
           /\ pc[t] # "idle" => tcred[t] \in Creds
<1>1. pc[t] \in CallLabels \cup DomainLabels \cup Prepared => Label(t) = pc[t]
  BY DEF Label, FreeLabels, CallLabels, DomainLabels, WalkLabels, Prepared
<1> QED BY <1>1 DEF Core, Types, Control, CallLocals, OrNull

\* A thread in free_ruleset() holds the ruleset that it frees.
LEMMA UsingFreed ==
    ASSUME Core, NEW t \in Threads, pc[t] \in FreeLabels
    PROVE  fr[t] \in Rulesets
BY DEF Core, Types, Control, FreeLocals, OrNull

\* landlock_put_ruleset() keeps them.
LEMMA PutTypes ==
    ASSUME Types, NEW t \in Threads, NEW r \in Rulesets, NEW next \in Returns, Put(t, r, next)
    PROVE  /\ rstate' \in [Rulesets -> {"free", "live", "work", "freeing"}]
           /\ fr' \in [Threads -> OrNull(Rulesets)]
           /\ ret' \in [Threads -> Returns]
           /\ pc' \in [Threads -> Labels]
<1>1. "free_ruleset" \in Labels /\ next \in Labels
  BY DEF Labels, FreeLabels, Returns, CallLabels, DomainLabels
<1>2. CASE rusage[r] = 1
  BY <1>1, <1>2 DEF Put, Types, Goto, OrNull
<1>3. CASE rusage[r] # 1
  BY <1>1, <1>3 DEF Put, Types, Goto
<1> QED BY <1>2, <1>3

\* So does put_cred().
LEMMA PutCredTypes ==
    ASSUME Types, NEW c, NEW tcreds, NEW ncreds, PutCred(c, tcreds, ncreds)
    PROVE  cstate' \in [Creds -> {"free", "live", "rcu"}] /\ cgp' \in [Creds -> SUBSET Tasks]
<1>1. CASE UNCHANGED <<cstate, cgp>>
  BY <1>1 DEF Types
<1>2. CASE ~UNCHANGED <<cstate, cgp>>
  <2>1. /\ cstate' = [cstate EXCEPT ![c] = "rcu"]
        /\ cgp' = [cgp EXCEPT ![c] = rcu]
    BY <1>2 DEF PutCred
  <2> QED BY <2>1 DEF Types
<1> QED BY <1>1, <1>2

\* The locals of a ptrace check are set one at a time.
LEMMA PtraceTypes ==
    ASSUME Types, NEW t \in Tasks
    PROVE  /\ pt[t] \in PtraceCall
           /\ \A q \in PtraceCall :
                 /\ \A u \in Tasks : /\ [q EXCEPT !.parent = u] \in PtraceCall
                                      /\ [q EXCEPT !.child = u] \in PtraceCall
                 /\ \A d \in OrNull(Rulesets) : /\ [q EXCEPT !.dom_parent = d] \in PtraceCall
                                                  /\ [q EXCEPT !.dom_child = d] \in PtraceCall
                 /\ \A w \in OrNull(Hierarchies) : [q EXCEPT !.walker = w] \in PtraceCall
<1>1. pt[t] \in PtraceCall
  BY DEF Types
<1>2. ASSUME NEW q \in PtraceCall, NEW u \in Tasks
      PROVE  [q EXCEPT !.parent = u] \in PtraceCall /\ [q EXCEPT !.child = u] \in PtraceCall
  BY DEF PtraceCall, OrNull
<1>3. ASSUME NEW q \in PtraceCall, NEW d \in OrNull(Rulesets)
      PROVE  [q EXCEPT !.dom_parent = d] \in PtraceCall /\ [q EXCEPT !.dom_child = d] \in PtraceCall
  BY DEF PtraceCall
<1>4. ASSUME NEW q \in PtraceCall, NEW w \in OrNull(Hierarchies)
      PROVE  [q EXCEPT !.walker = w] \in PtraceCall
  BY DEF PtraceCall
<1> QED BY <1>1, <1>2, <1>3, <1>4

\* Every step keeps the types.
LEMMA TypesStep ==
    ASSUME Core, ParentKnown, [Next]_vars
    PROVE  Types'
<1> USE RulesetAssumption DEF Types, Threads, OrNull, At, Goto, Idle,
        rvars, hvars, cvars, locals, frvars, ptvars, ghosts, Alloc
<1>0. Types /\ NULL \notin Creds /\ \A t \in Tasks :
          /\ pc[t] # "idle" => tcred[t] # NULL
          /\ pc[t] \in PtraceLabels => tcred[pt[t].parent] # NULL /\ tcred[pt[t].child] # NULL
                                     /\ pt[t].parent \in Tasks /\ pt[t].child \in Tasks
  BY RulesetAssumption DEF Core, Control, Ptracing, CallLocals, PtraceLocals
<1>a. {"idle", "free_ruleset", "put_hierarchy", "put_ruleset", "insert_rule", "merge",
       "prepare_creds", "abort_creds", "commit_creds", "assign", "replace", "put_dom",
       "merge_lock", "merge_rules", "inherit_lock", "inherit", "task_is_scoped",
       "dom_child", "domain_scope_le"} \subseteq Labels
      /\ Returns \subseteq Labels /\ {"idle", "commit_creds", "abort_creds", "assign"} \subseteq Returns
  BY DEF Labels, CallLabels, DomainLabels, WalkLabels, PtraceLabels, FreeLabels,
        Returns
<1>1. ASSUME NEW t \in Tasks, AllocStep(t) PROVE Types'
  <2>1. ASSUME NEW r \in Rulesets, NEW handled \in SUBSET Access, CreateRuleset(t, r, handled)
        PROVE  Types'
    BY <1>0, <1>a, <2>1 DEF CreateRuleset
  <2>2. ASSUME NEW r \in Rulesets, NEW handled \in SUBSET Access, CreateRulesetNoFd(t, r, handled)
        PROVE  Types'
    BY <1>0, <1>a, <2>2 DEF CreateRulesetNoFd
  <2>3. ASSUME NEW r \in Rulesets, NEW h \in Hierarchies, CreateDomain(t, r, h)
        PROVE  Types'
    BY <1>0, <1>a, <2>3 DEF CreateDomain
  <2>4. ASSUME NEW r \in Rulesets, CreateHierarchyFails(t, r)
        PROVE  Types'
    BY <1>0, <1>a, <2>4 DEF CreateHierarchyFails
  <2> QED BY <1>1, <2>1, <2>2, <2>3, <2>4 DEF AllocStep
<1>2. ASSUME NEW t \in Tasks, CallStep(t) PROVE Types'
  <2>1. ASSUME NEW r \in Rulesets, NEW o \in Objects, NEW allowed \in SUBSET Access,
             AddRule(t, r, o, allowed)
        PROVE  Types'
    BY <1>0, <1>a, <2>1 DEF AddRule, Get
  <2>2. ASSUME NEW r \in Rulesets, Close(t, r)
        PROVE  Types'
    <3>1. Put(t, r, "idle")
      BY <2>2 DEF Close
    <3> QED BY <1>0, <1>a, <2>2, <3>1, PutTypes DEF Close
  <2>3. ASSUME NEW r \in Rulesets, RestrictSelf(t, r)
        PROVE  Types'
    BY <1>0, <1>a, <2>3 DEF RestrictSelf, Get
  <2>4. ASSUME NEW c \in Creds, ChangeCreds(t, c)
        PROVE  Types'
    BY <1>0, <1>a, <2>4 DEF ChangeCreds, GetDomain, DomainOf
  <2>5. ASSUME NEW c \in Creds, NEW u \in Tasks, Fork(t, u, c)
        PROVE  Types'
    BY <1>0, <1>a, <2>5 DEF Fork, NewCred, GetDomain, DomainOf
  <2>6. ASSUME NEW u \in Tasks, CloneThread(t, u)
        PROVE  Types'
    BY <1>0, <1>a, <2>6 DEF CloneThread
  <2>7. ASSUME NEW p \in Tasks, NEW c \in Tasks, TaskPtrace(t, p, c)
        PROVE  Types'
    <3>0. PICK q : q = [pt[t] EXCEPT !.parent = p]
      OBVIOUS
    <3>a. q \in PtraceCall
      BY <1>0, <3>0, PtraceTypes
    <3>1. [q EXCEPT !.child = c] \in PtraceCall
      BY <1>0, <3>a, PtraceTypes
    <3>2. pt' \in [Tasks -> PtraceCall]
      BY <1>0, <2>7, <3>0, <3>1 DEF TaskPtrace
    <3> QED BY <1>0, <1>a, <2>7, <3>2 DEF TaskPtrace
  <2>8. CASE Exit(t)
    <3>1. cstate' \in [Creds -> {"free", "live", "rcu"}] /\ cgp' \in [Creds -> SUBSET Tasks]
      BY <1>0, <2>8, PutCredTypes DEF Exit
    <3> QED BY <1>0, <2>8, <3>1 DEF Exit
  <2> QED BY <1>2, <2>1, <2>2, <2>3, <2>4, <2>5, <2>6, <2>7, <2>8 DEF CallStep
<1>3. ASSUME NEW t \in Tasks, LockStep(t) PROVE Types'
  <2>1. CASE AppendFsRule(t)
    BY <1>0, <1>a, <2>1 DEF AppendFsRule, InsertRule
  <2>2. CASE InheritLock(t)
    BY <1>0, <1>a, <2>2 DEF InheritLock, Unlocked, Lock, RulesOf
  <2>3. CASE MergeLock(t)
    BY <1>0, <1>a, <2>3 DEF MergeLock, Unlocked, Lock, RulesOf
  <2> QED BY <1>3, <2>1, <2>2, <2>3 DEF LockStep
<1>4. ASSUME NEW t \in Tasks, KernelStep(t) PROVE Types'
  <2>1. CASE AppendFsRuleFails(t)
    BY <1>0, <1>a, <2>1 DEF AppendFsRuleFails
  <2>2. CASE PutRuleset(t)
    <3>0. PICK next : next = IF ncred[t] # NULL THEN "commit_creds" ELSE "idle"
      OBVIOUS
    <3>1. Put(t, rs[t], next) /\ next \in Returns /\ rs[t] \in Rulesets
      <4>1. rs[t] \in Rulesets
        BY <2>2, Using DEF PutRuleset, CallLabels
      <4>2. next \in Returns
        BY <1>a, <3>0
      <4> QED BY <2>2, <3>0, <4>1, <4>2 DEF PutRuleset
    <3> QED BY <1>0, <2>2, <3>1, PutTypes DEF PutRuleset
  <2>3. ASSUME NEW c \in Creds, PrepareCreds(t, c)
        PROVE  Types'
    BY <1>0, <1>a, <2>3 DEF PrepareCreds, NewCred, GetDomain, DomainOf
  <2>4. CASE PrepareCredsFails(t)
    BY <1>0, <1>a, <2>4 DEF PrepareCredsFails
  <2>5. CASE MergeFails(t)
    BY <1>0, <1>a, <2>5 DEF MergeFails
  <2>6. ASSUME NEW o \in Objects, InheritRule(t, o)
        PROVE  Types'
    BY <1>0, <1>a, <2>6 DEF InheritRule, InsertRule
  <2>7. ASSUME NEW o \in Objects, MergeRule(t, o)
        PROVE  Types'
    BY <1>0, <1>a, <2>7 DEF MergeRule, InsertRule
  <2>8. CASE InheritFails(t)
    BY <1>0, <1>a, <2>8 DEF InheritFails, Unlock
  <2>9. CASE InheritDone(t)
    <3>1. hparent' \in [Hierarchies -> OrNull(Hierarchies)]
      <4>1. hparent' = [hparent EXCEPT ![hier[newdom[t]]] = hier[Parent(t)]]
        BY <2>9 DEF InheritDone
      <4>2. hier[Parent(t)] \in OrNull(Hierarchies)
        <5>1. cdom[ncred[t]] \in Rulesets
          BY <1>0, <2>9, Using DEF ParentKnown, InheritDone, Prepared, DomainLabels,
             WalkLabels
        <5> QED BY <1>0, <5>1 DEF Parent
      <4> QED BY <1>0, <4>1, <4>2
    <3>2. rlock' \in [Rulesets -> OrNull(Tasks)]
      BY <1>0, <2>9 DEF InheritDone, Unlock
    <3> QED BY <1>0, <1>a, <2>9, <3>1, <3>2 DEF InheritDone
  <2>10. CASE MergeRuleFails(t)
    BY <1>0, <1>a, <2>10 DEF MergeRuleFails, Unlock
  <2>11. CASE MergeDone(t)
    BY <1>0, <1>a, <2>11 DEF MergeDone, Unlock
  <2>12. CASE PutDom(t)
    <3>1. Put(t, newdom[t], "abort_creds") /\ newdom[t] \in Rulesets
      BY <2>12, Using DEF PutDom, DomainLabels
    <3> QED BY <1>0, <1>a, <2>12, <3>1, PutTypes DEF PutDom
  <2>13. CASE ReplaceDomain(t)
    <3>1. cdom' \in [Creds -> OrNull(Rulesets)]
      BY <1>0, <2>13 DEF ReplaceDomain
    <3>2. CASE Parent(t) = NULL
      BY <1>0, <1>a, <2>13, <3>1, <3>2 DEF ReplaceDomain
    <3>3. CASE Parent(t) # NULL
      <4>1. Put(t, Parent(t), "assign") /\ Parent(t) \in Rulesets
        BY <1>0, <2>13, <3>3, Using DEF ReplaceDomain, Parent, Prepared, DomainLabels
      <4> QED BY <1>0, <1>a, <2>13, <3>1, <4>1, PutTypes DEF ReplaceDomain
    <3> QED BY <3>2, <3>3
  <2>14. CASE AssignDomain(t)
    BY <1>0, <1>a, <2>14 DEF AssignDomain
  <2>15. CASE CommitCreds(t)
    <3>1. cstate' \in [Creds -> {"free", "live", "rcu"}] /\ cgp' \in [Creds -> SUBSET Tasks]
      BY <1>0, <2>15, PutCredTypes DEF CommitCreds
    <3> QED BY <1>0, <1>a, <2>15, <3>1 DEF CommitCreds
  <2>16. CASE AbortCreds(t)
    <3>1. cstate' \in [Creds -> {"free", "live", "rcu"}] /\ cgp' \in [Creds -> SUBSET Tasks]
      BY <1>0, <2>16, PutCredTypes DEF AbortCreds
    <3> QED BY <1>0, <1>a, <2>16, <3>1 DEF AbortCreds
  <2>17. CASE TaskIsScoped(t)
    <3>1. DomainOf(pt[t].parent) \in OrNull(Rulesets)
      BY <1>0, <2>17 DEF TaskIsScoped, DomainOf, PtraceLabels
    <3>2. [pt[t] EXCEPT !.dom_parent = DomainOf(pt[t].parent)] \in PtraceCall
      BY <1>0, <3>1, PtraceTypes
    <3>3. pt' \in [Tasks -> PtraceCall]
      BY <1>0, <2>17, <3>2 DEF TaskIsScoped
    <3> QED BY <1>0, <1>a, <2>17, <3>3 DEF TaskIsScoped
  <2>18. CASE DomChild(t)
    <3>0. PICK d : d = DomainOf(pt[t].child)
      OBVIOUS
    <3>1. d \in OrNull(Rulesets)
      BY <1>0, <2>18, <3>0 DEF DomChild, DomainOf, PtraceLabels
    <3>a. PICK w : w = IF d = NULL THEN NULL ELSE hier[d]
      OBVIOUS
    <3>b. w \in OrNull(Hierarchies)
      BY <1>0, <3>1, <3>a
    <3>c. PICK q : q = [pt[t] EXCEPT !.dom_child = d]
      OBVIOUS
    <3>d. q \in PtraceCall
      BY <1>0, <3>1, <3>c, PtraceTypes
    <3>2. [[pt[t] EXCEPT !.dom_child = d] EXCEPT !.walker = w] \in PtraceCall
      BY <1>0, <3>b, <3>c, <3>d, PtraceTypes
    <3>3. pt' = [pt EXCEPT ![t] = [[pt[t] EXCEPT !.dom_child = d] EXCEPT !.walker = w]]
      BY <1>0, <2>18, <3>0, <3>a DEF DomChild
    <3>4. pt' \in [Tasks -> PtraceCall]
      BY <1>0, <3>2, <3>3
    <3> QED BY <1>0, <1>a, <2>18, <3>4 DEF DomChild
  <2>19. CASE DomainScopeLe(t)
    <3>1. CASE ScopeDecided(t)
      <4>1. NoPtrace \in PtraceCall
        BY DEF NoPtrace, PtraceCall
      <4>2. pt' \in [Tasks -> PtraceCall]
        BY <1>0, <2>19, <3>1, <4>1 DEF DomainScopeLe
      <4>3. cgp' = [c \in Creds |-> cgp[c] \ {t}] /\ rcu' = rcu \ {t}
        BY <2>19, <3>1 DEF DomainScopeLe
      <4>4. cgp' \in [Creds -> SUBSET Tasks] /\ rcu' \in SUBSET Tasks
        BY <1>0, <4>3
      <4>5. pc' \in [Threads -> Labels]
        BY <1>0, <1>a, <2>19, <3>1 DEF DomainScopeLe
      <4> QED BY <1>0, <2>19, <4>2, <4>4, <4>5 DEF DomainScopeLe
    <3>2. CASE ~ScopeDecided(t)
      <4>1. pt[t].walker \in Hierarchies
        BY <1>0, <3>2 DEF ScopeDecided, PtraceCall
      <4>2. [pt[t] EXCEPT !.walker = hparent[pt[t].walker]] \in PtraceCall
        <5>1. hparent[pt[t].walker] \in OrNull(Hierarchies)
          BY <1>0, <4>1
        <5> QED BY <1>0, <5>1, PtraceTypes
      <4>3. pt' \in [Tasks -> PtraceCall]
        BY <1>0, <2>19, <3>2, <4>2 DEF DomainScopeLe
      <4> QED BY <1>0, <1>a, <2>19, <3>2, <4>3 DEF DomainScopeLe
    <3> QED BY <3>1, <3>2
  <2> QED BY <1>4, <2>1, <2>2, <2>3, <2>4, <2>5, <2>6, <2>7, <2>8, <2>9, <2>10, <2>11, <2>12, <2>13, <2>14, <2>15, <2>16, <2>17, <2>18, <2>19 DEF KernelStep
<1>5. ASSUME NEW t \in Threads, FreeStep(t) PROVE Types'
  <2>1. CASE FreeRuleset(t)
    <3>1. hier[fr[t]] \in OrNull(Hierarchies)
      BY <1>0, <1>4, <2>1 DEF FreeRuleset, Core, Control, FreeLocals, FreeLabels
    <3> QED BY <1>0, <1>a, <2>1, <3>1 DEF FreeRuleset
  <2>2. CASE PutHierarchy(t)
    BY <1>0, <1>a, <2>2 DEF PutHierarchy
  <2>3. CASE Kfree(t)
    BY <1>0, <1>a, <2>3 DEF Kfree
  <2> QED BY <1>5, <2>1, <2>2, <2>3 DEF FreeStep
<1>6. ASSUME NEW c \in Creds, CredFree(c) PROVE Types'
  BY <1>0, <1>a, <1>6 DEF CredFree
<1>7. ASSUME NEW r \in Rulesets, FreeRulesetWork(r) PROVE Types'
  BY <1>0, <1>a, <1>7 DEF FreeRulesetWork
<1>8. CASE UNCHANGED vars
  BY <1>0, <1>a, <1>8 DEF vars
<1> QED BY <1>1, <1>2, <1>3, <1>4, <1>5, <1>6, <1>7, <1>8 DEF Next

\* Every step uses the locals of the system calls and of free_ruleset() as it should.
LEMMA ControlStep ==
    ASSUME Core, [Next]_vars
    PROVE  Control'
<1> USE RulesetAssumption DEF Core, Types, Control, FreeLocals, CallLocals, Labels,
    CallLabels, DomainLabels, WalkLabels, PtraceLabels, FreeLabels,
        Returns, Threads, Prepared, Label, OrNull, At, Goto, Idle,
        rvars, hvars, cvars, locals, frvars, ptvars, ghosts, Alloc
<1>1. ASSUME NEW t \in Tasks, AllocStep(t) PROVE Control'
  <2>1. ASSUME NEW r \in Rulesets, NEW handled \in SUBSET Access, CreateRuleset(t, r, handled)
        PROVE  Control'
    BY <2>1 DEF CreateRuleset
  <2>2. ASSUME NEW r \in Rulesets, NEW handled \in SUBSET Access, CreateRulesetNoFd(t, r, handled)
        PROVE  Control'
    BY <2>2 DEF CreateRulesetNoFd
  <2>3. ASSUME NEW r \in Rulesets, NEW h \in Hierarchies, CreateDomain(t, r, h)
        PROVE  Control'
    BY <2>3 DEF CreateDomain
  <2>4. ASSUME NEW r \in Rulesets, CreateHierarchyFails(t, r)
        PROVE  Control'
    BY <2>4 DEF CreateHierarchyFails
  <2> QED BY <1>1, <2>1, <2>2, <2>3, <2>4 DEF AllocStep
<1>2. ASSUME NEW t \in Tasks, CallStep(t) PROVE Control'
  <2>1. ASSUME NEW r \in Rulesets, NEW o \in Objects, NEW allowed \in SUBSET Access,
             AddRule(t, r, o, allowed)
        PROVE  Control'
    BY <2>1 DEF AddRule, Get
  <2>2. ASSUME NEW r \in Rulesets, Close(t, r)
        PROVE  Control'
    <3>1. CASE rusage[r] = 1
      BY <2>2, <3>1 DEF Close, Put
    <3>2. CASE rusage[r] # 1
      BY <2>2, <3>2 DEF Close, Put
    <3> QED BY <3>1, <3>2
  <2>3. ASSUME NEW r \in Rulesets, RestrictSelf(t, r)
        PROVE  Control'
    BY <2>3 DEF RestrictSelf, Get
  <2>4. ASSUME NEW c \in Creds, ChangeCreds(t, c)
        PROVE  Control'
    BY <2>4 DEF ChangeCreds, GetDomain, DomainOf
  <2>5. ASSUME NEW c \in Creds, NEW u \in Tasks, Fork(t, u, c)
        PROVE  Control'
    BY <2>5 DEF Fork, NewCred, GetDomain, DomainOf
  <2>6. ASSUME NEW u \in Tasks, CloneThread(t, u)
        PROVE  Control'
    BY <2>6 DEF CloneThread
  <2>7. ASSUME NEW p \in Tasks, NEW c \in Tasks, TaskPtrace(t, p, c)
        PROVE  Control'
    BY <2>7 DEF TaskPtrace
  <2>8. CASE Exit(t)
    BY <2>8 DEF Exit, PutCred
  <2> QED BY <1>2, <2>1, <2>2, <2>3, <2>4, <2>5, <2>6, <2>7, <2>8 DEF CallStep
<1>3. ASSUME NEW t \in Tasks, LockStep(t) PROVE Control'
  <2>1. CASE AppendFsRule(t)
    BY <2>1 DEF AppendFsRule, InsertRule
  <2>2. CASE InheritLock(t)
    BY <2>2 DEF InheritLock, Unlocked, Lock, RulesOf
  <2>3. CASE MergeLock(t)
    BY <2>3 DEF MergeLock, Unlocked, Lock, RulesOf
  <2> QED BY <1>3, <2>1, <2>2, <2>3 DEF LockStep
<1>4. ASSUME NEW t \in Tasks, KernelStep(t) PROVE Control'
  <2>1. CASE AppendFsRuleFails(t)
    BY <2>1 DEF AppendFsRuleFails
  <2>2. CASE PutRuleset(t)
    <3>1. CASE rusage[rs[t]] = 1
      BY <2>2, <3>1 DEF PutRuleset, Put
    <3>2. CASE rusage[rs[t]] # 1
      BY <2>2, <3>2 DEF PutRuleset, Put
    <3> QED BY <3>1, <3>2
  <2>3. ASSUME NEW c \in Creds, PrepareCreds(t, c)
        PROVE  Control'
    BY <2>3 DEF PrepareCreds, NewCred, GetDomain, DomainOf
  <2>4. CASE PrepareCredsFails(t)
    BY <2>4 DEF PrepareCredsFails
  <2>5. CASE MergeFails(t)
    BY <2>5 DEF MergeFails
  <2>6. ASSUME NEW o \in Objects, InheritRule(t, o)
        PROVE  Control'
    BY <2>6 DEF InheritRule, InsertRule
  <2>7. ASSUME NEW o \in Objects, MergeRule(t, o)
        PROVE  Control'
    BY <2>7 DEF MergeRule, InsertRule
  <2>8. CASE InheritFails(t)
    BY <2>8 DEF InheritFails, Unlock
  <2>9. CASE InheritDone(t)
    BY <2>9 DEF InheritDone, Unlock
  <2>10. CASE MergeRuleFails(t)
    BY <2>10 DEF MergeRuleFails, Unlock
  <2>11. CASE MergeDone(t)
    BY <2>11 DEF MergeDone, Unlock
  <2>12. CASE PutDom(t)
    BY <2>12 DEF PutDom, Put
  <2>13. CASE ReplaceDomain(t)
    BY <2>13 DEF ReplaceDomain, Put
  <2>14. CASE AssignDomain(t)
    BY <2>14 DEF AssignDomain
  <2>15. CASE CommitCreds(t)
    BY <2>15 DEF CommitCreds, PutCred
  <2>16. CASE AbortCreds(t)
    BY <2>16 DEF AbortCreds, PutCred
  <2>17. CASE TaskIsScoped(t)
    BY <2>17 DEF TaskIsScoped, DomainOf
  <2>18. CASE DomChild(t)
    BY <2>18 DEF DomChild, DomainOf
  <2>19. CASE DomainScopeLe(t)
    BY <2>19 DEF DomainScopeLe, ScopeDecided
  <2> QED BY <1>4, <2>1, <2>2, <2>3, <2>4, <2>5, <2>6, <2>7, <2>8, <2>9, <2>10, <2>11, <2>12, <2>13, <2>14, <2>15, <2>16, <2>17, <2>18, <2>19 DEF KernelStep
<1>5. ASSUME NEW t \in Threads, FreeStep(t) PROVE Control'
  <2>1. CASE FreeRuleset(t)
    BY <2>1 DEF FreeRuleset
  <2>2. CASE PutHierarchy(t)
    BY <2>2 DEF PutHierarchy
  <2>3. CASE Kfree(t)
    BY <2>3 DEF Kfree
  <2> QED BY <1>5, <2>1, <2>2, <2>3 DEF FreeStep
<1>6. ASSUME NEW c \in Creds, CredFree(c) PROVE Control'
  BY <1>6 DEF CredFree
<1>7. ASSUME NEW r \in Rulesets, FreeRulesetWork(r) PROVE Control'
  BY <1>7 DEF FreeRulesetWork
<1>8. CASE UNCHANGED vars
  BY <1>8 DEF vars
<1> QED BY <1>1, <1>2, <1>3, <1>4, <1>5, <1>6, <1>7, <1>8 DEF Next

\* The second domain of a ptrace check is read.
LEMMA DomChildLocals ==
    ASSUME Core, NEW t \in Tasks, DomChild(t)
    PROVE  Ptracing'
<1>0. Types /\ Ptracing /\ pc[t] = "dom_child"
  BY DEF Core, DomChild, At
<1>1. PICK d : d = DomainOf(pt[t].child)
  OBVIOUS
<1>2. PICK w : w = IF d = NULL THEN NULL ELSE hier[d]
  OBVIOUS
<1>3. pt' = [pt EXCEPT ![t].dom_child = d, ![t].walker = w] /\ pc' = [pc EXCEPT ![t] = "domain_scope_le"]
      /\ UNCHANGED tcred
  BY <1>1, <1>2 DEF DomChild, Goto, cvars
<1>4. /\ pt'[t].parent = pt[t].parent /\ pt'[t].child = pt[t].child
      /\ pt'[t].dom_child = d /\ pt'[t].walker = w
      /\ \A u \in Tasks : u # t => pt'[u] = pt[u]
  BY <1>0, <1>3 DEF Types, PtraceCall
<1>5. pc'[t] = "domain_scope_le" /\ \A u \in Tasks : u # t => pc'[u] = pc[u]
  BY <1>0, <1>3 DEF Types, Threads
<1>6. PtraceLocals(t)'
  BY <1>0, <1>2, <1>3, <1>4, <1>5 DEF Ptracing, PtraceLocals, PtraceLabels
<1>7. ASSUME NEW u \in Tasks, u # t PROVE PtraceLocals(u)'
  <2>1. PtraceLocals(u)
    BY <1>0 DEF Ptracing
  <2>2. pt'[u] = pt[u] /\ pc'[u] = pc[u] /\ tcred' = tcred
    BY <1>3, <1>4, <1>5, <1>7
  <2> QED BY ONLY <2>1, <2>2 DEF PtraceLocals
<1> QED BY <1>6, <1>7 DEF Ptracing

\* So does every step with the locals of the ptrace checks.
LEMMA PtracingStep ==
    ASSUME Core, [Next]_vars
    PROVE  Ptracing'
<1> USE RulesetAssumption DEF Core, Types, Control, Ptracing, FreeLocals,
    CallLocals, PtraceLocals, PtraceCall, NoPtrace, Labels, CallLabels,
    DomainLabels, WalkLabels, PtraceLabels, FreeLabels,
        Returns, Threads, Prepared, Label, OrNull, At, Goto, Idle,
        rvars, hvars, cvars, locals, frvars, ptvars, ghosts, Alloc
<1>1. ASSUME NEW t \in Tasks, AllocStep(t) PROVE Ptracing'
  <2>1. ASSUME NEW r \in Rulesets, NEW handled \in SUBSET Access, CreateRuleset(t, r, handled)
        PROVE  Ptracing'
    BY <2>1 DEF CreateRuleset
  <2>2. ASSUME NEW r \in Rulesets, NEW handled \in SUBSET Access, CreateRulesetNoFd(t, r, handled)
        PROVE  Ptracing'
    BY <2>2 DEF CreateRulesetNoFd
  <2>3. ASSUME NEW r \in Rulesets, NEW h \in Hierarchies, CreateDomain(t, r, h)
        PROVE  Ptracing'
    BY <2>3 DEF CreateDomain
  <2>4. ASSUME NEW r \in Rulesets, CreateHierarchyFails(t, r)
        PROVE  Ptracing'
    BY <2>4 DEF CreateHierarchyFails
  <2> QED BY <1>1, <2>1, <2>2, <2>3, <2>4 DEF AllocStep
<1>2. ASSUME NEW t \in Tasks, CallStep(t) PROVE Ptracing'
  <2>1. ASSUME NEW r \in Rulesets, NEW o \in Objects, NEW allowed \in SUBSET Access,
             AddRule(t, r, o, allowed)
        PROVE  Ptracing'
    BY <2>1 DEF AddRule, Get
  <2>2. ASSUME NEW r \in Rulesets, Close(t, r)
        PROVE  Ptracing'
    BY <2>2 DEF Close, Put
  <2>3. ASSUME NEW r \in Rulesets, RestrictSelf(t, r)
        PROVE  Ptracing'
    BY <2>3 DEF RestrictSelf, Get
  <2>4. ASSUME NEW c \in Creds, ChangeCreds(t, c)
        PROVE  Ptracing'
    BY <2>4 DEF ChangeCreds, GetDomain, DomainOf
  <2>5. ASSUME NEW c \in Creds, NEW u \in Tasks, Fork(t, u, c)
        PROVE  Ptracing'
    BY <2>5 DEF Fork, NewCred, GetDomain, DomainOf
  <2>6. ASSUME NEW u \in Tasks, CloneThread(t, u)
        PROVE  Ptracing'
    BY <2>6 DEF CloneThread
  <2>7. ASSUME NEW p \in Tasks, NEW c \in Tasks, TaskPtrace(t, p, c)
        PROVE  Ptracing'
    BY <2>7 DEF TaskPtrace
  <2>8. CASE Exit(t)
    BY <2>8 DEF Exit, PutCred
  <2> QED BY <1>2, <2>1, <2>2, <2>3, <2>4, <2>5, <2>6, <2>7, <2>8 DEF CallStep
<1>3. ASSUME NEW t \in Tasks, LockStep(t) PROVE Ptracing'
  <2>1. CASE AppendFsRule(t)
    BY <2>1 DEF AppendFsRule, InsertRule
  <2>2. CASE InheritLock(t)
    BY <2>2 DEF InheritLock, Unlocked, Lock, RulesOf
  <2>3. CASE MergeLock(t)
    BY <2>3 DEF MergeLock, Unlocked, Lock, RulesOf
  <2> QED BY <1>3, <2>1, <2>2, <2>3 DEF LockStep
<1>4. ASSUME NEW t \in Tasks, KernelStep(t) PROVE Ptracing'
  <2>1. CASE AppendFsRuleFails(t)
    BY <2>1 DEF AppendFsRuleFails
  <2>2. CASE PutRuleset(t)
    BY <2>2 DEF PutRuleset, Put
  <2>3. ASSUME NEW c \in Creds, PrepareCreds(t, c)
        PROVE  Ptracing'
    BY <2>3 DEF PrepareCreds, NewCred, GetDomain, DomainOf
  <2>4. CASE PrepareCredsFails(t)
    BY <2>4 DEF PrepareCredsFails
  <2>5. CASE MergeFails(t)
    BY <2>5 DEF MergeFails
  <2>6. ASSUME NEW o \in Objects, InheritRule(t, o)
        PROVE  Ptracing'
    BY <2>6 DEF InheritRule, InsertRule
  <2>7. ASSUME NEW o \in Objects, MergeRule(t, o)
        PROVE  Ptracing'
    BY <2>7 DEF MergeRule, InsertRule
  <2>8. CASE InheritFails(t)
    BY <2>8 DEF InheritFails, Unlock
  <2>9. CASE InheritDone(t)
    BY <2>9 DEF InheritDone, Unlock
  <2>10. CASE MergeRuleFails(t)
    BY <2>10 DEF MergeRuleFails, Unlock
  <2>11. CASE MergeDone(t)
    BY <2>11 DEF MergeDone, Unlock
  <2>12. CASE PutDom(t)
    BY <2>12 DEF PutDom, Put
  <2>13. CASE ReplaceDomain(t)
    BY <2>13 DEF ReplaceDomain, Put
  <2>14. CASE AssignDomain(t)
    BY <2>14 DEF AssignDomain
  <2>15. CASE CommitCreds(t)
    BY <2>15 DEF CommitCreds, PutCred
  <2>16. CASE AbortCreds(t)
    BY <2>16 DEF AbortCreds, PutCred
  <2>17. CASE TaskIsScoped(t)
    BY <2>17 DEF TaskIsScoped, DomainOf
  <2>18. CASE DomChild(t)
    BY <2>18, DomChildLocals DEF Core
  <2>19. CASE DomainScopeLe(t)
    BY <2>19 DEF DomainScopeLe, ScopeDecided
  <2> QED BY <1>4, <2>1, <2>2, <2>3, <2>4, <2>5, <2>6, <2>7, <2>8, <2>9, <2>10, <2>11, <2>12, <2>13, <2>14, <2>15, <2>16, <2>17, <2>18, <2>19 DEF KernelStep
<1>5. ASSUME NEW t \in Threads, FreeStep(t) PROVE Ptracing'
  <2>1. CASE FreeRuleset(t)
    BY <2>1 DEF FreeRuleset
  <2>2. CASE PutHierarchy(t)
    BY <2>2 DEF PutHierarchy
  <2>3. CASE Kfree(t)
    BY <2>3 DEF Kfree
  <2> QED BY <1>5, <2>1, <2>2, <2>3 DEF FreeStep
<1>6. ASSUME NEW c \in Creds, CredFree(c) PROVE Ptracing'
  BY <1>6 DEF CredFree
<1>7. ASSUME NEW r \in Rulesets, FreeRulesetWork(r) PROVE Ptracing'
  BY <1>7 DEF FreeRulesetWork
<1>8. CASE UNCHANGED vars
  BY <1>8 DEF vars
<1> QED BY <1>1, <1>2, <1>3, <1>4, <1>5, <1>6, <1>7, <1>8 DEF Next

\* Types, control and ptrace checks, taken together.
LEMMA CoreKept == Core /\ ParentKnown /\ [Next]_vars => Core'
BY TypesStep, ControlStep, PtracingStep DEF Core
-----------------------------------------------------------------------------
(* Credentials: one under construction belongs to its task alone.          *)

CredsOK ==
    /\ \A t \in Tasks : tcred[t] # NULL => cstate[tcred[t]] = "live"
    /\ \A t \in Tasks : ncred[t] # NULL => cstate[ncred[t]] = "live"
    /\ \A t, u \in Tasks : ncred[t] # NULL => ncred[t] # tcred[u]
    /\ \A t, u \in Tasks : ncred[t] # NULL /\ ncred[t] = ncred[u] => t = u
    /\ \A c \in Creds : cstate[c] = "free" => cdom[c] = NULL

credvars == <<cstate, cdom, tcred, ncred>>

\* The steps that write a credential or a pointer to one.
CredStep(t) ==
    \/ \E c \in Creds : PrepareCreds(t, c) \/ ChangeCreds(t, c)
    \/ \E c \in Creds, u \in Tasks : Fork(t, u, c)
    \/ \E u \in Tasks : CloneThread(t, u)
    \/ ReplaceDomain(t) \/ AssignDomain(t) \/ CommitCreds(t) \/ AbortCreds(t) \/ Exit(t)

\* No other step does.
LEMMA CredSteps ==
    ASSUME [Next]_vars
    PROVE  \/ UNCHANGED credvars
           \/ \E t \in Tasks : CredStep(t)
           \/ \E c \in Creds : CredFree(c)
<1> USE DEF credvars, rvars, hvars, cvars, locals, frvars, ptvars, ghosts
<1>1. ASSUME NEW t \in Tasks, AllocStep(t) PROVE UNCHANGED credvars \/ CredStep(t)
  BY <1>1 DEF AllocStep, CredStep, CreateRuleset, CreateRulesetNoFd, CreateDomain,
     CreateHierarchyFails
<1>2. ASSUME NEW t \in Tasks, CallStep(t) PROVE UNCHANGED credvars \/ CredStep(t)
  BY <1>2 DEF CallStep, CredStep, AddRule, Close, Put, RestrictSelf, TaskPtrace
<1>3. ASSUME NEW t \in Tasks, LockStep(t) PROVE UNCHANGED credvars \/ CredStep(t)
  BY <1>3 DEF LockStep, CredStep, AppendFsRule, InheritLock, MergeLock
<1>4. ASSUME NEW t \in Tasks, KernelStep(t) PROVE UNCHANGED credvars \/ CredStep(t)
  BY <1>4 DEF KernelStep, CredStep, AppendFsRuleFails, PutRuleset, Put,
     PrepareCredsFails, MergeFails, InheritRule, MergeRule, InheritFails,
     InheritDone, MergeRuleFails, MergeDone, PutDom, TaskIsScoped, DomChild,
     DomainScopeLe
<1>5. ASSUME NEW t \in Threads, FreeStep(t) PROVE UNCHANGED credvars
  BY <1>5 DEF FreeStep, FreeRuleset, PutHierarchy, Kfree
<1>6. ASSUME NEW r \in Rulesets, FreeRulesetWork(r) PROVE UNCHANGED credvars
  BY <1>6 DEF FreeRulesetWork
<1>7. CASE UNCHANGED vars
  BY <1>7 DEF vars
<1> QED BY <1>1, <1>2, <1>3, <1>4, <1>5, <1>6, <1>7 DEF Next

\* Initially there is one credential, of the one task.
LEMMA CredsInit == Init => CredsOK
BY RulesetAssumption DEF Init, CredsOK

\* PutCred() leaves the credentials that are in use alone.
LEMMA PutCredUsed ==
    ASSUME Core, NEW c, NEW tcreds, NEW ncreds, PutCred(c, tcreds, ncreds)
    PROVE  /\ \A t \in Tasks : tcreds[t] \in Creds => cstate'[tcreds[t]] = cstate[tcreds[t]]
           /\ \A t \in Tasks : ncreds[t] \in Creds => cstate'[ncreds[t]] = cstate[ncreds[t]]
           /\ \A d \in Creds : cstate'[d] = cstate[d] \/ cstate'[d] = "rcu"
<1>1. CASE UNCHANGED <<cstate, cgp>>
  BY <1>1
<1>2. CASE ~UNCHANGED <<cstate, cgp>>
  <2>1. /\ cstate' = [cstate EXCEPT ![c] = "rcu"]
        /\ \A t \in Tasks : tcreds[t] # c /\ ncreds[t] # c
    BY <1>2 DEF PutCred
  <2> QED BY <2>1 DEF Core, Types
<1> QED BY <1>1, <1>2

\* prepare_creds() to commit_creds() or abort_creds(), and the calls that
\* replace a credential at once, keep a credential under construction private.
LEMMA CredsStep ==
    ASSUME Core, CredsOK, [Next]_vars
    PROVE  CredsOK'
<1>0. Types
  BY DEF Core
<1> USE RulesetAssumption
<1>1. CASE UNCHANGED credvars
  BY <1>1 DEF CredsOK, credvars
<1>2. ASSUME NEW t \in Tasks, NEW c \in Creds, PrepareCreds(t, c) PROVE CredsOK'
  BY <1>0, <1>2 DEF PrepareCreds, NewCred, CredsOK, Types, OrNull
<1>3. ASSUME NEW t \in Tasks, NEW c \in Creds, ChangeCreds(t, c) PROVE CredsOK'
  <2> DEFINE old == tcred[t]
  <2>1. /\ cstate[c] = "free" /\ old \in Creds /\ old # c
        /\ cdom' = [cdom EXCEPT ![c] = DomainOf(t)] /\ tcred' = [tcred EXCEPT ![t] = c]
        /\ UNCHANGED ncred
    BY <1>0, <1>3 DEF ChangeCreds, Idle, Types, OrNull, CredsOK, locals
  <2>2. cstate' = [cstate EXCEPT ![c] = "live",
                ![old] = IF \E u \in Tasks \ {t} : tcred[u] = old THEN cstate[old] ELSE "rcu"]
    BY <2>1, <1>0, <1>3 DEF ChangeCreds, Types
  <2> HIDE DEF old
  <2>3. /\ cstate'[c] = "live"
        /\ \A d \in Creds : d # c /\ d # old => cstate'[d] = cstate[d]
        /\ (\E u \in Tasks \ {t} : tcred[u] = old) => cstate'[old] = cstate[old]
        /\ cstate'[old] \in {cstate[old], "rcu"}
    BY <1>0, <2>1, <2>2 DEF Types
  <2>4. \A u \in Tasks : ncred[u] # NULL => ncred[u] # c /\ ncred[u] # old /\ ncred[u] \in Creds
    BY <1>0, <2>1 DEF CredsOK, Types, OrNull, old
  <2>5. \A u \in Tasks : u # t => tcred'[u] = tcred[u]
    BY <1>0, <2>1 DEF Types
  <2>6. \A u \in Tasks : u # t /\ tcred[u] # NULL => tcred[u] # c /\ tcred[u] \in Creds
                                            /\ cstate'[tcred[u]] = "live"
    BY <1>0, <2>1, <2>3 DEF CredsOK, Types, OrNull
  <2>7. tcred'[t] = c
    BY <1>0, <2>1 DEF Types
  <2>8. \A d \in Creds : cstate'[d] = "free" => cdom'[d] = NULL
    BY <1>0, <2>1, <2>3 DEF CredsOK, Types
  <2> QED BY <2>1, <2>3, <2>4, <2>5, <2>6, <2>7, <2>8 DEF CredsOK
<1>4. ASSUME NEW t \in Tasks, NEW c \in Creds, NEW u \in Tasks, Fork(t, u, c) PROVE CredsOK'
  BY <1>0, <1>4 DEF Fork, NewCred, CredsOK, Types, OrNull, locals
<1>5. ASSUME NEW t \in Tasks, NEW u \in Tasks, CloneThread(t, u) PROVE CredsOK'
  BY <1>0, <1>5 DEF CloneThread, Idle, CredsOK, Types, OrNull, locals
<1>6. ASSUME NEW t \in Tasks, ReplaceDomain(t) \/ AssignDomain(t) PROVE CredsOK'
  <2>1. ncred[t] \in Creds
    BY <1>6, Using DEF ReplaceDomain, AssignDomain, At, Prepared, DomainLabels
  <2> QED BY <1>0, <1>6, <2>1 DEF ReplaceDomain, AssignDomain, CredsOK, Types, OrNull, locals
<1>7. ASSUME NEW t \in Tasks, CommitCreds(t) PROVE CredsOK'
  <2>1. ncred[t] \in Creds
    BY <1>7, Using DEF CommitCreds, At, Prepared, DomainLabels
  <2>2. /\ PutCred(tcred[t], tcred', ncred') /\ UNCHANGED cdom
        /\ tcred' = [tcred EXCEPT ![t] = ncred[t]] /\ ncred' = [ncred EXCEPT ![t] = NULL]
    BY <1>7 DEF CommitCreds
  <2>3. /\ \A u \in Tasks : tcred'[u] \in Creds => cstate'[tcred'[u]] = cstate[tcred'[u]]
        /\ \A u \in Tasks : ncred'[u] \in Creds => cstate'[ncred'[u]] = cstate[ncred'[u]]
        /\ \A d \in Creds : cstate'[d] = cstate[d] \/ cstate'[d] = "rcu"
    <3>1. PICK a, b, d : a = tcred' /\ b = ncred' /\ d = tcred[t]
      OBVIOUS
    <3>2. PutCred(d, a, b)
      BY <2>2, <3>1 DEF PutCred
    <3>3. /\ \A u \in Tasks : a[u] \in Creds => cstate'[a[u]] = cstate[a[u]]
          /\ \A u \in Tasks : b[u] \in Creds => cstate'[b[u]] = cstate[b[u]]
          /\ \A e \in Creds : cstate'[e] = cstate[e] \/ cstate'[e] = "rcu"
      BY <3>2, PutCredUsed
    <3> QED BY <3>1, <3>3
  <2> QED BY <1>0, <2>1, <2>2, <2>3 DEF CredsOK, Types, OrNull
<1>8. ASSUME NEW t \in Tasks, AbortCreds(t) PROVE CredsOK'
  <2>2. /\ PutCred(ncred[t], tcred, ncred') /\ UNCHANGED <<tcred, cdom>>
        /\ ncred' = [ncred EXCEPT ![t] = NULL]
    BY <1>8 DEF AbortCreds
  <2>3. /\ \A u \in Tasks : tcred[u] \in Creds => cstate'[tcred[u]] = cstate[tcred[u]]
        /\ \A u \in Tasks : ncred'[u] \in Creds => cstate'[ncred'[u]] = cstate[ncred'[u]]
        /\ \A d \in Creds : cstate'[d] = cstate[d] \/ cstate'[d] = "rcu"
    <3>1. PICK a, b, d : a = tcred /\ b = ncred' /\ d = ncred[t]
      OBVIOUS
    <3>2. PutCred(d, a, b)
      BY <2>2, <3>1 DEF PutCred
    <3>3. /\ \A u \in Tasks : a[u] \in Creds => cstate'[a[u]] = cstate[a[u]]
          /\ \A u \in Tasks : b[u] \in Creds => cstate'[b[u]] = cstate[b[u]]
          /\ \A e \in Creds : cstate'[e] = cstate[e] \/ cstate'[e] = "rcu"
      BY <3>2, PutCredUsed
    <3> QED BY <3>1, <3>3
  <2> QED BY <1>0, <2>2, <2>3 DEF CredsOK, Types, OrNull
<1>9. ASSUME NEW t \in Tasks, Exit(t) PROVE CredsOK'
  <2>2. /\ PutCred(tcred[t], tcred', ncred) /\ UNCHANGED <<ncred, cdom>>
        /\ tcred' = [tcred EXCEPT ![t] = NULL]
    BY <1>9 DEF Exit, locals
  <2>3. /\ \A u \in Tasks : tcred'[u] \in Creds => cstate'[tcred'[u]] = cstate[tcred'[u]]
        /\ \A u \in Tasks : ncred[u] \in Creds => cstate'[ncred[u]] = cstate[ncred[u]]
        /\ \A d \in Creds : cstate'[d] = cstate[d] \/ cstate'[d] = "rcu"
    <3>1. PICK a, b, d : a = tcred' /\ b = ncred /\ d = tcred[t]
      OBVIOUS
    <3>2. PutCred(d, a, b)
      BY <2>2, <3>1 DEF PutCred
    <3>3. /\ \A u \in Tasks : a[u] \in Creds => cstate'[a[u]] = cstate[a[u]]
          /\ \A u \in Tasks : b[u] \in Creds => cstate'[b[u]] = cstate[b[u]]
          /\ \A e \in Creds : cstate'[e] = cstate[e] \/ cstate'[e] = "rcu"
      BY <3>2, PutCredUsed
    <3> QED BY <3>1, <3>3
  <2> QED BY <1>0, <2>2, <2>3 DEF CredsOK, Types, OrNull
<1>10. ASSUME NEW c \in Creds, CredFree(c) PROVE CredsOK'
  BY <1>0, <1>10 DEF CredFree, CredsOK, Types, OrNull, locals
<1> QED BY <1>1, <1>2, <1>3, <1>4, <1>5, <1>6, <1>7, <1>8, <1>9, <1>10, CredSteps DEF CredStep
-----------------------------------------------------------------------------
(* References to rulesets, and who frees a ruleset.                        *)

UsagesOK ==
    /\ rusage \in [Rulesets -> Nat]
    /\ RulesetUsageExact
    /\ \A r \in Rulesets : (rstate[r] = "live") <=> (rusage[r] > 0)
    /\ \A t \in Threads : fr[t] # NULL => rstate[fr[t]] = "freeing"
    /\ \A t, u \in Threads : fr[t] # NULL /\ fr[t] = fr[u] => t = u

Is(x, y) == IF x = y THEN 1 ELSE 0

\* One more or one less: how a count changes when one value of a function does.
LEMMA CountMove ==
    ASSUME NEW S, IsFiniteSet(S), NEW f, NEW g, DOMAIN f = S, NEW s \in S, NEW v,
           g = [f EXCEPT ![s] = v], NEW r
    PROVE  /\ Count({x \in S : f[x] = r}) \in Nat
           /\ Count({x \in S : g[x] = r}) \in Nat
           /\ Count({x \in S : g[x] = r})
                 = Count({x \in S : f[x] = r}) - Is(f[s], r) + Is(v, r)
<1> DEFINE F == {x \in S : f[x] = r}
           G == {x \in S : g[x] = r}
<1>1. IsFiniteSet(F) /\ IsFiniteSet(G)
  BY FS_Subset
<1>2. Count(F) \in Nat /\ Count(G) \in Nat
  BY <1>1, FS_CardinalityType DEF Count
<1>3. \A x \in S : x # s => g[x] = f[x]
  OBVIOUS
<1>4. g[s] = v
  OBVIOUS
<1>5. CASE f[s] = r /\ v # r
  <2>1. G = F \ {s} /\ s \in F
    BY <1>3, <1>4, <1>5
  <2>2. Cardinality(F \ {s}) = Cardinality(F) - 1
    BY <1>1, <2>1, FS_RemoveElement
  <2> QED BY <1>2, <1>5, <2>1, <2>2 DEF Is, Count
<1>6. CASE f[s] # r /\ v = r
  <2>1. G = F \cup {s} /\ s \notin F
    BY <1>3, <1>4, <1>6
  <2>2. Cardinality(F \cup {s}) = Cardinality(F) + 1
    BY <1>1, <2>1, FS_AddElement
  <2>3. Count(G) = Count(F) + 1
    BY <2>1, <2>2 DEF Count
  <2> HIDE DEF F, G
  <2>4. Count(G) = Count(F) - Is(f[s], r) + Is(v, r)
    BY <1>2, <1>6, <2>3 DEF Is
  <2> QED BY <1>2, <2>4 DEF F, G
<1>7. CASE (f[s] = r) <=> (v = r)
  <2>1. G = F
    BY <1>3, <1>4, <1>7
  <2> QED BY <1>2, <1>7, <2>1 DEF Is
<1> QED BY <1>5, <1>6, <1>7

\* Something is counted exactly if it is there.
LEMMA CountSome ==
    ASSUME NEW S, IsFiniteSet(S), NEW f, NEW r
    PROVE  /\ Count({x \in S : f[x] = r}) \in Nat
           /\ (Count({x \in S : f[x] = r}) = 0) <=> (\A x \in S : f[x] # r)
<1>1. IsFiniteSet({x \in S : f[x] = r})
  BY FS_Subset
<1>2. (Cardinality({x \in S : f[x] = r}) = 0) <=> ({x \in S : f[x] = r} = {})
  BY <1>1, FS_EmptySet
<1> QED BY <1>1, <1>2, FS_CardinalityType DEF Count

\* An open file is one reference.
LEMMA CountFd ==
    ASSUME NEW S, NEW r
    PROVE  Count({r} \cap S) = IF r \in S THEN 1 ELSE 0
<1>1. CASE r \in S
  <2>1. {r} \cap S = {r}
    BY <1>1
  <2> QED BY <1>1, <2>1, FS_Singleton DEF Count
<1>2. CASE r \notin S
  <2>1. {r} \cap S = {}
    BY <1>2
  <2> QED BY <1>2, <2>1, FS_EmptySet DEF Count
<1> QED BY <1>1, <1>2

\* What a count of 0 means, and what a pointer means for the count.
LEMMA Held ==
    ASSUME Types, UsagesOK, NEW r \in Rulesets
    PROVE  /\ rusage[r] = 0 => /\ r \notin fd
                               /\ \A t \in Tasks : rs[t] # r /\ newdom[t] # r
                               /\ \A c \in Creds : cdom[c] # r
           /\ rusage[r] \in Nat
<1>1. rusage[r] = Count({r} \cap fd) + Count({t \in Tasks : rs[t] = r})
                   + Count({t \in Tasks : newdom[t] = r})
                   + Count({c \in Creds : cdom[c] = r})
  BY DEF UsagesOK, RulesetUsageExact
<1>2. Count({r} \cap fd) = IF r \in fd THEN 1 ELSE 0
  BY CountFd
<1>3. /\ Count({t \in Tasks : rs[t] = r}) \in Nat
      /\ (Count({t \in Tasks : rs[t] = r}) = 0) <=> (\A t \in Tasks : rs[t] # r)
  BY RulesetAssumption, CountSome
<1>4. /\ Count({t \in Tasks : newdom[t] = r}) \in Nat
      /\ (Count({t \in Tasks : newdom[t] = r}) = 0) <=> (\A t \in Tasks : newdom[t] # r)
  BY RulesetAssumption, CountSome
<1>5. /\ Count({c \in Creds : cdom[c] = r}) \in Nat
      /\ (Count({c \in Creds : cdom[c] = r}) = 0) <=> (\A c \in Creds : cdom[c] # r)
  BY RulesetAssumption, CountSome
<1>6. PICK a, b, c, d :
        /\ a = Count({r} \cap fd) /\ b = Count({t \in Tasks : rs[t] = r})
        /\ c = Count({t \in Tasks : newdom[t] = r}) /\ d = Count({k \in Creds : cdom[k] = r})
  OBVIOUS
<1>7. /\ a \in Nat /\ b \in Nat /\ c \in Nat /\ d \in Nat /\ rusage[r] = a + b + c + d
      /\ ((a = 0) <=> (r \notin fd)) /\ ((b = 0) <=> (\A t \in Tasks : rs[t] # r))
      /\ ((c = 0) <=> (\A t \in Tasks : newdom[t] # r))
      /\ ((d = 0) <=> (\A k \in Creds : cdom[k] # r))
  BY <1>1, <1>2, <1>3, <1>4, <1>5, <1>6
<1>8. rusage[r] \in Nat /\ (rusage[r] = 0 => a = 0 /\ b = 0 /\ c = 0 /\ d = 0)
  BY <1>7
<1> QED BY <1>7, <1>8

RsRefs(r) == Count({t \in Tasks : rs[t] = r})
NewRefs(r) == Count({t \in Tasks : newdom[t] = r})
CredRefs(r) == Count({c \in Creds : cdom[c] = r})
FdRefs(r) == Count({r} \cap fd)

\* One ruleset got from a descriptor changes.
LEMMA RsMove ==
    ASSUME Types, NEW t \in Tasks, NEW v, rs' = [rs EXCEPT ![t] = v], NEW r
    PROVE  RsRefs(r)' = RsRefs(r) - Is(rs[t], r) + Is(v, r)
<1>1. PICK f, g : f = rs /\ g = rs'
  OBVIOUS
<1>2. DOMAIN f = Tasks /\ g = [f EXCEPT ![t] = v] /\ IsFiniteSet(Tasks)
  BY <1>1, RulesetAssumption DEF Types
<1>3. Count({k \in Tasks : g[k] = r})
         = Count({k \in Tasks : f[k] = r}) - Is(f[t], r) + Is(v, r)
  BY ONLY <1>2, t \in Tasks, CountMove
<1> QED BY <1>1, <1>3 DEF RsRefs

\* One new_dom changes.
LEMMA NewMove ==
    ASSUME Types, NEW t \in Tasks, NEW v, newdom' = [newdom EXCEPT ![t] = v], NEW r
    PROVE  NewRefs(r)' = NewRefs(r) - Is(newdom[t], r) + Is(v, r)
<1>1. PICK f, g : f = newdom /\ g = newdom'
  OBVIOUS
<1>2. DOMAIN f = Tasks /\ g = [f EXCEPT ![t] = v] /\ IsFiniteSet(Tasks)
  BY <1>1, RulesetAssumption DEF Types
<1>3. Count({k \in Tasks : g[k] = r})
         = Count({k \in Tasks : f[k] = r}) - Is(f[t], r) + Is(v, r)
  BY ONLY <1>2, t \in Tasks, CountMove
<1> QED BY <1>1, <1>3 DEF NewRefs

\* One credential's domain changes.
LEMMA CredMove ==
    ASSUME Types, NEW c \in Creds, NEW v, cdom' = [cdom EXCEPT ![c] = v], NEW r
    PROVE  CredRefs(r)' = CredRefs(r) - Is(cdom[c], r) + Is(v, r)
<1>1. PICK f, g : f = cdom /\ g = cdom'
  OBVIOUS
<1>2. DOMAIN f = Creds /\ g = [f EXCEPT ![c] = v] /\ IsFiniteSet(Creds)
  BY <1>1, RulesetAssumption DEF Types
<1>3. Count({k \in Creds : g[k] = r})
         = Count({k \in Creds : f[k] = r}) - Is(f[c], r) + Is(v, r)
  BY ONLY <1>2, c \in Creds, CountMove
<1> QED BY <1>1, <1>3 DEF CredRefs

\* An open file counts once.
LEMMA FdMove ==
    ASSUME NEW r
    PROVE  FdRefs(r) = IF r \in fd THEN 1 ELSE 0
BY CountFd DEF FdRefs

\* The counts are numbers.
LEMMA RefsNat ==
    ASSUME NEW r
    PROVE  RsRefs(r) \in Nat /\ NewRefs(r) \in Nat /\ CredRefs(r) \in Nat /\ FdRefs(r) \in Nat
<1>1. RsRefs(r) \in Nat
  BY RulesetAssumption, CountSome DEF RsRefs
<1>2. NewRefs(r) \in Nat
  BY RulesetAssumption, CountSome DEF NewRefs
<1>3. CredRefs(r) \in Nat
  BY RulesetAssumption, CountSome DEF CredRefs
<1> QED BY <1>1, <1>2, <1>3, FdMove

\* The count of one ruleset.
Exact(r) == rusage[r] = FdRefs(r) + RsRefs(r) + NewRefs(r) + CredRefs(r)

\* The counts of rulesets, in the words of the specification.
LEMMA ExactMeans == RulesetUsageExact <=> \A r \in Rulesets : Exact(r)
BY DEF RulesetUsageExact, Exact, FdRefs, RsRefs, NewRefs, CredRefs

usagevars == <<rusage, fd, rs, newdom, cdom, rstate, fr>>

\* The steps that write a reference to a ruleset or its count.
UsageStep(t) ==
    \/ \E r \in Rulesets :
          \/ \E handled \in SUBSET Access :
                CreateRuleset(t, r, handled) \/ CreateRulesetNoFd(t, r, handled)
          \/ \E h \in Hierarchies : CreateDomain(t, r, h)
          \/ CreateHierarchyFails(t, r)
          \/ \E o \in Objects, allowed \in SUBSET Access : AddRule(t, r, o, allowed)
          \/ Close(t, r) \/ RestrictSelf(t, r)
    \/ \E c \in Creds : PrepareCreds(t, c) \/ ChangeCreds(t, c)
    \/ \E c \in Creds, u \in Tasks : Fork(t, u, c)
    \/ PutRuleset(t) \/ PutDom(t) \/ ReplaceDomain(t) \/ AssignDomain(t)

\* No other step changes a count, or what it counts.
LEMMA UsageSteps ==
    ASSUME [Next]_vars
    PROVE  \/ UNCHANGED usagevars
           \/ \E t \in Tasks : UsageStep(t)
           \/ \E t \in Threads : Kfree(t)
           \/ \E c \in Creds : CredFree(c)
           \/ \E r \in Rulesets : FreeRulesetWork(r)
<1> USE DEF usagevars, rvars, hvars, cvars, locals, frvars, ptvars, ghosts
<1>1. ASSUME NEW t \in Tasks, AllocStep(t) PROVE UNCHANGED usagevars \/ UsageStep(t)
  BY <1>1 DEF AllocStep, UsageStep
<1>2. ASSUME NEW t \in Tasks, CallStep(t) PROVE UNCHANGED usagevars \/ UsageStep(t)
  BY <1>2 DEF CallStep, UsageStep, CloneThread, TaskPtrace, Exit
<1>3. ASSUME NEW t \in Tasks, LockStep(t) PROVE UNCHANGED usagevars \/ UsageStep(t)
  BY <1>3 DEF LockStep, AppendFsRule, InheritLock, MergeLock
<1>4. ASSUME NEW t \in Tasks, KernelStep(t) PROVE UNCHANGED usagevars \/ UsageStep(t)
  BY <1>4 DEF KernelStep, UsageStep, AppendFsRuleFails, PrepareCredsFails,
     MergeFails, InheritRule,
       MergeRule, InheritFails, InheritDone, MergeRuleFails, MergeDone, CommitCreds,
          AbortCreds,
       TaskIsScoped, DomChild, DomainScopeLe
<1>5. ASSUME NEW t \in Threads, FreeStep(t) PROVE UNCHANGED usagevars \/ Kfree(t)
  BY <1>5 DEF FreeStep, FreeRuleset, PutHierarchy
<1>6. CASE UNCHANGED vars
  BY <1>6 DEF vars
<1> QED BY <1>1, <1>2, <1>3, <1>4, <1>5, <1>6 DEF Next

\* Nothing is referred to at first.
LEMMA UsagesInit == Init => UsagesOK
<1> SUFFICES ASSUME Init PROVE UsagesOK
  OBVIOUS
<1>1. ASSUME NEW r \in Rulesets PROVE Exact(r)
  <2>1. \A c \in Creds : cdom[c] # r
    BY RulesetAssumption DEF Init
  <2>2. \A t \in Tasks : rs[t] # r /\ newdom[t] # r
    BY RulesetAssumption DEF Init
  <2>3. r \notin fd /\ rusage[r] = 0
    BY DEF Init
  <2>4. CredRefs(r) = 0
    <3>1. Count({c \in Creds : cdom[c] = r}) = 0
      <4>1. (Count({c \in Creds : cdom[c] = r}) = 0) <=> (\A c \in Creds : cdom[c] # r)
        BY RulesetAssumption, CountSome
      <4> QED BY <2>1, <4>1
    <3> QED BY <3>1 DEF CredRefs
  <2>5. RsRefs(r) = 0 /\ NewRefs(r) = 0
    <3>1. Count({t \in Tasks : rs[t] = r}) = 0
      <4>1. (Count({t \in Tasks : rs[t] = r}) = 0) <=> (\A t \in Tasks : rs[t] # r)
        BY RulesetAssumption, CountSome
      <4> QED BY <2>2, <4>1
    <3>2. Count({t \in Tasks : newdom[t] = r}) = 0
      <4>1. (Count({t \in Tasks : newdom[t] = r}) = 0) <=> (\A t \in Tasks : newdom[t] # r)
        BY RulesetAssumption, CountSome
      <4> QED BY <2>2, <4>1
    <3> QED BY <3>1, <3>2 DEF RsRefs, NewRefs
  <2> QED BY <2>3, <2>4, <2>5, FdMove DEF Exact
<1>2. RulesetUsageExact
  BY <1>1, ExactMeans
<1> QED BY <1>2, RulesetAssumption DEF Init, UsagesOK

\* The state and the count of a ruleset change together, and whoever drops
\* the last reference is the one to free it.
Freeing ==
    /\ \A r \in Rulesets : (rstate[r] = "live") <=> (rusage[r] > 0)
    /\ \A t \in Threads : fr[t] # NULL => rstate[fr[t]] = "freeing"
    /\ \A t, u \in Threads : fr[t] # NULL /\ fr[t] = fr[u] => t = u

UsageGoal ==
    /\ \A q \in Rulesets : Exact(q)
    /\ rusage = [q \in Rulesets |-> rusage[q]]
    /\ Freeing

\* What is shown of a step suffices.
LEMMA UsageGoalMeans == UsageGoal => UsagesOK
<1> SUFFICES ASSUME UsageGoal PROVE UsagesOK
  OBVIOUS
<1>1. \A q \in Rulesets : rusage[q] \in Nat
  BY RefsNat DEF UsageGoal, Exact
<1> QED BY <1>1, ExactMeans DEF UsageGoal, UsagesOK, Freeing

\* An allocated ruleset had no references.
LEMMA AllocKeeps ==
    ASSUME Types, UsagesOK, NEW r \in Rulesets, NEW layers, NEW h, Alloc(r, layers, h), UNCHANGED fr
    PROVE  /\ rusage[r] = 0 /\ Freeing'
           /\ rusage' = [rusage EXCEPT ![r] = 1]
           /\ r \notin fd /\ \A t \in Tasks : rs[t] # r /\ newdom[t] # r
           /\ \A c \in Creds : cdom[c] # r
<1>1. rstate[r] = "free" /\ rusage[r] \in Nat
  BY DEF Alloc, UsagesOK
<1>2. rusage[r] = 0
  BY <1>1 DEF UsagesOK
<1>3. Freeing'
  BY <1>1 DEF Alloc, UsagesOK, Types, Freeing, OrNull
<1> QED BY <1>2, <1>3, Held DEF Alloc

\* landlock_get_ruleset() of a live ruleset.
LEMMA GetKeeps ==
    ASSUME Types, UsagesOK, NEW r \in Rulesets, rusage[r] > 0, rusage' = [rusage EXCEPT ![r] = rusage[r] + 1],
           UNCHANGED <<rstate, fr>>
    PROVE  Freeing'
BY DEF UsagesOK, Types, Freeing, OrNull

\* landlock_put_ruleset().
LEMMA PutKeeps ==
    ASSUME Types, Control, UsagesOK, NEW t \in Threads, NEW r \in Rulesets, NEW next, Put(t, r, next),
           rusage[r] > 0, fr[t] = NULL
    PROVE  Freeing' /\ rusage' = [rusage EXCEPT ![r] = rusage[r] - 1]
<1>0. rusage[r] \in Nat /\ rstate[r] = "live"
  BY DEF UsagesOK
<1>1. rusage' = [rusage EXCEPT ![r] = rusage[r] - 1]
  BY DEF Put
<1>2. CASE rusage[r] = 1
  BY <1>0, <1>1, <1>2 DEF Put, UsagesOK, Types, Freeing, OrNull
<1>3. CASE rusage[r] # 1
  BY <1>0, <1>1, <1>3 DEF Put, UsagesOK, Types, Freeing, OrNull
<1> QED BY <1>1, <1>2, <1>3

\* What no step of the given kind touches is counted as before.
LEMMA RefsSame ==
    ASSUME NEW q
    PROVE  /\ UNCHANGED rs => RsRefs(q)' = RsRefs(q)
           /\ UNCHANGED newdom => NewRefs(q)' = NewRefs(q)
           /\ UNCHANGED cdom => CredRefs(q)' = CredRefs(q)
           /\ UNCHANGED fd => FdRefs(q)' = FdRefs(q)
BY DEF RsRefs, NewRefs, CredRefs, FdRefs

\* The same after a step.
LEMMA FdMoveNext ==
    ASSUME NEW r
    PROVE  FdRefs(r)' = IF r \in fd' THEN 1 ELSE 0
BY CountFd DEF FdRefs

\* Steps that allocate a ruleset or domain.
LEMMA UsagesStepAlloc ==
    ASSUME Core, UsagesOK, NEW t \in Tasks, NEW r \in Rulesets,
           \/ \E handled \in SUBSET Access :
                 CreateRuleset(t, r, handled) \/ CreateRulesetNoFd(t, r, handled)
           \/ \E h \in Hierarchies : CreateDomain(t, r, h)
           \/ CreateHierarchyFails(t, r)
    PROVE  UsageGoal'
<1> USE DEF rvars, hvars, cvars, locals, frvars, ptvars, ghosts
<1>0. Types /\ CallLocals(t)
  BY DEF Core, Control
<1>1. PICK layers, h : Alloc(r, layers, h) /\ UNCHANGED fr
  BY DEF CreateRuleset, CreateRulesetNoFd, CreateDomain, CreateHierarchyFails
<1>2. /\ rusage[r] = 0 /\ Freeing' /\ rusage' = [rusage EXCEPT ![r] = 1]
      /\ r \notin fd /\ \A u \in Tasks : rs[u] # r /\ newdom[u] # r
      /\ \A c \in Creds : cdom[c] # r
  BY <1>0, <1>1, AllocKeeps
<1>3. rusage' = [q \in Rulesets |-> rusage'[q]] /\ rusage'[r] = 1
      /\ \A q \in Rulesets : q # r => rusage'[q] = rusage[q]
  BY <1>2 DEF UsagesOK
<1>4. \A q \in Rulesets : Exact(q)
  BY ExactMeans DEF UsagesOK
<1>5. ASSUME NEW q \in Rulesets, NEW handled \in SUBSET Access, CreateRuleset(t, r, handled)
      PROVE  Exact(q)'
  <2>1. fd' = fd \cup {r} /\ UNCHANGED <<rs, newdom, cdom>>
    BY <1>5 DEF CreateRuleset
  <2> QED BY <1>2, <1>3, <1>4, <2>1, RefsSame, FdMove, FdMoveNext, RefsNat DEF Exact
<1>6. ASSUME NEW q \in Rulesets, NEW handled \in SUBSET Access, CreateRulesetNoFd(t, r, handled)
      PROVE  Exact(q)'
  <2>1. rs' = [rs EXCEPT ![t] = r] /\ UNCHANGED <<fd, newdom, cdom>>
    BY <1>6 DEF CreateRulesetNoFd
  <2>2. rs[t] = NULL /\ q # NULL
    BY <1>0, <1>6, RulesetAssumption
       DEF CreateRulesetNoFd, Idle, At, CallLocals, Label, FreeLabels, CallLabels,
          DomainLabels, WalkLabels
  <2>3. RsRefs(q)' = RsRefs(q) - Is(rs[t], q) + Is(r, q)
    BY <1>0, <2>1, RsMove
  <2> QED BY <1>2, <1>3, <1>4, <2>1, <2>2, <2>3, RefsSame, RefsNat DEF Exact, Is
<1>7. ASSUME NEW q \in Rulesets,
             (\E h1 \in Hierarchies : CreateDomain(t, r, h1)) \/ CreateHierarchyFails(t, r)
      PROVE  Exact(q)'
  <2>1. newdom' = [newdom EXCEPT ![t] = r] /\ UNCHANGED <<fd, rs, cdom>>
    BY <1>7 DEF CreateDomain, CreateHierarchyFails
  <2>2. newdom[t] = NULL /\ q # NULL
    BY <1>0, <1>7, RulesetAssumption
       DEF CreateDomain, CreateHierarchyFails, At, CallLocals, Label, FreeLabels,
          DomainLabels, WalkLabels
  <2>3. NewRefs(q)' = NewRefs(q) - Is(newdom[t], q) + Is(r, q)
    BY <1>0, <2>1, NewMove
  <2> QED BY <1>2, <1>3, <1>4, <2>1, <2>2, <2>3, RefsSame, RefsNat DEF Exact, Is
<1> QED BY <1>2, <1>3, <1>5, <1>6, <1>7 DEF UsageGoal

\* Steps that take a reference.
LEMMA UsagesStepGet ==
    ASSUME Core, CredsOK, UsagesOK, NEW t \in Tasks,
           \/ \E r \in Rulesets : RestrictSelf(t, r)
                 \/ \E o \in Objects, allowed \in SUBSET Access : AddRule(t, r, o, allowed)
           \/ \E c \in Creds : PrepareCreds(t, c) \/ ChangeCreds(t, c)
           \/ \E c \in Creds, u \in Tasks : Fork(t, u, c)
    PROVE  UsageGoal'
<1> USE DEF rvars, hvars, cvars, locals, frvars, ptvars, ghosts
<1>0. Types /\ CallLocals(t)
  BY DEF Core, Control
<1>4. \A q \in Rulesets : Exact(q)
  BY ExactMeans DEF UsagesOK
<1>5. ASSUME NEW r \in Rulesets,
             RestrictSelf(t, r) \/ \E o \in Objects, allowed \in SUBSET Access : AddRule(t, r, o, allowed)
      PROVE  UsageGoal'
  <2>1. /\ rs' = [rs EXCEPT ![t] = r] /\ UNCHANGED <<fd, newdom, cdom, rstate, fr>>
        /\ rusage' = [rusage EXCEPT ![r] = rusage[r] + 1] /\ r \in fd /\ Idle(t)
    BY <1>5 DEF RestrictSelf, AddRule, Get
  <2>2. rs[t] = NULL /\ \A q \in Rulesets : q # NULL
    BY <1>0, <2>1, RulesetAssumption
       DEF Idle, At, CallLocals, Label, FreeLabels, CallLabels, DomainLabels, WalkLabels
  <2>3. \A q : RsRefs(q)' = RsRefs(q) - Is(rs[t], q) + Is(r, q)
    BY <1>0, <2>1, RsMove
  <2>4. rusage[r] > 0
    BY <1>0, <2>1, Held
  <2>5. Freeing'
    BY <1>0, <2>1, <2>4, GetKeeps
  <2>6. rusage' = [q \in Rulesets |-> rusage'[q]] /\ rusage'[r] = rusage[r] + 1
        /\ \A q \in Rulesets : q # r => rusage'[q] = rusage[q]
    BY <2>1 DEF UsagesOK
  <2>7. ASSUME NEW q \in Rulesets PROVE Exact(q)'
    BY <1>4, <2>1, <2>2, <2>3, <2>6, RefsSame, RefsNat DEF Exact, Is
  <2> QED BY <2>5, <2>6, <2>7 DEF UsageGoal
<1>6. ASSUME NEW c \in Creds,
             PrepareCreds(t, c) \/ ChangeCreds(t, c) \/ \E u \in Tasks : Fork(t, u, c)
      PROVE  UsageGoal'
  <2>0. PICK d : d = DomainOf(t)
    OBVIOUS
  <2>1. /\ cdom' = [cdom EXCEPT ![c] = d] /\ UNCHANGED <<fd, rs, newdom, rstate, fr>>
        /\ rusage' = IF d = NULL THEN rusage ELSE [rusage EXCEPT ![d] = rusage[d] + 1]
        /\ cstate[c] = "free"
    BY <1>6, <2>0 DEF PrepareCreds, ChangeCreds, Fork, NewCred, GetDomain
  <2>2. cdom[c] = NULL /\ \A q \in Rulesets : q # NULL
    BY <2>1, RulesetAssumption DEF CredsOK
  <2>3. \A q : CredRefs(q)' = CredRefs(q) - Is(cdom[c], q) + Is(d, q)
    BY <1>0, <2>1, CredMove
  <2>4. tcred[t] \in Creds
    BY <1>0, <1>6, Using DEF PrepareCreds, ChangeCreds, Fork, Idle, At, Types, OrNull
  <2>5. d \in Rulesets \cup {NULL}
    BY <1>0, <2>0, <2>4 DEF Types, OrNull, DomainOf
  <2>6. CASE d = NULL
    <3>1. UNCHANGED rusage
      BY <2>1, <2>6
    <3>2. Freeing'
      BY <2>1, <3>1 DEF UsagesOK, Freeing
    <3>3. ASSUME NEW q \in Rulesets PROVE Exact(q)'
      BY <1>4, <2>1, <2>2, <2>3, <2>6, <3>1, RefsSame, RefsNat DEF Exact, Is
    <3> QED BY <3>1, <3>2, <3>3 DEF UsageGoal, UsagesOK
  <2>7. CASE d # NULL
    <3>1. d \in Rulesets /\ rusage' = [rusage EXCEPT ![d] = rusage[d] + 1]
      BY <2>1, <2>5, <2>7
    <3>2. rusage[d] > 0
      BY <1>0, <2>0, <2>4, <3>1, Held DEF DomainOf
    <3>3. Freeing'
      BY <1>0, <2>1, <3>1, <3>2, GetKeeps
    <3>4. rusage' = [q \in Rulesets |-> rusage'[q]] /\ rusage'[d] = rusage[d] + 1
          /\ \A q \in Rulesets : q # d => rusage'[q] = rusage[q]
      BY <3>1 DEF UsagesOK
    <3>5. ASSUME NEW q \in Rulesets PROVE Exact(q)'
      BY <1>4, <2>1, <2>2, <2>3, <3>1, <3>4, RefsSame, RefsNat DEF Exact, Is
    <3> QED BY <3>3, <3>4, <3>5 DEF UsageGoal
  <2> QED BY <2>5, <2>6, <2>7
<1> QED BY <1>5, <1>6

\* Steps that put a reference.
LEMMA UsagesStepPut ==
    ASSUME Core, UsagesOK, NEW t \in Tasks,
           (\E r \in Rulesets : Close(t, r)) \/ PutRuleset(t) \/ PutDom(t) \/ ReplaceDomain(t)
    PROVE  UsageGoal'
<1> USE DEF rvars, hvars, cvars, locals, frvars, ptvars, ghosts
<1>0. Types /\ CallLocals(t) /\ FreeLocals(t) /\ Control /\ t \in Threads
  BY DEF Core, Control, Threads
<1>1. /\ \A q \in Rulesets : Exact(q)
      /\ \A q \in Rulesets : q # NULL
  BY ExactMeans, RulesetAssumption DEF UsagesOK
<1>2. fr[t] = NULL
  BY <1>0 DEF Close, PutRuleset, PutDom, ReplaceDomain, Idle, At, FreeLocals, FreeLabels
<1>3. ASSUME NEW r \in Rulesets, NEW next, Put(t, r, next), rusage[r] > 0
      PROVE  /\ Freeing' /\ rusage' = [q \in Rulesets |-> rusage'[q]] /\ rusage'[r] = rusage[r] - 1
             /\ \A q \in Rulesets : q # r => rusage'[q] = rusage[q]
  <2>1. Freeing' /\ rusage' = [rusage EXCEPT ![r] = rusage[r] - 1]
    BY <1>0, <1>2, <1>3, PutKeeps
  <2> QED BY <2>1 DEF UsagesOK
<1>4. ASSUME NEW r \in Rulesets, Close(t, r) PROVE UsageGoal'
  <2>1. Put(t, r, "idle") /\ r \in fd /\ fd' = fd \ {r} /\ UNCHANGED <<rs, newdom, cdom>>
    BY <1>4 DEF Close
  <2>2. rusage[r] > 0
    BY <1>0, <2>1, Held
  <2>3. /\ Freeing' /\ rusage' = [q \in Rulesets |-> rusage'[q]] /\ rusage'[r] = rusage[r] - 1
        /\ \A q \in Rulesets : q # r => rusage'[q] = rusage[q]
    BY <1>3, <2>1, <2>2
  <2>4. ASSUME NEW q \in Rulesets PROVE Exact(q)'
    BY <1>1, <2>1, <2>3, FdMove, FdMoveNext, RefsSame, RefsNat DEF Exact
  <2> QED BY <2>3, <2>4 DEF UsageGoal
<1>5. CASE PutRuleset(t)
  <2>0. PICK r, next : r = rs[t] /\ next = IF ncred[t] # NULL THEN "commit_creds" ELSE "idle"
    OBVIOUS
  <2>1. r \in Rulesets
    BY <1>5, <2>0, Using DEF PutRuleset, At, CallLabels
  <2>2. Put(t, r, next) /\ rs' = [rs EXCEPT ![t] = NULL] /\ UNCHANGED <<fd, newdom, cdom>>
    BY <1>5, <2>0 DEF PutRuleset
  <2>3. rusage[r] > 0
    BY <1>0, <2>0, <2>1, Held
  <2>4. /\ Freeing' /\ rusage' = [q \in Rulesets |-> rusage'[q]] /\ rusage'[r] = rusage[r] - 1
        /\ \A q \in Rulesets : q # r => rusage'[q] = rusage[q]
    BY <1>3, <2>1, <2>2, <2>3
  <2>5. \A q : RsRefs(q)' = RsRefs(q) - Is(rs[t], q) + Is(NULL, q)
    BY <1>0, <2>2, RsMove
  <2>6. ASSUME NEW q \in Rulesets PROVE Exact(q)'
    BY <1>1, <2>0, <2>2, <2>4, <2>5, RefsSame, RefsNat DEF Exact, Is
  <2> QED BY <2>4, <2>6 DEF UsageGoal
<1>6. CASE PutDom(t)
  <2>0. PICK r : r = newdom[t]
    OBVIOUS
  <2>1. r \in Rulesets
    BY <1>6, <2>0, Using DEF PutDom, At, DomainLabels
  <2>2. Put(t, r, "abort_creds") /\ newdom' = [newdom EXCEPT ![t] = NULL] /\ UNCHANGED <<fd, rs, cdom>>
    BY <1>6, <2>0 DEF PutDom
  <2>3. rusage[r] > 0
    BY <1>0, <2>0, <2>1, Held
  <2>4. /\ Freeing' /\ rusage' = [q \in Rulesets |-> rusage'[q]] /\ rusage'[r] = rusage[r] - 1
        /\ \A q \in Rulesets : q # r => rusage'[q] = rusage[q]
    BY <1>3, <2>1, <2>2, <2>3
  <2>5. \A q : NewRefs(q)' = NewRefs(q) - Is(newdom[t], q) + Is(NULL, q)
    BY <1>0, <2>2, NewMove
  <2>6. ASSUME NEW q \in Rulesets PROVE Exact(q)'
    BY <1>1, <2>0, <2>2, <2>4, <2>5, RefsSame, RefsNat DEF Exact, Is
  <2> QED BY <2>4, <2>6 DEF UsageGoal
<1>7. CASE ReplaceDomain(t)
  <2>0. PICK c, r : c = ncred[t] /\ r = cdom[c] /\ r = Parent(t)
    BY DEF Parent
  <2>1. c \in Creds
    BY <1>7, <2>0, Using DEF ReplaceDomain, At, Prepared, DomainLabels
  <2>2. cdom' = [cdom EXCEPT ![c] = NULL] /\ UNCHANGED <<fd, rs, newdom>>
    BY <1>7, <2>0 DEF ReplaceDomain
  <2>3. \A q : CredRefs(q)' = CredRefs(q) - Is(cdom[c], q) + Is(NULL, q)
    BY <1>0, <2>1, <2>2, CredMove
  <2>4. CASE r = NULL
    <3>1. UNCHANGED <<rusage, rstate, fr>>
      BY <1>7, <2>0, <2>4 DEF ReplaceDomain
    <3>2. Freeing' /\ rusage' = [q \in Rulesets |-> rusage'[q]]
      BY <3>1 DEF UsagesOK, Freeing
    <3>3. ASSUME NEW q \in Rulesets PROVE Exact(q)'
      BY <1>1, <2>0, <2>2, <2>3, <2>4, <3>1, RefsSame, RefsNat DEF Exact, Is
    <3> QED BY <3>2, <3>3 DEF UsageGoal
  <2>5. CASE r # NULL
    <3>1. Put(t, r, "assign") /\ r \in Rulesets
      BY <1>0, <1>7, <2>0, <2>1, <2>5 DEF ReplaceDomain, Types, OrNull
    <3>2. rusage[r] > 0
      <4>1. cdom[c] = r
        BY <2>0
      <4>2. Types
        BY <1>0
      <4> QED BY <2>1, <3>1, <4>1, <4>2, Held
    <3>3. /\ Freeing' /\ rusage' = [q \in Rulesets |-> rusage'[q]] /\ rusage'[r] = rusage[r] - 1
          /\ \A q \in Rulesets : q # r => rusage'[q] = rusage[q]
      BY <1>3, <3>1, <3>2
    <3>4. ASSUME NEW q \in Rulesets PROVE Exact(q)'
      BY <1>1, <2>0, <2>2, <2>3, <3>3, RefsSame, RefsNat DEF Exact, Is
    <3> QED BY <3>3, <3>4 DEF UsageGoal
  <2> QED BY <2>4, <2>5
<1> QED BY <1>4, <1>5, <1>6, <1>7

\* The reference of new_dom becomes the one of the credential.
LEMMA UsagesStepAssign ==
    ASSUME Core, AssignEmpty, UsagesOK, NEW t \in Tasks, AssignDomain(t)
    PROVE  UsageGoal'
<1> USE DEF rvars, hvars, cvars, locals, frvars, ptvars, ghosts
<1>0. Types
  BY DEF Core
<1>1. PICK c, r : c = ncred[t] /\ r = newdom[t]
  OBVIOUS
<1>2. c \in Creds /\ cdom[c] = NULL
  <2>1. pc[t] = "assign"
    BY DEF AssignDomain, At
  <2>2. Label(t) = "assign"
    BY <2>1 DEF Label, FreeLabels
  <2>3. ncred[t] \in Creds
    BY <2>1, Using DEF Prepared, DomainLabels
  <2> QED BY <1>1, <2>2, <2>3 DEF AssignEmpty
<1>3. /\ cdom' = [cdom EXCEPT ![c] = r] /\ newdom' = [newdom EXCEPT ![t] = NULL]
      /\ UNCHANGED <<rusage, rstate, fr, fd, rs>>
  BY <1>1 DEF AssignDomain
<1>4. \A q : CredRefs(q)' = CredRefs(q) - Is(NULL, q) + Is(r, q)
  BY <1>0, <1>2, <1>3, CredMove
<1>5. \A q : NewRefs(q)' = NewRefs(q) - Is(r, q) + Is(NULL, q)
  BY <1>0, <1>1, <1>3, NewMove
<1>6. \A q \in Rulesets : Exact(q)
  BY ExactMeans DEF UsagesOK
<1>7. ASSUME NEW q \in Rulesets PROVE Exact(q)'
  BY <1>3, <1>4, <1>5, <1>6, RefsSame, RefsNat DEF Exact, Is
<1> QED BY <1>3, <1>7 DEF UsageGoal, UsagesOK, Freeing

\* Steps that free.
LEMMA UsagesStepFree ==
    ASSUME Core, UsagesOK,
           \/ \E c \in Creds : CredFree(c)
           \/ \E r \in Rulesets : FreeRulesetWork(r)
           \/ \E t \in Threads : Kfree(t)
    PROVE  UsageGoal'
<1> USE DEF rvars, hvars, cvars, locals, frvars, ptvars, ghosts
<1>0. Types /\ Control
  BY DEF Core
<1>1. /\ \A q \in Rulesets : Exact(q) /\ rusage[q] \in Nat
      /\ \A q \in Rulesets : q # NULL
  BY ExactMeans, RulesetAssumption DEF UsagesOK
<1>2. ASSUME NEW c \in Creds, CredFree(c) PROVE UsageGoal'
  <2>0. PICK r : r = cdom[c]
    OBVIOUS
  <2>1. cdom' = [cdom EXCEPT ![c] = NULL] /\ UNCHANGED <<fd, rs, newdom, fr>>
    BY <1>2 DEF CredFree
  <2>2. \A q : CredRefs(q)' = CredRefs(q) - Is(r, q) + Is(NULL, q)
    BY <1>0, <2>0, <2>1, CredMove
  <2>3. CASE r = NULL
    <3>1. UNCHANGED <<rusage, rstate>>
      BY <1>2, <2>0, <2>3 DEF CredFree
    <3>2. ASSUME NEW q \in Rulesets PROVE Exact(q)'
      BY <1>1, <2>1, <2>2, <2>3, <3>1, RefsSame, RefsNat DEF Exact, Is
    <3> QED BY <2>1, <3>1, <3>2 DEF UsageGoal, UsagesOK, Freeing
  <2>4. CASE r # NULL
    <3>1. /\ r \in Rulesets /\ rusage' = [rusage EXCEPT ![r] = rusage[r] - 1]
          /\ rstate' = IF rusage[r] = 1 THEN [rstate EXCEPT ![r] = "work"] ELSE rstate
      BY <1>0, <1>2, <2>0, <2>4 DEF CredFree, Types, OrNull
    <3>2. rusage[r] > 0 /\ rstate[r] = "live"
      BY <1>0, <2>0, <3>1, Held DEF UsagesOK
    <3>3. /\ rusage' = [q \in Rulesets |-> rusage'[q]] /\ rusage'[r] = rusage[r] - 1
          /\ \A q \in Rulesets : q # r => rusage'[q] = rusage[q]
      BY <3>1 DEF UsagesOK
    <3>4. ASSUME NEW q \in Rulesets PROVE Exact(q)'
      BY <1>1, <2>0, <2>1, <2>2, <3>3, RefsSame, RefsNat DEF Exact, Is
    <3>5. Freeing'
      <4>1. CASE rusage[r] = 1
        BY <1>0, <2>1, <3>1, <3>2, <3>3, <4>1 DEF UsagesOK, Freeing, Types, OrNull
      <4>2. CASE rusage[r] # 1
        BY <1>0, <1>1, <2>1, <3>1, <3>2, <3>3, <4>2 DEF UsagesOK, Freeing, Types, OrNull
      <4> QED BY <4>1, <4>2
    <3> QED BY <3>3, <3>4, <3>5 DEF UsageGoal
  <2> QED BY <2>3, <2>4
<1>3. ASSUME NEW r \in Rulesets, FreeRulesetWork(r) PROVE UsageGoal'
  <2>1. /\ rstate[r] = "work" /\ rstate' = [rstate EXCEPT ![r] = "freeing"]
        /\ fr' = [fr EXCEPT ![Worker] = r] /\ UNCHANGED <<rusage, fd, rs, newdom, cdom>>
    BY <1>3 DEF FreeRulesetWork
  <2>2. ASSUME NEW q \in Rulesets PROVE Exact(q)'
    BY <1>1, <2>1, RefsSame DEF Exact
  <2>3. Freeing'
    BY <1>0, <2>1 DEF UsagesOK, Freeing, Types, OrNull, Threads
  <2> QED BY <2>1, <2>2, <2>3 DEF UsageGoal, UsagesOK
<1>4. ASSUME NEW t \in Threads, Kfree(t) PROVE UsageGoal'
  <2>1. /\ rstate' = [rstate EXCEPT ![fr[t]] = "free"] /\ fr' = [fr EXCEPT ![t] = NULL]
        /\ UNCHANGED <<rusage, fd, rs, newdom, cdom>> /\ fr[t] \in Rulesets
    BY <1>4, UsingFreed DEF Kfree, At, FreeLabels
  <2>2. ASSUME NEW q \in Rulesets PROVE Exact(q)'
    BY <1>1, <2>1, RefsSame DEF Exact
  <2>3. rstate[fr[t]] = "freeing"
    BY <1>1, <2>1 DEF UsagesOK
  <2>4. Freeing'
    BY <1>0, <2>1, <2>3 DEF UsagesOK, Freeing, Types, OrNull
  <2> QED BY <2>1, <2>2, <2>4 DEF UsageGoal, UsagesOK
<1> QED BY <1>2, <1>3, <1>4

\* Every step keeps the counts of rulesets exact.
LEMMA UsagesStep ==
    ASSUME Core, CredsOK, AssignEmpty, UsagesOK, [Next]_vars
    PROVE  UsagesOK'
<1>1. UsageGoal' => UsagesOK'
  BY UsageGoalMeans, PTL
<1>2. ASSUME NEW t \in Tasks, UsageStep(t) PROVE UsageGoal'
  BY <1>2, UsagesStepAlloc, UsagesStepGet, UsagesStepPut, UsagesStepAssign DEF UsageStep
<1>3. CASE UNCHANGED usagevars
  <2>1. UNCHANGED <<rusage, rstate, fr>> /\ \A q \in Rulesets : Exact(q)
    BY <1>3, ExactMeans DEF usagevars, UsagesOK
  <2>2. \A q \in Rulesets : Exact(q)'
    BY <1>3, <2>1, RefsSame DEF usagevars, Exact
  <2> QED BY <1>1, <2>1, <2>2 DEF UsageGoal, UsagesOK, Freeing
<1> QED BY <1>1, <1>2, <1>3, UsageSteps, UsagesStepFree
-----------------------------------------------------------------------------
(* The domain in the credential that a task prepares.                      *)

Merging == {"merge", "inherit_lock", "inherit", "merge_lock", "merge_rules", "replace"}

\* The prepared credential holds the domain that the task is about to commit.
Committing(t) == ncred[t] # NULL /\ Label(t) \in {"put_ruleset", "commit_creds"}

\* It holds the domain of the task until replace, none until assign and then
\* the new one.
PreparedOK ==
    \A t \in Tasks :
       /\ Label(t) \in Merging => cdom[ncred[t]] = DomainOf(t)
       /\ Label(t) = "assign" => cdom[ncred[t]] = NULL
       /\ Committing(t) => cdom[ncred[t]] # NULL
       /\ Label(t) \in {"inherit_lock", "inherit"} => DomainOf(t) # NULL

\* No credential is being prepared at first.
LEMMA PreparedInit == Init => PreparedOK
BY RulesetAssumption DEF Init, PreparedOK, Committing, Label, Merging, FreeLabels,
   Threads

\* What the earlier lemmas assumed of prepared credentials.
LEMMA PreparedMeans == PreparedOK => AssignEmpty /\ ParentKnown
BY DEF PreparedOK, AssignEmpty, ParentKnown, Merging, Label, FreeLabels

\* A task's domain and the one in the credential that it prepares change
\* only by the task's own steps.
LEMMA PreparedStep ==
    ASSUME Core, CredsOK, PreparedOK, [Next]_vars
    PROVE  PreparedOK'
<1> USE RulesetAssumption, Using DEF Core, Types, Control, CredsOK, PreparedOK,
    Committing, DomainOf, Parent, Threads, Label, Merging, At, Goto, Idle,
    CallLocals, Prepared,
        Labels, CallLabels, DomainLabels, WalkLabels, FreeLabels, rvars, hvars,
           cvars, locals, frvars, ptvars, ghosts, Alloc
<1>1. ASSUME NEW t \in Tasks, AllocStep(t) PROVE PreparedOK'
  <2>1. ASSUME NEW r \in Rulesets, NEW handled \in SUBSET Access, CreateRuleset(t, r, handled)
        PROVE  PreparedOK'
    BY <2>1 DEF CreateRuleset
  <2>2. ASSUME NEW r \in Rulesets, NEW handled \in SUBSET Access, CreateRulesetNoFd(t, r, handled)
        PROVE  PreparedOK'
    BY <2>2 DEF CreateRulesetNoFd
  <2>3. ASSUME NEW r \in Rulesets, NEW h \in Hierarchies, CreateDomain(t, r, h)
        PROVE  PreparedOK'
    BY <2>3 DEF CreateDomain
  <2>4. ASSUME NEW r \in Rulesets, CreateHierarchyFails(t, r)
        PROVE  PreparedOK'
    BY <2>4 DEF CreateHierarchyFails
  <2> QED BY <1>1, <2>1, <2>2, <2>3, <2>4 DEF AllocStep
<1>2. ASSUME NEW t \in Tasks, CallStep(t) PROVE PreparedOK'
  <2>1. ASSUME NEW r \in Rulesets, NEW o \in Objects, NEW allowed \in SUBSET Access,
             AddRule(t, r, o, allowed)
        PROVE  PreparedOK'
    BY <2>1 DEF AddRule, Get
  <2>2. ASSUME NEW r \in Rulesets, Close(t, r)
        PROVE  PreparedOK'
    BY <2>2 DEF Close, Put
  <2>3. ASSUME NEW r \in Rulesets, RestrictSelf(t, r)
        PROVE  PreparedOK'
    BY <2>3 DEF RestrictSelf, Get
  <2>4. ASSUME NEW c \in Creds, ChangeCreds(t, c)
        PROVE  PreparedOK'
    BY <2>4 DEF ChangeCreds, GetDomain, DomainOf
  <2>5. ASSUME NEW c \in Creds, NEW u \in Tasks, Fork(t, u, c)
        PROVE  PreparedOK'
    BY <2>5 DEF Fork, NewCred, GetDomain, DomainOf
  <2>6. ASSUME NEW u \in Tasks, CloneThread(t, u)
        PROVE  PreparedOK'
    BY <2>6 DEF CloneThread
  <2>7. ASSUME NEW p \in Tasks, NEW c \in Tasks, TaskPtrace(t, p, c)
        PROVE  PreparedOK'
    BY <2>7 DEF TaskPtrace
  <2>8. CASE Exit(t)
    BY <2>8 DEF Exit, PutCred
  <2> QED BY <1>2, <2>1, <2>2, <2>3, <2>4, <2>5, <2>6, <2>7, <2>8 DEF CallStep
<1>3. ASSUME NEW t \in Tasks, LockStep(t) PROVE PreparedOK'
  <2>1. CASE AppendFsRule(t)
    BY <2>1 DEF AppendFsRule, InsertRule
  <2>2. CASE InheritLock(t)
    BY <2>2 DEF InheritLock, Unlocked, Lock, RulesOf
  <2>3. CASE MergeLock(t)
    BY <2>3 DEF MergeLock, Unlocked, Lock, RulesOf
  <2> QED BY <1>3, <2>1, <2>2, <2>3 DEF LockStep
<1>4. ASSUME NEW t \in Tasks, KernelStep(t) PROVE PreparedOK'
  <2>1. CASE AppendFsRuleFails(t)
    BY <2>1 DEF AppendFsRuleFails
  <2>2. CASE PutRuleset(t)
    BY <2>2 DEF PutRuleset, Put
  <2>3. ASSUME NEW c \in Creds, PrepareCreds(t, c)
        PROVE  PreparedOK'
    BY <2>3 DEF PrepareCreds, NewCred, GetDomain, DomainOf
  <2>4. CASE PrepareCredsFails(t)
    BY <2>4 DEF PrepareCredsFails
  <2>5. CASE MergeFails(t)
    BY <2>5 DEF MergeFails
  <2>6. ASSUME NEW o \in Objects, InheritRule(t, o)
        PROVE  PreparedOK'
    BY <2>6 DEF InheritRule, InsertRule
  <2>7. ASSUME NEW o \in Objects, MergeRule(t, o)
        PROVE  PreparedOK'
    BY <2>7 DEF MergeRule, InsertRule
  <2>8. CASE InheritFails(t)
    BY <2>8 DEF InheritFails, Unlock
  <2>9. CASE InheritDone(t)
    BY <2>9 DEF InheritDone, Unlock
  <2>10. CASE MergeRuleFails(t)
    BY <2>10 DEF MergeRuleFails, Unlock
  <2>11. CASE MergeDone(t)
    BY <2>11 DEF MergeDone, Unlock
  <2>12. CASE PutDom(t)
    BY <2>12 DEF PutDom, Put
  <2>13. CASE ReplaceDomain(t)
    BY <2>13 DEF ReplaceDomain, Put
  <2>14. CASE AssignDomain(t)
    BY <2>14 DEF AssignDomain
  <2>15. CASE CommitCreds(t)
    BY <2>15 DEF CommitCreds, PutCred
  <2>16. CASE AbortCreds(t)
    BY <2>16 DEF AbortCreds, PutCred
  <2>17. CASE TaskIsScoped(t)
    BY <2>17 DEF TaskIsScoped, DomainOf
  <2>18. CASE DomChild(t)
    BY <2>18 DEF DomChild, DomainOf
  <2>19. CASE DomainScopeLe(t)
    BY <2>19 DEF DomainScopeLe, ScopeDecided
  <2> QED BY <1>4, <2>1, <2>2, <2>3, <2>4, <2>5, <2>6, <2>7, <2>8, <2>9, <2>10, <2>11, <2>12, <2>13, <2>14, <2>15, <2>16, <2>17, <2>18, <2>19 DEF KernelStep
<1>5. ASSUME NEW t \in Threads, FreeStep(t) PROVE PreparedOK'
  <2>1. CASE FreeRuleset(t)
    BY <2>1 DEF FreeRuleset
  <2>2. CASE PutHierarchy(t)
    BY <2>2 DEF PutHierarchy
  <2>3. CASE Kfree(t)
    BY <2>3 DEF Kfree
  <2> QED BY <1>5, <2>1, <2>2, <2>3 DEF FreeStep
<1>6. ASSUME NEW c \in Creds, CredFree(c) PROVE PreparedOK'
  BY <1>6 DEF CredFree
<1>7. ASSUME NEW r \in Rulesets, FreeRulesetWork(r) PROVE PreparedOK'
  BY <1>7 DEF FreeRulesetWork
<1>8. CASE UNCHANGED vars
  BY <1>8 DEF vars
<1> QED BY <1>1, <1>2, <1>3, <1>4, <1>5, <1>6, <1>7, <1>8 DEF Next
-----------------------------------------------------------------------------
(* Rulesets and domains: which of both a pointer refers to, and that the   *)
(* domain under construction is known to its task alone.                   *)

\* The domain of a task that no other task can know of yet.
OwnDomain(t, d) == newdom[t] = d \/ (Committing(t) /\ cdom[ncred[t]] = d)

Exclusive ==
    \A t \in Tasks, d \in Rulesets : OwnDomain(t, d) =>
       /\ d \notin fd
       /\ \A u \in Tasks : rs[u] # d /\ (u # t => newdom[u] # d)
       /\ \A c \in Creds : cdom[c] = d => Committing(t) /\ c = ncred[t]

KindsOK ==
    /\ \A t \in Tasks :
          /\ Label(t) \in DomainLabels \ {"put_dom"} => hier[newdom[t]] # NULL
          /\ rs[t] # NULL => hier[rs[t]] = NULL
    /\ \A r \in fd : hier[r] = NULL
    /\ \A c \in Creds : cdom[c] # NULL => hier[cdom[c]] # NULL
    /\ \A r \in Rulesets : rstate[r] = "free" => hier[r] = NULL
    /\ \A t \in Threads : pc[t] = "put_hierarchy" => hier[fr[t]] = NULL

\* No domain is being built at first.
LEMMA ExclusiveInit == Init => Exclusive
BY RulesetAssumption DEF Init, Exclusive, OwnDomain, Committing

\* There are neither rulesets nor domains at first.
LEMMA KindsInit == Init => KindsOK
BY RulesetAssumption DEF Init, KindsOK, Label, DomainLabels, WalkLabels, FreeLabels,
   Threads

\* A ruleset that is referred to is not free.
LEMMA NotFree ==
    ASSUME Types, UsagesOK
    PROVE  /\ \A r \in fd : r \in Rulesets /\ rstate[r] = "live"
           /\ \A t \in Tasks : rs[t] # NULL => rs[t] \in Rulesets /\ rstate[rs[t]] = "live"
           /\ \A t \in Tasks : newdom[t] # NULL => newdom[t] \in Rulesets /\ rstate[newdom[t]] = "live"
           /\ \A c \in Creds : cdom[c] # NULL => cdom[c] \in Rulesets /\ rstate[cdom[c]] = "live"
           /\ \A t \in Threads : fr[t] # NULL => fr[t] \in Rulesets /\ rstate[fr[t]] = "freeing"
<1>1. ASSUME NEW r \in Rulesets, rusage[r] # 0 PROVE rstate[r] = "live"
  BY <1>1 DEF UsagesOK
<1> QED BY <1>1, Held DEF Types, OrNull, UsagesOK

\* The address of a new ruleset is in use nowhere.
LEMMA FreshRuleset ==
    ASSUME Types, UsagesOK, NEW r \in Rulesets, rstate[r] = "free"
    PROVE  /\ r \notin fd
           /\ \A u \in Tasks : rs[u] # r /\ newdom[u] # r
           /\ \A c \in Creds : cdom[c] # r
BY NotFree, RulesetAssumption

\* A domain that was just allocated is known to its task alone.
LEMMA ExclusiveAlloc ==
    ASSUME Core, UsagesOK, Exclusive, NEW t \in Tasks, NEW r \in Rulesets,
           \/ \E handled \in SUBSET Access :
                 CreateRuleset(t, r, handled) \/ CreateRulesetNoFd(t, r, handled)
           \/ \E h \in Hierarchies : CreateDomain(t, r, h)
           \/ CreateHierarchyFails(t, r)
    PROVE  Exclusive'
<1> USE DEF rvars, hvars, cvars, locals, frvars, ptvars, ghosts
<1>0. Types /\ CallLocals(t) /\ \A u \in Tasks : CallLocals(u)
  BY DEF Core, Control
<1>1. rstate[r] = "free"
  BY DEF CreateRuleset, CreateRulesetNoFd, CreateDomain, CreateHierarchyFails, Alloc
<1>2. r \notin fd /\ (\A u \in Tasks : rs[u] # r /\ newdom[u] # r) /\ \A c \in Creds : cdom[c] # r
  BY <1>0, <1>1, FreshRuleset
<1>3. \A u \in Tasks, d \in Rulesets : OwnDomain(u, d) => d # r
  BY <1>0, <1>2, RulesetAssumption DEF OwnDomain, Committing, Types, OrNull
<1>4. UNCHANGED <<cdom, ncred>>
  BY DEF CreateRuleset, CreateRulesetNoFd, CreateDomain, CreateHierarchyFails
<1>5. CASE \E handled \in SUBSET Access : CreateRuleset(t, r, handled)
  <2>1. fd' = fd \cup {r} /\ UNCHANGED <<rs, newdom, pc, ret>>
    BY <1>5 DEF CreateRuleset
  <2>2. \A u \in Tasks : Committing(u)' <=> Committing(u)
    BY <1>4, <2>1 DEF Committing, Label
  <2>3. \A u \in Tasks, d \in Rulesets : OwnDomain(u, d)' => OwnDomain(u, d)
    BY <1>4, <2>1, <2>2 DEF OwnDomain
  <2> QED BY <1>3, <1>4, <2>1, <2>2, <2>3 DEF Exclusive
<1>6. CASE \E handled \in SUBSET Access : CreateRulesetNoFd(t, r, handled)
  <2>1. rs' = [rs EXCEPT ![t] = r] /\ UNCHANGED <<fd, newdom>> /\ ncred[t] = NULL
        /\ \A u \in Tasks : u # t => Label(u)' = Label(u)
    BY <1>0, <1>6 DEF CreateRulesetNoFd, Label, Goto, Types, Threads, Idle, At,
       CallLocals,
       Prepared, DomainLabels, WalkLabels, FreeLabels
  <2>2. \A u \in Tasks : Committing(u)' <=> Committing(u)
    BY <1>4, <2>1 DEF Committing
  <2>3. \A u \in Tasks, d \in Rulesets : OwnDomain(u, d)' => OwnDomain(u, d)
    BY <1>4, <2>1, <2>2 DEF OwnDomain
  <2>4. \A u \in Tasks : rs'[u] \in {rs[u], r}
    BY <1>0, <2>1 DEF Types
  <2> QED BY <1>3, <1>4, <2>1, <2>2, <2>3, <2>4 DEF Exclusive
<1>7. CASE (\E h \in Hierarchies : CreateDomain(t, r, h)) \/ CreateHierarchyFails(t, r)
  <2>1. newdom' = [newdom EXCEPT ![t] = r] /\ UNCHANGED <<fd, rs>>
        /\ \A u \in Tasks : u # t => Label(u)' = Label(u)
    BY <1>0, <1>7 DEF CreateDomain, CreateHierarchyFails, Label, Goto, Types, Threads
  <2>2. ~Committing(t) /\ ~Committing(t)'
    BY <1>0, <1>7 DEF CreateDomain, CreateHierarchyFails, Label, Goto, Types,
       Threads, At, FreeLabels,
       Committing
  <2>3. \A u \in Tasks : Committing(u)' <=> Committing(u)
    BY <1>4, <2>1, <2>2 DEF Committing
  <2>4. \A u \in Tasks : newdom'[u] = IF u = t THEN r ELSE newdom[u]
    BY <1>0, <2>1 DEF Types
  <2>5. \A u \in Tasks, d \in Rulesets : OwnDomain(u, d)' => OwnDomain(u, d) \/ (u = t /\ d = r)
    BY <1>4, <2>3, <2>4 DEF OwnDomain
  <2>6. ASSUME NEW u \in Tasks, NEW d \in Rulesets, OwnDomain(u, d)'
        PROVE  /\ d \notin fd'
               /\ \A v \in Tasks : rs'[v] # d /\ (v # u => newdom'[v] # d)
               /\ \A c \in Creds : cdom'[c] = d => Committing(u)' /\ c = ncred'[u]
    <3>1. CASE u = t /\ d = r
      BY <1>2, <1>4, <2>1, <2>4, <3>1
    <3>2. CASE OwnDomain(u, d)
      BY <1>3, <1>4, <2>1, <2>3, <2>4, <3>2 DEF Exclusive
    <3> QED BY <2>5, <2>6, <3>1, <3>2
  <2> QED BY <2>6 DEF Exclusive
<1> QED BY <1>5, <1>6, <1>7

\* Nobody but its task refers to the domain under construction, in
\* particular no other credential is made from it.
LEMMA NotOthers ==
    ASSUME Core, CredsOK, Exclusive, NEW t \in Tasks, NEW u \in Tasks, NEW d \in Rulesets,
           tcred[t] # NULL, DomainOf(t) = d
    PROVE  ~OwnDomain(u, d)
<1>1. tcred[t] \in Creds /\ cdom[tcred[t]] = d
  BY DEF Core, Types, OrNull, DomainOf
<1>2. ncred[u] # NULL => ncred[u] # tcred[t]
  BY DEF CredsOK
<1> QED BY <1>1, <1>2 DEF Exclusive, Committing

\* A credential copies the domain of a task, never one under construction.
LEMMA ExclusiveCopy ==
    ASSUME Core, CredsOK, Exclusive, NEW t \in Tasks, NEW c \in Creds,
           ChangeCreds(t, c) \/ \E u \in Tasks : Fork(t, u, c)
    PROVE  Exclusive'
<1> USE DEF rvars, hvars, cvars, locals, frvars, ptvars, ghosts
<1>0. Types
  BY DEF Core
<1>1. PICK dd : dd = DomainOf(t)
  OBVIOUS
<1>2. tcred[t] # NULL /\ cstate[c] = "free"
  BY DEF ChangeCreds, Fork, NewCred, Idle
<1>3. \A w \in Tasks, d \in Rulesets : dd = d => ~OwnDomain(w, d)
  BY <1>1, <1>2, NotOthers
<1>4. cdom' = [cdom EXCEPT ![c] = dd] /\ UNCHANGED <<fd, rs, newdom, ncred, pc, ret>>
  BY <1>1 DEF ChangeCreds, Fork, NewCred
<1>5. \A w \in Tasks : Committing(w)' <=> Committing(w)
  BY <1>4 DEF Committing, Label
<1>6. \A w \in Tasks : ncred[w] # NULL => ncred[w] # c /\ ncred[w] \in Creds
  BY <1>0, <1>2 DEF CredsOK, Types, OrNull
<1>7. \A w \in Tasks, d \in Rulesets : OwnDomain(w, d)' => OwnDomain(w, d)
  BY <1>0, <1>4, <1>5, <1>6 DEF OwnDomain, Committing, Types
<1>8. \A e \in Creds : cdom'[e] = IF e = c THEN dd ELSE cdom[e]
  BY <1>0, <1>4 DEF Types
<1>9. ASSUME NEW u \in Tasks, NEW d \in Rulesets, OwnDomain(u, d)'
      PROVE  /\ d \notin fd'
             /\ \A v \in Tasks : rs'[v] # d /\ (v # u => newdom'[v] # d)
             /\ \A e \in Creds : cdom'[e] = d => Committing(u)' /\ e = ncred'[u]
  <2>1. OwnDomain(u, d)
    BY <1>7, <1>9
  <2>2. dd # d
    BY <1>3, <2>1
  <2> QED BY <1>4, <1>5, <1>8, <2>1, <2>2 DEF Exclusive
<1> QED BY <1>9 DEF Exclusive

\* Credentials are copied together with their domain.
LEMMA KindsCopy ==
    ASSUME Core, KindsOK, NEW t \in Tasks, NEW c \in Creds,
           ChangeCreds(t, c) \/ \E u \in Tasks : Fork(t, u, c)
    PROVE  KindsOK'
<1> USE DEF rvars, hvars, cvars, locals, frvars, ptvars, ghosts
<1>0. Types
  BY DEF Core
<1>1. PICK dd : dd = DomainOf(t)
  OBVIOUS
<1>2. tcred[t] \in Creds
  BY <1>0 DEF ChangeCreds, Fork, NewCred, Idle, Types, OrNull
<1>3. dd # NULL => hier[dd] # NULL
  BY <1>1, <1>2 DEF KindsOK, DomainOf
<1>4. cdom' = [cdom EXCEPT ![c] = dd] /\ UNCHANGED <<fd, rs, newdom, hier, rstate, fr, pc, ret>>
  BY <1>1 DEF ChangeCreds, Fork, NewCred
<1> QED BY <1>0, <1>3, <1>4 DEF KindsOK, Label, Types

\* The steps that put a reference write neither a node of the hierarchy nor
\* a new pointer.
LEMMA KindsPut ==
    ASSUME Core, UsagesOK, KindsOK, NEW t \in Tasks,
           PutDom(t) \/ \E r \in Rulesets : Close(t, r)
    PROVE  KindsOK'
<1> USE DEF rvars, hvars, cvars, locals, frvars, ptvars, ghosts
<1>0. Types
  BY DEF Core
<1>1. PICK next, r : Put(t, r, next) /\ next \in {"idle", "abort_creds"} /\ r \in Rulesets
  BY Using DEF PutDom, Close, At, DomainLabels
<1>2. UNCHANGED <<hier, rs, cdom>> /\ fd' \subseteq fd
      /\ \A u \in Tasks : newdom'[u] = newdom[u] \/ (u = t /\ newdom'[u] = NULL)
  BY <1>0 DEF PutDom, Close, Types
<1>3. \A u \in Threads : u # t => pc'[u] = pc[u] /\ ret'[u] = ret[u] /\ fr'[u] = fr[u]
  BY <1>0, <1>1 DEF Put, Goto, Types
<1>4. Label(t)' = next /\ pc'[t] # "put_hierarchy"
  <2>1. pc \in [Threads -> Labels] /\ ret \in [Threads -> Returns] /\ t \in Threads
    BY <1>0 DEF Types, Threads
  <2> QED BY <1>1, <2>1 DEF Put, Goto, Label, FreeLabels
<1>5. \A u \in Tasks : u # t => Label(u)' = Label(u)
  BY <1>3 DEF Label, Threads
<1>6. \A q \in Rulesets : rstate'[q] = "free" => rstate[q] = "free"
  BY <1>0, <1>1 DEF Put, Types
<1>7. "idle" \notin DomainLabels /\ "abort_creds" \notin DomainLabels
  BY DEF DomainLabels, WalkLabels
<1>8. \A u \in Tasks : Label(u)' \in DomainLabels \ {"put_dom"} => hier'[newdom'[u]] # NULL
  BY <1>1, <1>2, <1>4, <1>5, <1>7 DEF KindsOK
<1>9. \A u \in Threads : pc'[u] = "put_hierarchy" => hier'[fr'[u]] = NULL
  BY <1>2, <1>3, <1>4 DEF KindsOK
<1> QED BY <1>2, <1>6, <1>8, <1>9 DEF KindsOK

\* Nobody else gets to know the domain before commit_creds().
LEMMA ExclusiveStep ==
    ASSUME Core, CredsOK, PreparedOK, UsagesOK, Exclusive, [Next]_vars
    PROVE  Exclusive'
<1> USE RulesetAssumption, Using, NotFree DEF Core, Types, Control, CredsOK,
    PreparedOK, Exclusive, OwnDomain, Committing, DomainOf, Parent, Threads, Label,
    Merging, At, Goto, Idle, CallLocals, Prepared,
        Labels, CallLabels, DomainLabels, WalkLabels, FreeLabels, rvars, hvars,
           cvars, locals, frvars, ptvars, ghosts, Alloc
<1>1. ASSUME NEW t \in Tasks, AllocStep(t) PROVE Exclusive'
  <2>1. ASSUME NEW r \in Rulesets, NEW handled \in SUBSET Access, CreateRuleset(t, r, handled)
        PROVE  Exclusive'
    BY <2>1, ExclusiveAlloc
  <2>2. ASSUME NEW r \in Rulesets, NEW handled \in SUBSET Access, CreateRulesetNoFd(t, r, handled)
        PROVE  Exclusive'
    BY <2>2, ExclusiveAlloc
  <2>3. ASSUME NEW r \in Rulesets, NEW h \in Hierarchies, CreateDomain(t, r, h)
        PROVE  Exclusive'
    BY <2>3, ExclusiveAlloc
  <2>4. ASSUME NEW r \in Rulesets, CreateHierarchyFails(t, r)
        PROVE  Exclusive'
    BY <2>4, ExclusiveAlloc
  <2> QED BY <1>1, <2>1, <2>2, <2>3, <2>4 DEF AllocStep
<1>2. ASSUME NEW t \in Tasks, CallStep(t) PROVE Exclusive'
  <2>1. ASSUME NEW r \in Rulesets, NEW o \in Objects, NEW allowed \in SUBSET Access,
             AddRule(t, r, o, allowed)
        PROVE  Exclusive'
    BY <2>1 DEF AddRule, Get
  <2>2. ASSUME NEW r \in Rulesets, Close(t, r)
        PROVE  Exclusive'
    BY <2>2 DEF Close, Put
  <2>3. ASSUME NEW r \in Rulesets, RestrictSelf(t, r)
        PROVE  Exclusive'
    BY <2>3 DEF RestrictSelf, Get
  <2>4. ASSUME NEW c \in Creds, ChangeCreds(t, c)
        PROVE  Exclusive'
    BY <2>4, ExclusiveCopy
  <2>5. ASSUME NEW c \in Creds, NEW u \in Tasks, Fork(t, u, c)
        PROVE  Exclusive'
    BY <2>5, ExclusiveCopy
  <2>6. ASSUME NEW u \in Tasks, CloneThread(t, u)
        PROVE  Exclusive'
    BY <2>6 DEF CloneThread
  <2>7. ASSUME NEW p \in Tasks, NEW c \in Tasks, TaskPtrace(t, p, c)
        PROVE  Exclusive'
    BY <2>7 DEF TaskPtrace
  <2>8. CASE Exit(t)
    BY <2>8 DEF Exit, PutCred
  <2> QED BY <1>2, <2>1, <2>2, <2>3, <2>4, <2>5, <2>6, <2>7, <2>8 DEF CallStep
<1>3. ASSUME NEW t \in Tasks, LockStep(t) PROVE Exclusive'
  <2>1. CASE AppendFsRule(t)
    BY <2>1 DEF AppendFsRule, InsertRule
  <2>2. CASE InheritLock(t)
    BY <2>2 DEF InheritLock, Unlocked, Lock, RulesOf
  <2>3. CASE MergeLock(t)
    BY <2>3 DEF MergeLock, Unlocked, Lock, RulesOf
  <2> QED BY <1>3, <2>1, <2>2, <2>3 DEF LockStep
<1>4. ASSUME NEW t \in Tasks, KernelStep(t) PROVE Exclusive'
  <2>1. CASE AppendFsRuleFails(t)
    BY <2>1 DEF AppendFsRuleFails
  <2>2. CASE PutRuleset(t)
    BY <2>2 DEF PutRuleset, Put
  <2>3. ASSUME NEW c \in Creds, PrepareCreds(t, c)
        PROVE  Exclusive'
    BY <2>3 DEF PrepareCreds, NewCred, GetDomain, DomainOf
  <2>4. CASE PrepareCredsFails(t)
    BY <2>4 DEF PrepareCredsFails
  <2>5. CASE MergeFails(t)
    BY <2>5 DEF MergeFails
  <2>6. ASSUME NEW o \in Objects, InheritRule(t, o)
        PROVE  Exclusive'
    BY <2>6 DEF InheritRule, InsertRule
  <2>7. ASSUME NEW o \in Objects, MergeRule(t, o)
        PROVE  Exclusive'
    BY <2>7 DEF MergeRule, InsertRule
  <2>8. CASE InheritFails(t)
    BY <2>8 DEF InheritFails, Unlock
  <2>9. CASE InheritDone(t)
    BY <2>9 DEF InheritDone, Unlock
  <2>10. CASE MergeRuleFails(t)
    BY <2>10 DEF MergeRuleFails, Unlock
  <2>11. CASE MergeDone(t)
    BY <2>11 DEF MergeDone, Unlock
  <2>12. CASE PutDom(t)
    BY <2>12 DEF PutDom, Put
  <2>13. CASE ReplaceDomain(t)
    BY <2>13 DEF ReplaceDomain, Put
  <2>14. CASE AssignDomain(t)
    BY <2>14 DEF AssignDomain
  <2>15. CASE CommitCreds(t)
    BY <2>15 DEF CommitCreds, PutCred
  <2>16. CASE AbortCreds(t)
    BY <2>16 DEF AbortCreds, PutCred
  <2>17. CASE TaskIsScoped(t)
    BY <2>17 DEF TaskIsScoped, DomainOf
  <2>18. CASE DomChild(t)
    BY <2>18 DEF DomChild, DomainOf
  <2>19. CASE DomainScopeLe(t)
    BY <2>19 DEF DomainScopeLe, ScopeDecided
  <2> QED BY <1>4, <2>1, <2>2, <2>3, <2>4, <2>5, <2>6, <2>7, <2>8, <2>9, <2>10, <2>11, <2>12, <2>13, <2>14, <2>15, <2>16, <2>17, <2>18, <2>19 DEF KernelStep
<1>5. ASSUME NEW t \in Threads, FreeStep(t) PROVE Exclusive'
  <2>1. CASE FreeRuleset(t)
    BY <2>1 DEF FreeRuleset
  <2>2. CASE PutHierarchy(t)
    BY <2>2 DEF PutHierarchy
  <2>3. CASE Kfree(t)
    BY <2>3 DEF Kfree
  <2> QED BY <1>5, <2>1, <2>2, <2>3 DEF FreeStep
<1>6. ASSUME NEW c \in Creds, CredFree(c) PROVE Exclusive'
  BY <1>6 DEF CredFree
<1>7. ASSUME NEW r \in Rulesets, FreeRulesetWork(r) PROVE Exclusive'
  BY <1>7 DEF FreeRulesetWork
<1>8. CASE UNCHANGED vars
  BY <1>8 DEF vars
<1> QED BY <1>1, <1>2, <1>3, <1>4, <1>5, <1>6, <1>7, <1>8 DEF Next

\* A descriptor never refers to a domain, nor a credential to a ruleset.
LEMMA KindsStep ==
    ASSUME Core, CredsOK, PreparedOK, UsagesOK, KindsOK, [Next]_vars
    PROVE  KindsOK'
<1> USE RulesetAssumption, Using, NotFree DEF Core, Types, Control, CredsOK,
    PreparedOK, KindsOK, Committing, DomainOf, Parent, Threads, Label, Merging, At,
    Goto, Idle, CallLocals, FreeLocals, Prepared,
        Labels, CallLabels, DomainLabels, WalkLabels, FreeLabels, rvars, hvars,
           cvars, locals, frvars, ptvars, ghosts, Alloc
<1>1. ASSUME NEW t \in Tasks, AllocStep(t) PROVE KindsOK'
  <2>1. ASSUME NEW r \in Rulesets, NEW handled \in SUBSET Access, CreateRuleset(t, r, handled)
        PROVE  KindsOK'
    BY <2>1 DEF CreateRuleset
  <2>2. ASSUME NEW r \in Rulesets, NEW handled \in SUBSET Access, CreateRulesetNoFd(t, r, handled)
        PROVE  KindsOK'
    BY <2>2 DEF CreateRulesetNoFd
  <2>3. ASSUME NEW r \in Rulesets, NEW h \in Hierarchies, CreateDomain(t, r, h)
        PROVE  KindsOK'
    BY <2>3 DEF CreateDomain
  <2>4. ASSUME NEW r \in Rulesets, CreateHierarchyFails(t, r)
        PROVE  KindsOK'
    BY <2>4 DEF CreateHierarchyFails
  <2> QED BY <1>1, <2>1, <2>2, <2>3, <2>4 DEF AllocStep
<1>2. ASSUME NEW t \in Tasks, CallStep(t) PROVE KindsOK'
  <2>1. ASSUME NEW r \in Rulesets, NEW o \in Objects, NEW allowed \in SUBSET Access,
             AddRule(t, r, o, allowed)
        PROVE  KindsOK'
    BY <2>1 DEF AddRule, Get
  <2>2. ASSUME NEW r \in Rulesets, Close(t, r)
        PROVE  KindsOK'
    BY <2>2, KindsPut
  <2>3. ASSUME NEW r \in Rulesets, RestrictSelf(t, r)
        PROVE  KindsOK'
    BY <2>3 DEF RestrictSelf, Get
  <2>4. ASSUME NEW c \in Creds, ChangeCreds(t, c)
        PROVE  KindsOK'
    BY <2>4, KindsCopy
  <2>5. ASSUME NEW c \in Creds, NEW u \in Tasks, Fork(t, u, c)
        PROVE  KindsOK'
    BY <2>5, KindsCopy
  <2>6. ASSUME NEW u \in Tasks, CloneThread(t, u)
        PROVE  KindsOK'
    BY <2>6 DEF CloneThread
  <2>7. ASSUME NEW p \in Tasks, NEW c \in Tasks, TaskPtrace(t, p, c)
        PROVE  KindsOK'
    BY <2>7 DEF TaskPtrace
  <2>8. CASE Exit(t)
    BY <2>8 DEF Exit, PutCred
  <2> QED BY <1>2, <2>1, <2>2, <2>3, <2>4, <2>5, <2>6, <2>7, <2>8 DEF CallStep
<1>3. ASSUME NEW t \in Tasks, LockStep(t) PROVE KindsOK'
  <2>1. CASE AppendFsRule(t)
    BY <2>1 DEF AppendFsRule, InsertRule
  <2>2. CASE InheritLock(t)
    BY <2>2 DEF InheritLock, Unlocked, Lock, RulesOf
  <2>3. CASE MergeLock(t)
    BY <2>3 DEF MergeLock, Unlocked, Lock, RulesOf
  <2> QED BY <1>3, <2>1, <2>2, <2>3 DEF LockStep
<1>4. ASSUME NEW t \in Tasks, KernelStep(t) PROVE KindsOK'
  <2>1. CASE AppendFsRuleFails(t)
    BY <2>1 DEF AppendFsRuleFails
  <2>2. CASE PutRuleset(t)
    BY <2>2 DEF PutRuleset, Put
  <2>3. ASSUME NEW c \in Creds, PrepareCreds(t, c)
        PROVE  KindsOK'
    BY <2>3 DEF PrepareCreds, NewCred, GetDomain, DomainOf
  <2>4. CASE PrepareCredsFails(t)
    BY <2>4 DEF PrepareCredsFails
  <2>5. CASE MergeFails(t)
    BY <2>5 DEF MergeFails
  <2>6. ASSUME NEW o \in Objects, InheritRule(t, o)
        PROVE  KindsOK'
    BY <2>6 DEF InheritRule, InsertRule
  <2>7. ASSUME NEW o \in Objects, MergeRule(t, o)
        PROVE  KindsOK'
    BY <2>7 DEF MergeRule, InsertRule
  <2>8. CASE InheritFails(t)
    BY <2>8 DEF InheritFails, Unlock
  <2>9. CASE InheritDone(t)
    BY <2>9 DEF InheritDone, Unlock
  <2>10. CASE MergeRuleFails(t)
    BY <2>10 DEF MergeRuleFails, Unlock
  <2>11. CASE MergeDone(t)
    BY <2>11 DEF MergeDone, Unlock
  <2>12. CASE PutDom(t)
    BY <2>12, KindsPut
  <2>13. CASE ReplaceDomain(t)
    BY <2>13 DEF ReplaceDomain, Put
  <2>14. CASE AssignDomain(t)
    BY <2>14 DEF AssignDomain
  <2>15. CASE CommitCreds(t)
    BY <2>15 DEF CommitCreds, PutCred
  <2>16. CASE AbortCreds(t)
    BY <2>16 DEF AbortCreds, PutCred
  <2>17. CASE TaskIsScoped(t)
    BY <2>17 DEF TaskIsScoped, DomainOf
  <2>18. CASE DomChild(t)
    BY <2>18 DEF DomChild, DomainOf
  <2>19. CASE DomainScopeLe(t)
    BY <2>19 DEF DomainScopeLe, ScopeDecided
  <2> QED BY <1>4, <2>1, <2>2, <2>3, <2>4, <2>5, <2>6, <2>7, <2>8, <2>9, <2>10, <2>11, <2>12, <2>13, <2>14, <2>15, <2>16, <2>17, <2>18, <2>19 DEF KernelStep
<1>5. ASSUME NEW t \in Threads, FreeStep(t) PROVE KindsOK'
  <2>1. CASE FreeRuleset(t)
    BY <2>1 DEF FreeRuleset
  <2>2. CASE PutHierarchy(t)
    BY <2>2 DEF PutHierarchy
  <2>3. CASE Kfree(t)
    <3>1. fr[t] \in Rulesets /\ hier[fr[t]] = NULL /\ ret[t] \in Returns
      BY <2>3, UsingFreed DEF Kfree
    <3>2. /\ rstate' = [rstate EXCEPT ![fr[t]] = "free"] /\ fr' = [fr EXCEPT ![t] = NULL]
          /\ pc' = [pc EXCEPT ![t] = ret[t]] /\ ret' = [ret EXCEPT ![t] = "idle"]
          /\ UNCHANGED <<hier, fd, rs, newdom, cdom>>
      BY <2>3 DEF Kfree
    <3>3. \A u \in Tasks : Label(u)' = Label(u)
      BY <2>3, <3>1, <3>2 DEF Kfree, Returns
    <3>4. \A u \in Threads : pc'[u] = "put_hierarchy" => u # t /\ pc[u] = "put_hierarchy"
      BY <3>1, <3>2 DEF Returns
    <3> QED BY <3>1, <3>2, <3>3, <3>4
  <2> QED BY <1>5, <2>1, <2>2, <2>3 DEF FreeStep
<1>6. ASSUME NEW c \in Creds, CredFree(c) PROVE KindsOK'
  BY <1>6 DEF CredFree
<1>7. ASSUME NEW r \in Rulesets, FreeRulesetWork(r) PROVE KindsOK'
  BY <1>7 DEF FreeRulesetWork
<1>8. CASE UNCHANGED vars
  BY <1>8 DEF vars
<1> QED BY <1>1, <1>2, <1>3, <1>4, <1>5, <1>6, <1>7, <1>8 DEF Next

-----------------------------------------------------------------------------
(* References to nodes of the hierarchy.                                   *)

HierRefs(h) == Count({r \in Rulesets : hier[r] = h})
ParentRefs(h) == Count({k \in Hierarchies : hparent[k] = h})
WalkRefs(h) == Count({t \in Threads : wh[t] = h})

ExactNode(h) == husage[h] = HierRefs(h) + ParentRefs(h) + WalkRefs(h)

NodesOK ==
    /\ husage = [h \in Hierarchies |-> husage[h]]
    /\ \A h \in Hierarchies : ExactNode(h)
    /\ \A r, q \in Rulesets : hier[r] # NULL /\ hier[r] = hier[q] => r = q
    /\ \A h \in Hierarchies : husage[h] = 0 => hparent[h] = NULL

\* The node of a domain under construction has no parent yet.
RootsOK ==
    \A t \in Tasks : Label(t) \in {"inherit_lock", "inherit"} => hparent[hier[newdom[t]]] = NULL

\* The counts of nodes, in the words of the specification.
LEMMA ExactNodeMeans ==
    (\A h \in Hierarchies : ExactNode(h)) => HierarchyUsageExact
BY DEF HierarchyUsageExact, ExactNode, HierRefs, ParentRefs, WalkRefs

\* The threads are the tasks and the workqueue.
LEMMA ThreadsFinite == IsFiniteSet(Threads)
BY RulesetAssumption, FS_AddElement DEF Threads

\* One reference from a domain moves.
LEMMA HierMove ==
    ASSUME Types, NEW s \in Rulesets, NEW v, hier' = [hier EXCEPT ![s] = v], NEW r
    PROVE  HierRefs(r)' = HierRefs(r) - Is(hier[s], r) + Is(v, r)
<1>1. PICK f, g : f = hier /\ g = hier'
  OBVIOUS
<1>2. DOMAIN f = Rulesets /\ g = [f EXCEPT ![s] = v] /\ IsFiniteSet(Rulesets)
  BY <1>1, RulesetAssumption DEF Types
<1>3. Count({k \in Rulesets : g[k] = r})
         = Count({k \in Rulesets : f[k] = r}) - Is(f[s], r) + Is(v, r)
  BY ONLY <1>2, s \in Rulesets, CountMove
<1> QED BY <1>1, <1>3 DEF HierRefs

\* One reference from a child node moves.
LEMMA ParentMove ==
    ASSUME Types, NEW s \in Hierarchies, NEW v, hparent' = [hparent EXCEPT ![s] = v], NEW r
    PROVE  ParentRefs(r)' = ParentRefs(r) - Is(hparent[s], r) + Is(v, r)
<1>1. PICK f, g : f = hparent /\ g = hparent'
  OBVIOUS
<1>2. DOMAIN f = Hierarchies /\ g = [f EXCEPT ![s] = v] /\ IsFiniteSet(Hierarchies)
  BY <1>1, RulesetAssumption DEF Types
<1>3. Count({k \in Hierarchies : g[k] = r})
         = Count({k \in Hierarchies : f[k] = r}) - Is(f[s], r) + Is(v, r)
  BY ONLY <1>2, s \in Hierarchies, CountMove
<1> QED BY <1>1, <1>3 DEF ParentRefs

\* One reference held by put_hierarchy() moves.
LEMMA WalkMove ==
    ASSUME Types, NEW s \in Threads, NEW v, wh' = [wh EXCEPT ![s] = v], NEW r
    PROVE  WalkRefs(r)' = WalkRefs(r) - Is(wh[s], r) + Is(v, r)
<1>1. PICK f, g : f = wh /\ g = wh'
  OBVIOUS
<1>2. DOMAIN f = Threads /\ g = [f EXCEPT ![s] = v] /\ IsFiniteSet(Threads)
  BY <1>1, ThreadsFinite DEF Types
<1>3. Count({k \in Threads : g[k] = r})
         = Count({k \in Threads : f[k] = r}) - Is(f[s], r) + Is(v, r)
  BY ONLY <1>2, s \in Threads, CountMove
<1> QED BY <1>1, <1>3 DEF WalkRefs

\* A count stays if what it counts does.
LEMMA NodeRefsSame ==
    ASSUME NEW q
    PROVE  /\ UNCHANGED hier => HierRefs(q)' = HierRefs(q)
           /\ UNCHANGED hparent => ParentRefs(q)' = ParentRefs(q)
           /\ UNCHANGED wh => WalkRefs(q)' = WalkRefs(q)
BY DEF HierRefs, ParentRefs, WalkRefs

\* A count is zero if nothing is counted.
LEMMA NodeRefs ==
    ASSUME NEW h
    PROVE  /\ HierRefs(h) \in Nat /\ ParentRefs(h) \in Nat /\ WalkRefs(h) \in Nat
           /\ (HierRefs(h) = 0) <=> (\A r \in Rulesets : hier[r] # h)
           /\ (ParentRefs(h) = 0) <=> (\A k \in Hierarchies : hparent[k] # h)
           /\ (WalkRefs(h) = 0) <=> (\A t \in Threads : wh[t] # h)
<1>1. /\ Count({r \in Rulesets : hier[r] = h}) \in Nat
      /\ (Count({r \in Rulesets : hier[r] = h}) = 0) <=> (\A r \in Rulesets : hier[r] # h)
  BY RulesetAssumption, CountSome
<1>2. /\ Count({k \in Hierarchies : hparent[k] = h}) \in Nat
      /\ (Count({k \in Hierarchies : hparent[k] = h}) = 0) <=> (\A k \in Hierarchies : hparent[k] # h)
  BY RulesetAssumption, CountSome
<1>3. /\ Count({t \in Threads : wh[t] = h}) \in Nat
      /\ (Count({t \in Threads : wh[t] = h}) = 0) <=> (\A t \in Threads : wh[t] # h)
  BY ThreadsFinite, CountSome
<1> QED BY <1>1, <1>2, <1>3 DEF HierRefs, ParentRefs, WalkRefs

\* A node that is referred to is not freed.
LEMMA HeldNode ==
    ASSUME NodesOK, NEW h \in Hierarchies
    PROVE  /\ husage[h] \in Nat
           /\ husage[h] = 0 => /\ \A r \in Rulesets : hier[r] # h
                               /\ \A k \in Hierarchies : hparent[k] # h
                               /\ \A t \in Threads : wh[t] # h
<1>1. PICK a, b, c : a = HierRefs(h) /\ b = ParentRefs(h) /\ c = WalkRefs(h)
  OBVIOUS
<1>2. a \in Nat /\ b \in Nat /\ c \in Nat /\ husage[h] = a + b + c
  BY <1>1, NodeRefs DEF NodesOK, ExactNode
<1>3. husage[h] \in Nat /\ (husage[h] = 0 => a = 0 /\ b = 0 /\ c = 0)
  BY <1>2
<1> QED BY <1>1, <1>3, NodeRefs

\* There is no node at first.
LEMMA NodesInit == Init => NodesOK /\ RootsOK
<1> SUFFICES ASSUME Init PROVE NodesOK /\ RootsOK
  OBVIOUS
<1>1. ASSUME NEW h \in Hierarchies PROVE ExactNode(h)
  <2>0. h # NULL
    BY RulesetAssumption
  <2>1. \A r \in Rulesets : hier[r] # h
    BY <2>0 DEF Init
  <2>2. \A k \in Hierarchies : hparent[k] # h
    BY <2>0 DEF Init
  <2>3. \A t \in Threads : wh[t] # h
    BY <2>0 DEF Init
  <2>4. husage[h] = 0
    BY DEF Init
  <2>5. HierRefs(h) = 0 /\ ParentRefs(h) = 0 /\ WalkRefs(h) = 0
    BY <2>1, <2>2, <2>3, NodeRefs
  <2> QED BY <2>4, <2>5 DEF ExactNode
<1>2. NodesOK
  BY <1>1 DEF Init, NodesOK
<1>3. RootsOK
  BY DEF Init, RootsOK, Label, FreeLabels, Threads
<1> QED BY <1>2, <1>3

nodevars == <<husage, hparent, hier, wh>>

\* The steps that write a reference to a node or its count.
LEMMA NodeSteps ==
    ASSUME Types, UsagesOK, KindsOK, [Next]_vars
    PROVE  \/ UNCHANGED nodevars
           \/ \E t \in Tasks, r \in Rulesets, h \in Hierarchies : CreateDomain(t, r, h)
           \/ \E t \in Tasks : InheritDone(t)
           \/ \E t \in Threads : FreeRuleset(t) \/ PutHierarchy(t)
<1> USE DEF nodevars, rvars, hvars, cvars, locals, frvars, ptvars, ghosts
<1>0. ASSUME NEW r \in Rulesets, NEW layers, Alloc(r, layers, NULL) PROVE UNCHANGED hier
  BY <1>0 DEF Alloc, KindsOK, Types
<1>1. ASSUME NEW t \in Tasks, NEW r \in Rulesets,
             (\E handled \in SUBSET Access :
                 CreateRuleset(t, r, handled) \/ CreateRulesetNoFd(t, r, handled))
             \/ CreateHierarchyFails(t, r)
      PROVE  UNCHANGED nodevars
  <2>1. UNCHANGED hier
    BY <1>0, <1>1 DEF CreateRuleset, CreateRulesetNoFd, CreateHierarchyFails
  <2> QED BY <1>1, <2>1 DEF CreateRuleset, CreateRulesetNoFd, CreateHierarchyFails
<1>2. ASSUME NEW t \in Tasks, CallStep(t) PROVE UNCHANGED nodevars
  BY <1>2 DEF CallStep, AddRule, Close, RestrictSelf, ChangeCreds, Fork,
     CloneThread, TaskPtrace, Exit
<1>3. ASSUME NEW t \in Tasks, LockStep(t) PROVE UNCHANGED nodevars
  BY <1>3 DEF LockStep, AppendFsRule, InheritLock, MergeLock
<1>4. ASSUME NEW t \in Tasks, KernelStep(t) PROVE UNCHANGED nodevars \/ InheritDone(t)
  BY <1>4 DEF KernelStep, AppendFsRuleFails, PutRuleset, PrepareCreds,
     PrepareCredsFails, MergeFails,
       InheritRule, MergeRule, InheritFails, MergeRuleFails, MergeDone, PutDom,
          ReplaceDomain,
       AssignDomain, CommitCreds, AbortCreds, TaskIsScoped, DomChild, DomainScopeLe
<1>5. ASSUME NEW t \in Threads, Kfree(t) PROVE UNCHANGED nodevars
  BY <1>5 DEF Kfree
<1>6. ASSUME NEW c \in Creds, CredFree(c) PROVE UNCHANGED nodevars
  BY <1>6 DEF CredFree
<1>7. ASSUME NEW r \in Rulesets, FreeRulesetWork(r) PROVE UNCHANGED nodevars
  BY <1>7 DEF FreeRulesetWork
<1>8. CASE UNCHANGED vars
  BY <1>8 DEF vars
<1> QED BY <1>1, <1>2, <1>3, <1>4, <1>5, <1>6, <1>7, <1>8 DEF Next, AllocStep, FreeStep

\* Where inherit_ruleset() gets the parent of a new node from.
LEMMA InheritNodes ==
    ASSUME Core, PreparedOK, KindsOK, NEW t \in Tasks, At(t, "inherit") \/ At(t, "inherit_lock")
    PROVE  /\ Parent(t) \in Rulesets /\ newdom[t] \in Rulesets
           /\ hier[Parent(t)] \in Hierarchies /\ hier[newdom[t]] \in Hierarchies
           /\ Parent(t) = DomainOf(t)
<1>1. pc[t] \in {"inherit", "inherit_lock"} /\ Label(t) = pc[t]
  BY DEF At, Label, FreeLabels
<1>2. newdom[t] \in Rulesets /\ ncred[t] \in Creds
  BY <1>1, Using DEF DomainLabels, WalkLabels, Prepared
<1>3. Parent(t) = DomainOf(t) /\ Parent(t) # NULL
  BY <1>1 DEF PreparedOK, Parent, Merging
<1>4. Parent(t) \in Rulesets /\ hier[Parent(t)] # NULL
  BY <1>2, <1>3 DEF Parent, Core, Types, OrNull, KindsOK
<1>5. hier[newdom[t]] # NULL
  BY <1>1 DEF KindsOK, DomainLabels, WalkLabels
<1> QED BY <1>2, <1>3, <1>4, <1>5 DEF Core, Types, OrNull

\* get_hierarchy() and put_hierarchy() are balanced, and a node that is
\* freed has no parent left to put.
LEMMA NodesStep ==
    ASSUME Core, PreparedOK, UsagesOK, KindsOK, NodesOK, RootsOK, [Next]_vars
    PROVE  NodesOK'
<1> USE DEF rvars, hvars, cvars, locals, frvars, ptvars, ghosts
<1>0. Types /\ \A h \in Hierarchies : h # NULL /\ ExactNode(h) /\ husage[h] \in Nat
  BY RulesetAssumption, HeldNode DEF Core, NodesOK
<1>1. ASSUME NEW t \in Tasks, NEW r \in Rulesets, NEW h \in Hierarchies, CreateDomain(t, r, h)
      PROVE  NodesOK'
  <2>1. /\ hier' = [hier EXCEPT ![r] = h] /\ husage' = [husage EXCEPT ![h] = 1]
        /\ hparent' = [hparent EXCEPT ![h] = NULL] /\ UNCHANGED wh
        /\ husage[h] = 0 /\ rstate[r] = "free"
    BY <1>1 DEF CreateDomain, Alloc
  <2>2. hparent[h] = NULL /\ hier[r] = NULL /\ \A q \in Rulesets : hier[q] # h
    BY <2>1, HeldNode DEF NodesOK, KindsOK
  <2>3. UNCHANGED hparent
    BY <1>0, <2>1, <2>2 DEF Types
  <2>4. \A q : HierRefs(q)' = HierRefs(q) - Is(NULL, q) + Is(h, q)
    BY <1>0, <2>1, <2>2, HierMove
  <2>5. husage' = [q \in Hierarchies |-> husage'[q]]
        /\ \A q \in Hierarchies : husage'[q] = IF q = h THEN 1 ELSE husage[q]
    BY <2>1 DEF NodesOK
  <2>6. ASSUME NEW q \in Hierarchies PROVE ExactNode(q)'
    BY <1>0, <2>1, <2>3, <2>4, <2>5, NodeRefs, NodeRefsSame DEF ExactNode, Is
  <2>7. \A q \in Rulesets : hier'[q] = IF q = r THEN h ELSE hier[q]
    BY <1>0, <2>1 DEF Types
  <2> QED BY <2>2, <2>3, <2>5, <2>6, <2>7 DEF NodesOK
<1>2. ASSUME NEW t \in Tasks, InheritDone(t) PROVE NodesOK'
  <2>0. PICK a, b : a = hier[newdom[t]] /\ b = hier[Parent(t)]
    OBVIOUS
  <2>1. a \in Hierarchies /\ b \in Hierarchies
    BY <1>2, <2>0, InheritNodes DEF InheritDone
  <2>2. husage' = [husage EXCEPT ![b] = husage[b] + 1] /\ hparent' = [hparent EXCEPT ![a] = b]
        /\ UNCHANGED <<hier, wh>> /\ pc[t] = "inherit"
    BY <1>2, <2>0 DEF InheritDone, At
  <2>3. hparent[a] = NULL
    BY <2>0, <2>2 DEF RootsOK, Label, FreeLabels
  <2>4. \A q : ParentRefs(q)' = ParentRefs(q) - Is(NULL, q) + Is(b, q)
    BY <1>0, <2>1, <2>2, <2>3, ParentMove
  <2>5. husage' = [q \in Hierarchies |-> husage'[q]]
        /\ \A q \in Hierarchies : husage'[q] = IF q = b THEN husage[q] + 1 ELSE husage[q]
    BY <2>2 DEF NodesOK
  <2>6. ASSUME NEW q \in Hierarchies PROVE ExactNode(q)'
    BY <1>0, <2>2, <2>4, <2>5, NodeRefs, NodeRefsSame DEF ExactNode, Is
  <2>7. husage[a] # 0
    <3>1. newdom[t] \in Rulesets
      BY <1>2, InheritNodes DEF InheritDone
    <3> QED BY <2>0, <2>1, <3>1, HeldNode
  <2>8. \A q \in Hierarchies : hparent'[q] = IF q = a THEN b ELSE hparent[q]
    BY <1>0, <2>1, <2>2 DEF Types
  <2>9. \A q \in Hierarchies : husage'[q] = 0 => hparent'[q] = NULL
    BY <1>0, <2>5, <2>7, <2>8 DEF NodesOK
  <2> QED BY <2>2, <2>5, <2>6, <2>9 DEF NodesOK
<1>3. ASSUME NEW t \in Threads, FreeRuleset(t) PROVE NodesOK'
  <2>0. PICK f, h : f = fr[t] /\ h = hier[f]
    OBVIOUS
  <2>1. f \in Rulesets /\ pc[t] = "free_ruleset"
    BY <1>3, <2>0, UsingFreed DEF FreeRuleset, At, FreeLabels
  <2>2. /\ wh' = [wh EXCEPT ![t] = h] /\ hier' = [hier EXCEPT ![f] = NULL]
        /\ UNCHANGED <<husage, hparent>>
    BY <1>3, <2>0 DEF FreeRuleset
  <2>3. wh[t] = NULL
    BY <2>1 DEF Core, Control, FreeLocals
  <2>4. \A q : WalkRefs(q)' = WalkRefs(q) - Is(NULL, q) + Is(h, q)
    BY <1>0, <2>2, <2>3, WalkMove
  <2>5. \A q : HierRefs(q)' = HierRefs(q) - Is(h, q) + Is(NULL, q)
    BY <1>0, <2>0, <2>1, <2>2, HierMove
  <2>6. ASSUME NEW q \in Hierarchies PROVE ExactNode(q)'
    BY <1>0, <2>2, <2>4, <2>5, NodeRefs, NodeRefsSame DEF ExactNode, Is
  <2>7. \A q \in Rulesets : hier'[q] = IF q = f THEN NULL ELSE hier[q]
    BY <1>0, <2>2 DEF Types
  <2> QED BY <2>2, <2>6, <2>7 DEF NodesOK
<1>4. ASSUME NEW t \in Threads, PutHierarchy(t) PROVE NodesOK'
  <2>0. PICK w, p : w = wh[t] /\ p = hparent[w]
    OBVIOUS
  <2>1. w \in Hierarchies
    BY <1>0, <1>4, <2>0 DEF PutHierarchy, Types, OrNull
  <2>2. husage' = [husage EXCEPT ![w] = husage[w] - 1] /\ UNCHANGED hier
    BY <1>4, <2>0 DEF PutHierarchy
  <2>3. husage' = [q \in Hierarchies |-> husage'[q]]
        /\ \A q \in Hierarchies : husage'[q] = IF q = w THEN husage[q] - 1 ELSE husage[q]
    BY <2>2 DEF NodesOK
  <2>4. husage[w] # 0
    BY <2>0, <2>1, HeldNode
  <2>5. CASE husage[w] = 1
    <3>1. wh' = [wh EXCEPT ![t] = p] /\ hparent' = [hparent EXCEPT ![w] = NULL]
      BY <1>4, <2>0, <2>5 DEF PutHierarchy
    <3>2. \A q : WalkRefs(q)' = WalkRefs(q) - Is(w, q) + Is(p, q)
      BY <1>0, <2>0, <3>1, WalkMove
    <3>3. \A q : ParentRefs(q)' = ParentRefs(q) - Is(p, q) + Is(NULL, q)
      BY <1>0, <2>0, <2>1, <3>1, ParentMove
    <3>4. ASSUME NEW q \in Hierarchies PROVE ExactNode(q)'
      <4>1. /\ WalkRefs(q)' = WalkRefs(q) - Is(w, q) + Is(p, q)
            /\ ParentRefs(q)' = ParentRefs(q) - Is(p, q) + Is(NULL, q)
            /\ HierRefs(q)' = HierRefs(q)
        BY <2>2, <3>2, <3>3, NodeRefsSame
      <4>2. /\ Is(NULL, q) = 0 /\ Is(p, q) \in {0, 1}
            /\ Is(w, q) = IF q = w THEN 1 ELSE 0
        BY <1>0 DEF Is
      <4>3. husage[q] = HierRefs(q) + ParentRefs(q) + WalkRefs(q)
            /\ husage'[q] = husage[q] - Is(w, q)
        BY <1>0, <2>3, <4>2 DEF ExactNode
      <4>4. husage'[q] = HierRefs(q)' + ParentRefs(q)' + WalkRefs(q)'
        BY <4>1, <4>2, <4>3, NodeRefs
      <4> QED BY <4>4 DEF ExactNode
    <3>5. \A q \in Hierarchies : hparent'[q] = IF q = w THEN NULL ELSE hparent[q]
      BY <1>0, <3>1 DEF Types
    <3> QED BY <2>2, <2>3, <3>4, <3>5 DEF NodesOK
  <2>6. CASE husage[w] # 1
    <3>1. wh' = [wh EXCEPT ![t] = NULL] /\ UNCHANGED hparent
      BY <1>4, <2>0, <2>6 DEF PutHierarchy
    <3>2. \A q : WalkRefs(q)' = WalkRefs(q) - Is(w, q) + Is(NULL, q)
      BY <1>0, <2>0, <3>1, WalkMove
    <3>3. ASSUME NEW q \in Hierarchies PROVE ExactNode(q)'
      BY <1>0, <2>2, <2>3, <3>1, <3>2, NodeRefs, NodeRefsSame DEF ExactNode, Is
    <3>4. \A q \in Hierarchies : husage'[q] = 0 => husage[q] = 0
      BY <1>0, <2>1, <2>3, <2>6
    <3> QED BY <2>2, <2>3, <3>1, <3>3, <3>4 DEF NodesOK
  <2> QED BY <2>5, <2>6
<1>5. CASE UNCHANGED nodevars
  BY <1>5, NodeRefsSame DEF nodevars, NodesOK, ExactNode
<1> QED BY <1>0, <1>1, <1>2, <1>3, <1>4, <1>5, NodeSteps

\* What happens to the node of a ruleset that is live, and to a parent.
LEMMA NodeKept ==
    ASSUME Core, UsagesOK, KindsOK, [Next]_vars
    PROVE  /\ \A r \in Rulesets : rstate[r] = "live" => hier'[r] = hier[r]
           /\ \A r \in Rulesets : hier'[r] # hier[r] =>
                 (hier[r] = NULL /\ rstate[r] = "free") \/ (hier'[r] = NULL /\ rstate[r] = "freeing")
<1>0. Types
  BY DEF Core
<1>1. ASSUME NEW t \in Tasks, NEW r \in Rulesets, NEW h \in Hierarchies, CreateDomain(t, r, h)
      PROVE  rstate[r] = "free" /\ hier[r] = NULL /\ hier' = [hier EXCEPT ![r] = h]
  BY <1>1 DEF CreateDomain, Alloc, KindsOK
<1>2. ASSUME NEW t \in Threads, FreeRuleset(t)
      PROVE  fr[t] \in Rulesets /\ rstate[fr[t]] = "freeing" /\ hier' = [hier EXCEPT ![fr[t]] = NULL]
  <2>1. fr[t] \in Rulesets
    BY <1>2, UsingFreed DEF FreeRuleset, At, FreeLabels
  <2> QED BY <1>2, <2>1, NotFree, <1>0, RulesetAssumption DEF FreeRuleset
<1>3. UNCHANGED hier \/ (\E t \in Tasks, r \in Rulesets, h \in Hierarchies : CreateDomain(t, r, h))
      \/ \E t \in Threads : FreeRuleset(t)
  BY <1>0, NodeSteps DEF nodevars, InheritDone, PutHierarchy, rvars
<1> QED BY <1>0, <1>1, <1>2, <1>3 DEF Types

\* A parent is set once, by inherit_ruleset(), and dropped with the node.
LEMMA ParentKept ==
    ASSUME Core, UsagesOK, KindsOK, NodesOK, [Next]_vars, NEW k \in Hierarchies
    PROVE  \/ hparent'[k] = hparent[k]
           \/ hparent'[k] = NULL /\ husage[k] = 1 /\ \E t \in Threads : wh[t] = k /\ PutHierarchy(t)
           \/ \E t \in Tasks : InheritDone(t) /\ k = hier[newdom[t]] /\ hparent'[k] = hier[Parent(t)]
<1>0. Types
  BY DEF Core
<1>1. ASSUME NEW t \in Tasks, NEW r \in Rulesets, NEW h \in Hierarchies, CreateDomain(t, r, h)
      PROVE  hparent'[k] = hparent[k]
  BY <1>0, <1>1 DEF CreateDomain, NodesOK, Types
<1>2. ASSUME NEW t \in Threads, PutHierarchy(t), hparent'[k] # hparent[k]
      PROVE  hparent'[k] = NULL /\ husage[k] = 1 /\ wh[t] = k
  BY <1>0, <1>2 DEF PutHierarchy, Types
<1>3. ASSUME NEW t \in Tasks, InheritDone(t), hparent'[k] # hparent[k]
      PROVE  k = hier[newdom[t]] /\ hparent'[k] = hier[Parent(t)]
  BY <1>0, <1>3 DEF InheritDone, Types
<1>4. ASSUME NEW t \in Threads, FreeRuleset(t) PROVE hparent'[k] = hparent[k]
  BY <1>4 DEF FreeRuleset, hvars
<1> QED BY <1>0, <1>1, <1>2, <1>3, <1>4, NodeSteps DEF nodevars

\* The domain of a task that inherits its parent's rules was created for it.
RootMove(x) ==
    Label(x)' \in {"inherit_lock", "inherit"} =>
       \/ Label(x) \in {"inherit_lock", "inherit"} /\ newdom'[x] = newdom[x]
       \/ \E r \in Rulesets, h \in Hierarchies : CreateDomain(x, r, h)

\* Only create_ruleset() makes such a domain.
LEMMA RootMoves ==
    ASSUME Core, [Next]_vars, NEW x \in Tasks
    PROVE  RootMove(x)
<1> USE RulesetAssumption, Using DEF Core, Types, Control, RootMove, Threads, Label,
    At, Goto, Idle, CallLocals, FreeLocals,
        Labels, CallLabels, DomainLabels, WalkLabels, FreeLabels, Prepared,
        rvars, hvars, cvars, locals, frvars, ptvars, ghosts, Alloc
<1>1. ASSUME NEW t \in Tasks, AllocStep(t) PROVE RootMove(x)
  <2>1. ASSUME NEW r \in Rulesets, NEW handled \in SUBSET Access, CreateRuleset(t, r, handled)
        PROVE  RootMove(x)
    BY <2>1 DEF CreateRuleset
  <2>2. ASSUME NEW r \in Rulesets, NEW handled \in SUBSET Access, CreateRulesetNoFd(t, r, handled)
        PROVE  RootMove(x)
    BY <2>2 DEF CreateRulesetNoFd
  <2>3. ASSUME NEW r \in Rulesets, NEW h \in Hierarchies, CreateDomain(t, r, h)
        PROVE  RootMove(x)
    BY <2>3 DEF CreateDomain
  <2>4. ASSUME NEW r \in Rulesets, CreateHierarchyFails(t, r)
        PROVE  RootMove(x)
    BY <2>4 DEF CreateHierarchyFails
  <2> QED BY <1>1, <2>1, <2>2, <2>3, <2>4 DEF AllocStep
<1>2. ASSUME NEW t \in Tasks, CallStep(t) PROVE RootMove(x)
  <2>1. ASSUME NEW r \in Rulesets, NEW o \in Objects, NEW allowed \in SUBSET Access,
             AddRule(t, r, o, allowed)
        PROVE  RootMove(x)
    BY <2>1 DEF AddRule, Get
  <2>2. ASSUME NEW r \in Rulesets, Close(t, r)
        PROVE  RootMove(x)
    BY <2>2 DEF Close, Put
  <2>3. ASSUME NEW r \in Rulesets, RestrictSelf(t, r)
        PROVE  RootMove(x)
    BY <2>3 DEF RestrictSelf, Get
  <2>4. ASSUME NEW c \in Creds, ChangeCreds(t, c)
        PROVE  RootMove(x)
    BY <2>4 DEF ChangeCreds, GetDomain, DomainOf
  <2>5. ASSUME NEW c \in Creds, NEW u \in Tasks, Fork(t, u, c)
        PROVE  RootMove(x)
    BY <2>5 DEF Fork, NewCred, GetDomain, DomainOf
  <2>6. ASSUME NEW u \in Tasks, CloneThread(t, u)
        PROVE  RootMove(x)
    BY <2>6 DEF CloneThread
  <2>7. ASSUME NEW p \in Tasks, NEW c \in Tasks, TaskPtrace(t, p, c)
        PROVE  RootMove(x)
    BY <2>7 DEF TaskPtrace
  <2>8. CASE Exit(t)
    BY <2>8 DEF Exit, PutCred
  <2> QED BY <1>2, <2>1, <2>2, <2>3, <2>4, <2>5, <2>6, <2>7, <2>8 DEF CallStep
<1>3. ASSUME NEW t \in Tasks, LockStep(t) PROVE RootMove(x)
  <2>1. CASE AppendFsRule(t)
    BY <2>1 DEF AppendFsRule, InsertRule
  <2>2. CASE InheritLock(t)
    BY <2>2 DEF InheritLock, Unlocked, Lock, RulesOf
  <2>3. CASE MergeLock(t)
    BY <2>3 DEF MergeLock, Unlocked, Lock, RulesOf
  <2> QED BY <1>3, <2>1, <2>2, <2>3 DEF LockStep
<1>4. ASSUME NEW t \in Tasks, KernelStep(t) PROVE RootMove(x)
  <2>1. CASE AppendFsRuleFails(t)
    BY <2>1 DEF AppendFsRuleFails
  <2>2. CASE PutRuleset(t)
    BY <2>2 DEF PutRuleset, Put
  <2>3. ASSUME NEW c \in Creds, PrepareCreds(t, c)
        PROVE  RootMove(x)
    BY <2>3 DEF PrepareCreds, NewCred, GetDomain, DomainOf
  <2>4. CASE PrepareCredsFails(t)
    BY <2>4 DEF PrepareCredsFails
  <2>5. CASE MergeFails(t)
    BY <2>5 DEF MergeFails
  <2>6. ASSUME NEW o \in Objects, InheritRule(t, o)
        PROVE  RootMove(x)
    BY <2>6 DEF InheritRule, InsertRule
  <2>7. ASSUME NEW o \in Objects, MergeRule(t, o)
        PROVE  RootMove(x)
    BY <2>7 DEF MergeRule, InsertRule
  <2>8. CASE InheritFails(t)
    BY <2>8 DEF InheritFails, Unlock
  <2>9. CASE InheritDone(t)
    BY <2>9 DEF InheritDone, Unlock
  <2>10. CASE MergeRuleFails(t)
    BY <2>10 DEF MergeRuleFails, Unlock
  <2>11. CASE MergeDone(t)
    BY <2>11 DEF MergeDone, Unlock
  <2>12. CASE PutDom(t)
    BY <2>12 DEF PutDom, Put
  <2>13. CASE ReplaceDomain(t)
    BY <2>13 DEF ReplaceDomain, Put
  <2>14. CASE AssignDomain(t)
    BY <2>14 DEF AssignDomain
  <2>15. CASE CommitCreds(t)
    BY <2>15 DEF CommitCreds, PutCred
  <2>16. CASE AbortCreds(t)
    BY <2>16 DEF AbortCreds, PutCred
  <2>17. CASE TaskIsScoped(t)
    BY <2>17 DEF TaskIsScoped, DomainOf
  <2>18. CASE DomChild(t)
    BY <2>18 DEF DomChild, DomainOf
  <2>19. CASE DomainScopeLe(t)
    BY <2>19 DEF DomainScopeLe, ScopeDecided
  <2> QED BY <1>4, <2>1, <2>2, <2>3, <2>4, <2>5, <2>6, <2>7, <2>8, <2>9, <2>10, <2>11, <2>12, <2>13, <2>14, <2>15, <2>16, <2>17, <2>18, <2>19 DEF KernelStep
<1>5. ASSUME NEW t \in Threads, FreeStep(t) PROVE RootMove(x)
  <2>1. CASE FreeRuleset(t)
    BY <2>1 DEF FreeRuleset
  <2>2. CASE PutHierarchy(t)
    BY <2>2 DEF PutHierarchy
  <2>3. CASE Kfree(t)
    BY <2>3 DEF Kfree
  <2> QED BY <1>5, <2>1, <2>2, <2>3 DEF FreeStep
<1>6. ASSUME NEW c \in Creds, CredFree(c) PROVE RootMove(x)
  BY <1>6 DEF CredFree
<1>7. ASSUME NEW r \in Rulesets, FreeRulesetWork(r) PROVE RootMove(x)
  BY <1>7 DEF FreeRulesetWork
<1>8. CASE UNCHANGED vars
  BY <1>8 DEF vars
<1> QED BY <1>1, <1>2, <1>3, <1>4, <1>5, <1>6, <1>7, <1>8 DEF Next

\* The parent of the new node is not set before inherit_ruleset() does.
LEMMA RootsStep ==
    ASSUME Core, PreparedOK, UsagesOK, Exclusive, KindsOK, NodesOK, RootsOK, [Next]_vars
    PROVE  RootsOK'
<1>0. Types /\ \A h \in Hierarchies : h # NULL
  BY RulesetAssumption DEF Core
<1> SUFFICES ASSUME NEW t \in Tasks, Label(t)' \in {"inherit_lock", "inherit"}
             PROVE  hparent'[hier'[newdom'[t]]] = NULL
  BY DEF RootsOK
<1> USE DEF rvars, hvars, cvars, locals, frvars, ptvars, ghosts
<1>1. \/ Label(t) \in {"inherit_lock", "inherit"} /\ newdom'[t] = newdom[t] /\ ~InheritDone(t)
      \/ \E r \in Rulesets, h \in Hierarchies : CreateDomain(t, r, h)
  <2>1. ~InheritDone(t)
    BY <1>0 DEF InheritDone, Goto, Label, FreeLabels, Threads, Types
  <2> QED BY <2>1, RootMoves DEF RootMove
<1>2. CASE Label(t) \in {"inherit_lock", "inherit"} /\ newdom'[t] = newdom[t] /\ ~InheritDone(t)
  <2>1. pc[t] \in {"inherit_lock", "inherit"} \/ pc[t] \in FreeLabels
    BY <1>2 DEF Label
  <2>2. newdom[t] # NULL /\ hier[newdom[t]] # NULL
    BY <1>2 DEF Core, Control, CallLocals, KindsOK, DomainLabels, WalkLabels
  <2>3. newdom[t] \in Rulesets /\ rstate[newdom[t]] = "live"
    BY <1>0, <2>2, NotFree
  <2>4. hier'[newdom[t]] = hier[newdom[t]]
    BY <2>3, NodeKept
  <2>5. PICK k \in Hierarchies : k = hier[newdom[t]]
    BY <1>0, <2>2, <2>3 DEF Types, OrNull
  <2>6. hparent[k] = NULL
    BY <1>2, <2>5 DEF RootsOK
  <2>7. ASSUME NEW u \in Tasks, InheritDone(u), k = hier[newdom[u]] PROVE FALSE
    <3>1. newdom[u] \in Rulesets
      BY <2>7, InheritNodes DEF InheritDone
    <3>2. newdom[u] = newdom[t]
      BY <1>0, <2>3, <2>5, <2>7, <3>1 DEF NodesOK
    <3>3. OwnDomain(t, newdom[t])
      BY DEF OwnDomain
    <3> QED BY <1>2, <2>3, <2>7, <3>2, <3>3 DEF Exclusive
  <2> QED BY <1>2, <2>4, <2>5, <2>6, <2>7, ParentKept
<1>3. ASSUME NEW r \in Rulesets, NEW h \in Hierarchies, CreateDomain(t, r, h)
      PROVE  hparent'[hier'[newdom'[t]]] = NULL
  <2>1. newdom'[t] = r /\ hier'[r] = h /\ hparent'[h] = NULL
    BY <1>0, <1>3 DEF CreateDomain, Alloc, Types
  <2> QED BY <2>1
<1> QED BY <1>1, <1>2, <1>3

-----------------------------------------------------------------------------
(* Readers under RCU: a ptrace check reads the domains of two tasks, which *)
(* the credentials keep while their grace period waits for it, and walks   *)
(* up from a node that a domain keeps.                                     *)

\* A credential that somebody has committed holds d, or waits for t to leave.
KeptBy(t, d, c) ==
    /\ cdom[c] = d /\ \A u \in Tasks : ncred[u] # c
    /\ cstate[c] = "live" \/ (cstate[c] = "rcu" /\ t \in cgp[c])

\* The nodes of A are kept by d, or by another node of A.
Chain(A, d, w) ==
    /\ w \in A
    /\ \A h \in A : h = hier[d] \/ \E k \in A : hparent[k] = h

ReaderOK(t) ==
    /\ pc[t] = "task_is_scoped" => DomainOf(pt[t].parent) # NULL
    /\ pc[t] \in {"dom_child", "domain_scope_le"} => pt[t].dom_parent # NULL
    /\ pt[t].dom_parent # NULL => \E c \in Creds : KeptBy(t, pt[t].dom_parent, c)
    /\ pt[t].dom_child # NULL => \E c \in Creds : KeptBy(t, pt[t].dom_child, c)
    /\ pt[t].walker # NULL =>
          \E A \in SUBSET Hierarchies : Chain(A, pt[t].dom_child, pt[t].walker)

ReadersOK == \A t \in Tasks : ReaderOK(t)

\* Nobody reads anything at first.
LEMMA ReadersInit == Init => ReadersOK
BY RulesetAssumption DEF Init, ReadersOK, ReaderOK, NoPtrace, Threads

\* What a step does to a ptrace check.
PtraceMove(x) ==
    \/ pt'[x] = pt[x] /\ (pc'[x] \in PtraceLabels => pc'[x] = pc[x])
    \/ \E p, q \in Tasks : TaskPtrace(x, p, q)
    \/ TaskIsScoped(x) \/ DomChild(x) \/ DomainScopeLe(x)

\* Only the task that makes the check has a hand in it.
LEMMA PtraceMoves ==
    ASSUME Core, [Next]_vars, NEW x \in Tasks
    PROVE  PtraceMove(x)
<1> USE RulesetAssumption, Using DEF Core, Types, Control, PtraceMove, Threads,
    Label, At, Goto, Idle, CallLocals, FreeLocals, Returns,
        Labels, CallLabels, DomainLabels, WalkLabels, PtraceLabels, FreeLabels,
           Prepared,
        rvars, hvars, cvars, locals, frvars, ptvars, ghosts, Alloc
<1>1. ASSUME NEW t \in Tasks, AllocStep(t) PROVE PtraceMove(x)
  <2>1. ASSUME NEW r \in Rulesets, NEW handled \in SUBSET Access, CreateRuleset(t, r, handled)
        PROVE  PtraceMove(x)
    BY <2>1 DEF CreateRuleset
  <2>2. ASSUME NEW r \in Rulesets, NEW handled \in SUBSET Access, CreateRulesetNoFd(t, r, handled)
        PROVE  PtraceMove(x)
    BY <2>2 DEF CreateRulesetNoFd
  <2>3. ASSUME NEW r \in Rulesets, NEW h \in Hierarchies, CreateDomain(t, r, h)
        PROVE  PtraceMove(x)
    BY <2>3 DEF CreateDomain
  <2>4. ASSUME NEW r \in Rulesets, CreateHierarchyFails(t, r)
        PROVE  PtraceMove(x)
    BY <2>4 DEF CreateHierarchyFails
  <2> QED BY <1>1, <2>1, <2>2, <2>3, <2>4 DEF AllocStep
<1>2. ASSUME NEW t \in Tasks, CallStep(t) PROVE PtraceMove(x)
  <2>1. ASSUME NEW r \in Rulesets, NEW o \in Objects, NEW allowed \in SUBSET Access,
             AddRule(t, r, o, allowed)
        PROVE  PtraceMove(x)
    BY <2>1 DEF AddRule, Get
  <2>2. ASSUME NEW r \in Rulesets, Close(t, r)
        PROVE  PtraceMove(x)
    BY <2>2 DEF Close, Put
  <2>3. ASSUME NEW r \in Rulesets, RestrictSelf(t, r)
        PROVE  PtraceMove(x)
    BY <2>3 DEF RestrictSelf, Get
  <2>4. ASSUME NEW c \in Creds, ChangeCreds(t, c)
        PROVE  PtraceMove(x)
    BY <2>4 DEF ChangeCreds, GetDomain, DomainOf
  <2>5. ASSUME NEW c \in Creds, NEW u \in Tasks, Fork(t, u, c)
        PROVE  PtraceMove(x)
    BY <2>5 DEF Fork, NewCred, GetDomain, DomainOf
  <2>6. ASSUME NEW u \in Tasks, CloneThread(t, u)
        PROVE  PtraceMove(x)
    BY <2>6 DEF CloneThread
  <2>7. ASSUME NEW p \in Tasks, NEW c \in Tasks, TaskPtrace(t, p, c)
        PROVE  PtraceMove(x)
    <3>1. CASE x = t
      BY <2>7, <3>1
    <3>2. CASE x # t
      BY <2>7, <3>2 DEF TaskPtrace
    <3> QED BY <3>1, <3>2
  <2>8. CASE Exit(t)
    BY <2>8 DEF Exit, PutCred
  <2> QED BY <1>2, <2>1, <2>2, <2>3, <2>4, <2>5, <2>6, <2>7, <2>8 DEF CallStep
<1>3. ASSUME NEW t \in Tasks, LockStep(t) PROVE PtraceMove(x)
  <2>1. CASE AppendFsRule(t)
    BY <2>1 DEF AppendFsRule, InsertRule
  <2>2. CASE InheritLock(t)
    BY <2>2 DEF InheritLock, Unlocked, Lock, RulesOf
  <2>3. CASE MergeLock(t)
    BY <2>3 DEF MergeLock, Unlocked, Lock, RulesOf
  <2> QED BY <1>3, <2>1, <2>2, <2>3 DEF LockStep
<1>4. ASSUME NEW t \in Tasks, KernelStep(t) PROVE PtraceMove(x)
  <2>1. CASE AppendFsRuleFails(t)
    BY <2>1 DEF AppendFsRuleFails
  <2>2. CASE PutRuleset(t)
    BY <2>2 DEF PutRuleset, Put
  <2>3. ASSUME NEW c \in Creds, PrepareCreds(t, c)
        PROVE  PtraceMove(x)
    BY <2>3 DEF PrepareCreds, NewCred, GetDomain, DomainOf
  <2>4. CASE PrepareCredsFails(t)
    BY <2>4 DEF PrepareCredsFails
  <2>5. CASE MergeFails(t)
    BY <2>5 DEF MergeFails
  <2>6. ASSUME NEW o \in Objects, InheritRule(t, o)
        PROVE  PtraceMove(x)
    BY <2>6 DEF InheritRule, InsertRule
  <2>7. ASSUME NEW o \in Objects, MergeRule(t, o)
        PROVE  PtraceMove(x)
    BY <2>7 DEF MergeRule, InsertRule
  <2>8. CASE InheritFails(t)
    BY <2>8 DEF InheritFails, Unlock
  <2>9. CASE InheritDone(t)
    BY <2>9 DEF InheritDone, Unlock
  <2>10. CASE MergeRuleFails(t)
    BY <2>10 DEF MergeRuleFails, Unlock
  <2>11. CASE MergeDone(t)
    BY <2>11 DEF MergeDone, Unlock
  <2>12. CASE PutDom(t)
    BY <2>12 DEF PutDom, Put
  <2>13. CASE ReplaceDomain(t)
    BY <2>13 DEF ReplaceDomain, Put
  <2>14. CASE AssignDomain(t)
    BY <2>14 DEF AssignDomain
  <2>15. CASE CommitCreds(t)
    BY <2>15 DEF CommitCreds, PutCred
  <2>16. CASE AbortCreds(t)
    BY <2>16 DEF AbortCreds, PutCred
  <2>17. CASE TaskIsScoped(t)
    <3>1. CASE x = t
      BY <2>17, <3>1
    <3>2. CASE x # t
      BY <2>17, <3>2 DEF TaskIsScoped
    <3> QED BY <3>1, <3>2
  <2>18. CASE DomChild(t)
    <3>1. CASE x = t
      BY <2>18, <3>1
    <3>2. CASE x # t
      BY <2>18, <3>2 DEF DomChild
    <3> QED BY <3>1, <3>2
  <2>19. CASE DomainScopeLe(t)
    BY <2>19 DEF DomainScopeLe, ScopeDecided
  <2> QED BY <1>4, <2>1, <2>2, <2>3, <2>4, <2>5, <2>6, <2>7, <2>8, <2>9, <2>10, <2>11, <2>12, <2>13, <2>14, <2>15, <2>16, <2>17, <2>18, <2>19 DEF KernelStep
<1>5. ASSUME NEW t \in Threads, FreeStep(t) PROVE PtraceMove(x)
  <2>1. CASE FreeRuleset(t)
    BY <2>1 DEF FreeRuleset
  <2>2. CASE PutHierarchy(t)
    BY <2>2 DEF PutHierarchy
  <2>3. CASE Kfree(t)
    BY <2>3 DEF Kfree
  <2> QED BY <1>5, <2>1, <2>2, <2>3 DEF FreeStep
<1>6. ASSUME NEW c \in Creds, CredFree(c) PROVE PtraceMove(x)
  BY <1>6 DEF CredFree
<1>7. ASSUME NEW r \in Rulesets, FreeRulesetWork(r) PROVE PtraceMove(x)
  BY <1>7 DEF FreeRulesetWork
<1>8. CASE UNCHANGED vars
  BY <1>8 DEF vars
<1> QED BY <1>1, <1>2, <1>3, <1>4, <1>5, <1>6, <1>7, <1>8 DEF Next

\* The credential that keeps a domain for a reader goes on to keep it.
LEMMA KeptByStep ==
    ASSUME Core, CredsOK, [Next]_vars, NEW x \in Tasks, x \in rcu, x \in rcu',
           NEW d, NEW e \in Creds, KeptBy(x, d, e)
    PROVE  KeptBy(x, d, e)'
<1> USE RulesetAssumption, Using DEF Core, Types, Control, CredsOK, KeptBy, Threads,
    At, Goto, Idle, CallLocals, FreeLocals,
        Labels, CallLabels, DomainLabels, WalkLabels, PtraceLabels, FreeLabels,
           Prepared,
        rvars, hvars, cvars, locals, frvars, ptvars, ghosts, Alloc, PutCred
<1>1. ASSUME NEW t \in Tasks, AllocStep(t) PROVE KeptBy(x, d, e)'
  <2>1. ASSUME NEW r \in Rulesets, NEW handled \in SUBSET Access, CreateRuleset(t, r, handled)
        PROVE  KeptBy(x, d, e)'
    BY <2>1 DEF CreateRuleset
  <2>2. ASSUME NEW r \in Rulesets, NEW handled \in SUBSET Access, CreateRulesetNoFd(t, r, handled)
        PROVE  KeptBy(x, d, e)'
    BY <2>2 DEF CreateRulesetNoFd
  <2>3. ASSUME NEW r \in Rulesets, NEW h \in Hierarchies, CreateDomain(t, r, h)
        PROVE  KeptBy(x, d, e)'
    BY <2>3 DEF CreateDomain
  <2>4. ASSUME NEW r \in Rulesets, CreateHierarchyFails(t, r)
        PROVE  KeptBy(x, d, e)'
    BY <2>4 DEF CreateHierarchyFails
  <2> QED BY <1>1, <2>1, <2>2, <2>3, <2>4 DEF AllocStep
<1>2. ASSUME NEW t \in Tasks, CallStep(t) PROVE KeptBy(x, d, e)'
  <2>1. ASSUME NEW r \in Rulesets, NEW o \in Objects, NEW allowed \in SUBSET Access,
             AddRule(t, r, o, allowed)
        PROVE  KeptBy(x, d, e)'
    BY <2>1 DEF AddRule, Get
  <2>2. ASSUME NEW r \in Rulesets, Close(t, r)
        PROVE  KeptBy(x, d, e)'
    BY <2>2 DEF Close, Put
  <2>3. ASSUME NEW r \in Rulesets, RestrictSelf(t, r)
        PROVE  KeptBy(x, d, e)'
    BY <2>3 DEF RestrictSelf, Get
  <2>4. ASSUME NEW c \in Creds, ChangeCreds(t, c)
        PROVE  KeptBy(x, d, e)'
    BY <2>4 DEF ChangeCreds, GetDomain, DomainOf
  <2>5. ASSUME NEW c \in Creds, NEW u \in Tasks, Fork(t, u, c)
        PROVE  KeptBy(x, d, e)'
    BY <2>5 DEF Fork, NewCred, GetDomain, DomainOf
  <2>6. ASSUME NEW u \in Tasks, CloneThread(t, u)
        PROVE  KeptBy(x, d, e)'
    BY <2>6 DEF CloneThread
  <2>7. ASSUME NEW p \in Tasks, NEW c \in Tasks, TaskPtrace(t, p, c)
        PROVE  KeptBy(x, d, e)'
    BY <2>7 DEF TaskPtrace
  <2>8. CASE Exit(t)
    BY <2>8 DEF Exit, PutCred
  <2> QED BY <1>2, <2>1, <2>2, <2>3, <2>4, <2>5, <2>6, <2>7, <2>8 DEF CallStep
<1>3. ASSUME NEW t \in Tasks, LockStep(t) PROVE KeptBy(x, d, e)'
  <2>1. CASE AppendFsRule(t)
    BY <2>1 DEF AppendFsRule, InsertRule
  <2>2. CASE InheritLock(t)
    BY <2>2 DEF InheritLock, Unlocked, Lock, RulesOf
  <2>3. CASE MergeLock(t)
    BY <2>3 DEF MergeLock, Unlocked, Lock, RulesOf
  <2> QED BY <1>3, <2>1, <2>2, <2>3 DEF LockStep
<1>4. ASSUME NEW t \in Tasks, KernelStep(t) PROVE KeptBy(x, d, e)'
  <2>1. CASE AppendFsRuleFails(t)
    BY <2>1 DEF AppendFsRuleFails
  <2>2. CASE PutRuleset(t)
    BY <2>2 DEF PutRuleset, Put
  <2>3. ASSUME NEW c \in Creds, PrepareCreds(t, c)
        PROVE  KeptBy(x, d, e)'
    BY <2>3 DEF PrepareCreds, NewCred, GetDomain, DomainOf
  <2>4. CASE PrepareCredsFails(t)
    BY <2>4 DEF PrepareCredsFails
  <2>5. CASE MergeFails(t)
    BY <2>5 DEF MergeFails
  <2>6. ASSUME NEW o \in Objects, InheritRule(t, o)
        PROVE  KeptBy(x, d, e)'
    BY <2>6 DEF InheritRule, InsertRule
  <2>7. ASSUME NEW o \in Objects, MergeRule(t, o)
        PROVE  KeptBy(x, d, e)'
    BY <2>7 DEF MergeRule, InsertRule
  <2>8. CASE InheritFails(t)
    BY <2>8 DEF InheritFails, Unlock
  <2>9. CASE InheritDone(t)
    BY <2>9 DEF InheritDone, Unlock
  <2>10. CASE MergeRuleFails(t)
    BY <2>10 DEF MergeRuleFails, Unlock
  <2>11. CASE MergeDone(t)
    BY <2>11 DEF MergeDone, Unlock
  <2>12. CASE PutDom(t)
    BY <2>12 DEF PutDom, Put
  <2>13. CASE ReplaceDomain(t)
    BY <2>13 DEF ReplaceDomain, Put
  <2>14. CASE AssignDomain(t)
    BY <2>14 DEF AssignDomain
  <2>15. CASE CommitCreds(t)
    BY <2>15 DEF CommitCreds, PutCred
  <2>16. CASE AbortCreds(t)
    BY <2>16 DEF AbortCreds, PutCred
  <2>17. CASE TaskIsScoped(t)
    BY <2>17 DEF TaskIsScoped, DomainOf
  <2>18. CASE DomChild(t)
    BY <2>18 DEF DomChild, DomainOf
  <2>19. CASE DomainScopeLe(t)
    BY <2>19 DEF DomainScopeLe, ScopeDecided
  <2> QED BY <1>4, <2>1, <2>2, <2>3, <2>4, <2>5, <2>6, <2>7, <2>8, <2>9, <2>10, <2>11, <2>12, <2>13, <2>14, <2>15, <2>16, <2>17, <2>18, <2>19 DEF KernelStep
<1>5. ASSUME NEW t \in Threads, FreeStep(t) PROVE KeptBy(x, d, e)'
  <2>1. CASE FreeRuleset(t)
    BY <2>1 DEF FreeRuleset
  <2>2. CASE PutHierarchy(t)
    BY <2>2 DEF PutHierarchy
  <2>3. CASE Kfree(t)
    BY <2>3 DEF Kfree
  <2> QED BY <1>5, <2>1, <2>2, <2>3 DEF FreeStep
<1>6. ASSUME NEW c \in Creds, CredFree(c) PROVE KeptBy(x, d, e)'
  BY <1>6 DEF CredFree
<1>7. ASSUME NEW r \in Rulesets, FreeRulesetWork(r) PROVE KeptBy(x, d, e)'
  BY <1>7 DEF FreeRulesetWork
<1>8. CASE UNCHANGED vars
  BY <1>8 DEF vars
<1> QED BY <1>1, <1>2, <1>3, <1>4, <1>5, <1>6, <1>7, <1>8 DEF Next

\* A task that runs under a domain never gets rid of it.
LEMMA LandlockedStep ==
    ASSUME Core, CredsOK, PreparedOK, [Next]_vars, NEW x \in Tasks, tcred[x] # NULL, tcred'[x] # NULL,
           DomainOf(x) # NULL
    PROVE  cdom'[tcred'[x]] # NULL
<1>0. Types /\ tcred[x] \in Creds /\ cstate[tcred[x]] = "live" /\ \A u \in Tasks : ncred[u] # tcred[x]
  BY DEF Core, Types, CredsOK, OrNull
<1> USE RulesetAssumption, <1>0 DEF DomainOf, Types, Idle, OrNull
<1>1. CASE UNCHANGED credvars
  BY <1>1 DEF credvars
<1>2. ASSUME NEW t \in Tasks, NEW c \in Creds, PrepareCreds(t, c) PROVE cdom'[tcred'[x]] # NULL
  BY <1>2 DEF PrepareCreds, NewCred
<1>3. ASSUME NEW t \in Tasks, NEW c \in Creds, ChangeCreds(t, c) PROVE cdom'[tcred'[x]] # NULL
  BY <1>3 DEF ChangeCreds
<1>4. ASSUME NEW t \in Tasks, NEW c \in Creds, NEW u \in Tasks, Fork(t, u, c) PROVE cdom'[tcred'[x]] # NULL
  BY <1>4 DEF Fork, NewCred
<1>5. ASSUME NEW t \in Tasks, NEW u \in Tasks, CloneThread(t, u) PROVE cdom'[tcred'[x]] # NULL
  BY <1>5 DEF CloneThread, cvars
<1>6. ASSUME NEW t \in Tasks, ReplaceDomain(t) \/ AssignDomain(t) PROVE cdom'[tcred'[x]] # NULL
  BY <1>6 DEF ReplaceDomain, AssignDomain
<1>7. ASSUME NEW t \in Tasks, CommitCreds(t) PROVE cdom'[tcred'[x]] # NULL
  <2>1. ncred[t] # NULL /\ Label(t) = "commit_creds"
    BY <1>7, Using DEF CommitCreds, At, Prepared, Label, FreeLabels
  <2>2. cdom[ncred[t]] # NULL
    BY <2>1 DEF PreparedOK, Committing
  <2> QED BY <1>7, <2>2 DEF CommitCreds
<1>8. ASSUME NEW t \in Tasks, AbortCreds(t) PROVE cdom'[tcred'[x]] # NULL
  BY <1>8 DEF AbortCreds
<1>9. ASSUME NEW t \in Tasks, Exit(t) PROVE cdom'[tcred'[x]] # NULL
  BY <1>9 DEF Exit
<1>10. ASSUME NEW c \in Creds, CredFree(c) PROVE cdom'[tcred'[x]] # NULL
  BY <1>10 DEF CredFree
<1> QED BY <1>1, <1>2, <1>3, <1>4, <1>5, <1>6, <1>7, <1>8, <1>9, <1>10, CredSteps DEF CredStep

\* A node that a walk may reach is in use, and not by put_hierarchy() alone.
LEMMA ChainHeld ==
    ASSUME Types, NodesOK, NEW A \in SUBSET Hierarchies, NEW d \in Rulesets, NEW w, Chain(A, d, w), NEW h \in A
    PROVE  husage[h] > 0 /\ \A t \in Threads : wh[t] = h => husage[h] > 1
<1>0. h \in Hierarchies /\ husage[h] = HierRefs(h) + ParentRefs(h) + WalkRefs(h)
  BY DEF NodesOK, ExactNode
<1>1. HierRefs(h) # 0 \/ ParentRefs(h) # 0
  <2>1. CASE h = hier[d]
    BY <2>1, NodeRefs
  <2>2. ASSUME NEW k \in A, hparent[k] = h PROVE ParentRefs(h) # 0
    BY <2>2, NodeRefs
  <2> QED BY <2>1, <2>2 DEF Chain
<1>2. \A t \in Threads : wh[t] = h => WalkRefs(h) # 0
  BY NodeRefs
<1>3. HierRefs(h) \in Nat /\ ParentRefs(h) \in Nat /\ WalkRefs(h) \in Nat
  BY NodeRefs
<1> QED BY ONLY <1>0, <1>1, <1>2, <1>3

\* What keeps the node of a walk goes on to keep it.
LEMMA ChainStep ==
    ASSUME Core, PreparedOK, UsagesOK, KindsOK, NodesOK, RootsOK, [Next]_vars,
           NEW A \in SUBSET Hierarchies, NEW d \in Rulesets, rstate[d] = "live", NEW w, Chain(A, d, w)
    PROVE  Chain(A, d, w)'
<1>0. Types /\ \A h \in Hierarchies : h # NULL
  BY RulesetAssumption DEF Core
<1>1. hier'[d] = hier[d]
  BY NodeKept
<1>2. ASSUME NEW k \in A, hparent[k] # NULL PROVE hparent'[k] = hparent[k]
  <2>1. k \in Hierarchies /\ husage[k] > 0 /\ \A t \in Threads : wh[t] = k => husage[k] > 1
    BY <1>0, ChainHeld
  <2>2. ~(husage[k] = 1 /\ \E t \in Threads : wh[t] = k /\ PutHierarchy(t))
    BY <2>1
  <2>3. ASSUME NEW t \in Tasks, InheritDone(t), k = hier[newdom[t]] PROVE FALSE
    BY <1>2, <2>3 DEF InheritDone, RootsOK, At, Label, FreeLabels
  <2> QED BY <2>1, <2>2, <2>3, ParentKept
<1>3. ASSUME NEW h \in A PROVE h = hier'[d] \/ \E k \in A : hparent'[k] = h
  BY <1>0, <1>1, <1>2 DEF Chain
<1> QED BY <1>3 DEF Chain

\* What a ptrace check has read stays, whatever the others do.
LEMMA ReadersStep ==
    ASSUME Core, Core', CredsOK, PreparedOK, UsagesOK, KindsOK, NodesOK, RootsOK, ReadersOK, [Next]_vars
    PROVE  ReadersOK'
<1>0. Types /\ Types' /\ NULL \notin Tasks \cup Rulesets \cup Hierarchies
  BY RulesetAssumption DEF Core
<1> SUFFICES ASSUME NEW t \in Tasks PROVE ReaderOK(t)'
  BY DEF ReadersOK
<1>1. ReaderOK(t) /\ PtraceLocals(t) /\ PtraceLocals(t)'
  BY DEF ReadersOK, Core, Ptracing
<1>2. ((t \in rcu) <=> (pc[t] \in {"dom_child", "domain_scope_le"}))
      /\ ((t \in rcu') <=> (pc'[t] \in {"dom_child", "domain_scope_le"}))
  BY DEF Core, Control, CallLocals
<1>3. ASSUME NEW u \in Tasks, tcred[u] # NULL, DomainOf(u) # NULL
      PROVE  \E c \in Creds : KeptBy(t, DomainOf(u), c)
  BY <1>0, <1>3 DEF KeptBy, CredsOK, DomainOf, Types, OrNull
<1>4. ASSUME NEW d, t \in rcu, t \in rcu', \E c \in Creds : KeptBy(t, d, c)
      PROVE  \E c \in Creds : KeptBy(t, d, c)'
  BY <1>4, KeptByStep
<1>5. ASSUME NEW d, d # NULL, \E c \in Creds : KeptBy(t, d, c)
      PROVE  d \in Rulesets /\ rstate[d] = "live"
  BY <1>0, <1>5, NotFree DEF KeptBy
<1>6. ASSUME pt'[t] = pt[t], pc'[t] \in PtraceLabels => pc'[t] = pc[t] PROVE ReaderOK(t)'
  <2>1. CASE pc'[t] \notin PtraceLabels
    BY <1>1, <2>1 DEF PtraceLocals, NoPtrace, ReaderOK, PtraceLabels
  <2>2. CASE pc'[t] = "task_is_scoped"
    <3>1. pc[t] = "task_is_scoped" /\ tcred[pt[t].parent] # NULL /\ DomainOf(pt[t].parent) # NULL
          /\ pt[t].parent \in Tasks
      BY <1>1, <1>6, <2>2 DEF PtraceLocals, PtraceLabels, ReaderOK
    <3>2. tcred'[pt[t].parent] # NULL
      BY <1>1, <1>6, <2>2 DEF PtraceLocals, PtraceLabels
    <3>3. PICK p \in Tasks : p = pt[t].parent
      BY <3>1
    <3>4. cdom'[tcred'[p]] # NULL
      BY <3>1, <3>2, <3>3, LandlockedStep
    <3>5. pt'[t].dom_parent = NULL /\ pt'[t].dom_child = NULL /\ pt'[t].walker = NULL
      BY <1>1, <2>2 DEF PtraceLocals, PtraceLabels
    <3> QED BY <1>6, <2>2, <3>3, <3>4, <3>5 DEF ReaderOK, DomainOf
  <2>3. CASE pc'[t] \in {"dom_child", "domain_scope_le"}
    <3>1. t \in rcu /\ t \in rcu' /\ pc[t] = pc'[t]
      BY <1>2, <1>6, <2>3 DEF PtraceLabels
    <3>2. PICK dp, dc, w : dp = pt[t].dom_parent /\ dc = pt[t].dom_child /\ w = pt[t].walker
      OBVIOUS
    <3>3. dp # NULL => \E c \in Creds : KeptBy(t, dp, c)'
      BY <1>1, <1>4, <3>1, <3>2 DEF ReaderOK
    <3>4. dc # NULL => \E c \in Creds : KeptBy(t, dc, c)'
      BY <1>1, <1>4, <3>1, <3>2 DEF ReaderOK
    <3>5. ASSUME w # NULL PROVE \E A \in SUBSET Hierarchies : Chain(A, dc, w)'
      <4>1. dc # NULL
        BY <1>1, <3>1, <2>3, <3>2, <3>5 DEF PtraceLocals, PtraceLabels
      <4>2. PICK A \in SUBSET Hierarchies : Chain(A, dc, w)
        BY <1>1, <3>2, <3>5 DEF ReaderOK
      <4>3. dc \in Rulesets /\ rstate[dc] = "live"
        BY <1>1, <1>5, <3>2, <4>1 DEF ReaderOK
      <4>4. Chain(A, dc, w)'
        BY <4>2, <4>3, ChainStep
      <4> QED BY <4>4
    <3>6. dp # NULL
      BY <1>1, <2>3, <3>1, <3>2 DEF ReaderOK
    <3> QED BY <1>6, <2>3, <3>2, <3>3, <3>4, <3>5, <3>6 DEF ReaderOK
  <2> QED BY <2>1, <2>2, <2>3 DEF PtraceLabels
<1>7. ASSUME NEW p \in Tasks, NEW q \in Tasks, TaskPtrace(t, p, q) PROVE ReaderOK(t)'
  <2>1. pt[t] = NoPtrace /\ pc'[t] = "task_is_scoped" /\ pt'[t].parent = p /\ UNCHANGED <<cdom, tcred>>
    BY <1>0, <1>1, <1>7 DEF TaskPtrace, Idle, At, Goto, PtraceLocals, PtraceLabels,
       Types, Threads, cvars, NoPtrace
  <2>2. pt'[t].dom_parent = NULL /\ pt'[t].dom_child = NULL /\ pt'[t].walker = NULL
    BY <1>1, <2>1 DEF PtraceLocals, PtraceLabels
  <2> QED BY <1>7, <2>1, <2>2 DEF ReaderOK, TaskPtrace, DomainOf
<1>8. ASSUME TaskIsScoped(t) PROVE ReaderOK(t)'
  <2>1. PICK p \in Tasks : p = pt[t].parent /\ tcred[p] # NULL /\ DomainOf(p) # NULL
    BY <1>1, <1>8 DEF TaskIsScoped, At, PtraceLocals, PtraceLabels, ReaderOK
  <2>2. PICK d : d = DomainOf(p)
    OBVIOUS
  <2>3. pc'[t] = "dom_child" /\ pt'[t].dom_parent = d /\ UNCHANGED cvars /\ UNCHANGED ncred
    BY <1>0, <1>8, <2>1, <2>2 DEF TaskIsScoped, At, Goto, Types, Threads, locals,
       PtraceCall
  <2>4. pt'[t].dom_child = NULL /\ pt'[t].walker = NULL
    BY <1>1, <2>3 DEF PtraceLocals, PtraceLabels
  <2>5. \E c \in Creds : KeptBy(t, d, c)'
    BY <1>3, <2>1, <2>2, <2>3 DEF KeptBy, cvars
  <2> QED BY <2>1, <2>2, <2>3, <2>4, <2>5 DEF ReaderOK
<1>9. ASSUME DomChild(t) PROVE ReaderOK(t)'
  <2>1. PICK q \in Tasks : q = pt[t].child /\ tcred[q] # NULL
    BY <1>1, <1>9 DEF DomChild, At, PtraceLocals, PtraceLabels
  <2>2. PICK d, dp : d = DomainOf(q) /\ dp = pt[t].dom_parent
    OBVIOUS
  <2>3. /\ pc'[t] = "domain_scope_le" /\ pt'[t].dom_child = d /\ pt'[t].dom_parent = dp
        /\ pt'[t].walker = (IF d = NULL THEN NULL ELSE hier[d])
        /\ UNCHANGED <<cvars, ncred, hier, hparent>>
    BY <1>0, <1>9, <2>1, <2>2 DEF DomChild, At, Goto, Types, Threads, locals,
       PtraceCall, rvars, hvars
  <2>4. dp # NULL /\ \E c \in Creds : KeptBy(t, dp, c)'
    BY <1>1, <1>9, <2>2, <2>3 DEF ReaderOK, DomChild, At, KeptBy, cvars
  <2>5. d # NULL => \E c \in Creds : KeptBy(t, d, c)'
    BY <1>3, <2>1, <2>2, <2>3 DEF KeptBy, cvars
  <2>6. ASSUME d # NULL PROVE \E h : h = hier[d] /\ \E A \in SUBSET Hierarchies : Chain(A, d, h)'
    <3>1. tcred[q] \in Creds /\ cdom[tcred[q]] = d
      BY <1>0, <2>1, <2>2 DEF Types, OrNull, DomainOf
    <3>2. d \in Rulesets /\ hier[d] # NULL
      BY <1>0, <2>6, <3>1, NotFree DEF KindsOK
    <3>3. hier[d] \in Hierarchies
      BY <1>0, <3>2 DEF Types, OrNull
    <3>4. PICK h : h = hier[d] /\ h = hier'[d]
      BY <2>3
    <3>5. Chain({h}, d, h)'
      BY <3>4 DEF Chain
    <3>6. {h} \in SUBSET Hierarchies
      BY <3>3, <3>4
    <3>7. \E A \in SUBSET Hierarchies : Chain(A, d, h)'
      BY <3>5, <3>6
    <3> QED BY <3>4, <3>7
  <2> QED BY <2>2, <2>3, <2>4, <2>5, <2>6 DEF ReaderOK
<1>10. ASSUME DomainScopeLe(t) PROVE ReaderOK(t)'
  <2>1. CASE ScopeDecided(t)
    BY <1>0, <1>10, <2>1 DEF DomainScopeLe, ReaderOK, NoPtrace, Goto, Types, Threads
  <2>2. CASE ~ScopeDecided(t)
    <3>1. PICK dp, dc, w : dp = pt[t].dom_parent /\ dc = pt[t].dom_child /\ w = pt[t].walker
      OBVIOUS
    <3>2. /\ pc[t] = "domain_scope_le" /\ UNCHANGED <<pc, cvars, ncred, hier, hparent>>
          /\ pt'[t].dom_parent = dp /\ pt'[t].dom_child = dc /\ pt'[t].walker = hparent[w] /\ w # NULL
      BY <1>0, <1>10, <2>2, <3>1 DEF DomainScopeLe, ScopeDecided, At, Types, locals,
         PtraceCall, rvars, hvars, cvars
    <3>3. dp # NULL /\ \E c \in Creds : KeptBy(t, dp, c)'
      BY <1>1, <3>1, <3>2 DEF ReaderOK, KeptBy, cvars
    <3>4. dc # NULL => \E c \in Creds : KeptBy(t, dc, c)'
      BY <1>1, <3>1, <3>2 DEF ReaderOK, KeptBy, cvars
    <3>5. PICK A \in SUBSET Hierarchies : Chain(A, dc, w)
      BY <1>1, <3>1, <3>2 DEF ReaderOK
    <3>6. ASSUME hparent[w] # NULL PROVE \E B \in SUBSET Hierarchies : Chain(B, dc, hparent[w])
      <4>1. w \in Hierarchies /\ hparent[w] \in Hierarchies
        BY <1>0, <3>5, <3>6 DEF Chain, Types, OrNull
      <4>2. Chain(A \cup {hparent[w]}, dc, hparent[w])
        BY <3>5 DEF Chain
      <4>3. A \cup {hparent[w]} \in SUBSET Hierarchies
        BY <4>1
      <4> QED BY <4>2, <4>3
    <3>7. PICK v : v = hparent[w]
      OBVIOUS
    <3>8. v # NULL => \E B \in SUBSET Hierarchies : Chain(B, dc, v)'
      BY <3>2, <3>6, <3>7 DEF Chain
    <3> QED BY <3>2, <3>3, <3>4, <3>7, <3>8 DEF ReaderOK
  <2> QED BY <2>1, <2>2
<1> QED BY <1>6, <1>7, <1>8, <1>9, <1>10, PtraceMoves DEF PtraceMove

\* Nothing that a reader may reach is freed, nor anything else in use.
LEMMA Dangling ==
    ASSUME Types, Ptracing, CredsOK, UsagesOK, NodesOK, ReadersOK
    PROVE  NoDanglingPointer
<1>1. \A r \in Rulesets : hier[r] # NULL => husage[hier[r]] > 0
  BY HeldNode DEF Types, OrNull
<1>2. \A h \in Hierarchies : hparent[h] # NULL => husage[hparent[h]] > 0
  BY HeldNode DEF Types, OrNull
<1>3. ASSUME NEW t \in Tasks, NEW d \in {pt[t].dom_parent, pt[t].dom_child}, d # NULL
      PROVE  d \in Rulesets /\ rstate[d] = "live"
  BY <1>3, NotFree DEF ReadersOK, ReaderOK, KeptBy
<1>4. ASSUME NEW t \in Tasks, pt[t].walker # NULL PROVE husage[pt[t].walker] > 0
  <2>1. PICK d, w : d = pt[t].dom_child /\ w = pt[t].walker
    OBVIOUS
  <2>2. PICK A \in SUBSET Hierarchies : Chain(A, d, w)
    BY <1>4, <2>1 DEF ReadersOK, ReaderOK
  <2>3. d # NULL
    BY <1>4, <2>1 DEF Ptracing, PtraceLocals, NoPtrace
  <2>4. d \in Rulesets
    BY <1>3, <2>1, <2>3
  <2>5. w \in A
    BY <2>2 DEF Chain
  <2> QED BY <2>1, <2>2, <2>4, <2>5, ChainHeld
<1> QED BY <1>1, <1>2, <1>3, <1>4, NotFree DEF NoDanglingPointer, CredsOK

-----------------------------------------------------------------------------
(* The invariant, and what it says of the code.                            *)

IInv ==
    /\ Core /\ CredsOK /\ PreparedOK
    /\ UsagesOK /\ Exclusive /\ KindsOK
    /\ NodesOK /\ RootsOK /\ ReadersOK

\* One task and no ruleset, domain or ptrace check satisfies it...
LEMMA IInvInit == Init => IInv
BY CoreInit, CredsInit, PreparedInit, UsagesInit, ExclusiveInit, KindsInit, NodesInit,
   ReadersInit DEF IInv

\* ...and every step of every thread keeps it.
LEMMA IInvStep == IInv /\ [Next]_vars => IInv'
<1> SUFFICES ASSUME IInv, [Next]_vars PROVE IInv'
  OBVIOUS
<1>1. /\ Core /\ CredsOK /\ PreparedOK /\ AssignEmpty /\ ParentKnown
      /\ UsagesOK /\ Exclusive /\ KindsOK
      /\ NodesOK /\ RootsOK /\ ReadersOK
  BY PreparedMeans DEF IInv
<1>2. Core'
  BY <1>1, CoreKept
<1>3. CredsOK' /\ PreparedOK'
  BY <1>1, CredsStep, PreparedStep
<1>4. UsagesOK'
  BY <1>1, UsagesStep
<1>5. Exclusive' /\ KindsOK'
  BY <1>1, ExclusiveStep, KindsStep
<1>6. NodesOK'
  BY <1>1, NodesStep
<1>7. RootsOK'
  BY <1>1, RootsStep
<1>8. ReadersOK'
  BY <1>1, <1>2, ReadersStep
<1> QED BY <1>2, <1>3, <1>4, <1>5, <1>6, <1>7, <1>8 DEF IInv

\* What the invariant is for: the system calls, the credential hooks, the
\* ptrace hooks and the deferred frees of ruleset.c, cred.c, ptrace.c and
\* syscalls.c, interleaved in any way, always satisfy it.
THEOREM Invariance == Spec => []IInv
<1>1. Init => IInv
  BY IInvInit
<1>2. IInv /\ [Next]_vars => IInv'
  BY IInvStep
<1> QED BY <1>1, <1>2, PTL DEF Spec

\* ruleset->usage and hierarchy->usage count exactly what refers to the
\* ruleset and to the node: no system call or hook leaks a reference or puts
\* one twice, whichever step fails.
THEOREM UsageCounts == Spec => []ReferencesExact
<1>1. IInv => ReferencesExact
  BY ExactNodeMeans DEF IInv, UsagesOK, NodesOK, ReferencesExact
<1> QED BY <1>1, Invariance, PTL

\* No pointer outlives what it points to: neither the one that a descriptor,
\* a credential or a system call holds, nor those that a ptrace check reads
\* under RCU from another task, nor its walk up the hierarchy.
THEOREM NothingDangles == Spec => []NoDanglingPointer
<1>1. IInv => NoDanglingPointer
  BY Dangling DEF IInv, Core
<1> QED BY <1>1, Invariance, PTL

=============================================================================
