------------------------ MODULE LandlockDomainProofs ------------------------
(***************************************************************************)
(* Proofs about the domains of LandlockRuleset: the line of ancestors that *)
(* a domain and a node stand for, and what domain_scope_le() finds; and    *)
(* which steps take a domain under construction further.                   *)
(***************************************************************************)
EXTENDS LandlockRulesetProofs

-----------------------------------------------------------------------------
(* Prefixes.                                                               *)

\* A prefix, element by element.
LEMMA PrefixMeans ==
    ASSUME NEW s \in Seq(Nat), NEW u \in Seq(Nat)
    PROVE  IsPrefixOf(s, u) <=> Len(s) <= Len(u) /\ \A k \in 1 .. Len(s) : s[k] = u[k]
<1> SUFFICES ASSUME Len(s) <= Len(u)
             PROVE  SubSeq(u, 1, Len(s)) = s <=> \A k \in 1 .. Len(s) : s[k] = u[k]
  BY DEF IsPrefixOf
<1>1. Len(s) \in Nat /\ Len(u) \in Nat /\ \A k \in 1 .. Len(s) : u[k] \in Nat
  BY LenProperties, ElementOfSeq
<1>2. PICK v : v = SubSeq(u, 1, Len(s))
  OBVIOUS
<1>3. v \in Seq(Nat) /\ Len(v) = Len(s) /\ \A k \in 1 .. Len(s) : v[k] = u[k]
  <2>1. 1 \in Int /\ Len(s) \in Int
    BY <1>1
  <2>2. /\ SubSeq(u, 1, Len(s)) \in Seq(Nat)
        /\ Len(SubSeq(u, 1, Len(s))) = IF 1 <= Len(s) THEN Len(s) - 1 + 1 ELSE 0
        /\ \A i \in 1 .. Len(s) - 1 + 1 : SubSeq(u, 1, Len(s))[i] = u[1 + i - 1]
    BY <1>1, <2>1, SubSeqProperties
  <2> QED BY <1>1, <1>2, <2>2
<1>4. ASSUME \A k \in 1 .. Len(s) : s[k] = u[k] PROVE v = s
  BY <1>3, <1>4, SeqEqual
<1> QED BY <1>2, <1>3, <1>4

\* The prefixes of a sequence that gets another element.
LEMMA PrefixAppend ==
    ASSUME NEW s \in Seq(Nat), NEW u \in Seq(Nat), NEW i \in Nat
    PROVE  IsPrefixOf(s, Append(u, i)) <=> (IsPrefixOf(s, u) \/ s = Append(u, i))
<1>1. PICK v : v = Append(u, i)
  OBVIOUS
<1>2. /\ v \in Seq(Nat) /\ Len(v) = Len(u) + 1 /\ Len(u) \in Nat /\ Len(s) \in Nat
      /\ \A k \in 1 .. Len(u) : v[k] = u[k]
  BY <1>1
<1>a. IsPrefixOf(s, v) <=> Len(s) <= Len(v) /\ \A k \in 1 .. Len(s) : s[k] = v[k]
  BY <1>2, PrefixMeans
<1>b. IsPrefixOf(s, u) <=> Len(s) <= Len(u) /\ \A k \in 1 .. Len(s) : s[k] = u[k]
  BY PrefixMeans
<1> SUFFICES IsPrefixOf(s, v) <=> (IsPrefixOf(s, u) \/ s = v)
  BY <1>1
<1>3. CASE Len(s) <= Len(u)
  <2>1. s # v /\ Len(s) <= Len(v)
    BY ONLY <1>2, <1>3
  <2>2. \A k \in 1 .. Len(s) : v[k] = u[k]
    BY ONLY <1>2, <1>3
  <2> QED BY ONLY <1>a, <1>b, <1>3, <2>1, <2>2
<1>4. CASE Len(s) = Len(u) + 1
  <2>1. IsPrefixOf(s, v) => s = v
    BY <1>2, <1>4, <1>a, SeqEqual
  <2>2. s = v => IsPrefixOf(s, v)
    BY ONLY <1>2, <1>a
  <2>3. ~IsPrefixOf(s, u)
    BY ONLY <1>2, <1>4, <1>b
  <2> QED BY <2>1, <2>2, <2>3
<1>5. CASE Len(s) > Len(u) + 1
  <2>1. ~IsPrefixOf(s, v) /\ ~IsPrefixOf(s, u)
    BY ONLY <1>2, <1>5, <1>a, <1>b
  <2>2. s # v
    BY ONLY <1>2, <1>5
  <2> QED BY <2>1, <2>2
<1> QED BY <1>2, <1>3, <1>4, <1>5

\* Prefixes of prefixes.
LEMMA PrefixTrans ==
    ASSUME NEW s \in Seq(Nat), NEW u \in Seq(Nat), NEW v \in Seq(Nat), IsPrefixOf(s, u), IsPrefixOf(u, v)
    PROVE  IsPrefixOf(s, v)
<1>1. Len(s) \in Nat /\ Len(u) \in Nat /\ Len(v) \in Nat
  BY LenProperties
<1> QED BY <1>1, PrefixMeans

-----------------------------------------------------------------------------
(* Lines of domains: the one that a task builds or commits extends the     *)
(* line of the task's domain by an id that no other line has.              *)

\* From landlock_merge_ruleset() to commit_creds(), if nothing fails.
Building(t, d) ==
    \/ Label(t) \in {"inherit_lock", "inherit", "merge_lock", "merge_rules", "replace", "assign"}
       /\ newdom[t] = d
    \/ Committing(t) /\ cdom[ncred[t]] = d

LineOK(t, d) ==
    \E i \in Nat :
       /\ line[d] = Append(LineOf(t), i)
       /\ \A r \in Rulesets : r # d => \A k \in 1 .. Len(line[r]) : line[r][k] # i

\* The new node gets its parent with inherit_ruleset(), if it is to have one.
RootedOK ==
    \A t \in Tasks : Label(t) \in {"merge_lock", "merge_rules", "replace", "assign"} =>
       hparent[hier[newdom[t]]] # NULL \/ Len(line[newdom[t]]) = 1

LinesOK ==
    /\ nextid \in Nat
    /\ line \in [Rulesets -> Seq(Nat)]
    /\ \A r \in Rulesets : \A k \in 1 .. Len(line[r]) : line[r][k] < nextid
    /\ \A t \in Tasks, d \in Rulesets : Building(t, d) => LineOK(t, d)

\* No domain at first.
LEMMA LinesInit == Init => LinesOK /\ RootedOK
BY RulesetAssumption DEF Init, LinesOK, RootedOK, Building, Committing, Label,
   FreeLabels, Threads

\* Lines are written when a domain is created and when it is freed.
GhostMove ==
    \/ UNCHANGED ghosts
    \/ \E t \in Tasks, r \in Rulesets, h \in Hierarchies : CreateDomain(t, r, h)
    \/ \E t \in Threads : Kfree(t)

\* No other step writes them.
LEMMA GhostMoves == [Next]_vars => GhostMove
<1> SUFFICES ASSUME [Next]_vars PROVE GhostMove
  OBVIOUS
<1> USE DEF GhostMove, rvars, hvars, cvars, locals, frvars, ptvars, ghosts
<1>1. ASSUME NEW t \in Tasks, AllocStep(t) PROVE GhostMove
  <2>1. ASSUME NEW r \in Rulesets, NEW handled \in SUBSET Access, CreateRuleset(t, r, handled)
        PROVE  GhostMove
    BY <2>1 DEF CreateRuleset
  <2>2. ASSUME NEW r \in Rulesets, NEW handled \in SUBSET Access, CreateRulesetNoFd(t, r, handled)
        PROVE  GhostMove
    BY <2>2 DEF CreateRulesetNoFd
  <2>3. ASSUME NEW r \in Rulesets, NEW h \in Hierarchies, CreateDomain(t, r, h)
        PROVE  GhostMove
    BY <2>3 DEF CreateDomain
  <2>4. ASSUME NEW r \in Rulesets, CreateHierarchyFails(t, r)
        PROVE  GhostMove
    BY <2>4 DEF CreateHierarchyFails
  <2> QED BY <1>1, <2>1, <2>2, <2>3, <2>4 DEF AllocStep
<1>2. ASSUME NEW t \in Tasks, CallStep(t) PROVE GhostMove
  <2>1. ASSUME NEW r \in Rulesets, NEW o \in Objects, NEW allowed \in SUBSET Access,
             AddRule(t, r, o, allowed)
        PROVE  GhostMove
    BY <2>1 DEF AddRule, Get
  <2>2. ASSUME NEW r \in Rulesets, Close(t, r)
        PROVE  GhostMove
    BY <2>2 DEF Close, Put
  <2>3. ASSUME NEW r \in Rulesets, RestrictSelf(t, r)
        PROVE  GhostMove
    BY <2>3 DEF RestrictSelf, Get
  <2>4. ASSUME NEW c \in Creds, ChangeCreds(t, c)
        PROVE  GhostMove
    BY <2>4 DEF ChangeCreds, GetDomain, DomainOf
  <2>5. ASSUME NEW c \in Creds, NEW u \in Tasks, Fork(t, u, c)
        PROVE  GhostMove
    BY <2>5 DEF Fork, NewCred, GetDomain, DomainOf
  <2>6. ASSUME NEW u \in Tasks, CloneThread(t, u)
        PROVE  GhostMove
    BY <2>6 DEF CloneThread
  <2>7. ASSUME NEW p \in Tasks, NEW c \in Tasks, TaskPtrace(t, p, c)
        PROVE  GhostMove
    BY <2>7 DEF TaskPtrace
  <2>8. CASE Exit(t)
    BY <2>8 DEF Exit, PutCred
  <2> QED BY <1>2, <2>1, <2>2, <2>3, <2>4, <2>5, <2>6, <2>7, <2>8 DEF CallStep
<1>3. ASSUME NEW t \in Tasks, LockStep(t) PROVE GhostMove
  <2>1. CASE AppendFsRule(t)
    BY <2>1 DEF AppendFsRule, InsertRule
  <2>2. CASE InheritLock(t)
    BY <2>2 DEF InheritLock, Unlocked, Lock, RulesOf
  <2>3. CASE MergeLock(t)
    BY <2>3 DEF MergeLock, Unlocked, Lock, RulesOf
  <2> QED BY <1>3, <2>1, <2>2, <2>3 DEF LockStep
<1>4. ASSUME NEW t \in Tasks, KernelStep(t) PROVE GhostMove
  <2>1. CASE AppendFsRuleFails(t)
    BY <2>1 DEF AppendFsRuleFails
  <2>2. CASE PutRuleset(t)
    BY <2>2 DEF PutRuleset, Put
  <2>3. ASSUME NEW c \in Creds, PrepareCreds(t, c)
        PROVE  GhostMove
    BY <2>3 DEF PrepareCreds, NewCred, GetDomain, DomainOf
  <2>4. CASE PrepareCredsFails(t)
    BY <2>4 DEF PrepareCredsFails
  <2>5. CASE MergeFails(t)
    BY <2>5 DEF MergeFails
  <2>6. ASSUME NEW o \in Objects, InheritRule(t, o)
        PROVE  GhostMove
    BY <2>6 DEF InheritRule, InsertRule
  <2>7. ASSUME NEW o \in Objects, MergeRule(t, o)
        PROVE  GhostMove
    BY <2>7 DEF MergeRule, InsertRule
  <2>8. CASE InheritFails(t)
    BY <2>8 DEF InheritFails, Unlock
  <2>9. CASE InheritDone(t)
    BY <2>9 DEF InheritDone, Unlock
  <2>10. CASE MergeRuleFails(t)
    BY <2>10 DEF MergeRuleFails, Unlock
  <2>11. CASE MergeDone(t)
    BY <2>11 DEF MergeDone, Unlock
  <2>12. CASE PutDom(t)
    BY <2>12 DEF PutDom, Put
  <2>13. CASE ReplaceDomain(t)
    BY <2>13 DEF ReplaceDomain, Put
  <2>14. CASE AssignDomain(t)
    BY <2>14 DEF AssignDomain
  <2>15. CASE CommitCreds(t)
    BY <2>15 DEF CommitCreds, PutCred
  <2>16. CASE AbortCreds(t)
    BY <2>16 DEF AbortCreds, PutCred
  <2>17. CASE TaskIsScoped(t)
    BY <2>17 DEF TaskIsScoped, DomainOf
  <2>18. CASE DomChild(t)
    BY <2>18 DEF DomChild, DomainOf
  <2>19. CASE DomainScopeLe(t)
    BY <2>19 DEF DomainScopeLe, ScopeDecided
  <2> QED BY <1>4, <2>1, <2>2, <2>3, <2>4, <2>5, <2>6, <2>7, <2>8, <2>9, <2>10, <2>11, <2>12, <2>13, <2>14, <2>15, <2>16, <2>17, <2>18, <2>19 DEF KernelStep
<1>5. ASSUME NEW t \in Threads, FreeStep(t) PROVE GhostMove
  <2>1. CASE FreeRuleset(t)
    BY <2>1 DEF FreeRuleset
  <2>2. CASE PutHierarchy(t)
    BY <2>2 DEF PutHierarchy
  <2>3. CASE Kfree(t)
    BY <2>3 DEF Kfree
  <2> QED BY <1>5, <2>1, <2>2, <2>3 DEF FreeStep
<1>6. ASSUME NEW c \in Creds, CredFree(c) PROVE GhostMove
  BY <1>6 DEF CredFree
<1>7. ASSUME NEW r \in Rulesets, FreeRulesetWork(r) PROVE GhostMove
  BY <1>7 DEF FreeRulesetWork
<1>8. CASE UNCHANGED vars
  BY <1>8 DEF vars
<1> QED BY <1>1, <1>2, <1>3, <1>4, <1>5, <1>6, <1>7, <1>8 DEF Next

\* A domain that a task is about to commit is the one that it has built.
BuildMove(x, e) == Building(x, e) \/ \E h \in Hierarchies : CreateDomain(x, e, h)

\* The task hands it from new_dom to the prepared credential.
LEMMA BuildMoves ==
    ASSUME Core, CredsOK, [Next]_vars, NEW x \in Tasks, NEW e \in Rulesets, Building(x, e)'
    PROVE  BuildMove(x, e)
<1> USE RulesetAssumption, Using DEF Core, Types, Control, CredsOK, BuildMove,
    Building, Committing, Threads, Label, At, Goto, Idle, CallLocals, FreeLocals,
        Labels, CallLabels, DomainLabels, WalkLabels, FreeLabels, Prepared,
        rvars, hvars, cvars, locals, frvars, ptvars, ghosts, Alloc
<1>1. ASSUME NEW t \in Tasks, AllocStep(t) PROVE BuildMove(x, e)
  <2>1. ASSUME NEW r \in Rulesets, NEW handled \in SUBSET Access, CreateRuleset(t, r, handled)
        PROVE  BuildMove(x, e)
    BY <2>1 DEF CreateRuleset
  <2>2. ASSUME NEW r \in Rulesets, NEW handled \in SUBSET Access, CreateRulesetNoFd(t, r, handled)
        PROVE  BuildMove(x, e)
    BY <2>2 DEF CreateRulesetNoFd
  <2>3. ASSUME NEW r \in Rulesets, NEW h \in Hierarchies, CreateDomain(t, r, h)
        PROVE  BuildMove(x, e)
    <3>1. CASE x = t
      <4>1. newdom'[t] = r /\ Label(t)' # "assign" /\ ncred' = ncred /\ ~Committing(t)'
        BY <2>3 DEF CreateDomain
      <4>2. e = r
        BY <3>1, <4>1
      <4> QED BY <2>3, <3>1, <4>2
    <3>2. CASE x # t
      BY <2>3, <3>2 DEF CreateDomain
    <3> QED BY <3>1, <3>2
  <2>4. ASSUME NEW r \in Rulesets, CreateHierarchyFails(t, r)
        PROVE  BuildMove(x, e)
    BY <2>4 DEF CreateHierarchyFails
  <2> QED BY <1>1, <2>1, <2>2, <2>3, <2>4 DEF AllocStep
<1>2. ASSUME NEW t \in Tasks, CallStep(t) PROVE BuildMove(x, e)
  <2>1. ASSUME NEW r \in Rulesets, NEW o \in Objects, NEW allowed \in SUBSET Access,
             AddRule(t, r, o, allowed)
        PROVE  BuildMove(x, e)
    BY <2>1 DEF AddRule, Get
  <2>2. ASSUME NEW r \in Rulesets, Close(t, r)
        PROVE  BuildMove(x, e)
    BY <2>2 DEF Close, Put
  <2>3. ASSUME NEW r \in Rulesets, RestrictSelf(t, r)
        PROVE  BuildMove(x, e)
    BY <2>3 DEF RestrictSelf, Get
  <2>4. ASSUME NEW c \in Creds, ChangeCreds(t, c)
        PROVE  BuildMove(x, e)
    BY <2>4 DEF ChangeCreds, GetDomain, DomainOf
  <2>5. ASSUME NEW c \in Creds, NEW u \in Tasks, Fork(t, u, c)
        PROVE  BuildMove(x, e)
    BY <2>5 DEF Fork, NewCred, GetDomain, DomainOf
  <2>6. ASSUME NEW u \in Tasks, CloneThread(t, u)
        PROVE  BuildMove(x, e)
    BY <2>6 DEF CloneThread
  <2>7. ASSUME NEW p \in Tasks, NEW c \in Tasks, TaskPtrace(t, p, c)
        PROVE  BuildMove(x, e)
    BY <2>7 DEF TaskPtrace
  <2>8. CASE Exit(t)
    BY <2>8 DEF Exit, PutCred
  <2> QED BY <1>2, <2>1, <2>2, <2>3, <2>4, <2>5, <2>6, <2>7, <2>8 DEF CallStep
<1>3. ASSUME NEW t \in Tasks, LockStep(t) PROVE BuildMove(x, e)
  <2>1. CASE AppendFsRule(t)
    BY <2>1 DEF AppendFsRule, InsertRule
  <2>2. CASE InheritLock(t)
    BY <2>2 DEF InheritLock, Unlocked, Lock, RulesOf
  <2>3. CASE MergeLock(t)
    BY <2>3 DEF MergeLock, Unlocked, Lock, RulesOf
  <2> QED BY <1>3, <2>1, <2>2, <2>3 DEF LockStep
<1>4. ASSUME NEW t \in Tasks, KernelStep(t) PROVE BuildMove(x, e)
  <2>1. CASE AppendFsRuleFails(t)
    BY <2>1 DEF AppendFsRuleFails
  <2>2. CASE PutRuleset(t)
    BY <2>2 DEF PutRuleset, Put
  <2>3. ASSUME NEW c \in Creds, PrepareCreds(t, c)
        PROVE  BuildMove(x, e)
    BY <2>3 DEF PrepareCreds, NewCred, GetDomain, DomainOf
  <2>4. CASE PrepareCredsFails(t)
    BY <2>4 DEF PrepareCredsFails
  <2>5. CASE MergeFails(t)
    BY <2>5 DEF MergeFails
  <2>6. ASSUME NEW o \in Objects, InheritRule(t, o)
        PROVE  BuildMove(x, e)
    BY <2>6 DEF InheritRule, InsertRule
  <2>7. ASSUME NEW o \in Objects, MergeRule(t, o)
        PROVE  BuildMove(x, e)
    BY <2>7 DEF MergeRule, InsertRule
  <2>8. CASE InheritFails(t)
    BY <2>8 DEF InheritFails, Unlock
  <2>9. CASE InheritDone(t)
    BY <2>9 DEF InheritDone, Unlock
  <2>10. CASE MergeRuleFails(t)
    BY <2>10 DEF MergeRuleFails, Unlock
  <2>11. CASE MergeDone(t)
    BY <2>11 DEF MergeDone, Unlock
  <2>12. CASE PutDom(t)
    BY <2>12 DEF PutDom, Put
  <2>13. CASE ReplaceDomain(t)
    BY <2>13 DEF ReplaceDomain, Put
  <2>14. CASE AssignDomain(t)
    BY <2>14 DEF AssignDomain
  <2>15. CASE CommitCreds(t)
    BY <2>15 DEF CommitCreds, PutCred
  <2>16. CASE AbortCreds(t)
    BY <2>16 DEF AbortCreds, PutCred
  <2>17. CASE TaskIsScoped(t)
    BY <2>17 DEF TaskIsScoped, DomainOf
  <2>18. CASE DomChild(t)
    BY <2>18 DEF DomChild, DomainOf
  <2>19. CASE DomainScopeLe(t)
    BY <2>19 DEF DomainScopeLe, ScopeDecided
  <2> QED BY <1>4, <2>1, <2>2, <2>3, <2>4, <2>5, <2>6, <2>7, <2>8, <2>9, <2>10, <2>11, <2>12, <2>13, <2>14, <2>15, <2>16, <2>17, <2>18, <2>19 DEF KernelStep
<1>5. ASSUME NEW t \in Threads, FreeStep(t) PROVE BuildMove(x, e)
  <2>1. CASE FreeRuleset(t)
    BY <2>1 DEF FreeRuleset
  <2>2. CASE PutHierarchy(t)
    BY <2>2 DEF PutHierarchy
  <2>3. CASE Kfree(t)
    BY <2>3 DEF Kfree
  <2> QED BY <1>5, <2>1, <2>2, <2>3 DEF FreeStep
<1>6. ASSUME NEW c \in Creds, CredFree(c) PROVE BuildMove(x, e)
  BY <1>6 DEF CredFree
<1>7. ASSUME NEW r \in Rulesets, FreeRulesetWork(r) PROVE BuildMove(x, e)
  BY <1>7 DEF FreeRulesetWork
<1>8. CASE UNCHANGED vars
  BY <1>8 DEF vars
<1> QED BY <1>1, <1>2, <1>3, <1>4, <1>5, <1>6, <1>7, <1>8 DEF Next

\* The steps of building and committing it use the node and the line.
RootedMove(x) ==
    Label(x)' \in {"merge_lock", "merge_rules", "replace", "assign"} =>
       \/ Label(x) \in {"merge_lock", "merge_rules", "replace", "assign"} /\ newdom'[x] = newdom[x]
       \/ InheritDone(x)
       \/ Parent(x) = NULL /\ \E r \in Rulesets, h \in Hierarchies : CreateDomain(x, r, h)

\* The domain with which these steps begin has its parent or needs none.
LEMMA RootedMoves ==
    ASSUME Core, [Next]_vars, NEW x \in Tasks
    PROVE  RootedMove(x)
<1> USE RulesetAssumption, Using DEF Core, Types, Control, RootedMove, Threads,
    Label, At, Goto, Idle, CallLocals, FreeLocals,
        Labels, CallLabels, DomainLabels, WalkLabels, FreeLabels, Prepared,
        rvars, hvars, cvars, locals, frvars, ptvars, ghosts, Alloc
<1>1. ASSUME NEW t \in Tasks, AllocStep(t) PROVE RootedMove(x)
  <2>1. ASSUME NEW r \in Rulesets, NEW handled \in SUBSET Access, CreateRuleset(t, r, handled)
        PROVE  RootedMove(x)
    BY <2>1 DEF CreateRuleset
  <2>2. ASSUME NEW r \in Rulesets, NEW handled \in SUBSET Access, CreateRulesetNoFd(t, r, handled)
        PROVE  RootedMove(x)
    BY <2>2 DEF CreateRulesetNoFd
  <2>3. ASSUME NEW r \in Rulesets, NEW h \in Hierarchies, CreateDomain(t, r, h)
        PROVE  RootedMove(x)
    BY <2>3 DEF CreateDomain
  <2>4. ASSUME NEW r \in Rulesets, CreateHierarchyFails(t, r)
        PROVE  RootedMove(x)
    BY <2>4 DEF CreateHierarchyFails
  <2> QED BY <1>1, <2>1, <2>2, <2>3, <2>4 DEF AllocStep
<1>2. ASSUME NEW t \in Tasks, CallStep(t) PROVE RootedMove(x)
  <2>1. ASSUME NEW r \in Rulesets, NEW o \in Objects, NEW allowed \in SUBSET Access,
             AddRule(t, r, o, allowed)
        PROVE  RootedMove(x)
    BY <2>1 DEF AddRule, Get
  <2>2. ASSUME NEW r \in Rulesets, Close(t, r)
        PROVE  RootedMove(x)
    BY <2>2 DEF Close, Put
  <2>3. ASSUME NEW r \in Rulesets, RestrictSelf(t, r)
        PROVE  RootedMove(x)
    BY <2>3 DEF RestrictSelf, Get
  <2>4. ASSUME NEW c \in Creds, ChangeCreds(t, c)
        PROVE  RootedMove(x)
    BY <2>4 DEF ChangeCreds, GetDomain, DomainOf
  <2>5. ASSUME NEW c \in Creds, NEW u \in Tasks, Fork(t, u, c)
        PROVE  RootedMove(x)
    BY <2>5 DEF Fork, NewCred, GetDomain, DomainOf
  <2>6. ASSUME NEW u \in Tasks, CloneThread(t, u)
        PROVE  RootedMove(x)
    BY <2>6 DEF CloneThread
  <2>7. ASSUME NEW p \in Tasks, NEW c \in Tasks, TaskPtrace(t, p, c)
        PROVE  RootedMove(x)
    BY <2>7 DEF TaskPtrace
  <2>8. CASE Exit(t)
    BY <2>8 DEF Exit, PutCred
  <2> QED BY <1>2, <2>1, <2>2, <2>3, <2>4, <2>5, <2>6, <2>7, <2>8 DEF CallStep
<1>3. ASSUME NEW t \in Tasks, LockStep(t) PROVE RootedMove(x)
  <2>1. CASE AppendFsRule(t)
    BY <2>1 DEF AppendFsRule, InsertRule
  <2>2. CASE InheritLock(t)
    BY <2>2 DEF InheritLock, Unlocked, Lock, RulesOf
  <2>3. CASE MergeLock(t)
    BY <2>3 DEF MergeLock, Unlocked, Lock, RulesOf
  <2> QED BY <1>3, <2>1, <2>2, <2>3 DEF LockStep
<1>4. ASSUME NEW t \in Tasks, KernelStep(t) PROVE RootedMove(x)
  <2>1. CASE AppendFsRuleFails(t)
    BY <2>1 DEF AppendFsRuleFails
  <2>2. CASE PutRuleset(t)
    BY <2>2 DEF PutRuleset, Put
  <2>3. ASSUME NEW c \in Creds, PrepareCreds(t, c)
        PROVE  RootedMove(x)
    BY <2>3 DEF PrepareCreds, NewCred, GetDomain, DomainOf
  <2>4. CASE PrepareCredsFails(t)
    BY <2>4 DEF PrepareCredsFails
  <2>5. CASE MergeFails(t)
    BY <2>5 DEF MergeFails
  <2>6. ASSUME NEW o \in Objects, InheritRule(t, o)
        PROVE  RootedMove(x)
    BY <2>6 DEF InheritRule, InsertRule
  <2>7. ASSUME NEW o \in Objects, MergeRule(t, o)
        PROVE  RootedMove(x)
    BY <2>7 DEF MergeRule, InsertRule
  <2>8. CASE InheritFails(t)
    BY <2>8 DEF InheritFails, Unlock
  <2>9. CASE InheritDone(t)
    BY <2>9 DEF InheritDone, Unlock
  <2>10. CASE MergeRuleFails(t)
    BY <2>10 DEF MergeRuleFails, Unlock
  <2>11. CASE MergeDone(t)
    BY <2>11 DEF MergeDone, Unlock
  <2>12. CASE PutDom(t)
    BY <2>12 DEF PutDom, Put
  <2>13. CASE ReplaceDomain(t)
    BY <2>13 DEF ReplaceDomain, Put
  <2>14. CASE AssignDomain(t)
    BY <2>14 DEF AssignDomain
  <2>15. CASE CommitCreds(t)
    BY <2>15 DEF CommitCreds, PutCred
  <2>16. CASE AbortCreds(t)
    BY <2>16 DEF AbortCreds, PutCred
  <2>17. CASE TaskIsScoped(t)
    BY <2>17 DEF TaskIsScoped, DomainOf
  <2>18. CASE DomChild(t)
    BY <2>18 DEF DomChild, DomainOf
  <2>19. CASE DomainScopeLe(t)
    BY <2>19 DEF DomainScopeLe, ScopeDecided
  <2> QED BY <1>4, <2>1, <2>2, <2>3, <2>4, <2>5, <2>6, <2>7, <2>8, <2>9, <2>10, <2>11, <2>12, <2>13, <2>14, <2>15, <2>16, <2>17, <2>18, <2>19 DEF KernelStep
<1>5. ASSUME NEW t \in Threads, FreeStep(t) PROVE RootedMove(x)
  <2>1. CASE FreeRuleset(t)
    BY <2>1 DEF FreeRuleset
  <2>2. CASE PutHierarchy(t)
    BY <2>2 DEF PutHierarchy
  <2>3. CASE Kfree(t)
    BY <2>3 DEF Kfree
  <2> QED BY <1>5, <2>1, <2>2, <2>3 DEF FreeStep
<1>6. ASSUME NEW c \in Creds, CredFree(c) PROVE RootedMove(x)
  BY <1>6 DEF CredFree
<1>7. ASSUME NEW r \in Rulesets, FreeRulesetWork(r) PROVE RootedMove(x)
  BY <1>7 DEF FreeRulesetWork
<1>8. CASE UNCHANGED vars
  BY <1>8 DEF vars
<1> QED BY <1>1, <1>2, <1>3, <1>4, <1>5, <1>6, <1>7, <1>8 DEF Next

\* A task's domain changes when it commits another one, and only then.
LEMMA DomainMove ==
    ASSUME Core, CredsOK, [Next]_vars, NEW x \in Tasks, tcred[x] # NULL, tcred'[x] # NULL
    PROVE  cdom'[tcred'[x]] = cdom[tcred[x]] \/ (CommitCreds(x) /\ cdom'[tcred'[x]] = cdom[ncred[x]])
<1>0. Types /\ tcred[x] \in Creds /\ cstate[tcred[x]] = "live" /\ \A u \in Tasks : ncred[u] # tcred[x]
  BY DEF Core, Types, CredsOK, OrNull
<1> DEFINE G == cdom'[tcred'[x]] = cdom[tcred[x]] \/ (CommitCreds(x) /\ cdom'[tcred'[x]] = cdom[ncred[x]])
<1> USE RulesetAssumption, <1>0 DEF DomainOf, Types, Idle, OrNull
<1>1. CASE UNCHANGED credvars
  BY <1>1 DEF credvars
<1>2. ASSUME NEW t \in Tasks, NEW c \in Creds, PrepareCreds(t, c) PROVE G
  BY <1>2 DEF PrepareCreds, NewCred
<1>3. ASSUME NEW t \in Tasks, NEW c \in Creds, ChangeCreds(t, c) PROVE G
  BY <1>3 DEF ChangeCreds
<1>4. ASSUME NEW t \in Tasks, NEW c \in Creds, NEW u \in Tasks, Fork(t, u, c) PROVE G
  BY <1>4 DEF Fork, NewCred
<1>5. ASSUME NEW t \in Tasks, NEW u \in Tasks, CloneThread(t, u) PROVE G
  BY <1>5 DEF CloneThread, cvars
<1>6. ASSUME NEW t \in Tasks, ReplaceDomain(t) \/ AssignDomain(t) PROVE G
  BY <1>6 DEF ReplaceDomain, AssignDomain
<1>7. ASSUME NEW t \in Tasks, CommitCreds(t) PROVE G
  <2>1. CASE t = x
    BY <1>7, <2>1, <1>0 DEF CommitCreds
  <2>2. CASE t # x
    BY <1>7, <2>2 DEF CommitCreds
  <2> QED BY <2>1, <2>2
<1>8. ASSUME NEW t \in Tasks, AbortCreds(t) PROVE G
  BY <1>8 DEF AbortCreds
<1>9. ASSUME NEW t \in Tasks, Exit(t) PROVE G
  BY <1>9 DEF Exit
<1>10. ASSUME NEW c \in Creds, CredFree(c) PROVE G
  BY <1>10 DEF CredFree
<1> QED BY <1>1, <1>2, <1>3, <1>4, <1>5, <1>6, <1>7, <1>8, <1>9, <1>10, CredSteps DEF CredStep

\* A domain in use keeps its line.
LEMMA LineKept ==
    ASSUME Types, UsagesOK, LinesOK, [Next]_vars, NEW d \in Rulesets, rstate[d] = "live"
    PROVE  line'[d] = line[d]
<1>1. ASSUME NEW t \in Tasks, NEW r \in Rulesets, NEW h \in Hierarchies, CreateDomain(t, r, h)
      PROVE  line'[d] = line[d]
  BY <1>1 DEF CreateDomain, Alloc, LinesOK
<1>2. ASSUME NEW t \in Threads, Kfree(t) PROVE line'[d] = line[d]
  <2>1. fr[t] # d
    BY NotFree, RulesetAssumption
  <2> QED BY <1>2, <2>1 DEF Kfree, LinesOK
<1> QED BY <1>1, <1>2, GhostMoves DEF GhostMove, ghosts

\* The line of a task grows when it commits a domain, by the id of the domain.
LEMMA LineMove ==
    ASSUME Core, CredsOK, PreparedOK, UsagesOK, LinesOK, [Next]_vars,
           NEW x \in Tasks, tcred[x] # NULL, tcred'[x] # NULL
    PROVE  \/ LineOf(x)' = LineOf(x)
           \/ CommitCreds(x) /\ \E d \in Rulesets : Building(x, d) /\ LineOf(x)' = line[d]
<1>0. Types /\ tcred[x] \in Creds /\ NULL \notin Rulesets
  BY RulesetAssumption DEF Core, Types, OrNull
<1>1. PICK a, b : a = cdom[tcred[x]] /\ b = cdom'[tcred'[x]]
  OBVIOUS
<1>2. LineOf(x) = (IF a = NULL THEN <<>> ELSE line[a]) /\ LineOf(x)' = (IF b = NULL THEN <<>> ELSE line'[b])
  BY <1>1 DEF LineOf, DomainOf
<1>3. CASE a = b
  <2>1. a # NULL => a \in Rulesets /\ rstate[a] = "live"
    BY <1>0, <1>1, NotFree
  <2> QED BY <1>2, <1>3, <2>1, <1>0, LineKept
<1>4. CASE CommitCreds(x) /\ b = cdom[ncred[x]]
  <2>0. ncred[x] # NULL /\ Label(x) = "commit_creds"
    BY <1>4, Using, RulesetAssumption DEF CommitCreds, At, Prepared, Label, FreeLabels
  <2>1. ncred[x] \in Creds /\ Committing(x)
    BY <1>0, <2>0 DEF Committing, Types, OrNull
  <2>2. b # NULL
    BY <1>4, <2>1 DEF PreparedOK
  <2>3. b \in Rulesets /\ rstate[b] = "live"
    BY <1>0, <1>4, <2>1, <2>2, NotFree
  <2>4. line'[b] = line[b]
    BY <1>0, <2>3, LineKept
  <2> QED BY <1>2, <1>4, <2>1, <2>2, <2>3, <2>4 DEF Building
<1> QED BY <1>1, <1>3, <1>4, DomainMove

\* A task that builds a domain runs, and the domain is in use.
LEMMA Builder ==
    ASSUME Core, CredsOK, UsagesOK, NEW t \in Tasks, NEW d \in Rulesets, Building(t, d)
    PROVE  tcred[t] # NULL /\ pc[t] # "idle" /\ OwnDomain(t, d) /\ rstate[d] = "live"
<1>1. pc[t] # "idle" /\ OwnDomain(t, d)
  BY DEF Building, OwnDomain, Label, Committing, FreeLabels
<1>2. d # NULL
  BY RulesetAssumption
<1> QED BY <1>1, <1>2, NotFree DEF Building, Committing, Core, Control, CallLocals, Types, OrNull

\* What a step does to the line of the task that builds a domain.
LEMMA BuilderNext ==
    ASSUME Core, Core', CredsOK, PreparedOK, UsagesOK, LinesOK, [Next]_vars,
           NEW t \in Tasks, NEW d \in Rulesets, Building(t, d), Building(t, d)'
    PROVE  LineOf(t)' = LineOf(t) /\ line'[d] = line[d]
<1>1. tcred[t] # NULL /\ rstate[d] = "live"
  BY Builder
<1>2. pc'[t] # "idle"
  BY DEF Building, Label, Committing, FreeLabels
<1>3. tcred'[t] # NULL
  BY <1>2 DEF Core, Control, CallLocals
<1>4. ~CommitCreds(t)
  BY <1>2 DEF CommitCreds, Goto, Core, Types, Threads
<1> QED BY <1>1, <1>3, <1>4, LineMove, LineKept DEF Core

\* A new domain: a fresh id, a fresh node, and nothing else changes.
LEMMA NewDomain ==
    ASSUME Core, PreparedOK, UsagesOK, NodesOK, LinesOK,
           NEW t \in Tasks, NEW d \in Rulesets, NEW h \in Hierarchies, CreateDomain(t, d, h)
    PROVE  /\ LineOf(t) \in Seq(Nat)
           /\ line' = [line EXCEPT ![d] = Append(LineOf(t), nextid)] /\ nextid' = nextid + 1
           /\ LineOf(t)' = LineOf(t)
           /\ rstate[d] = "free" /\ husage[h] = 0
           /\ hier' = [hier EXCEPT ![d] = h] /\ husage' = [husage EXCEPT ![h] = 1]
           /\ UNCHANGED <<hparent, cdom, tcred>>
<1>0. Types /\ NULL \notin Rulesets
  BY RulesetAssumption DEF Core
<1>1. Parent(t) = DomainOf(t) /\ tcred[t] \in Creds
  BY Using DEF CreateDomain, At, PreparedOK, Merging, Label, FreeLabels, Parent
<1>2. DomainOf(t) # NULL => DomainOf(t) \in Rulesets /\ rstate[DomainOf(t)] = "live"
  BY <1>0, <1>1, NotFree DEF DomainOf
<1>3. LineOf(t) \in Seq(Nat)
  BY <1>2 DEF LineOf, LinesOK
<1>4. line' = [line EXCEPT ![d] = Append(LineOf(t), nextid)]
  <2>1. CASE Parent(t) = NULL
    <3>1. LineOf(t) = <<>> /\ line' = [line EXCEPT ![d] = <<nextid>>]
      BY <1>1, <2>1 DEF CreateDomain, LineOf
    <3>2. Append(<<>>, nextid) = <<nextid>>
      OBVIOUS
    <3> QED BY <3>1, <3>2
  <2>2. CASE Parent(t) # NULL
    BY <1>1, <2>2 DEF CreateDomain, LineOf
  <2> QED BY <2>1, <2>2
<1>5. rstate[d] = "free" /\ UNCHANGED <<cdom, tcred>> /\ nextid' = nextid + 1
  BY DEF CreateDomain, Alloc, cvars
<1>6. LineOf(t)' = LineOf(t)
  BY <1>2, <1>4, <1>5 DEF LineOf, DomainOf, LinesOK
<1>7. UNCHANGED hparent
  BY <1>0 DEF CreateDomain, NodesOK, Types
<1> QED BY <1>3, <1>4, <1>5, <1>6, <1>7 DEF CreateDomain, Alloc

\* A fresh id ends the line of a new domain, and no line changes while its
\* domain is in use.
LEMMA LinesStep ==
    ASSUME Core, Core', CredsOK, PreparedOK, UsagesOK, Exclusive, NodesOK, LinesOK, [Next]_vars
    PROVE  LinesOK'
<1>0. Types /\ nextid \in Nat /\ line \in [Rulesets -> Seq(Nat)]
  BY DEF Core, LinesOK
<1>1. ASSUME NEW u \in Tasks, NEW r \in Rulesets, NEW h \in Hierarchies, CreateDomain(u, r, h)
      PROVE  LinesOK'
  <2>1. PICK s \in Seq(Nat) : s = LineOf(u)
    BY <1>1, NewDomain
  <2>2. /\ line' = [line EXCEPT ![r] = Append(s, nextid)] /\ nextid' = nextid + 1
        /\ rstate[r] = "free" /\ LineOf(u)' = s
    BY <1>1, <2>1, NewDomain
  <2>3. Append(s, nextid) \in Seq(Nat) /\ Len(Append(s, nextid)) = Len(s) + 1 /\ Len(s) \in Nat
        /\ \A k \in 1 .. Len(s) + 1 : Append(s, nextid)[k] = IF k = Len(s) + 1 THEN nextid ELSE s[k]
    BY <1>0
  <2>4. \A k \in 1 .. Len(s) : s[k] < nextid /\ s[k] \in Nat
    <3>1. CASE DomainOf(u) = NULL
      BY <2>1, <3>1 DEF LineOf
    <3>2. CASE DomainOf(u) # NULL
      <4>1. DomainOf(u) \in Rulesets
        BY <1>0, <1>1, <3>2, Using DEF Types, OrNull, DomainOf, CreateDomain, At
      <4> QED BY <1>0, <2>1, <3>2, <4>1, ElementOfSeq DEF LineOf, LinesOK
    <3> QED BY <3>1, <3>2
  <2>5. line' \in [Rulesets -> Seq(Nat)] /\ nextid' \in Nat
    BY <1>0, <2>2, <2>3
  <2>6. ASSUME NEW q \in Rulesets, NEW k \in 1 .. Len(line'[q]) PROVE line'[q][k] < nextid'
    <3>1. CASE q = r
      BY <1>0, <2>2, <2>3, <2>4, <3>1
    <3>2. CASE q # r
      <4>1. line'[q] = line[q] /\ line[q][k] < nextid /\ line[q][k] \in Nat
        BY <1>0, <2>2, <3>2, ElementOfSeq DEF LinesOK
      <4>2. PICK v : v = line[q][k] /\ v = line'[q][k]
        BY <4>1
      <4>3. v \in Nat /\ v < nextid /\ nextid \in Nat /\ nextid' = nextid + 1
        BY <1>0, <2>2, <4>1, <4>2
      <4>4. v < nextid'
        BY ONLY <4>3
      <4> QED BY <4>2, <4>4
    <3> QED BY <3>1, <3>2
  <2>7. ASSUME NEW t \in Tasks, NEW d \in Rulesets, Building(t, d)' PROVE LineOK(t, d)'
    <3>1. CASE Building(t, d)
      <4>1. LineOf(t)' = LineOf(t) /\ line'[d] = line[d] /\ OwnDomain(t, d) /\ rstate[d] = "live"
        BY <2>7, <3>1, BuilderNext, Builder
      <4>2. PICK i \in Nat : /\ line[d] = Append(LineOf(t), i)
                             /\ \A q \in Rulesets : q # d => \A k \in 1 .. Len(line[q]) : line[q][k] # i
        BY <3>1 DEF LinesOK, LineOK
      <4>3. i < nextid
        <5>1. LineOf(t) \in Seq(Nat)
          <6>1. DomainOf(t) # NULL => DomainOf(t) \in Rulesets
            BY <1>0, <3>1, Builder DEF Types, OrNull, DomainOf
          <6> QED BY <1>0, <6>1 DEF LineOf
        <5>2. Len(LineOf(t)) \in Nat /\ Len(line[d]) = Len(LineOf(t)) + 1
              /\ line[d][Len(LineOf(t)) + 1] = i
          BY <4>2, <5>1
        <5>3. Len(LineOf(t)) + 1 \in 1 .. Len(line[d])
          BY ONLY <5>2
        <5> QED BY <5>2, <5>3 DEF LinesOK
      <4>4. \A k \in 1 .. Len(s) : s[k] # i
        <5>1. CASE DomainOf(u) = NULL
          BY <2>1, <5>1 DEF LineOf
        <5>2. CASE DomainOf(u) # NULL
          <6>1. DomainOf(u) \in Rulesets /\ tcred[u] # NULL
            BY <1>0, <1>1, <5>2, Using, RulesetAssumption DEF Types, OrNull,
               DomainOf, CreateDomain, At
          <6>2. DomainOf(u) # d
            BY <4>1, <6>1, NotOthers
          <6> QED BY <2>1, <4>2, <5>2, <6>1, <6>2 DEF LineOf
        <5> QED BY <5>1, <5>2
      <4>5. ASSUME NEW q \in Rulesets, q # d, NEW k \in 1 .. Len(line'[q]) PROVE line'[q][k] # i
        <5>1. CASE q = r
          BY <1>0, <2>2, <2>3, <4>3, <4>4, <5>1
        <5>2. CASE q # r
          BY <1>0, <2>2, <4>2, <4>5, <5>2
        <5> QED BY <5>1, <5>2
      <4> QED BY <4>1, <4>2, <4>5 DEF LineOK
    <3>2. ASSUME NEW g \in Hierarchies, CreateDomain(t, d, g) PROVE LineOK(t, d)'
      <4>1. line' = [line EXCEPT ![d] = Append(LineOf(t), nextid)] /\ LineOf(t)' = LineOf(t)
        BY <3>2, NewDomain
      <4>2. line'[d] = Append(LineOf(t), nextid) /\ \A q \in Rulesets : q # d => line'[q] = line[q]
        BY <1>0, <4>1
      <4>3. ASSUME NEW q \in Rulesets, q # d, NEW k \in 1 .. Len(line'[q]) PROVE line'[q][k] # nextid
        <5>1. line'[q] = line[q] /\ line[q][k] < nextid /\ line[q][k] \in Nat
          BY <1>0, <4>2, <4>3, ElementOfSeq DEF LinesOK
        <5> QED BY <1>0, <5>1
      <4> QED BY <1>0, <4>1, <4>2, <4>3 DEF LineOK
    <3> QED BY <2>7, <3>1, <3>2, BuildMoves DEF BuildMove
  <2> QED BY <2>5, <2>6, <2>7 DEF LinesOK
<1>2. ASSUME ~\E u \in Tasks, r \in Rulesets, h \in Hierarchies : CreateDomain(u, r, h)
      PROVE  LinesOK'
  <2>1. /\ nextid' = nextid /\ line' \in [Rulesets -> Seq(Nat)]
        /\ \A r \in Rulesets : line'[r] = line[r] \/ line'[r] = <<>>
    <3>1. CASE UNCHANGED ghosts
      BY <1>0, <3>1 DEF ghosts
    <3>2. ASSUME NEW u \in Threads, Kfree(u)
          PROVE  /\ nextid' = nextid /\ line' \in [Rulesets -> Seq(Nat)]
                 /\ \A r \in Rulesets : line'[r] = line[r] \/ line'[r] = <<>>
      <4>1. PICK f : f = fr[u]
        OBVIOUS
      <4>2. nextid' = nextid /\ line' = [line EXCEPT ![f] = <<>>]
        BY <3>2, <4>1 DEF Kfree
      <4>3. <<>> \in Seq(Nat)
        BY EmptySeq
      <4> QED BY <1>0, <4>2, <4>3
    <3> QED BY <1>2, <3>1, <3>2, GhostMoves DEF GhostMove
  <2>2. \A r \in Rulesets : \A k \in 1 .. Len(line'[r]) : k \in 1 .. Len(line[r]) /\ line'[r][k] = line[r][k]
    BY <2>1
  <2>3. ASSUME NEW t \in Tasks, NEW d \in Rulesets, Building(t, d)' PROVE LineOK(t, d)'
    <3>1. Building(t, d)
      BY <1>2, <2>3, BuildMoves DEF BuildMove
    <3>2. LineOf(t)' = LineOf(t) /\ line'[d] = line[d]
      BY <2>3, <3>1, BuilderNext
    <3>3. PICK i \in Nat : /\ line[d] = Append(LineOf(t), i)
                           /\ \A q \in Rulesets : q # d => \A k \in 1 .. Len(line[q]) : line[q][k] # i
      BY <3>1 DEF LinesOK, LineOK
    <3> QED BY <2>2, <3>2, <3>3 DEF LineOK
  <2> QED BY <1>0, <2>1, <2>2, <2>3 DEF LinesOK
<1> QED BY <1>1, <1>2

\* The node of a domain that is about to be committed keeps its parent.
LEMMA RootedStep ==
    ASSUME Core, Core', CredsOK, PreparedOK, UsagesOK, KindsOK, NodesOK, LinesOK, RootedOK, [Next]_vars
    PROVE  RootedOK'
<1>0. Types /\ \A h \in Hierarchies : h # NULL
  BY RulesetAssumption DEF Core
<1> SUFFICES ASSUME NEW t \in Tasks,
                    Label(t)' \in {"merge_lock", "merge_rules", "replace", "assign"}
             PROVE  hparent'[hier'[newdom'[t]]] # NULL \/ Len(line'[newdom'[t]]) = 1
  BY DEF RootedOK
<1>1. CASE Label(t) \in {"merge_lock", "merge_rules", "replace", "assign"} /\ newdom'[t] = newdom[t]
  <2>1. newdom[t] # NULL /\ hier[newdom[t]] # NULL
    BY <1>1 DEF Core, Control, CallLocals, KindsOK, DomainLabels, WalkLabels
  <2>2. PICK d \in Rulesets : d = newdom[t] /\ rstate[d] = "live"
    BY <1>0, <2>1, NotFree
  <2>3. PICK k \in Hierarchies : k = hier[d]
    BY <1>0, <2>1, <2>2 DEF Types, OrNull
  <2>4. hier'[d] = k /\ line'[d] = line[d]
    BY <1>0, <2>2, <2>3, NodeKept, LineKept
  <2>5. hparent[k] # NULL \/ Len(line[d]) = 1
    BY <1>1, <2>2, <2>3 DEF RootedOK
  <2>6. ASSUME hparent[k] # NULL PROVE hparent'[k] # NULL
    <3>1. Chain({k}, d, k)
      BY <2>3 DEF Chain
    <3>2. {k} \in SUBSET Hierarchies /\ k \in {k}
      OBVIOUS
    <3>3. \A u \in Threads : wh[u] = k => husage[k] > 1
      BY <1>0, <3>1, <3>2, ChainHeld
    <3>4. ASSUME NEW u \in Tasks, InheritDone(u) PROVE hier[Parent(u)] # NULL
      BY <1>0, <3>4, InheritNodes DEF InheritDone
    <3> QED BY <2>6, <3>3, <3>4, ParentKept
  <2> QED BY <1>1, <2>2, <2>4, <2>5, <2>6
<1>2. CASE InheritDone(t)
  <2>1. hier[Parent(t)] \in Hierarchies /\ hier[newdom[t]] \in Hierarchies
    BY <1>2, InheritNodes DEF InheritDone
  <2>2. hparent' = [hparent EXCEPT ![hier[newdom[t]]] = hier[Parent(t)]] /\ UNCHANGED <<hier, newdom>>
    BY <1>2 DEF InheritDone, locals
  <2> QED BY <1>0, <2>1, <2>2 DEF Types
<1>3. ASSUME NEW r \in Rulesets, NEW h \in Hierarchies, CreateDomain(t, r, h), Parent(t) = NULL
      PROVE  Len(line'[newdom'[t]]) = 1
  <2>1. newdom'[t] = r /\ line'[r] = <<nextid>>
    BY <1>0, <1>3 DEF CreateDomain, Types, LinesOK
  <2> QED BY <2>1
<1> QED BY <1>1, <1>2, <1>3, RootedMoves DEF RootedMove

-----------------------------------------------------------------------------
(* The line that a node stands for, even once its domain is gone, and how  *)
(* far the walk of a ptrace check has come.                                *)

\* Neither a domain that a credential holds nor another node refers to it.
Unplaced(h) ==
    /\ \A k \in Hierarchies : hparent[k] # h
    /\ \A c \in Creds : cdom[c] # NULL => hier[cdom[c]] # h

Labelling(L) ==
    /\ L \in [Hierarchies -> Seq(Nat)]
    /\ \A h \in Hierarchies : \A k \in 1 .. Len(L[h]) : L[h][k] < nextid
    /\ \A r \in Rulesets : hier[r] # NULL => L[hier[r]] = line[r] /\ line[r] # <<>>
    /\ \A h \in Hierarchies : hparent[h] # NULL => \E i \in Nat : L[h] = Append(L[hparent[h]], i)
    /\ \A h \in Hierarchies : husage[h] > 0 /\ hparent[h] = NULL => Len(L[h]) = 1 \/ Unplaced(h)
    /\ \A h, k \in Hierarchies : husage[h] > 0 /\ husage[k] > 0 /\ L[h] = L[k] => h = k

ChildLine(t) == IF pt[t].dom_child = NULL THEN <<>> ELSE line[pt[t].dom_child]

Walk(L, t) ==
    /\ pc[t] \in {"dom_child", "domain_scope_le"} /\ t = pt[t].parent =>
          DomainOf(t) = pt[t].dom_parent
    /\ pc[t] = "domain_scope_le" =>
          /\ IsPrefixOf(line[pt[t].dom_parent], LineOf(pt[t].child))
                <=> IsPrefixOf(line[pt[t].dom_parent], ChildLine(t))
          /\ pt[t].walker = NULL => ~IsPrefixOf(line[pt[t].dom_parent], ChildLine(t))
          /\ pt[t].walker # NULL =>
                /\ IsPrefixOf(L[pt[t].walker], ChildLine(t))
                /\ IsPrefixOf(line[pt[t].dom_parent], ChildLine(t))
                      => IsPrefixOf(line[pt[t].dom_parent], L[pt[t].walker])

WalksOK == \E L : Labelling(L) /\ \A t \in Tasks : Walk(L, t)

\* There is no node and no walk at first.
LEMMA WalksInit == Init => WalksOK
<1> SUFFICES ASSUME Init PROVE WalksOK
  OBVIOUS
<1>1. PICK L : L = [h \in Hierarchies |-> <<>>]
  OBVIOUS
<1>2. \A h \in Hierarchies : L[h] = <<>> /\ husage[h] = 0 /\ hparent[h] = NULL
  BY <1>1 DEF Init
<1>3. L \in [Hierarchies -> Seq(Nat)]
  BY <1>1
<1>4. \A r \in Rulesets : hier[r] = NULL
  BY DEF Init
<1>5. Labelling(L)
  BY <1>2, <1>3, <1>4 DEF Labelling
<1>6. \A t \in Tasks : Walk(L, t)
  BY DEF Init, Walk, Threads
<1> QED BY <1>5, <1>6 DEF WalksOK

\* A credential gets its domain from another one, or from assign.
LEMMA DomainsHeld ==
    ASSUME Core, CredsOK, [Next]_vars, NEW x \in Creds, cdom'[x] # NULL
    PROVE  \/ \E b \in Creds : cdom[b] = cdom'[x]
           \/ \E t \in Tasks : AssignDomain(t) /\ cdom'[x] = newdom[t]
<1>0. Types
  BY DEF Core
<1> DEFINE G == \/ \E b \in Creds : cdom[b] = cdom'[x]
                \/ \E t \in Tasks : AssignDomain(t) /\ cdom'[x] = newdom[t]
<1> USE <1>0 DEF DomainOf, Types, Idle, OrNull
<1>1. CASE UNCHANGED credvars
  BY <1>1 DEF credvars
<1>2. ASSUME NEW t \in Tasks, NEW c \in Creds, PrepareCreds(t, c) PROVE G
  <2>1. tcred[t] \in Creds /\ cdom' = [cdom EXCEPT ![c] = cdom[tcred[t]]]
    BY <1>2, Using DEF PrepareCreds, NewCred, At
  <2> QED BY <2>1
<1>3. ASSUME NEW t \in Tasks, NEW c \in Creds, ChangeCreds(t, c) PROVE G
  <2>1. tcred[t] \in Creds /\ cdom' = [cdom EXCEPT ![c] = cdom[tcred[t]]]
    BY <1>3 DEF ChangeCreds
  <2> QED BY <2>1
<1>4. ASSUME NEW t \in Tasks, NEW c \in Creds, NEW u \in Tasks, Fork(t, u, c) PROVE G
  <2>1. tcred[t] \in Creds /\ cdom' = [cdom EXCEPT ![c] = cdom[tcred[t]]]
    BY <1>4 DEF Fork, NewCred
  <2> QED BY <2>1
<1>5. ASSUME NEW t \in Tasks, NEW u \in Tasks, CloneThread(t, u) PROVE G
  BY <1>5 DEF CloneThread, cvars
<1>6. ASSUME NEW t \in Tasks, ReplaceDomain(t) PROVE G
  BY <1>6 DEF ReplaceDomain
<1>7. ASSUME NEW t \in Tasks, AssignDomain(t) PROVE G
  <2>1. cdom' = [cdom EXCEPT ![ncred[t]] = newdom[t]]
    BY <1>7 DEF AssignDomain
  <2> QED BY <1>7, <2>1
<1>8. ASSUME NEW t \in Tasks, CommitCreds(t) \/ AbortCreds(t) \/ Exit(t) PROVE G
  BY <1>8 DEF CommitCreds, AbortCreds, Exit
<1>9. ASSUME NEW c \in Creds, CredFree(c) PROVE G
  BY <1>9 DEF CredFree
<1> QED BY <1>1, <1>2, <1>3, <1>4, <1>5, <1>6, <1>7, <1>8, <1>9, CredSteps DEF CredStep

\* A node without a parent is the one of a first domain, or of a domain that
\* nobody has committed yet.
LEMMA UnplacedStep ==
    ASSUME Core, CredsOK, PreparedOK, UsagesOK, KindsOK, NodesOK, RootedOK, [Next]_vars,
           NEW L, Labelling(L), NEW h \in Hierarchies, husage[h] > 0, hparent[h] = NULL
    PROVE  Len(L[h]) = 1 \/ Unplaced(h)'
<1>0. Types /\ \A k \in Hierarchies : k # NULL
  BY RulesetAssumption DEF Core
<1> SUFFICES ASSUME Unplaced(h), Len(L[h]) # 1 PROVE Unplaced(h)'
  BY DEF Labelling
<1>1. ASSUME NEW k \in Hierarchies PROVE hparent'[k] # h
  <2>1. ASSUME NEW t \in Tasks, InheritDone(t), hier[Parent(t)] = h PROVE FALSE
    <3>1. cdom[ncred[t]] # NULL /\ ncred[t] \in Creds
      BY <1>0, <2>1, Using, InheritNodes, RulesetAssumption DEF InheritDone, At,
         Prepared, DomainLabels, WalkLabels, Parent
    <3> QED BY <2>1, <3>1 DEF Unplaced, Parent
  <2> QED BY <1>0, <2>1, ParentKept DEF Unplaced
<1>2. ASSUME NEW c \in Creds, cdom'[c] # NULL PROVE hier'[cdom'[c]] # h
  <2>1. PICK d : d = cdom'[c]
    OBVIOUS
  <2>2. ASSUME NEW b \in Creds, cdom[b] = d PROVE hier'[d] # h
    <3>1. d \in Rulesets /\ rstate[d] = "live" /\ hier[d] # h
      BY <1>0, <1>2, <2>1, <2>2, NotFree DEF Unplaced
    <3> QED BY <3>1, NodeKept
  <2>3. ASSUME NEW t \in Tasks, AssignDomain(t), d = newdom[t] PROVE hier'[d] # h
    <3>1. d \in Rulesets /\ Label(t) = "assign" /\ hier[d] # NULL
      BY <2>3, Using DEF AssignDomain, At, Label, FreeLabels, DomainLabels,
         WalkLabels, KindsOK
    <3>2. hparent[hier[d]] # NULL \/ Len(line[d]) = 1
      BY <2>3, <3>1 DEF RootedOK
    <3>3. hier[d] # h
      BY <3>1, <3>2 DEF Labelling
    <3> QED BY <2>3, <3>3 DEF AssignDomain, rvars
  <2> QED BY <1>2, <2>1, <2>2, <2>3, DomainsHeld
<1> QED BY <1>1, <1>2 DEF Unplaced

\* Nodes in use stand for the same line for ever.
LEMMA LabelNew ==
    ASSUME Core, CredsOK, PreparedOK, UsagesOK, KindsOK, NodesOK, LinesOK, RootedOK, [Next]_vars,
           NEW L, Labelling(L),
           NEW t \in Tasks, NEW d \in Rulesets, NEW n \in Hierarchies, CreateDomain(t, d, n)
    PROVE  \E M : Labelling(M)' /\ \A h \in Hierarchies : husage[h] > 0 => M[h] = L[h]
<1>0. Types /\ NULL \notin Hierarchies \cup Rulesets /\ nextid \in Nat /\ line \in [Rulesets -> Seq(Nat)]
      /\ L \in [Hierarchies -> Seq(Nat)] /\ \A h \in Hierarchies : husage[h] \in Nat
  BY HeldNode, RulesetAssumption DEF Core, LinesOK, Labelling
<1>1. PICK s \in Seq(Nat) : s = Append(LineOf(t), nextid) /\ Len(s) \in Nat \ {0} /\ s[Len(s)] = nextid
  <2>1. LineOf(t) \in Seq(Nat)
    BY NewDomain
  <2>2. PICK v \in Seq(Nat) : v = LineOf(t)
    BY <2>1
  <2>3. Append(v, nextid) \in Seq(Nat) /\ Len(Append(v, nextid)) = Len(v) + 1 /\ Len(v) \in Nat
        /\ Append(v, nextid)[Len(v) + 1] = nextid
    BY <1>0
  <2>4. Len(Append(v, nextid)) \in Nat \ {0} /\ Append(v, nextid)[Len(Append(v, nextid))] = nextid
    BY <2>3
  <2> QED BY <2>2, <2>3, <2>4
<1>2. /\ line' = [line EXCEPT ![d] = s] /\ nextid' = nextid + 1 /\ rstate[d] = "free" /\ husage[n] = 0
      /\ hier' = [hier EXCEPT ![d] = n] /\ husage' = [husage EXCEPT ![n] = 1]
      /\ UNCHANGED <<hparent, cdom>>
  BY <1>1, NewDomain
<1>3. PICK M : M = [L EXCEPT ![n] = s]
  OBVIOUS
<1>4. M \in [Hierarchies -> Seq(Nat)] /\ M[n] = s /\ \A h \in Hierarchies : h # n => M[h] = L[h]
  BY <1>0, <1>3
<1>5. /\ \A r \in Rulesets : hier[r] # n
      /\ \A k \in Hierarchies : hparent[k] # n
      /\ hparent[n] = NULL
  BY <1>2, HeldNode DEF NodesOK
<1>6. /\ \A r \in Rulesets : line'[r] = IF r = d THEN s ELSE line[r]
      /\ \A r \in Rulesets : hier'[r] = IF r = d THEN n ELSE hier[r]
      /\ \A h \in Hierarchies : husage'[h] = IF h = n THEN 1 ELSE husage[h]
  BY <1>0, <1>2 DEF NodesOK, Types
<1>7. ASSUME NEW h \in Hierarchies, NEW k \in 1 .. Len(M[h]) PROVE M[h][k] < nextid'
  <2>1. CASE h = n
    <3>2. PICK v \in Seq(Nat) : v = LineOf(t)
      BY NewDomain
    <3>3. s = Append(v, nextid) /\ Len(v) \in Nat
      BY <1>1, <3>2
    <3>4. k \in 1 .. Len(v) + 1 /\ s[k] = IF k = Len(v) + 1 THEN nextid ELSE v[k]
      BY <1>0, <1>4, <1>7, <2>1, <3>3
    <3>5. ASSUME k \in 1 .. Len(v) PROVE v[k] \in Nat /\ v[k] < nextid
      <4>1. DomainOf(t) # NULL /\ v = line[DomainOf(t)]
        BY <3>2, <3>5 DEF LineOf
      <4>2. DomainOf(t) \in Rulesets
        BY <1>0, <4>1, Using DEF Types, OrNull, DomainOf, CreateDomain, At
      <4> QED BY <3>5, <4>1, <4>2, ElementOfSeq DEF LinesOK
    <3>6. PICK w : w = s[k]
      OBVIOUS
    <3>7. w = nextid \/ (w \in Nat /\ w < nextid)
      BY <3>3, <3>4, <3>5, <3>6
    <3>8. w < nextid + 1
      BY ONLY <1>0, <3>7
    <3> QED BY <1>2, <1>4, <2>1, <3>6, <3>8
  <2>2. CASE h # n
    <3>1. M[h] = L[h] /\ L[h] \in Seq(Nat)
      BY <1>0, <1>4, <2>2
    <3>2. PICK w : w = L[h][k]
      OBVIOUS
    <3>3. w \in Nat /\ w < nextid
      BY <1>7, <3>1, <3>2, ElementOfSeq DEF Labelling
    <3>4. w < nextid + 1
      BY ONLY <1>0, <3>3
    <3> QED BY <1>2, <3>1, <3>2, <3>4
  <2> QED BY <2>1, <2>2
<1>8. \A r \in Rulesets : hier'[r] # NULL => M[hier'[r]] = line'[r] /\ line'[r] # <<>>
  <2>1. s # <<>>
    BY <1>1
  <2>2. ASSUME NEW r \in Rulesets, r # d, hier[r] # NULL PROVE M[hier[r]] = line[r] /\ line[r] # <<>>
    <3>1. hier[r] \in Hierarchies /\ hier[r] # n
      BY <1>0, <1>5, <2>2 DEF Types, OrNull
    <3> QED BY <1>4, <2>2, <3>1 DEF Labelling
  <2> QED BY <1>4, <1>6, <2>1, <2>2
<1>9. ASSUME NEW h \in Hierarchies, hparent'[h] # NULL PROVE \E i \in Nat : M[h] = Append(M[hparent'[h]], i)
  <2>1. h # n /\ hparent[h] \in Hierarchies /\ hparent[h] # n /\ hparent'[h] = hparent[h]
    BY <1>0, <1>2, <1>5, <1>9 DEF Types, OrNull
  <2>2. PICK i \in Nat : L[h] = Append(L[hparent[h]], i)
    BY <1>9, <2>1 DEF Labelling
  <2>3. M[h] = L[h] /\ M[hparent'[h]] = L[hparent[h]]
    BY <1>4, <2>1
  <2> QED BY <2>2, <2>3
<1>10. ASSUME NEW h \in Hierarchies, husage'[h] > 0, hparent'[h] = NULL PROVE Len(M[h]) = 1 \/ Unplaced(h)'
  <2>1. CASE h = n
    <3>1. \A c \in Creds : cdom[c] # NULL => cdom[c] \in Rulesets /\ cdom[c] # d
      BY <1>0, <1>2, NotFree
    <3>2. \A c \in Creds : cdom[c] # NULL => hier'[cdom[c]] # n
      BY <1>5, <1>6, <3>1
    <3> QED BY <1>2, <1>5, <2>1, <3>2 DEF Unplaced
  <2>2. CASE h # n
    <3>1. husage[h] > 0 /\ hparent[h] = NULL
      BY <1>2, <1>6, <1>10, <2>2
    <3> QED BY <1>4, <2>2, <3>1, UnplacedStep
  <2> QED BY <2>1, <2>2
<1>11. ASSUME NEW h \in Hierarchies, NEW k \in Hierarchies, husage'[h] > 0, husage'[k] > 0, M[h] = M[k]
       PROVE  h = k
  <2>1. ASSUME NEW g \in Hierarchies, g # n PROVE M[g] # s
    <3>1. M[g] = L[g] /\ L[g] \in Seq(Nat)
      BY <1>0, <1>4, <2>1
    <3>2. ASSUME L[g] = s PROVE FALSE
      <4>1. Len(s) \in 1 .. Len(L[g]) /\ L[g][Len(s)] = nextid
        BY <1>1, <3>2
      <4>2. nextid < nextid
        BY <4>1 DEF Labelling
      <4> QED BY ONLY <1>0, <4>2
    <3> QED BY <3>1, <3>2
  <2>2. CASE h # n /\ k # n
    <3>1. husage[h] > 0 /\ husage[k] > 0 /\ L[h] = L[k]
      BY <1>4, <1>6, <1>11, <2>2
    <3> QED BY <3>1 DEF Labelling
  <2> QED BY <1>4, <1>11, <2>1, <2>2
<1>12. Labelling(M)'
  BY <1>4, <1>7, <1>8, <1>9, <1>10, <1>11 DEF Labelling
<1>13. \A h \in Hierarchies : husage[h] > 0 => M[h] = L[h]
  BY <1>2, <1>4
<1> QED BY <1>12, <1>13

\* Without a new domain, every node stands for the line it stood for: a
\* node gets as its parent the one of the domain that its line extends.
LEMMA LabelOld ==
    ASSUME Core, CredsOK, PreparedOK, UsagesOK, KindsOK, NodesOK, LinesOK, RootedOK, [Next]_vars,
           NEW L, Labelling(L),
           ~\E t \in Tasks, d \in Rulesets, n \in Hierarchies : CreateDomain(t, d, n)
    PROVE  Labelling(L)'
<1>0. Types /\ NULL \notin Hierarchies \cup Rulesets /\ nextid \in Nat /\ line \in [Rulesets -> Seq(Nat)]
      /\ \A h \in Hierarchies : husage[h] \in Nat
  BY HeldNode, RulesetAssumption DEF Core, LinesOK, Labelling
<1> DEFINE Same ==
      /\ nextid' = nextid
      /\ \A r \in Rulesets : hier'[r] # NULL => hier'[r] = hier[r] /\ line'[r] = line[r]
      /\ \A h \in Hierarchies : hparent'[h] # NULL => \E i \in Nat : L[h] = Append(L[hparent'[h]], i)
      /\ \A h \in Hierarchies : husage'[h] > 0 =>
            husage[h] > 0 /\ (hparent'[h] = NULL => hparent[h] = NULL)
<1>1. ASSUME Same PROVE Labelling(L)'
  <2>1. \A h \in Hierarchies : husage'[h] > 0 /\ hparent'[h] = NULL => Len(L[h]) = 1 \/ Unplaced(h)'
    BY <1>1, UnplacedStep
  <2> QED BY <1>1, <2>1 DEF Labelling
<1>2. ASSUME NEW t \in Tasks, InheritDone(t) PROVE Same
  <2>1. PICK p \in Rulesets, d \in Rulesets : p = Parent(t) /\ d = newdom[t]
    BY <1>2, InheritNodes DEF InheritDone
  <2>2. PICK hp \in Hierarchies, hd \in Hierarchies : hp = hier[p] /\ hd = hier[d]
    BY <1>2, <2>1, InheritNodes DEF InheritDone
  <2>3. /\ hparent' = [hparent EXCEPT ![hd] = hp] /\ husage' = [husage EXCEPT ![hp] = husage[hp] + 1]
        /\ UNCHANGED <<hier, ghosts>>
    BY <1>2, <2>1, <2>2 DEF InheritDone
  <2>4. /\ \A h \in Hierarchies : hparent'[h] = IF h = hd THEN hp ELSE hparent[h]
        /\ \A h \in Hierarchies : husage'[h] = IF h = hp THEN husage[hp] + 1 ELSE husage[h]
    BY <1>0, <2>3 DEF NodesOK, Types
  <2>5. husage[hp] > 0
    BY <1>0, <2>2, HeldNode
  <2>6. \E i \in Nat : L[hd] = Append(L[hp], i)
    <3>1. Building(t, d) /\ Parent(t) = DomainOf(t)
      BY <1>2, <2>1, InheritNodes DEF InheritDone, At, Building, Label, FreeLabels
    <3>2. LineOf(t) = line[p]
      BY <1>0, <2>1, <3>1 DEF LineOf
    <3>3. L[hd] = line[d] /\ L[hp] = line[p]
      BY <1>0, <2>2 DEF Labelling
    <3> QED BY <3>1, <3>2, <3>3 DEF LinesOK, LineOK
  <2>7. \A h \in Hierarchies : hparent'[h] # NULL => \E i \in Nat : L[h] = Append(L[hparent'[h]], i)
    <3>1. ASSUME NEW h \in Hierarchies, hparent'[h] # NULL PROVE \E i \in Nat : L[h] = Append(L[hparent'[h]], i)
      <4>1. CASE h = hd
        BY <2>4, <2>6, <4>1
      <4>2. CASE h # hd
        <5>1. hparent'[h] = hparent[h]
          BY <2>4, <4>2
        <5> QED BY <3>1, <5>1 DEF Labelling
      <4> QED BY <4>1, <4>2
    <3> QED BY <3>1
  <2>8. \A h \in Hierarchies : husage'[h] > 0 => husage[h] > 0 /\ (hparent'[h] = NULL => hparent[h] = NULL)
    BY <1>0, <2>4, <2>5
  <2> QED BY <2>3, <2>7, <2>8 DEF ghosts
<1>3. ASSUME NEW t \in Threads, FreeRuleset(t) PROVE Same
  <2>1. PICK f : f = fr[t]
    OBVIOUS
  <2>2. hier' = [hier EXCEPT ![f] = NULL] /\ UNCHANGED <<hvars, ghosts>>
    BY <1>3, <2>1 DEF FreeRuleset
  <2>3. \A r \in Rulesets : hier'[r] # NULL => hier'[r] = hier[r]
    BY <1>0, <2>2 DEF Types
  <2> QED BY <2>2, <2>3 DEF Labelling, hvars, ghosts
<1>4. ASSUME NEW t \in Threads, PutHierarchy(t) PROVE Same
  <2>1. PICK w \in Hierarchies : w = wh[t]
    BY <1>0, <1>4 DEF PutHierarchy, Types, OrNull
  <2>2. UNCHANGED <<hier, ghosts>> /\ husage' = [husage EXCEPT ![w] = husage[w] - 1]
        /\ IF husage[w] = 1 THEN hparent' = [hparent EXCEPT ![w] = NULL] ELSE UNCHANGED hparent
    BY <1>4, <2>1 DEF PutHierarchy, rvars
  <2>3. \A h \in Hierarchies : husage'[h] = IF h = w THEN husage[w] - 1 ELSE husage[h]
    BY <2>2 DEF NodesOK
  <2>4. \A h \in Hierarchies : hparent'[h] = hparent[h] \/ (hparent'[h] = NULL /\ h = w /\ husage[w] = 1)
    BY <1>0, <2>2 DEF Types
  <2>5. \A h \in Hierarchies : husage'[h] > 0 => husage[h] > 0 /\ (hparent'[h] = NULL => hparent[h] = NULL)
    BY <1>0, <2>3, <2>4
  <2>6. \A h \in Hierarchies : hparent'[h] # NULL => \E i \in Nat : L[h] = Append(L[hparent'[h]], i)
    BY <2>4 DEF Labelling
  <2> QED BY <2>2, <2>5, <2>6 DEF ghosts
<1>5. ASSUME UNCHANGED nodevars PROVE Same
  <2>1. nextid' = nextid /\ \A r \in Rulesets : hier[r] # NULL => line'[r] = line[r]
    <3>1. ASSUME NEW t \in Threads, Kfree(t)
          PROVE  nextid' = nextid /\ \A r \in Rulesets : hier[r] # NULL => line'[r] = line[r]
      <4>1. PICK f : f = fr[t] /\ hier[f] = NULL
        BY <3>1 DEF Kfree, At, KindsOK
      <4>2. nextid' = nextid /\ line' = [line EXCEPT ![f] = <<>>]
        BY <3>1, <4>1 DEF Kfree
      <4> QED BY <1>0, <4>1, <4>2
    <3> QED BY <3>1, GhostMoves DEF GhostMove, ghosts
  <2>2. UNCHANGED <<hier, husage, hparent>>
    BY <1>5 DEF nodevars
  <2>3. \A h \in Hierarchies : hparent[h] # NULL => \E i \in Nat : L[h] = Append(L[hparent[h]], i)
    BY DEF Labelling
  <2>4. \A r \in Rulesets : hier'[r] # NULL => hier'[r] = hier[r] /\ line'[r] = line[r]
    BY <2>1, <2>2
  <2>5. \A h \in Hierarchies : hparent'[h] # NULL => \E i \in Nat : L[h] = Append(L[hparent'[h]], i)
    BY <2>2, <2>3
  <2>6. \A h \in Hierarchies : husage'[h] > 0 => husage[h] > 0 /\ (hparent'[h] = NULL => hparent[h] = NULL)
    BY <2>2
  <2> QED BY <2>1, <2>4, <2>5, <2>6
<1> HIDE DEF Same
<1>6. Same
  <2>1. \/ UNCHANGED nodevars
        \/ \E t \in Tasks : InheritDone(t)
        \/ \E t \in Threads : FreeRuleset(t) \/ PutHierarchy(t)
    BY <1>0, NodeSteps
  <2>2. CASE \E t \in Tasks : InheritDone(t)
    BY <1>2, <2>2
  <2>3. CASE \E t \in Threads : FreeRuleset(t) \/ PutHierarchy(t)
    BY <1>3, <1>4, <2>3
  <2> QED BY <1>5, <2>1, <2>2, <2>3
<1> QED BY <1>1, <1>6

\* What a ptrace check reads is in use, and is not about to be committed.
LEMMA Reading ==
    ASSUME Core, UsagesOK, Exclusive, KindsOK, NodesOK, ReadersOK, NEW t \in Tasks
    PROVE  /\ \A d \in {pt[t].dom_parent, pt[t].dom_child} : d # NULL =>
                 /\ d \in Rulesets /\ rstate[d] = "live" /\ hier[d] # NULL
                 /\ \A u \in Tasks : ~OwnDomain(u, d)
           /\ pt[t].walker # NULL => /\ pt[t].walker \in Hierarchies
                                     /\ husage[pt[t].walker] > 0 /\ ~Unplaced(pt[t].walker)
<1>0. Types /\ ReaderOK(t) /\ PtraceLocals(t)
  BY DEF Core, Ptracing, ReadersOK
<1>1. ASSUME NEW d, NEW c \in Creds, KeptBy(t, d, c), d # NULL
      PROVE  /\ d \in Rulesets /\ rstate[d] = "live" /\ hier[d] # NULL
             /\ \A u \in Tasks : ~OwnDomain(u, d)
  <2>1. cdom[c] = d /\ \A u \in Tasks : ncred[u] # c
    BY <1>1 DEF KeptBy
  <2>2. d \in Rulesets /\ rstate[d] = "live" /\ hier[d] # NULL
    BY <1>0, <1>1, <2>1, NotFree DEF KindsOK
  <2> QED BY <2>1, <2>2 DEF Exclusive
<1>2. \A d \in {pt[t].dom_parent, pt[t].dom_child} : d # NULL => \E c \in Creds : KeptBy(t, d, c)
  BY <1>0 DEF ReaderOK
<1>3. ASSUME pt[t].walker # NULL
      PROVE  /\ pt[t].walker \in Hierarchies
             /\ husage[pt[t].walker] > 0 /\ ~Unplaced(pt[t].walker)
  <2>1. PICK d, w : d = pt[t].dom_child /\ w = pt[t].walker
    OBVIOUS
  <2>2. PICK A \in SUBSET Hierarchies : Chain(A, d, w)
    BY <1>0, <1>3, <2>1 DEF ReaderOK
  <2>3. d # NULL
    BY <1>0, <1>3, <2>1 DEF PtraceLocals, NoPtrace
  <2>4. PICK c \in Creds : KeptBy(t, d, c)
    BY <1>2, <2>1, <2>3
  <2>5. d \in Rulesets /\ cdom[c] = d
    BY <1>1, <2>3, <2>4 DEF KeptBy
  <2>6. w \in A /\ w \in Hierarchies
    BY <2>2 DEF Chain
  <2>7. husage[w] > 0
    BY <1>0, <2>2, <2>5, <2>6, ChainHeld
  <2>8. w = hier[d] \/ \E k \in A : hparent[k] = w
    BY <2>2, <2>6 DEF Chain
  <2>9. ~Unplaced(w)
    BY <2>3, <2>5, <2>8 DEF Unplaced
  <2> QED BY <2>1, <2>6, <2>7, <2>9
<1> QED BY <1>1, <1>2, <1>3

\* The line of a task is a sequence of ids.
LEMMA LinesTyped ==
    ASSUME Core, UsagesOK, LinesOK, NEW t \in Tasks
    PROVE  tcred[t] # NULL => LineOf(t) \in Seq(Nat)
<1> SUFFICES ASSUME tcred[t] # NULL PROVE LineOf(t) \in Seq(Nat)
  OBVIOUS
<1>1. DomainOf(t) # NULL => DomainOf(t) \in Rulesets
  BY DEF Core, Types, OrNull, DomainOf
<1> QED BY <1>1 DEF LineOf, LinesOK

\* Whatever the other tasks commit, it is not what the tracer's line ends with.
LEMMA TraceeLine ==
    ASSUME Core, CredsOK, PreparedOK, UsagesOK, LinesOK, [Next]_vars,
           NEW q \in Tasks, tcred[q] # NULL, tcred'[q] # NULL,
           NEW d \in Rulesets, \A u \in Tasks : ~OwnDomain(u, d)
    PROVE  IsPrefixOf(line[d], LineOf(q)') <=> IsPrefixOf(line[d], LineOf(q))
<1>1. LineOf(q) \in Seq(Nat) /\ line[d] \in Seq(Nat)
  BY LinesTyped DEF LinesOK
<1>2. ASSUME NEW e \in Rulesets, Building(q, e), LineOf(q)' = line[e]
      PROVE  IsPrefixOf(line[d], LineOf(q)') <=> IsPrefixOf(line[d], LineOf(q))
  <2>1. e # d
    BY <1>2, Builder
  <2>2. PICK i \in Nat : line[e] = Append(LineOf(q), i) /\ \A k \in 1 .. Len(line[d]) : line[d][k] # i
    BY <1>2, <2>1 DEF LinesOK, LineOK
  <2>3. PICK u \in Seq(Nat) : u = LineOf(q)
    BY <1>1
  <2>4. Len(u) \in Nat /\ Len(Append(u, i)) = Len(u) + 1 /\ Append(u, i)[Len(u) + 1] = i
    OBVIOUS
  <2>5. line[d] # Append(u, i)
    <3>1. Len(u) + 1 \in 1 .. Len(Append(u, i))
      BY ONLY <2>4
    <3> QED BY <2>2, <2>4, <3>1
  <2>6. IsPrefixOf(line[d], Append(u, i)) <=> (IsPrefixOf(line[d], u) \/ line[d] = Append(u, i))
    BY <1>1, PrefixAppend
  <2> QED BY <1>2, <2>2, <2>3, <2>5, <2>6
<1> QED BY <1>2, LineMove

\* A walk decides by addresses as it would by the lines.
LEMMA WalkStep ==
    ASSUME Core, Core', CredsOK, PreparedOK, UsagesOK, Exclusive, KindsOK, NodesOK, ReadersOK, LinesOK,
           [Next]_vars, NEW L, NEW M, Labelling(L), \A h \in Hierarchies : husage[h] > 0 => M[h] = L[h],
           NEW t \in Tasks, Walk(L, t)
    PROVE  Walk(M, t)'
<1>0. Types /\ NULL \notin Hierarchies \cup Rulesets \cup Tasks /\ line \in [Rulesets -> Seq(Nat)]
      /\ L \in [Hierarchies -> Seq(Nat)]
  BY RulesetAssumption DEF Core, LinesOK, Labelling
<1>1. ReaderOK(t) /\ PtraceLocals(t) /\ PtraceLocals(t)'
  BY DEF ReadersOK, Core, Ptracing
<1>2. PICK dp, dc, w, p, q : /\ dp = pt[t].dom_parent /\ dc = pt[t].dom_child /\ w = pt[t].walker
                             /\ p = pt[t].parent /\ q = pt[t].child
  OBVIOUS
<1>3. /\ dp # NULL => dp \in Rulesets /\ rstate[dp] = "live" /\ hier[dp] # NULL
                      /\ \A u \in Tasks : ~OwnDomain(u, dp)
      /\ dc # NULL => dc \in Rulesets /\ rstate[dc] = "live" /\ hier[dc] # NULL
      /\ w # NULL => w \in Hierarchies /\ husage[w] > 0 /\ ~Unplaced(w)
  BY <1>2, Reading
<1>4. pc[t] \in PtraceLabels => /\ p \in Tasks /\ q \in Tasks /\ tcred[p] # NULL /\ tcred[q] # NULL
  BY <1>1, <1>2 DEF PtraceLocals
<1>5. CASE pt'[t] = pt[t] /\ (pc'[t] \in PtraceLabels => pc'[t] = pc[t])
  <2>1. ASSUME pc'[t] \in {"dom_child", "domain_scope_le"}
        PROVE  pc[t] = pc'[t] /\ dp # NULL /\ tcred'[p] # NULL /\ tcred'[q] # NULL
    BY <1>1, <1>2, <1>5, <2>1 DEF PtraceLocals, PtraceLabels, ReaderOK
  <2>2. ASSUME pc'[t] \in {"dom_child", "domain_scope_le"}, t = p PROVE cdom'[tcred'[t]] = dp
    <3>1. DomainOf(t) = dp
      BY <1>2, <2>1, <2>2 DEF Walk
    <3>2. ~CommitCreds(t)
      BY <2>1, <2>2 DEF CommitCreds, At
    <3>3. tcred[t] # NULL /\ tcred'[t] # NULL
      BY <1>4, <2>1, <2>2 DEF PtraceLabels
    <3> QED BY <3>1, <3>2, <3>3, DomainMove DEF DomainOf
  <2>3. CASE pc'[t] = "domain_scope_le"
    <3>1. pc[t] = "domain_scope_le" /\ dp \in Rulesets /\ q \in Tasks /\ tcred[q] # NULL /\ tcred'[q] # NULL
      BY <1>3, <1>4, <2>1, <2>3 DEF PtraceLabels
    <3>2. line'[dp] = line[dp]
      BY <1>0, <1>3, <2>1, <2>3, LineKept
    <3>3. IsPrefixOf(line[dp], LineOf(q)') <=> IsPrefixOf(line[dp], LineOf(q))
      BY <1>3, <2>1, <2>3, <3>1, TraceeLine
    <3>4. PICK x : x = ChildLine(t)
      OBVIOUS
    <3>5. ChildLine(t)' = x
      <4>1. dc # NULL => line'[dc] = line[dc]
        BY <1>0, <1>3, LineKept
      <4> QED BY <1>2, <1>5, <3>4, <4>1 DEF ChildLine
    <3>6. w # NULL => M[w] = L[w]
      BY <1>3
    <3>7. /\ IsPrefixOf(line[dp], LineOf(q)) <=> IsPrefixOf(line[dp], x)
          /\ w = NULL => ~IsPrefixOf(line[dp], x)
          /\ w # NULL => /\ IsPrefixOf(L[w], x)
                         /\ IsPrefixOf(line[dp], x) => IsPrefixOf(line[dp], L[w])
      BY <1>2, <3>1, <3>4 DEF Walk
    <3>8. /\ IsPrefixOf(line'[dp], LineOf(q)') <=> IsPrefixOf(line'[dp], x)
          /\ w = NULL => ~IsPrefixOf(line'[dp], x)
          /\ w # NULL => /\ IsPrefixOf(M[w], x)
                         /\ IsPrefixOf(line'[dp], x) => IsPrefixOf(line'[dp], M[w])
      BY <3>2, <3>3, <3>6, <3>7
    <3>9. /\ pt'[t].dom_parent = dp /\ pt'[t].walker = w /\ pt'[t].parent = p /\ pt'[t].child = q
      BY <1>2, <1>5
    <3> QED BY <2>2, <2>3, <3>5, <3>8, <3>9 DEF Walk, DomainOf
  <2>4. CASE pc'[t] # "domain_scope_le"
    BY <1>2, <1>5, <2>2, <2>4 DEF Walk, DomainOf
  <2> QED BY <2>3, <2>4
<1>6. ASSUME NEW a \in Tasks, NEW b \in Tasks, TaskPtrace(t, a, b) PROVE Walk(M, t)'
  BY <1>0, <1>6 DEF TaskPtrace, Goto, Walk, Types, Threads
<1>7. ASSUME TaskIsScoped(t) PROVE Walk(M, t)'
  <2>1. /\ pc'[t] = "dom_child" /\ pt'[t].parent = p /\ pt'[t].dom_parent = DomainOf(p)
        /\ UNCHANGED <<cdom, tcred>>
    BY <1>0, <1>2, <1>7 DEF TaskIsScoped, Goto, Types, Threads, cvars, PtraceCall
  <2> QED BY <2>1 DEF Walk, DomainOf
<1>8. ASSUME DomChild(t) PROVE Walk(M, t)'
  <2>1. pc[t] = "dom_child" /\ q \in Tasks /\ tcred[q] \in Creds
    BY <1>0, <1>1, <1>4, <1>8 DEF DomChild, At, PtraceLabels, ReaderOK, Types, OrNull
  <2>a. dp # NULL
    BY <1>1, <1>2, <2>1 DEF ReaderOK
  <2>2. PICK d : d = DomainOf(q)
    OBVIOUS
  <2>3. d # NULL => d \in Rulesets /\ hier[d] # NULL /\ hier[d] \in Hierarchies /\ L[hier[d]] = line[d]
    <3>1. d # NULL => d \in Rulesets /\ hier[d] # NULL
      BY <1>0, <2>1, <2>2, NotFree DEF DomainOf, KindsOK
    <3> QED BY <1>0, <3>1 DEF Types, OrNull, Labelling
  <2>4. /\ pc'[t] = "domain_scope_le" /\ pt'[t].dom_child = d /\ pt'[t].dom_parent = dp
        /\ pt'[t].parent = p /\ pt'[t].child = q
        /\ pt'[t].walker = (IF d = NULL THEN NULL ELSE hier[d])
        /\ UNCHANGED <<cdom, tcred, hier, line>>
    BY <1>0, <1>2, <1>8, <2>2 DEF DomChild, Goto, Types, Threads, cvars, rvars,
       ghosts, PtraceCall
  <2>5. t = p => DomainOf(t) = dp
    BY <1>2, <2>1 DEF Walk
  <2>6. PICK x \in Seq(Nat) : x = LineOf(q)
    BY <2>1, LinesTyped, RulesetAssumption
  <2>7. ChildLine(t)' = x /\ LineOf(q)' = x
    BY <2>2, <2>4, <2>6 DEF ChildLine, LineOf, DomainOf
  <2>8. line[dp] \in Seq(Nat) /\ line[dp] # <<>>
    BY <1>0, <1>3, <2>a DEF Labelling
  <2>9. CASE d = NULL
    <3>1. x = <<>>
      BY <2>2, <2>6, <2>9 DEF LineOf
    <3>2. ~IsPrefixOf(line[dp], x)
      <4>1. Len(line[dp]) \in Nat \ {0} /\ Len(x) = 0
        BY <2>8, <3>1, EmptySeq
      <4> QED BY <4>1 DEF IsPrefixOf
    <3> QED BY <2>4, <2>5, <2>7, <2>9, <3>2 DEF Walk, DomainOf
  <2>10. CASE d # NULL
    <3>1. PICK h \in Hierarchies : h = hier[d] /\ L[h] = x /\ h # NULL
      BY <1>0, <2>2, <2>3, <2>6, <2>10 DEF LineOf
    <3>2. husage[h] > 0
      <4>1. husage[h] \in Nat /\ husage[h] # 0
        BY <2>3, <2>10, <3>1, HeldNode
      <4> QED BY <4>1
    <3>3. M[h] = x /\ IsPrefixOf(x, x)
      BY <3>1, <3>2, PrefixMeans
    <3> QED BY <2>4, <2>5, <2>7, <2>10, <3>1, <3>3 DEF Walk, DomainOf
  <2> QED BY <2>9, <2>10
<1>9. ASSUME DomainScopeLe(t) PROVE Walk(M, t)'
  <2>1. CASE ScopeDecided(t)
    BY <1>0, <1>9, <2>1 DEF DomainScopeLe, Goto, Types, Threads, Walk
  <2>2. CASE ~ScopeDecided(t)
    <3>1. /\ pc[t] = "domain_scope_le" /\ UNCHANGED <<pc, cdom, tcred, hier, hparent, line>>
          /\ pt'[t].dom_parent = dp /\ pt'[t].dom_child = dc /\ pt'[t].walker = hparent[w]
          /\ pt'[t].parent = p /\ pt'[t].child = q
          /\ w # NULL /\ w # hier[dp]
      BY <1>0, <1>2, <1>9, <2>2
         DEF DomainScopeLe, ScopeDecided, At, Types, PtraceCall, rvars, hvars,
            cvars, ghosts
    <3>2. dp # NULL
      BY <1>1, <1>2, <3>1 DEF ReaderOK
    <3>3. dp \in Rulesets /\ hier[dp] \in Hierarchies /\ husage[hier[dp]] > 0
      <4>1. dp \in Rulesets /\ hier[dp] \in Hierarchies
        BY <1>0, <1>3, <3>2 DEF Types, OrNull
      <4>2. husage[hier[dp]] \in Nat /\ husage[hier[dp]] # 0
        BY <4>1, HeldNode
      <4> QED BY <4>1, <4>2
    <3>4. PICK a \in Seq(Nat), b \in Seq(Nat) : a = line[dp] /\ b = L[w]
      BY <1>0, <1>3, <3>1, <3>3
    <3>5. a # b /\ a # <<>>
      <4>1. L[hier[dp]] = a /\ a # <<>>
        BY <1>0, <3>3, <3>4 DEF Labelling
      <4> QED BY <1>3, <3>1, <3>3, <3>4, <4>1 DEF Labelling
    <3>6. PICK x : x = ChildLine(t)
      OBVIOUS
    <3>7. x \in Seq(Nat)
      <4>1. dc # NULL
        BY <1>1, <1>2, <3>1 DEF PtraceLocals, PtraceLabels
      <4> QED BY <1>0, <1>2, <1>3, <3>6, <4>1 DEF ChildLine
    <3>8. /\ IsPrefixOf(a, LineOf(q)) <=> IsPrefixOf(a, x)
          /\ IsPrefixOf(b, x) /\ (IsPrefixOf(a, x) => IsPrefixOf(a, b))
      BY <1>2, <3>1, <3>4, <3>6 DEF Walk
    <3>9. LineOf(q)' = LineOf(q) /\ ChildLine(t)' = x /\ (t = p => DomainOf(t)' = dp)
      <4>1. t = p => DomainOf(t) = dp
        BY <1>2, <3>1 DEF Walk
      <4> QED BY <1>2, <3>1, <3>6, <4>1 DEF LineOf, DomainOf, ChildLine
    <3>10. CASE hparent[w] = NULL
      <4>1. Len(b) = 1
        BY <1>3, <3>1, <3>4, <3>10 DEF Labelling
      <4>2. ~IsPrefixOf(a, b)
        <5>1. Len(a) \in Nat \ {0}
          BY <3>5, EmptySeq
        <5>2. IsPrefixOf(a, b) => Len(a) = 1 /\ a[1] = b[1]
          BY <4>1, <5>1, PrefixMeans
        <5>3. Len(a) = 1 /\ a[1] = b[1] => a = b
          BY <4>1, SeqEqual
        <5> QED BY <3>5, <5>2, <5>3
      <4>3. ~IsPrefixOf(a, x)
        BY <3>8, <4>2
      <4>4. pt'[t].walker = NULL /\ line'[dp] = a
        BY <3>1, <3>4, <3>10
      <4> QED BY <3>1, <3>8, <3>9, <4>3, <4>4 DEF Walk
    <3>11. CASE hparent[w] # NULL
      <4>1. PICK v \in Hierarchies : v = hparent[w]
        BY <1>0, <1>3, <3>1, <3>11 DEF Types, OrNull
      <4>2. PICK c \in Seq(Nat) : c = L[v]
        BY <1>0
      <4>3. PICK i \in Nat : b = Append(c, i)
        BY <1>3, <3>1, <3>4, <3>11, <4>1, <4>2 DEF Labelling
      <4>4. IsPrefixOf(a, x) => IsPrefixOf(a, c)
        BY <3>5, <3>8, <4>3, PrefixAppend
      <4>5. IsPrefixOf(c, x)
        <5>1. IsPrefixOf(c, c)
          BY PrefixMeans
        <5>2. IsPrefixOf(c, b)
          BY <4>3, <5>1, PrefixAppend
        <5> QED BY <3>7, <3>8, <5>2, PrefixTrans
      <4>6. M[v] = c
        <5>1. husage[v] \in Nat /\ husage[v] # 0
          BY <1>3, <3>1, <4>1, HeldNode
        <5> QED BY <4>2, <5>1
      <4>7. pt'[t].walker = v /\ v # NULL /\ line'[dp] = a
        BY <1>0, <3>1, <3>4, <4>1
      <4> QED BY <3>1, <3>8, <3>9, <4>4, <4>5, <4>6, <4>7 DEF Walk
    <3> QED BY <3>10, <3>11
  <2> QED BY <2>1, <2>2
<1> QED BY <1>5, <1>6, <1>7, <1>8, <1>9, PtraceMoves DEF PtraceMove

\* Every walk goes on as the lines say.
LEMMA WalksStep ==
    ASSUME Core, Core', CredsOK, PreparedOK, UsagesOK, Exclusive, KindsOK, NodesOK, ReadersOK,
           LinesOK, RootedOK, WalksOK, [Next]_vars
    PROVE  WalksOK'
<1>1. PICK L : Labelling(L) /\ \A t \in Tasks : Walk(L, t)
  BY DEF WalksOK
<1>2. PICK M : Labelling(M)' /\ \A h \in Hierarchies : husage[h] > 0 => M[h] = L[h]
  BY <1>1, LabelNew, LabelOld
<1>3. \A t \in Tasks : Walk(M, t)'
  BY <1>1, <1>2, WalkStep
<1> QED BY <1>2, <1>3 DEF WalksOK

\* A finished walk gives the answer that the lines give.
LEMMA Sound ==
    ASSUME Core, UsagesOK, Exclusive, KindsOK, NodesOK, ReadersOK, LinesOK, WalksOK
    PROVE  PtraceSound
<1>0. Types /\ NULL \notin Hierarchies
  BY RulesetAssumption DEF Core
<1>1. PICK L : Labelling(L) /\ \A t \in Tasks : Walk(L, t)
  BY DEF WalksOK
<1> SUFFICES ASSUME NEW t \in Tasks, pc[t] = "domain_scope_le", ScopeDecided(t)
             PROVE  /\ (pt[t].walker # NULL) <=> IsPrefixOf(line[pt[t].dom_parent], LineOf(pt[t].child))
                    /\ t = pt[t].parent => line[pt[t].dom_parent] = LineOf(t)
  BY DEF PtraceSound, At
<1>2. PICK dp, w : dp = pt[t].dom_parent /\ w = pt[t].walker
  OBVIOUS
<1>3. dp # NULL
  BY <1>2 DEF ReadersOK, ReaderOK
<1>4. dp \in Rulesets /\ hier[dp] # NULL
  BY <1>2, <1>3, Reading
<1>5. ASSUME w # NULL PROVE L[w] = line[dp] /\ IsPrefixOf(line[dp], ChildLine(t))
  <2>1. w = hier[dp]
    BY <1>2, <1>5 DEF ScopeDecided
  <2>2. L[w] = line[dp]
    BY <1>1, <1>4, <2>1 DEF Labelling
  <2> QED BY <1>1, <1>2, <1>5, <2>2 DEF Walk
<1>6. /\ IsPrefixOf(line[dp], LineOf(pt[t].child)) <=> IsPrefixOf(line[dp], ChildLine(t))
      /\ w = NULL => ~IsPrefixOf(line[dp], ChildLine(t))
      /\ t = pt[t].parent => DomainOf(t) = dp
  BY <1>1, <1>2 DEF Walk
<1>7. t = pt[t].parent => line[dp] = LineOf(t)
  BY <1>3, <1>6 DEF LineOf
<1> QED BY <1>2, <1>5, <1>6, <1>7

-----------------------------------------------------------------------------
(* The invariant of domains and of walks.                                  *)

DomainInv == IInv /\ LinesOK /\ RootedOK /\ WalksOK

\* There are neither domains nor walks at first.
LEMMA DomainInvInit == Init => DomainInv
BY IInvInit, LinesInit, WalksInit DEF DomainInv

\* Every step of every thread keeps it.
LEMMA DomainInvStep == DomainInv /\ [Next]_vars => DomainInv'
<1> SUFFICES ASSUME DomainInv, [Next]_vars PROVE DomainInv'
  OBVIOUS
<1>1. /\ Core /\ CredsOK /\ PreparedOK
      /\ UsagesOK /\ Exclusive /\ KindsOK
      /\ NodesOK /\ RootsOK /\ ReadersOK
      /\ LinesOK /\ RootedOK /\ WalksOK
  BY DEF DomainInv, IInv
<1>2. IInv' /\ Core'
  BY IInvStep DEF DomainInv, IInv
<1>3. LinesOK'
  BY <1>1, <1>2, LinesStep
<1>4. RootedOK'
  BY <1>1, <1>2, RootedStep
<1>5. WalksOK'
  BY <1>1, <1>2, WalksStep
<1> QED BY <1>2, <1>3, <1>4, <1>5 DEF DomainInv

\* Domains keep their lines and nodes theirs, and every walk of a ptrace check
\* agrees with them so far.
THEOREM DomainInvariance == Spec => []DomainInv
<1>1. Init => DomainInv
  BY DomainInvInit
<1>2. DomainInv /\ [Next]_vars => DomainInv'
  BY DomainInvStep
<1> QED BY <1>1, <1>2, PTL DEF Spec

\* domain_scope_le() compares addresses of nodes, which are freed and used
\* again; it allows an access exactly if the tracee's domain descends from
\* the tracer's, even if the tracee restricts itself further meanwhile.
THEOREM PtraceDecision == Spec => []PtraceSound
<1>1. DomainInv => PtraceSound
  BY Sound DEF DomainInv, IInv
<1> QED BY <1>1, DomainInvariance, PTL

-----------------------------------------------------------------------------
(* Shapes: the layers of a rule, what a domain under construction has      *)
(* taken from its parent and from the ruleset, and who holds which mutex.  *)

ArgOf == Objects \X {<<[level |-> 0, access |-> a]>> : a \in SUBSET Access}

ShapeTypes ==
    /\ masks \in [Rulesets -> Seq(SUBSET Access)]
    /\ tree \in [Rulesets -> [Objects -> Layers]]
    /\ arg \in [Tasks -> OrNull(ArgOf)]
    /\ \A t \in Tasks : pc[t] = "insert_rule" => arg[t] \in ArgOf
    /\ nextid \in 0 .. MaxDomains

\* The mutexes that the walks of inherit_ruleset() and merge_ruleset() hold.
Locks(t, r) ==
    \/ pc[t] = "inherit" /\ r \in {newdom[t], Parent(t)}
    \/ pc[t] = "merge_rules" /\ r \in {newdom[t], rs[t]}

LocksOK == \A t \in Tasks, r \in Rulesets : rlock[r] = t <=> Locks(t, r)

\* A rule of a domain has at most one layer of each level up to n.
Sorted(layers, n) ==
    /\ \A i \in 1 .. Len(layers) : layers[i].level \in i .. n
    /\ \A i \in 2 .. Len(layers) : layers[i - 1].level < layers[i].level

Single(layers) == layers = <<>> \/ (Len(layers) = 1 /\ layers[1].level = 0)

Ordered(r) ==
    \A o \in Objects : IF hier[r] = NULL THEN Single(tree[r][o])
                       ELSE Sorted(tree[r][o], Len(masks[r]))

RulesOK ==
    /\ \A r \in Rulesets : rstate[r] = "live" => Ordered(r) /\ Len(masks[r]) <= MaxLayers
    /\ \A r \in fd : Len(masks[r]) = 1
    /\ \A t \in Tasks : rs[t] # NULL => Len(masks[rs[t]]) = 1

\* The layers that the domain of a task has, and those of a rule in it.
Depth(t) == IF DomainOf(t) = NULL THEN 0 ELSE Len(masks[DomainOf(t)])
Base(t, o) == IF DomainOf(t) = NULL THEN <<>> ELSE tree[DomainOf(t)][o]

\* d has the layers of t's domain, and room for one more.
Extends(t, d) ==
    /\ Len(masks[d]) = Depth(t) + 1
    /\ \A i \in 1 .. Depth(t) : masks[d][i] = masks[DomainOf(t)][i]

OneMore(t, o, a) == Append(Base(t, o), [level |-> Depth(t) + 1, access |-> a])

\* d is t's domain with one more layer on top.
Built(t, d) ==
    /\ Extends(t, d)
    /\ \A o \in Objects : \/ tree[d][o] = Base(t, o)
                         \/ \E a \in SUBSET Access : tree[d][o] = OneMore(t, o, a)

\* How much of the new domain is done.
StackOK(t) ==
    LET d == newdom[t] IN
    /\ Label(t) = "inherit_lock" =>
          Len(masks[d]) = Depth(t) + 1 /\ tree[d] = NoRules
    /\ Label(t) = "inherit" =>
          /\ Len(masks[d]) = Depth(t) + 1
          /\ \A o \in Objects : tree[d][o] = IF o \in todo[t] THEN <<>> ELSE Base(t, o)
    /\ Label(t) = "merge_lock" =>
          Extends(t, d) /\ \A o \in Objects : tree[d][o] = Base(t, o)
    /\ Label(t) = "merge_rules" =>
          /\ Extends(t, d) /\ masks[d][Depth(t) + 1] = masks[rs[t]][1]
          /\ \A o \in Objects :
                IF o \in todo[t] \/ tree[rs[t]][o] = <<>> THEN tree[d][o] = Base(t, o)
                ELSE tree[d][o] = OneMore(t, o, tree[rs[t]][o][1].access)
          /\ \A o \in todo[t] : tree[rs[t]][o] # <<>>
    /\ Label(t) \in {"replace", "assign"} => Built(t, d)
    /\ Committing(t) => Built(t, cdom[ncred[t]])

StacksOK == \A t \in Tasks : StackOK(t)

ShapeInv == ShapeTypes /\ LocksOK /\ RulesOK /\ StacksOK

\* What a task works with while it builds a domain.
LayerFrame(r) == masks'[r] = masks[r] /\ tree'[r] = tree[r] /\ hier'[r] = hier[r]

LayerWrite(t) ==
    \/ \E o \in Objects : InheritRule(t, o) \/ MergeRule(t, o)
    \/ InheritDone(t) \/ MergeLock(t)

LayerMove(r) ==
    \/ LayerFrame(r)
    \/ \E t \in Tasks : rs[t] = r /\ AppendFsRule(t)
    \/ \E t \in Tasks : newdom[t] = r /\ LayerWrite(t)

\* A ruleset or domain in use changes only under its mutex.
LEMMA LayerMoves ==
    ASSUME Core, UsagesOK, ShapeTypes, [Next]_vars, NEW q \in Rulesets, rstate[q] = "live"
    PROVE  LayerMove(q)
<1> USE Using DEF Core, Types, ShapeTypes, LayerMove, LayerFrame, LayerWrite,
    CallLabels, DomainLabels, WalkLabels, FreeLabels, Prepared, Threads, OrNull, At, Goto,
    rvars, hvars, cvars, locals, frvars, ptvars, ghosts, Alloc
<1>1. ASSUME NEW t \in Tasks, AllocStep(t) PROVE LayerMove(q)
  <2>1. ASSUME NEW r \in Rulesets, NEW handled \in SUBSET Access, CreateRuleset(t, r, handled)
        PROVE  LayerMove(q)
    BY <2>1 DEF CreateRuleset
  <2>2. ASSUME NEW r \in Rulesets, NEW handled \in SUBSET Access, CreateRulesetNoFd(t, r, handled)
        PROVE  LayerMove(q)
    BY <2>2 DEF CreateRulesetNoFd
  <2>3. ASSUME NEW r \in Rulesets, NEW h \in Hierarchies, CreateDomain(t, r, h)
        PROVE  LayerMove(q)
    BY <2>3 DEF CreateDomain
  <2>4. ASSUME NEW r \in Rulesets, CreateHierarchyFails(t, r)
        PROVE  LayerMove(q)
    BY <2>4 DEF CreateHierarchyFails
  <2> QED BY <1>1, <2>1, <2>2, <2>3, <2>4 DEF AllocStep
<1>2. ASSUME NEW t \in Tasks, CallStep(t) PROVE LayerMove(q)
  <2>1. ASSUME NEW r \in Rulesets, NEW o \in Objects, NEW allowed \in SUBSET Access,
             AddRule(t, r, o, allowed)
        PROVE  LayerMove(q)
    BY <2>1 DEF AddRule, Get
  <2>2. ASSUME NEW r \in Rulesets, Close(t, r)
        PROVE  LayerMove(q)
    BY <2>2 DEF Close, Put
  <2>3. ASSUME NEW r \in Rulesets, RestrictSelf(t, r)
        PROVE  LayerMove(q)
    BY <2>3 DEF RestrictSelf, Get
  <2>4. ASSUME NEW c \in Creds, ChangeCreds(t, c)
        PROVE  LayerMove(q)
    BY <2>4 DEF ChangeCreds, GetDomain, DomainOf
  <2>5. ASSUME NEW c \in Creds, NEW u \in Tasks, Fork(t, u, c)
        PROVE  LayerMove(q)
    BY <2>5 DEF Fork, NewCred, GetDomain, DomainOf
  <2>6. ASSUME NEW u \in Tasks, CloneThread(t, u)
        PROVE  LayerMove(q)
    BY <2>6 DEF CloneThread
  <2>7. ASSUME NEW p \in Tasks, NEW c \in Tasks, TaskPtrace(t, p, c)
        PROVE  LayerMove(q)
    BY <2>7 DEF TaskPtrace
  <2>8. CASE Exit(t)
    BY <2>8 DEF Exit, PutCred
  <2> QED BY <1>2, <2>1, <2>2, <2>3, <2>4, <2>5, <2>6, <2>7, <2>8 DEF CallStep
<1>3. ASSUME NEW t \in Tasks, LockStep(t) PROVE LayerMove(q)
  <2>1. CASE AppendFsRule(t)
    BY <2>1 DEF AppendFsRule, InsertRule
  <2>2. CASE InheritLock(t)
    BY <2>2 DEF InheritLock, Unlocked, Lock, RulesOf
  <2>3. CASE MergeLock(t)
    BY <2>3 DEF MergeLock, Unlocked, Lock, RulesOf
  <2> QED BY <1>3, <2>1, <2>2, <2>3 DEF LockStep
<1>4. ASSUME NEW t \in Tasks, KernelStep(t) PROVE LayerMove(q)
  <2>1. CASE AppendFsRuleFails(t)
    BY <2>1 DEF AppendFsRuleFails
  <2>2. CASE PutRuleset(t)
    BY <2>2 DEF PutRuleset, Put
  <2>3. ASSUME NEW c \in Creds, PrepareCreds(t, c)
        PROVE  LayerMove(q)
    BY <2>3 DEF PrepareCreds, NewCred, GetDomain, DomainOf
  <2>4. CASE PrepareCredsFails(t)
    BY <2>4 DEF PrepareCredsFails
  <2>5. CASE MergeFails(t)
    BY <2>5 DEF MergeFails
  <2>6. ASSUME NEW o \in Objects, InheritRule(t, o)
        PROVE  LayerMove(q)
    BY <2>6 DEF InheritRule, InsertRule
  <2>7. ASSUME NEW o \in Objects, MergeRule(t, o)
        PROVE  LayerMove(q)
    BY <2>7 DEF MergeRule, InsertRule
  <2>8. CASE InheritFails(t)
    BY <2>8 DEF InheritFails, Unlock
  <2>9. CASE InheritDone(t)
    BY <2>9 DEF InheritDone, Unlock
  <2>10. CASE MergeRuleFails(t)
    BY <2>10 DEF MergeRuleFails, Unlock
  <2>11. CASE MergeDone(t)
    BY <2>11 DEF MergeDone, Unlock
  <2>12. CASE PutDom(t)
    BY <2>12 DEF PutDom, Put
  <2>13. CASE ReplaceDomain(t)
    BY <2>13 DEF ReplaceDomain, Put
  <2>14. CASE AssignDomain(t)
    BY <2>14 DEF AssignDomain
  <2>15. CASE CommitCreds(t)
    BY <2>15 DEF CommitCreds, PutCred
  <2>16. CASE AbortCreds(t)
    BY <2>16 DEF AbortCreds, PutCred
  <2>17. CASE TaskIsScoped(t)
    BY <2>17 DEF TaskIsScoped, DomainOf
  <2>18. CASE DomChild(t)
    BY <2>18 DEF DomChild, DomainOf
  <2>19. CASE DomainScopeLe(t)
    BY <2>19 DEF DomainScopeLe, ScopeDecided
  <2> QED BY <1>4, <2>1, <2>2, <2>3, <2>4, <2>5, <2>6, <2>7, <2>8, <2>9, <2>10, <2>11, <2>12, <2>13, <2>14, <2>15, <2>16, <2>17, <2>18, <2>19 DEF KernelStep
<1>5. ASSUME NEW t \in Threads, FreeStep(t) PROVE LayerMove(q)
  <2>1. CASE FreeRuleset(t)
    <3>1. fr[t] \in Rulesets /\ fr[t] # q
      BY <2>1, UsingFreed, RulesetAssumption DEF FreeRuleset, UsagesOK
    <3> QED BY <2>1, <3>1 DEF FreeRuleset
  <2>2. CASE PutHierarchy(t)
    BY <2>2 DEF PutHierarchy
  <2>3. CASE Kfree(t)
    <3>1. fr[t] \in Rulesets /\ fr[t] # q
      BY <2>3, UsingFreed, RulesetAssumption DEF Kfree, UsagesOK
    <3> QED BY <2>3, <3>1 DEF Kfree
  <2> QED BY <1>5, <2>1, <2>2, <2>3 DEF FreeStep
<1>6. ASSUME NEW c \in Creds, CredFree(c) PROVE LayerMove(q)
  BY <1>6 DEF CredFree
<1>7. ASSUME NEW r \in Rulesets, FreeRulesetWork(r) PROVE LayerMove(q)
  BY <1>7 DEF FreeRulesetWork
<1>8. CASE UNCHANGED vars
  BY <1>8 DEF vars
<1> QED BY <1>1, <1>2, <1>3, <1>4, <1>5, <1>6, <1>7, <1>8 DEF Next

\* A ruleset or domain comes into being.
Born(r) ==
    \E t \in Tasks :
       \/ \E handled \in SUBSET Access :
             CreateRuleset(t, r, handled) \/ CreateRulesetNoFd(t, r, handled)
       \/ \E h \in Hierarchies : CreateDomain(t, r, h)
       \/ CreateHierarchyFails(t, r)

\* Nothing is revived.
LEMMA LiveMoves ==
    ASSUME Core, [Next]_vars, NEW q \in Rulesets, rstate'[q] = "live"
    PROVE  rstate[q] = "live" \/ Born(q)
<1> USE Using, UsingFreed DEF Core, Types, Born,
    CallLabels, DomainLabels, WalkLabels, FreeLabels, Prepared, Threads, OrNull, At, Goto,
    rvars, hvars, cvars, locals, frvars, ptvars, ghosts, Alloc, Parent
<1>1. ASSUME NEW t \in Tasks, AllocStep(t) PROVE rstate[q] = "live" \/ Born(q)
  <2>1. ASSUME NEW r \in Rulesets, NEW handled \in SUBSET Access, CreateRuleset(t, r, handled)
        PROVE  rstate[q] = "live" \/ Born(q)
    BY <2>1 DEF CreateRuleset
  <2>2. ASSUME NEW r \in Rulesets, NEW handled \in SUBSET Access, CreateRulesetNoFd(t, r, handled)
        PROVE  rstate[q] = "live" \/ Born(q)
    BY <2>2 DEF CreateRulesetNoFd
  <2>3. ASSUME NEW r \in Rulesets, NEW h \in Hierarchies, CreateDomain(t, r, h)
        PROVE  rstate[q] = "live" \/ Born(q)
    BY <2>3 DEF CreateDomain
  <2>4. ASSUME NEW r \in Rulesets, CreateHierarchyFails(t, r)
        PROVE  rstate[q] = "live" \/ Born(q)
    BY <2>4 DEF CreateHierarchyFails
  <2> QED BY <1>1, <2>1, <2>2, <2>3, <2>4 DEF AllocStep
<1>2. ASSUME NEW t \in Tasks, CallStep(t) PROVE rstate[q] = "live" \/ Born(q)
  <2>1. ASSUME NEW r \in Rulesets, NEW o \in Objects, NEW allowed \in SUBSET Access,
             AddRule(t, r, o, allowed)
        PROVE  rstate[q] = "live" \/ Born(q)
    BY <2>1 DEF AddRule, Get
  <2>2. ASSUME NEW r \in Rulesets, Close(t, r)
        PROVE  rstate[q] = "live" \/ Born(q)
    BY <2>2 DEF Close, Put
  <2>3. ASSUME NEW r \in Rulesets, RestrictSelf(t, r)
        PROVE  rstate[q] = "live" \/ Born(q)
    BY <2>3 DEF RestrictSelf, Get
  <2>4. ASSUME NEW c \in Creds, ChangeCreds(t, c)
        PROVE  rstate[q] = "live" \/ Born(q)
    BY <2>4 DEF ChangeCreds, GetDomain, DomainOf
  <2>5. ASSUME NEW c \in Creds, NEW u \in Tasks, Fork(t, u, c)
        PROVE  rstate[q] = "live" \/ Born(q)
    BY <2>5 DEF Fork, NewCred, GetDomain, DomainOf
  <2>6. ASSUME NEW u \in Tasks, CloneThread(t, u)
        PROVE  rstate[q] = "live" \/ Born(q)
    BY <2>6 DEF CloneThread
  <2>7. ASSUME NEW p \in Tasks, NEW c \in Tasks, TaskPtrace(t, p, c)
        PROVE  rstate[q] = "live" \/ Born(q)
    BY <2>7 DEF TaskPtrace
  <2>8. CASE Exit(t)
    BY <2>8 DEF Exit, PutCred
  <2> QED BY <1>2, <2>1, <2>2, <2>3, <2>4, <2>5, <2>6, <2>7, <2>8 DEF CallStep
<1>3. ASSUME NEW t \in Tasks, LockStep(t) PROVE rstate[q] = "live" \/ Born(q)
  <2>1. CASE AppendFsRule(t)
    BY <2>1 DEF AppendFsRule, InsertRule
  <2>2. CASE InheritLock(t)
    BY <2>2 DEF InheritLock, Unlocked, Lock, RulesOf
  <2>3. CASE MergeLock(t)
    BY <2>3 DEF MergeLock, Unlocked, Lock, RulesOf
  <2> QED BY <1>3, <2>1, <2>2, <2>3 DEF LockStep
<1>4. ASSUME NEW t \in Tasks, KernelStep(t) PROVE rstate[q] = "live" \/ Born(q)
  <2>1. CASE AppendFsRuleFails(t)
    BY <2>1 DEF AppendFsRuleFails
  <2>2. CASE PutRuleset(t)
    BY <2>2 DEF PutRuleset, Put
  <2>3. ASSUME NEW c \in Creds, PrepareCreds(t, c)
        PROVE  rstate[q] = "live" \/ Born(q)
    BY <2>3 DEF PrepareCreds, NewCred, GetDomain, DomainOf
  <2>4. CASE PrepareCredsFails(t)
    BY <2>4 DEF PrepareCredsFails
  <2>5. CASE MergeFails(t)
    BY <2>5 DEF MergeFails
  <2>6. ASSUME NEW o \in Objects, InheritRule(t, o)
        PROVE  rstate[q] = "live" \/ Born(q)
    BY <2>6 DEF InheritRule, InsertRule
  <2>7. ASSUME NEW o \in Objects, MergeRule(t, o)
        PROVE  rstate[q] = "live" \/ Born(q)
    BY <2>7 DEF MergeRule, InsertRule
  <2>8. CASE InheritFails(t)
    BY <2>8 DEF InheritFails, Unlock
  <2>9. CASE InheritDone(t)
    BY <2>9 DEF InheritDone, Unlock
  <2>10. CASE MergeRuleFails(t)
    BY <2>10 DEF MergeRuleFails, Unlock
  <2>11. CASE MergeDone(t)
    BY <2>11 DEF MergeDone, Unlock
  <2>12. CASE PutDom(t)
    BY <2>12 DEF PutDom, Put
  <2>13. CASE ReplaceDomain(t)
    BY <2>13 DEF ReplaceDomain, Put
  <2>14. CASE AssignDomain(t)
    BY <2>14 DEF AssignDomain
  <2>15. CASE CommitCreds(t)
    BY <2>15 DEF CommitCreds, PutCred
  <2>16. CASE AbortCreds(t)
    BY <2>16 DEF AbortCreds, PutCred
  <2>17. CASE TaskIsScoped(t)
    BY <2>17 DEF TaskIsScoped, DomainOf
  <2>18. CASE DomChild(t)
    BY <2>18 DEF DomChild, DomainOf
  <2>19. CASE DomainScopeLe(t)
    BY <2>19 DEF DomainScopeLe, ScopeDecided
  <2> QED BY <1>4, <2>1, <2>2, <2>3, <2>4, <2>5, <2>6, <2>7, <2>8, <2>9, <2>10, <2>11, <2>12, <2>13, <2>14, <2>15, <2>16, <2>17, <2>18, <2>19 DEF KernelStep
<1>5. ASSUME NEW t \in Threads, FreeStep(t) PROVE rstate[q] = "live" \/ Born(q)
  <2>1. CASE FreeRuleset(t)
    BY <2>1 DEF FreeRuleset
  <2>2. CASE PutHierarchy(t)
    BY <2>2 DEF PutHierarchy
  <2>3. CASE Kfree(t)
    BY <2>3 DEF Kfree
  <2> QED BY <1>5, <2>1, <2>2, <2>3 DEF FreeStep
<1>6. ASSUME NEW c \in Creds, CredFree(c) PROVE rstate[q] = "live" \/ Born(q)
  BY <1>6 DEF CredFree
<1>7. ASSUME NEW r \in Rulesets, FreeRulesetWork(r) PROVE rstate[q] = "live" \/ Born(q)
  BY <1>7 DEF FreeRulesetWork
<1>8. CASE UNCHANGED vars
  BY <1>8 DEF vars
<1> QED BY <1>1, <1>2, <1>3, <1>4, <1>5, <1>6, <1>7, <1>8 DEF Next

\* A ruleset in use by a call or by a descriptor was so before, or is new.
LEMMA HeldMoves ==
    ASSUME Core, [Next]_vars, NEW q \in Rulesets, q \in fd' \/ \E x \in Tasks : rs'[x] = q
    PROVE  q \in fd \/ (\E x \in Tasks : rs[x] = q) \/ Born(q)
<1> USE RulesetAssumption, Using DEF Core, Types, Born,
    CallLabels, DomainLabels, WalkLabels, FreeLabels, Prepared, Threads, OrNull, At, Goto,
    rvars, hvars, cvars, locals, frvars, ptvars, ghosts
<1>1. ASSUME NEW t \in Tasks, AllocStep(t) PROVE q \in fd \/ (\E x \in Tasks : rs[x] = q) \/ Born(q)
  <2>1. ASSUME NEW r \in Rulesets, NEW handled \in SUBSET Access, CreateRuleset(t, r, handled)
        PROVE  q \in fd \/ (\E x \in Tasks : rs[x] = q) \/ Born(q)
    <3>1. CASE q = r
      BY <2>1, <3>1
    <3>2. CASE q # r
      BY <2>1, <3>2 DEF CreateRuleset
    <3> QED BY <3>1, <3>2
  <2>2. ASSUME NEW r \in Rulesets, NEW handled \in SUBSET Access, CreateRulesetNoFd(t, r, handled)
        PROVE  q \in fd \/ (\E x \in Tasks : rs[x] = q) \/ Born(q)
    <3>1. CASE q = r
      BY <2>2, <3>1
    <3>2. CASE q # r
      BY <2>2, <3>2 DEF CreateRulesetNoFd
    <3> QED BY <3>1, <3>2
  <2>3. ASSUME NEW r \in Rulesets, NEW h \in Hierarchies, CreateDomain(t, r, h)
        PROVE  q \in fd \/ (\E x \in Tasks : rs[x] = q) \/ Born(q)
    BY <2>3 DEF CreateDomain
  <2>4. ASSUME NEW r \in Rulesets, CreateHierarchyFails(t, r)
        PROVE  q \in fd \/ (\E x \in Tasks : rs[x] = q) \/ Born(q)
    BY <2>4 DEF CreateHierarchyFails
  <2> QED BY <1>1, <2>1, <2>2, <2>3, <2>4 DEF AllocStep
<1>2. ASSUME NEW t \in Tasks, CallStep(t) PROVE q \in fd \/ (\E x \in Tasks : rs[x] = q) \/ Born(q)
  <2>1. ASSUME NEW r \in Rulesets, NEW o \in Objects, NEW allowed \in SUBSET Access,
             AddRule(t, r, o, allowed)
        PROVE  q \in fd \/ (\E x \in Tasks : rs[x] = q) \/ Born(q)
    BY <2>1 DEF AddRule, Get
  <2>2. ASSUME NEW r \in Rulesets, Close(t, r)
        PROVE  q \in fd \/ (\E x \in Tasks : rs[x] = q) \/ Born(q)
    BY <2>2 DEF Close, Put
  <2>3. ASSUME NEW r \in Rulesets, RestrictSelf(t, r)
        PROVE  q \in fd \/ (\E x \in Tasks : rs[x] = q) \/ Born(q)
    BY <2>3 DEF RestrictSelf, Get
  <2>4. ASSUME NEW c \in Creds, ChangeCreds(t, c)
        PROVE  q \in fd \/ (\E x \in Tasks : rs[x] = q) \/ Born(q)
    BY <2>4 DEF ChangeCreds, GetDomain, DomainOf
  <2>5. ASSUME NEW c \in Creds, NEW u \in Tasks, Fork(t, u, c)
        PROVE  q \in fd \/ (\E x \in Tasks : rs[x] = q) \/ Born(q)
    BY <2>5 DEF Fork, NewCred, GetDomain, DomainOf
  <2>6. ASSUME NEW u \in Tasks, CloneThread(t, u)
        PROVE  q \in fd \/ (\E x \in Tasks : rs[x] = q) \/ Born(q)
    BY <2>6 DEF CloneThread
  <2>7. ASSUME NEW p \in Tasks, NEW c \in Tasks, TaskPtrace(t, p, c)
        PROVE  q \in fd \/ (\E x \in Tasks : rs[x] = q) \/ Born(q)
    BY <2>7 DEF TaskPtrace
  <2>8. CASE Exit(t)
    BY <2>8 DEF Exit, PutCred
  <2> QED BY <1>2, <2>1, <2>2, <2>3, <2>4, <2>5, <2>6, <2>7, <2>8 DEF CallStep
<1>3. ASSUME NEW t \in Tasks, LockStep(t) PROVE q \in fd \/ (\E x \in Tasks : rs[x] = q) \/ Born(q)
  <2>1. CASE AppendFsRule(t)
    BY <2>1 DEF AppendFsRule, InsertRule
  <2>2. CASE InheritLock(t)
    BY <2>2 DEF InheritLock, Unlocked, Lock, RulesOf
  <2>3. CASE MergeLock(t)
    BY <2>3 DEF MergeLock, Unlocked, Lock, RulesOf
  <2> QED BY <1>3, <2>1, <2>2, <2>3 DEF LockStep
<1>4. ASSUME NEW t \in Tasks, KernelStep(t) PROVE q \in fd \/ (\E x \in Tasks : rs[x] = q) \/ Born(q)
  <2>1. CASE AppendFsRuleFails(t)
    BY <2>1 DEF AppendFsRuleFails
  <2>2. CASE PutRuleset(t)
    BY <2>2 DEF PutRuleset, Put
  <2>3. ASSUME NEW c \in Creds, PrepareCreds(t, c)
        PROVE  q \in fd \/ (\E x \in Tasks : rs[x] = q) \/ Born(q)
    BY <2>3 DEF PrepareCreds, NewCred, GetDomain, DomainOf
  <2>4. CASE PrepareCredsFails(t)
    BY <2>4 DEF PrepareCredsFails
  <2>5. CASE MergeFails(t)
    BY <2>5 DEF MergeFails
  <2>6. ASSUME NEW o \in Objects, InheritRule(t, o)
        PROVE  q \in fd \/ (\E x \in Tasks : rs[x] = q) \/ Born(q)
    BY <2>6 DEF InheritRule, InsertRule
  <2>7. ASSUME NEW o \in Objects, MergeRule(t, o)
        PROVE  q \in fd \/ (\E x \in Tasks : rs[x] = q) \/ Born(q)
    BY <2>7 DEF MergeRule, InsertRule
  <2>8. CASE InheritFails(t)
    BY <2>8 DEF InheritFails, Unlock
  <2>9. CASE InheritDone(t)
    BY <2>9 DEF InheritDone, Unlock
  <2>10. CASE MergeRuleFails(t)
    BY <2>10 DEF MergeRuleFails, Unlock
  <2>11. CASE MergeDone(t)
    BY <2>11 DEF MergeDone, Unlock
  <2>12. CASE PutDom(t)
    BY <2>12 DEF PutDom, Put
  <2>13. CASE ReplaceDomain(t)
    BY <2>13 DEF ReplaceDomain, Put
  <2>14. CASE AssignDomain(t)
    BY <2>14 DEF AssignDomain
  <2>15. CASE CommitCreds(t)
    BY <2>15 DEF CommitCreds, PutCred
  <2>16. CASE AbortCreds(t)
    BY <2>16 DEF AbortCreds, PutCred
  <2>17. CASE TaskIsScoped(t)
    BY <2>17 DEF TaskIsScoped, DomainOf
  <2>18. CASE DomChild(t)
    BY <2>18 DEF DomChild, DomainOf
  <2>19. CASE DomainScopeLe(t)
    BY <2>19 DEF DomainScopeLe, ScopeDecided
  <2> QED BY <1>4, <2>1, <2>2, <2>3, <2>4, <2>5, <2>6, <2>7, <2>8, <2>9, <2>10, <2>11, <2>12, <2>13, <2>14, <2>15, <2>16, <2>17, <2>18, <2>19 DEF KernelStep
<1>5. ASSUME NEW t \in Threads, FreeStep(t) PROVE q \in fd \/ (\E x \in Tasks : rs[x] = q) \/ Born(q)
  <2>1. CASE FreeRuleset(t)
    BY <2>1 DEF FreeRuleset
  <2>2. CASE PutHierarchy(t)
    BY <2>2 DEF PutHierarchy
  <2>3. CASE Kfree(t)
    BY <2>3 DEF Kfree
  <2> QED BY <1>5, <2>1, <2>2, <2>3 DEF FreeStep
<1>6. ASSUME NEW c \in Creds, CredFree(c) PROVE q \in fd \/ (\E x \in Tasks : rs[x] = q) \/ Born(q)
  BY <1>6 DEF CredFree
<1>7. ASSUME NEW r \in Rulesets, FreeRulesetWork(r) PROVE q \in fd \/ (\E x \in Tasks : rs[x] = q) \/ Born(q)
  BY <1>7 DEF FreeRulesetWork
<1>8. CASE UNCHANGED vars
  BY <1>8 DEF vars
<1> QED BY <1>1, <1>2, <1>3, <1>4, <1>5, <1>6, <1>7, <1>8 DEF Next

\* The steps that write layers, rules or the arguments of landlock_add_rule(2).
ShapeStep(t) ==
    \/ AllocStep(t)
    \/ \E r \in Rulesets, o \in Objects, allowed \in SUBSET Access : AddRule(t, r, o, allowed)
    \/ AppendFsRule(t) \/ AppendFsRuleFails(t) \/ LayerWrite(t)

shapevars == <<masks, tree, arg, nextid>>

\* Where a task is on its way to landlock_insert_rule().
Insert(x) == pc'[x] = "insert_rule" => pc[x] = "insert_rule"

\* All other steps leave them alone.
LEMMA ShapeSteps ==
    ASSUME Types, [Next]_vars
    PROVE  \/ UNCHANGED shapevars /\ \A x \in Tasks : Insert(x)
           \/ \E t \in Tasks : ShapeStep(t)
           \/ \E t \in Threads : (FreeRuleset(t) \/ Kfree(t))
<1> DEFINE G == \/ UNCHANGED shapevars /\ \A x \in Tasks : Insert(x)
                \/ \E t \in Tasks : ShapeStep(t)
                \/ \E t \in Threads : (FreeRuleset(t) \/ Kfree(t))
<1> USE DEF Types, ShapeStep, LayerWrite, Insert, shapevars, Returns, Threads, OrNull, At, Goto,
    rvars, hvars, cvars, locals, frvars, ptvars, ghosts, Alloc
<1>1. ASSUME NEW t \in Tasks, AllocStep(t) PROVE G
  <2>1. ASSUME NEW r \in Rulesets, NEW handled \in SUBSET Access, CreateRuleset(t, r, handled)
        PROVE  G
    BY <2>1 DEF AllocStep
  <2>2. ASSUME NEW r \in Rulesets, NEW handled \in SUBSET Access, CreateRulesetNoFd(t, r, handled)
        PROVE  G
    BY <2>2 DEF AllocStep
  <2>3. ASSUME NEW r \in Rulesets, NEW h \in Hierarchies, CreateDomain(t, r, h)
        PROVE  G
    BY <2>3 DEF AllocStep
  <2>4. ASSUME NEW r \in Rulesets, CreateHierarchyFails(t, r)
        PROVE  G
    BY <2>4 DEF AllocStep
  <2> QED BY <1>1, <2>1, <2>2, <2>3, <2>4 DEF AllocStep
<1>2. ASSUME NEW t \in Tasks, CallStep(t) PROVE G
  <2>1. ASSUME NEW r \in Rulesets, NEW o \in Objects, NEW allowed \in SUBSET Access,
             AddRule(t, r, o, allowed)
        PROVE  G
    BY <2>1 DEF AddRule, Get
  <2>2. ASSUME NEW r \in Rulesets, Close(t, r)
        PROVE  G
    BY <2>2 DEF Close, Put
  <2>3. ASSUME NEW r \in Rulesets, RestrictSelf(t, r)
        PROVE  G
    BY <2>3 DEF RestrictSelf, Get
  <2>4. ASSUME NEW c \in Creds, ChangeCreds(t, c)
        PROVE  G
    BY <2>4 DEF ChangeCreds, GetDomain, DomainOf
  <2>5. ASSUME NEW c \in Creds, NEW u \in Tasks, Fork(t, u, c)
        PROVE  G
    BY <2>5 DEF Fork, NewCred, GetDomain, DomainOf
  <2>6. ASSUME NEW u \in Tasks, CloneThread(t, u)
        PROVE  G
    BY <2>6 DEF CloneThread
  <2>7. ASSUME NEW p \in Tasks, NEW c \in Tasks, TaskPtrace(t, p, c)
        PROVE  G
    BY <2>7 DEF TaskPtrace
  <2>8. CASE Exit(t)
    BY <2>8 DEF Exit, PutCred
  <2> QED BY <1>2, <2>1, <2>2, <2>3, <2>4, <2>5, <2>6, <2>7, <2>8 DEF CallStep
<1>3. ASSUME NEW t \in Tasks, LockStep(t) PROVE G
  <2>1. CASE AppendFsRule(t)
    BY <2>1 DEF AppendFsRule, InsertRule
  <2>2. CASE InheritLock(t)
    BY <2>2 DEF InheritLock, Unlocked, Lock, RulesOf
  <2>3. CASE MergeLock(t)
    BY <2>3 DEF MergeLock, Unlocked, Lock, RulesOf
  <2> QED BY <1>3, <2>1, <2>2, <2>3 DEF LockStep
<1>4. ASSUME NEW t \in Tasks, KernelStep(t) PROVE G
  <2>1. CASE AppendFsRuleFails(t)
    BY <2>1 DEF AppendFsRuleFails
  <2>2. CASE PutRuleset(t)
    BY <2>2 DEF PutRuleset, Put
  <2>3. ASSUME NEW c \in Creds, PrepareCreds(t, c)
        PROVE  G
    BY <2>3 DEF PrepareCreds, NewCred, GetDomain, DomainOf
  <2>4. CASE PrepareCredsFails(t)
    BY <2>4 DEF PrepareCredsFails
  <2>5. CASE MergeFails(t)
    BY <2>5 DEF MergeFails
  <2>6. ASSUME NEW o \in Objects, InheritRule(t, o)
        PROVE  G
    BY <2>6 DEF InheritRule, InsertRule
  <2>7. ASSUME NEW o \in Objects, MergeRule(t, o)
        PROVE  G
    BY <2>7 DEF MergeRule, InsertRule
  <2>8. CASE InheritFails(t)
    BY <2>8 DEF InheritFails, Unlock
  <2>9. CASE InheritDone(t)
    BY <2>9 DEF InheritDone, Unlock
  <2>10. CASE MergeRuleFails(t)
    BY <2>10 DEF MergeRuleFails, Unlock
  <2>11. CASE MergeDone(t)
    BY <2>11 DEF MergeDone, Unlock
  <2>12. CASE PutDom(t)
    BY <2>12 DEF PutDom, Put
  <2>13. CASE ReplaceDomain(t)
    BY <2>13 DEF ReplaceDomain, Put
  <2>14. CASE AssignDomain(t)
    BY <2>14 DEF AssignDomain
  <2>15. CASE CommitCreds(t)
    BY <2>15 DEF CommitCreds, PutCred
  <2>16. CASE AbortCreds(t)
    BY <2>16 DEF AbortCreds, PutCred
  <2>17. CASE TaskIsScoped(t)
    BY <2>17 DEF TaskIsScoped, DomainOf
  <2>18. CASE DomChild(t)
    BY <2>18 DEF DomChild, DomainOf
  <2>19. CASE DomainScopeLe(t)
    BY <2>19 DEF DomainScopeLe, ScopeDecided
  <2> QED BY <1>4, <2>1, <2>2, <2>3, <2>4, <2>5, <2>6, <2>7, <2>8, <2>9, <2>10, <2>11, <2>12, <2>13, <2>14, <2>15, <2>16, <2>17, <2>18, <2>19 DEF KernelStep
<1>5. ASSUME NEW t \in Threads, FreeStep(t) PROVE G
  <2>1. CASE FreeRuleset(t)
    BY <2>1
  <2>2. CASE PutHierarchy(t)
    BY <2>2 DEF PutHierarchy
  <2>3. CASE Kfree(t)
    BY <2>3
  <2> QED BY <1>5, <2>1, <2>2, <2>3 DEF FreeStep
<1>6. ASSUME NEW c \in Creds, CredFree(c) PROVE G
  BY <1>6 DEF CredFree
<1>7. ASSUME NEW r \in Rulesets, FreeRulesetWork(r) PROVE G
  BY <1>7 DEF FreeRulesetWork
<1>8. CASE UNCHANGED vars
  BY <1>8 DEF vars
<1> QED BY <1>1, <1>2, <1>3, <1>4, <1>5, <1>6, <1>7, <1>8 DEF Next

\* The steps that take or release mutexes.
MutexStep(t) ==
    \/ InheritLock(t) \/ InheritFails(t) \/ InheritDone(t)
    \/ MergeLock(t) \/ MergeRuleFails(t) \/ MergeDone(t)

\* A task on a walk, or one that is not.
WalkFrame(x) ==
    /\ UNCHANGED rlock
    /\ pc[x] \in WalkLabels \/ pc'[x] \in WalkLabels =>
          pc'[x] = pc[x] /\ newdom'[x] = newdom[x] /\ rs'[x] = rs[x] /\ ncred'[x] = ncred[x]

\* Between two steps with a mutex, a walk keeps its locals.
LEMMA WalkMoves ==
    ASSUME Core, [Next]_vars, NEW x \in Tasks
    PROVE  WalkFrame(x) \/ \E y \in Tasks : MutexStep(y)
<1> USE DEF Core, Types, Control, CallLocals, FreeLocals, Returns, WalkFrame, MutexStep,
    WalkLabels, FreeLabels, Threads, OrNull, At, Goto, Idle,
    rvars, hvars, cvars, locals, frvars, ptvars, ghosts, Alloc
<1>1. ASSUME NEW t \in Tasks, AllocStep(t) PROVE WalkFrame(x) \/ \E y \in Tasks : MutexStep(y)
  <2>1. ASSUME NEW r \in Rulesets, NEW handled \in SUBSET Access, CreateRuleset(t, r, handled)
        PROVE  WalkFrame(x) \/ \E y \in Tasks : MutexStep(y)
    BY <2>1 DEF CreateRuleset
  <2>2. ASSUME NEW r \in Rulesets, NEW handled \in SUBSET Access, CreateRulesetNoFd(t, r, handled)
        PROVE  WalkFrame(x) \/ \E y \in Tasks : MutexStep(y)
    BY <2>2 DEF CreateRulesetNoFd
  <2>3. ASSUME NEW r \in Rulesets, NEW h \in Hierarchies, CreateDomain(t, r, h)
        PROVE  WalkFrame(x) \/ \E y \in Tasks : MutexStep(y)
    BY <2>3 DEF CreateDomain
  <2>4. ASSUME NEW r \in Rulesets, CreateHierarchyFails(t, r)
        PROVE  WalkFrame(x) \/ \E y \in Tasks : MutexStep(y)
    BY <2>4 DEF CreateHierarchyFails
  <2> QED BY <1>1, <2>1, <2>2, <2>3, <2>4 DEF AllocStep
<1>2. ASSUME NEW t \in Tasks, CallStep(t) PROVE WalkFrame(x) \/ \E y \in Tasks : MutexStep(y)
  <2>1. ASSUME NEW r \in Rulesets, NEW o \in Objects, NEW allowed \in SUBSET Access,
             AddRule(t, r, o, allowed)
        PROVE  WalkFrame(x) \/ \E y \in Tasks : MutexStep(y)
    BY <2>1 DEF AddRule, Get
  <2>2. ASSUME NEW r \in Rulesets, Close(t, r)
        PROVE  WalkFrame(x) \/ \E y \in Tasks : MutexStep(y)
    BY <2>2 DEF Close, Put
  <2>3. ASSUME NEW r \in Rulesets, RestrictSelf(t, r)
        PROVE  WalkFrame(x) \/ \E y \in Tasks : MutexStep(y)
    BY <2>3 DEF RestrictSelf, Get
  <2>4. ASSUME NEW c \in Creds, ChangeCreds(t, c)
        PROVE  WalkFrame(x) \/ \E y \in Tasks : MutexStep(y)
    BY <2>4 DEF ChangeCreds, GetDomain, DomainOf
  <2>5. ASSUME NEW c \in Creds, NEW u \in Tasks, Fork(t, u, c)
        PROVE  WalkFrame(x) \/ \E y \in Tasks : MutexStep(y)
    BY <2>5 DEF Fork, NewCred, GetDomain, DomainOf
  <2>6. ASSUME NEW u \in Tasks, CloneThread(t, u)
        PROVE  WalkFrame(x) \/ \E y \in Tasks : MutexStep(y)
    BY <2>6 DEF CloneThread
  <2>7. ASSUME NEW p \in Tasks, NEW c \in Tasks, TaskPtrace(t, p, c)
        PROVE  WalkFrame(x) \/ \E y \in Tasks : MutexStep(y)
    BY <2>7 DEF TaskPtrace
  <2>8. CASE Exit(t)
    BY <2>8 DEF Exit, PutCred
  <2> QED BY <1>2, <2>1, <2>2, <2>3, <2>4, <2>5, <2>6, <2>7, <2>8 DEF CallStep
<1>3. ASSUME NEW t \in Tasks, LockStep(t) PROVE WalkFrame(x) \/ \E y \in Tasks : MutexStep(y)
  <2>1. CASE AppendFsRule(t)
    BY <2>1 DEF AppendFsRule, InsertRule
  <2>2. CASE InheritLock(t)
    BY <2>2 DEF InheritLock, Unlocked, Lock, RulesOf
  <2>3. CASE MergeLock(t)
    BY <2>3 DEF MergeLock, Unlocked, Lock, RulesOf
  <2> QED BY <1>3, <2>1, <2>2, <2>3 DEF LockStep
<1>4. ASSUME NEW t \in Tasks, KernelStep(t) PROVE WalkFrame(x) \/ \E y \in Tasks : MutexStep(y)
  <2>1. CASE AppendFsRuleFails(t)
    BY <2>1 DEF AppendFsRuleFails
  <2>2. CASE PutRuleset(t)
    BY <2>2 DEF PutRuleset, Put
  <2>3. ASSUME NEW c \in Creds, PrepareCreds(t, c)
        PROVE  WalkFrame(x) \/ \E y \in Tasks : MutexStep(y)
    BY <2>3 DEF PrepareCreds, NewCred, GetDomain, DomainOf
  <2>4. CASE PrepareCredsFails(t)
    BY <2>4 DEF PrepareCredsFails
  <2>5. CASE MergeFails(t)
    BY <2>5 DEF MergeFails
  <2>6. ASSUME NEW o \in Objects, InheritRule(t, o)
        PROVE  WalkFrame(x) \/ \E y \in Tasks : MutexStep(y)
    BY <2>6 DEF InheritRule, InsertRule
  <2>7. ASSUME NEW o \in Objects, MergeRule(t, o)
        PROVE  WalkFrame(x) \/ \E y \in Tasks : MutexStep(y)
    BY <2>7 DEF MergeRule, InsertRule
  <2>8. CASE InheritFails(t)
    BY <2>8 DEF InheritFails, Unlock
  <2>9. CASE InheritDone(t)
    BY <2>9 DEF InheritDone, Unlock
  <2>10. CASE MergeRuleFails(t)
    BY <2>10 DEF MergeRuleFails, Unlock
  <2>11. CASE MergeDone(t)
    BY <2>11 DEF MergeDone, Unlock
  <2>12. CASE PutDom(t)
    BY <2>12 DEF PutDom, Put
  <2>13. CASE ReplaceDomain(t)
    BY <2>13 DEF ReplaceDomain, Put
  <2>14. CASE AssignDomain(t)
    BY <2>14 DEF AssignDomain
  <2>15. CASE CommitCreds(t)
    BY <2>15 DEF CommitCreds, PutCred
  <2>16. CASE AbortCreds(t)
    BY <2>16 DEF AbortCreds, PutCred
  <2>17. CASE TaskIsScoped(t)
    BY <2>17 DEF TaskIsScoped, DomainOf
  <2>18. CASE DomChild(t)
    BY <2>18 DEF DomChild, DomainOf
  <2>19. CASE DomainScopeLe(t)
    BY <2>19 DEF DomainScopeLe, ScopeDecided
  <2> QED BY <1>4, <2>1, <2>2, <2>3, <2>4, <2>5, <2>6, <2>7, <2>8, <2>9, <2>10, <2>11, <2>12, <2>13, <2>14, <2>15, <2>16, <2>17, <2>18, <2>19 DEF KernelStep
<1>5. ASSUME NEW t \in Threads, FreeStep(t) PROVE WalkFrame(x) \/ \E y \in Tasks : MutexStep(y)
  <2>1. CASE FreeRuleset(t)
    BY <2>1 DEF FreeRuleset
  <2>2. CASE PutHierarchy(t)
    BY <2>2 DEF PutHierarchy
  <2>3. CASE Kfree(t)
    BY <2>3 DEF Kfree
  <2> QED BY <1>5, <2>1, <2>2, <2>3 DEF FreeStep
<1>6. ASSUME NEW c \in Creds, CredFree(c) PROVE WalkFrame(x) \/ \E y \in Tasks : MutexStep(y)
  BY <1>6 DEF CredFree
<1>7. ASSUME NEW r \in Rulesets, FreeRulesetWork(r) PROVE WalkFrame(x) \/ \E y \in Tasks : MutexStep(y)
  BY <1>7 DEF FreeRulesetWork
<1>8. CASE UNCHANGED vars
  BY <1>8 DEF vars
<1> QED BY <1>1, <1>2, <1>3, <1>4, <1>5, <1>6, <1>7, <1>8 DEF Next

StackLabels == {"inherit_lock", "inherit", "merge_lock", "merge_rules", "replace", "assign"}

StackFrame(x) ==
    /\ Label(x)' = Label(x) /\ newdom'[x] = newdom[x] /\ ncred'[x] = ncred[x] /\ todo'[x] = todo[x]
    /\ Label(x) = "merge_rules" => rs'[x] = rs[x]

StackStep(x) ==
    \/ \E r \in Rulesets, h \in Hierarchies : CreateDomain(x, r, h)
    \/ InheritLock(x) \/ InheritDone(x) \/ MergeLock(x) \/ MergeDone(x)
    \/ \E o \in Objects : InheritRule(x, o) \/ MergeRule(x, o)
    \/ ReplaceDomain(x) \/ AssignDomain(x) \/ PutRuleset(x)

\* What becomes of a domain under construction.
StackMove(x) ==
    \/ StackFrame(x) \/ StackStep(x)
    \/ Label(x)' \notin StackLabels /\ ~Committing(x)'

\* Only its own task takes it further.
LEMMA StackMoves ==
    ASSUME Core, [Next]_vars, NEW x \in Tasks
    PROVE  StackMove(x)
<1> USE RulesetAssumption, Using DEF Core, Types, Control, StackMove, StackFrame, StackLabels, Committing,
    Returns, Threads, Label, At, Goto, Idle, CallLocals, FreeLocals, Labels, CallLabels, DomainLabels,
    WalkLabels, PtraceLabels, FreeLabels, Prepared,
    rvars, hvars, cvars, locals, frvars, ptvars, ghosts, Alloc
<1>1. ASSUME NEW t \in Tasks, AllocStep(t) PROVE StackMove(x)
  <2>1. ASSUME NEW r \in Rulesets, NEW handled \in SUBSET Access, CreateRuleset(t, r, handled)
        PROVE  StackMove(x)
    BY <2>1 DEF CreateRuleset
  <2>2. ASSUME NEW r \in Rulesets, NEW handled \in SUBSET Access, CreateRulesetNoFd(t, r, handled)
        PROVE  StackMove(x)
    BY <2>2 DEF CreateRulesetNoFd
  <2>3. ASSUME NEW r \in Rulesets, NEW h \in Hierarchies, CreateDomain(t, r, h)
        PROVE  StackMove(x)
    <3>1. CASE x = t
      BY <2>3, <3>1 DEF StackStep
    <3>2. CASE x # t
      BY <2>3, <3>2 DEF CreateDomain
    <3> QED BY <3>1, <3>2
  <2>4. ASSUME NEW r \in Rulesets, CreateHierarchyFails(t, r)
        PROVE  StackMove(x)
    BY <2>4 DEF CreateHierarchyFails
  <2> QED BY <1>1, <2>1, <2>2, <2>3, <2>4 DEF AllocStep
<1>2. ASSUME NEW t \in Tasks, CallStep(t) PROVE StackMove(x)
  <2>1. ASSUME NEW r \in Rulesets, NEW o \in Objects, NEW allowed \in SUBSET Access,
             AddRule(t, r, o, allowed)
        PROVE  StackMove(x)
    BY <2>1 DEF AddRule, Get
  <2>2. ASSUME NEW r \in Rulesets, Close(t, r)
        PROVE  StackMove(x)
    BY <2>2 DEF Close, Put
  <2>3. ASSUME NEW r \in Rulesets, RestrictSelf(t, r)
        PROVE  StackMove(x)
    BY <2>3 DEF RestrictSelf, Get
  <2>4. ASSUME NEW c \in Creds, ChangeCreds(t, c)
        PROVE  StackMove(x)
    BY <2>4 DEF ChangeCreds, GetDomain, DomainOf
  <2>5. ASSUME NEW c \in Creds, NEW u \in Tasks, Fork(t, u, c)
        PROVE  StackMove(x)
    BY <2>5 DEF Fork, NewCred, GetDomain, DomainOf
  <2>6. ASSUME NEW u \in Tasks, CloneThread(t, u)
        PROVE  StackMove(x)
    BY <2>6 DEF CloneThread
  <2>7. ASSUME NEW p \in Tasks, NEW c \in Tasks, TaskPtrace(t, p, c)
        PROVE  StackMove(x)
    BY <2>7 DEF TaskPtrace
  <2>8. CASE Exit(t)
    BY <2>8 DEF Exit, PutCred
  <2> QED BY <1>2, <2>1, <2>2, <2>3, <2>4, <2>5, <2>6, <2>7, <2>8 DEF CallStep
<1>3. ASSUME NEW t \in Tasks, LockStep(t) PROVE StackMove(x)
  <2>1. CASE AppendFsRule(t)
    BY <2>1 DEF AppendFsRule, InsertRule
  <2>2. CASE InheritLock(t)
    <3>1. CASE x = t
      BY <2>2, <3>1 DEF StackStep
    <3>2. CASE x # t
      BY <2>2, <3>2 DEF InheritLock, Lock
    <3> QED BY <3>1, <3>2
  <2>3. CASE MergeLock(t)
    <3>1. CASE x = t
      BY <2>3, <3>1 DEF StackStep
    <3>2. CASE x # t
      BY <2>3, <3>2 DEF MergeLock
    <3> QED BY <3>1, <3>2
  <2> QED BY <1>3, <2>1, <2>2, <2>3 DEF LockStep
<1>4. ASSUME NEW t \in Tasks, KernelStep(t) PROVE StackMove(x)
  <2>1. CASE AppendFsRuleFails(t)
    BY <2>1 DEF AppendFsRuleFails
  <2>2. CASE PutRuleset(t)
    <3>1. CASE x = t
      BY <2>2, <3>1 DEF StackStep
    <3>2. CASE x # t
      BY <2>2, <3>2 DEF PutRuleset, Put
    <3> QED BY <3>1, <3>2
  <2>3. ASSUME NEW c \in Creds, PrepareCreds(t, c)
        PROVE  StackMove(x)
    BY <2>3 DEF PrepareCreds, NewCred, GetDomain, DomainOf
  <2>4. CASE PrepareCredsFails(t)
    BY <2>4 DEF PrepareCredsFails
  <2>5. CASE MergeFails(t)
    BY <2>5 DEF MergeFails
  <2>6. ASSUME NEW o \in Objects, InheritRule(t, o)
        PROVE  StackMove(x)
    <3>1. CASE x = t
      BY <2>6, <3>1 DEF StackStep
    <3>2. CASE x # t
      BY <2>6, <3>2 DEF InheritRule
    <3> QED BY <3>1, <3>2
  <2>7. ASSUME NEW o \in Objects, MergeRule(t, o)
        PROVE  StackMove(x)
    <3>1. CASE x = t
      BY <2>7, <3>1 DEF StackStep
    <3>2. CASE x # t
      BY <2>7, <3>2 DEF MergeRule
    <3> QED BY <3>1, <3>2
  <2>8. CASE InheritFails(t)
    BY <2>8 DEF InheritFails, Unlock
  <2>9. CASE InheritDone(t)
    <3>1. CASE x = t
      BY <2>9, <3>1 DEF StackStep
    <3>2. CASE x # t
      BY <2>9, <3>2 DEF InheritDone
    <3> QED BY <3>1, <3>2
  <2>10. CASE MergeRuleFails(t)
    BY <2>10 DEF MergeRuleFails, Unlock
  <2>11. CASE MergeDone(t)
    <3>1. CASE x = t
      BY <2>11, <3>1 DEF StackStep
    <3>2. CASE x # t
      BY <2>11, <3>2 DEF MergeDone
    <3> QED BY <3>1, <3>2
  <2>12. CASE PutDom(t)
    BY <2>12 DEF PutDom, Put
  <2>13. CASE ReplaceDomain(t)
    <3>1. CASE x = t
      BY <2>13, <3>1 DEF StackStep
    <3>2. CASE x # t
      BY <2>13, <3>2 DEF ReplaceDomain, Put
    <3> QED BY <3>1, <3>2
  <2>14. CASE AssignDomain(t)
    <3>1. CASE x = t
      BY <2>14, <3>1 DEF StackStep
    <3>2. CASE x # t
      BY <2>14, <3>2 DEF AssignDomain
    <3> QED BY <3>1, <3>2
  <2>15. CASE CommitCreds(t)
    BY <2>15 DEF CommitCreds, PutCred
  <2>16. CASE AbortCreds(t)
    BY <2>16 DEF AbortCreds, PutCred
  <2>17. CASE TaskIsScoped(t)
    BY <2>17 DEF TaskIsScoped, DomainOf
  <2>18. CASE DomChild(t)
    BY <2>18 DEF DomChild, DomainOf
  <2>19. CASE DomainScopeLe(t)
    BY <2>19 DEF DomainScopeLe, ScopeDecided
  <2> QED BY <1>4, <2>1, <2>2, <2>3, <2>4, <2>5, <2>6, <2>7, <2>8, <2>9, <2>10, <2>11, <2>12, <2>13, <2>14, <2>15, <2>16, <2>17, <2>18, <2>19 DEF KernelStep
<1>5. ASSUME NEW t \in Threads, FreeStep(t) PROVE StackMove(x)
  <2>1. CASE FreeRuleset(t)
    BY <2>1 DEF FreeRuleset
  <2>2. CASE PutHierarchy(t)
    BY <2>2 DEF PutHierarchy
  <2>3. CASE Kfree(t)
    BY <2>3 DEF Kfree
  <2> QED BY <1>5, <2>1, <2>2, <2>3 DEF FreeStep
<1>6. ASSUME NEW c \in Creds, CredFree(c) PROVE StackMove(x)
  BY <1>6 DEF CredFree
<1>7. ASSUME NEW r \in Rulesets, FreeRulesetWork(r) PROVE StackMove(x)
  BY <1>7 DEF FreeRulesetWork
<1>8. CASE UNCHANGED vars
  BY <1>8 DEF vars
<1> QED BY <1>1, <1>2, <1>3, <1>4, <1>5, <1>6, <1>7, <1>8 DEF Next
=============================================================================
