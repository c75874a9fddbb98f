-------------------------- MODULE LandlockRuleset ---------------------------
(***************************************************************************)
(* Rulesets, domains and credentials: ruleset.c, the landlock_*() system   *)
(* calls of syscalls.c, the credential hooks of cred.c and the ptrace      *)
(* hooks of ptrace.c.                                                      *)
(*                                                                         *)
(* A ruleset file descriptor refers to a ruleset, a credential to a        *)
(* domain; both are struct landlock_ruleset.  landlock_restrict_self(2)    *)
(* builds a new domain from the caller's domain (inherit_ruleset()) and a  *)
(* ruleset (merge_ruleset()) and commits it with new credentials.  A       *)
(* domain points to its node of the hierarchy of domains, which outlives   *)
(* the domain for the sake of the ptrace checks.                           *)
(*                                                                         *)
(* Other tasks read a task's credentials under RCU; credentials are freed  *)
(* after a grace period, and the last reference to a domain dropped there  *)
(* is freed by a workqueue.                                                *)
(*                                                                         *)
(* Objects stand for the landlock_object of an inode; LandlockObject       *)
(* models their own life.                                                  *)
(***************************************************************************)
EXTENDS Naturals, Sequences, FiniteSets

CONSTANTS
    Rulesets,      \* addresses of struct landlock_ruleset
    Hierarchies,   \* addresses of struct landlock_hierarchy
    Creds,         \* addresses of struct cred
    Tasks,         \* threads of user space
    Tracers,       \* the tasks that call ptrace(2)
    Worker,        \* the workqueue that runs free_ruleset_work()
    Objects,       \* keys of rules
    Access,        \* access rights, LANDLOCK_MASK_ACCESS_FS
    InitiallyDenied, \* ACCESS_INITIALLY_DENIED
    MaxLayers,     \* LANDLOCK_MAX_NUM_LAYERS
    MaxRules,      \* LANDLOCK_MAX_NUM_RULES
    MaxFiles,      \* RLIMIT_NOFILE
    MaxDomains,    \* bound of the model: domains created in a behaviour
    NULL

ASSUME RulesetAssumption ==
    /\ Tracers \subseteq Tasks /\ Worker \notin Tasks
    /\ NULL \notin Rulesets \cup Hierarchies \cup Creds \cup Tasks \cup {Worker}
    /\ IsFiniteSet(Rulesets) /\ IsFiniteSet(Hierarchies)
    /\ IsFiniteSet(Creds) /\ IsFiniteSet(Tasks)
    /\ InitiallyDenied \subseteq Access
    /\ MaxLayers \in Nat \ {0} /\ MaxRules \in Nat
    /\ MaxFiles \in Nat /\ MaxDomains \in Nat

Threads == Tasks \cup {Worker}

VARIABLES
    rstate,   \* memory of a ruleset: "free", "live", "work" (queued), "freeing"
    rusage,   \* ruleset->usage
    rlock,    \* holder of ruleset->lock, or NULL
    masks,    \* ruleset->fs_access_masks[], as long as num_layers
    tree,     \* ruleset->root: the layers of each object's rule, <<>> if none
    hier,     \* ruleset->hierarchy
    husage,   \* hierarchy->usage, 0 once the node is freed
    hparent,  \* hierarchy->parent
    fd,       \* rulesets that an open file refers to
    cstate,   \* memory of a credential: "free", "live" or "rcu" (call_rcu'd)
    cdom,     \* landlock_cred(cred)->domain
    cgp,      \* readers that the credential's grace period waits for
    tcred,    \* task->cred, NULL if there is no such task
    pc,       \* what a thread does next
    rs,       \* local: the ruleset got from the file descriptor
    arg,      \* local of landlock_add_rule(2): the object and its layer
    ncred,    \* local: new_cred
    newdom,   \* local: new_dom
    todo,     \* local: objects that a walk over a rule tree has not visited
    fr,       \* local of free_ruleset(): the ruleset
    wh,       \* local of put_hierarchy(): the node
    ret,      \* where a thread continues after free_ruleset()
    pt,       \* locals of task_ptrace()
    rcu,      \* threads in an RCU read-side critical section
    line,     \* history: the identity of a domain and its ancestors, in order
    nextid    \* history: domains created so far

rvars  == <<rstate, rusage, rlock, masks, tree, hier>>
hvars  == <<husage, hparent>>
cvars  == <<cstate, cdom, cgp, tcred>>
locals == <<rs, arg, ncred, newdom, todo>>
frvars == <<fr, wh, ret>>
ptvars == <<pt, rcu>>
ghosts == <<line, nextid>>
vars == <<rvars, hvars, fd, cvars, pc, locals, frvars, ptvars, ghosts>>

NoRules == [o \in Objects |-> <<>>]
NoPtrace == [parent |-> NULL, child |-> NULL, dom_parent |-> NULL,
             dom_child |-> NULL, walker |-> NULL]

-----------------------------------------------------------------------------

\* One task runs, without a Landlock domain.
Init ==
    /\ rstate = [r \in Rulesets |-> "free"]
    /\ rusage = [r \in Rulesets |-> 0]
    /\ rlock = [r \in Rulesets |-> NULL]
    /\ masks = [r \in Rulesets |-> <<>>]
    /\ tree = [r \in Rulesets |-> NoRules]
    /\ hier = [r \in Rulesets |-> NULL]
    /\ husage = [h \in Hierarchies |-> 0]
    /\ hparent = [h \in Hierarchies |-> NULL]
    /\ fd = {}
    /\ \E t \in Tasks, c \in Creds :
          /\ tcred = [u \in Tasks |-> IF u = t THEN c ELSE NULL]
          /\ cstate = [d \in Creds |-> IF d = c THEN "live" ELSE "free"]
    /\ cdom = [c \in Creds |-> NULL]
    /\ cgp = [c \in Creds |-> {}]
    /\ pc = [t \in Threads |-> "idle"]
    /\ rs = [t \in Tasks |-> NULL]
    /\ arg = [t \in Tasks |-> NULL]
    /\ ncred = [t \in Tasks |-> NULL]
    /\ newdom = [t \in Tasks |-> NULL]
    /\ todo = [t \in Tasks |-> {}]
    /\ fr = [t \in Threads |-> NULL]
    /\ wh = [t \in Threads |-> NULL]
    /\ ret = [t \in Threads |-> "idle"]
    /\ pt = [t \in Tasks |-> NoPtrace]
    /\ rcu = {}
    /\ line = [r \in Rulesets |-> <<>>]
    /\ nextid = 0

At(t, label) == pc[t] = label
Goto(t, label) == pc' = [pc EXCEPT ![t] = label]

\* A running task that is not in the middle of one of the calls below.
Idle(t) == tcred[t] # NULL /\ At(t, "idle")

DomainOf(t) == cdom[tcred[t]]

\* landlock_get_ruleset()
Get(r) == rusage' = [rusage EXCEPT ![r] = @ + 1]

\* landlock_get_ruleset() of a domain that may be NULL
GetDomain(r) == rusage' = IF r = NULL THEN rusage ELSE [rusage EXCEPT ![r] = @ + 1]

\* landlock_put_ruleset(): the thread goes on at next, after free_ruleset()
\* if it put the last reference.
Put(t, r, next) ==
    /\ rusage' = [rusage EXCEPT ![r] = @ - 1]
    /\ IF rusage[r] = 1
       THEN /\ rstate' = [rstate EXCEPT ![r] = "freeing"]
            /\ fr' = [fr EXCEPT ![t] = r]
            /\ ret' = [ret EXCEPT ![t] = next]
            /\ Goto(t, "free_ruleset")
       ELSE Goto(t, next) /\ UNCHANGED <<rstate, fr, ret>>

\* put_cred(): the last user hands the credential over to RCU.
PutCred(c, tcreds, ncreds) ==
    IF c \in {tcreds[t] : t \in Tasks} \cup {ncreds[t] : t \in Tasks}
    THEN UNCHANGED <<cstate, cgp>>
    ELSE /\ cstate' = [cstate EXCEPT ![c] = "rcu"]
         /\ cgp' = [cgp EXCEPT ![c] = rcu]

-----------------------------------------------------------------------------
(* insert_rule(): the layers that the rule of an object has afterwards, and *)
(* the conditions under which it fails or warns.                           *)

NumRules(r) == Cardinality({o \in Objects : tree[r][o] # <<>>})

InsertWarns(r, o, layers) ==
    LET this == tree[r][o] IN
    /\ this # <<>>
    /\ \/ Len(layers) # 1
       \/ /\ layers[1].level = 0
          /\ Len(this) # 1 \/ this[1].level # 0
       \/ /\ layers[1].level # 0
          /\ this[1].level = 0 \/ Len(this) >= MaxLayers

InsertFits(r, o) == tree[r][o] # <<>> \/ NumRules(r) < MaxRules

Inserted(r, o, layers) ==
    LET this == tree[r][o] IN
    IF this = <<>> THEN layers
    ELSE IF layers[1].level = 0
         THEN <<[level |-> 0, access |-> this[1].access \cup layers[1].access]>>
         ELSE Append(this, layers[1])

InsertRule(r, o, layers) ==
    /\ ~InsertWarns(r, o, layers) /\ InsertFits(r, o)
    /\ tree' = [tree EXCEPT ![r][o] = Inserted(r, o, layers)]

-----------------------------------------------------------------------------
(* landlock_create_ruleset(2), landlock_add_rule(2), close(2) of a ruleset *)

Alloc(r, layers, h) ==
    /\ rstate[r] = "free"
    /\ rstate' = [rstate EXCEPT ![r] = "live"]
    /\ rusage' = [rusage EXCEPT ![r] = 1]
    /\ masks' = [masks EXCEPT ![r] = layers]
    /\ tree' = [tree EXCEPT ![r] = NoRules]
    /\ hier' = [hier EXCEPT ![r] = h]
    /\ UNCHANGED rlock

CreateRuleset(t, r, handled) ==
    /\ Idle(t) /\ handled # {}
    /\ Cardinality(fd) < MaxFiles
    /\ Alloc(r, <<handled>>, NULL)
    /\ fd' = fd \cup {r}
    /\ UNCHANGED <<hvars, cvars, pc, locals, frvars, ptvars, ghosts>>

\* anon_inode_getfd() fails: the ruleset is put at once.
CreateRulesetNoFd(t, r, handled) ==
    /\ Idle(t) /\ handled # {}
    /\ Alloc(r, <<handled>>, NULL)
    /\ rs' = [rs EXCEPT ![t] = r]
    /\ Goto(t, "put_ruleset")
    /\ UNCHANGED <<hvars, fd, cvars, arg, ncred, newdom, todo, frvars, ptvars,
                   ghosts>>

\* landlock_append_fs_rule(): rights that the ruleset does not handle are
\* allowed, except the initially denied ones.
AbsoluteAccess(r, allowed) ==
    allowed \cup (Access \ (masks[r][1] \cup InitiallyDenied))

\* get_ruleset_from_fd() and the checks of the attributes.  A failed check
\* (of the rule type, of the rights, of the path) only puts the ruleset.
AddRule(t, r, o, allowed) ==
    /\ Idle(t) /\ r \in fd
    /\ Get(r)
    /\ rs' = [rs EXCEPT ![t] = r]
    /\ IF allowed # {} /\ allowed \subseteq masks[r][1]
       THEN /\ arg' = [arg EXCEPT ![t] =
                  <<o, <<[level |-> 0, access |-> AbsoluteAccess(r, allowed)]>> >>]
            /\ Goto(t, "insert_rule")
       ELSE Goto(t, "put_ruleset") /\ UNCHANGED arg
    /\ UNCHANGED <<rstate, rlock, masks, tree, hier, hvars, fd, cvars, ncred,
                   newdom, todo, frvars, ptvars, ghosts>>

\* landlock_insert_rule() with the mutex of the ruleset held.
AppendFsRule(t) ==
    /\ At(t, "insert_rule")
    /\ rlock[rs[t]] = NULL
    /\ InsertRule(rs[t], arg[t][1], arg[t][2])
    /\ arg' = [arg EXCEPT ![t] = NULL]
    /\ Goto(t, "put_ruleset")
    /\ UNCHANGED <<rstate, rusage, rlock, masks, hier, hvars, fd, cvars, rs, ncred,
                   newdom, todo, frvars, ptvars, ghosts>>

\* get_inode_object() or landlock_insert_rule() fails (-ENOMEM, -E2BIG).
AppendFsRuleFails(t) ==
    /\ At(t, "insert_rule")
    /\ arg' = [arg EXCEPT ![t] = NULL]
    /\ Goto(t, "put_ruleset")
    /\ UNCHANGED <<rvars, hvars, fd, cvars, rs, ncred, newdom, todo, frvars, ptvars,
                   ghosts>>

\* out_put_ruleset: of the three system calls; landlock_restrict_self(2)
\* goes on with commit_creds() if it succeeded.
PutRuleset(t) ==
    /\ At(t, "put_ruleset")
    /\ Put(t, rs[t], IF ncred[t] # NULL THEN "commit_creds" ELSE "idle")
    /\ rs' = [rs EXCEPT ![t] = NULL]
    /\ UNCHANGED <<rlock, masks, tree, hier, hvars, fd, cvars, arg, ncred, newdom,
                   todo, wh, ptvars, ghosts>>

\* fop_ruleset_release(), by any task that shares the descriptor table.
Close(t, r) ==
    /\ Idle(t) /\ r \in fd
    /\ fd' = fd \ {r}
    /\ Put(t, r, "idle")
    /\ UNCHANGED <<rlock, masks, tree, hier, hvars, cvars, locals, wh, ptvars,
                   ghosts>>

-----------------------------------------------------------------------------
(* landlock_restrict_self(2) up to the merge                               *)
\* Mutant: get_ruleset_from_fd() takes no reference.
MutRestrictSelf(t, r) ==
    /\ Idle(t) /\ r \in fd
    /\ rs' = [rs EXCEPT ![t] = r]
    /\ Goto(t, "prepare_creds")
    /\ UNCHANGED <<rvars, hvars, fd, cvars, arg, ncred, newdom, todo, frvars,
                   ptvars, ghosts>>

RestrictSelf(t, r) ==
    /\ Idle(t) /\ r \in fd
    /\ Get(r)
    /\ rs' = [rs EXCEPT ![t] = r]
    /\ Goto(t, "prepare_creds")
    /\ UNCHANGED <<rstate, rlock, masks, tree, hier, hvars, fd, cvars, arg,
                   ncred, newdom, todo, frvars, ptvars, ghosts>>

\* A credential for t's domain: hook_cred_prepare(), hook_cred_transfer().
NewCred(t, c) ==
    /\ cstate[c] = "free"
    /\ cdom' = [cdom EXCEPT ![c] = DomainOf(t)]
    /\ GetDomain(DomainOf(t))

PrepareCreds(t, c) ==
    /\ At(t, "prepare_creds")
    /\ NewCred(t, c)
    /\ cstate' = [cstate EXCEPT ![c] = "live"]
    /\ ncred' = [ncred EXCEPT ![t] = c]
    /\ Goto(t, "merge")
    /\ UNCHANGED <<rstate, rlock, masks, tree, hier, hvars, fd, cgp, tcred, rs,
                   arg, newdom, todo, frvars, ptvars, ghosts>>

PrepareCredsFails(t) ==
    /\ At(t, "prepare_creds")
    /\ Goto(t, "put_ruleset")
    /\ UNCHANGED <<rvars, hvars, fd, cvars, locals, frvars, ptvars, ghosts>>

Parent(t) == cdom[ncred[t]]

\* Mutant: the failed merge is retried.
MutMergeFails(t) ==
    /\ At(t, "merge")
    /\ UNCHANGED vars

\* -E2BIG, or -ENOMEM from create_ruleset()
MergeFails(t) ==
    /\ At(t, "merge")
    /\ Goto(t, "abort_creds")
    /\ UNCHANGED <<rvars, hvars, fd, cvars, locals, frvars, ptvars, ghosts>>

\* The size of the new domain, if landlock_merge_ruleset() accepts it.
NewLayers(t) ==
    IF Parent(t) = NULL THEN 1 ELSE Len(masks[Parent(t)]) + 1

MayMerge(t) == Parent(t) # rs[t] /\ NewLayers(t) <= MaxLayers

CreateDomain(t, d, h) ==
    /\ At(t, "merge") /\ MayMerge(t)
    /\ nextid < MaxDomains
    /\ husage[h] = 0
    /\ Alloc(d, [i \in 1..NewLayers(t) |-> {}], h)
    /\ husage' = [husage EXCEPT ![h] = 1]
    /\ hparent' = [hparent EXCEPT ![h] = NULL]
    /\ newdom' = [newdom EXCEPT ![t] = d]
    /\ Goto(t, IF Parent(t) = NULL THEN "merge_lock" ELSE "inherit_lock")
    /\ nextid' = nextid + 1
    /\ line' = [line EXCEPT ![d] =
           IF Parent(t) = NULL THEN <<nextid>> ELSE Append(line[Parent(t)], nextid)]
    /\ UNCHANGED <<fd, cvars, rs, arg, ncred, todo, frvars, ptvars>>

\* The domain is allocated, its hierarchy node is not.
CreateHierarchyFails(t, d) ==
    /\ At(t, "merge") /\ MayMerge(t)
    /\ Alloc(d, [i \in 1..NewLayers(t) |-> {}], NULL)
    /\ newdom' = [newdom EXCEPT ![t] = d]
    /\ Goto(t, "put_dom")
    /\ UNCHANGED <<hvars, fd, cvars, rs, arg, ncred, todo, frvars, ptvars, ghosts>>

-----------------------------------------------------------------------------
(* inherit_ruleset() and merge_ruleset(): walks over the parent's and over *)
(* the ruleset's tree, with both mutexes held.  The new domain's mutex is  *)
(* always free because its owner is the only one to know it.               *)

Lock(t, r) == rlock' = [rlock EXCEPT ![r] = t, ![newdom[t]] = t]
Unlock(t, r) == rlock' = [rlock EXCEPT ![r] = NULL, ![newdom[t]] = NULL]
Unlocked(t, r) == rlock[r] = NULL /\ rlock[newdom[t]] = NULL

RulesOf(r) == {o \in Objects : tree[r][o] # <<>>}

InheritLock(t) ==
    /\ At(t, "inherit_lock")
    /\ Unlocked(t, Parent(t)) /\ Lock(t, Parent(t))
    /\ todo' = [todo EXCEPT ![t] = RulesOf(Parent(t))]
    /\ Goto(t, "inherit")
    /\ UNCHANGED <<rstate, rusage, masks, tree, hier, hvars, fd, cvars, rs, arg,
                   ncred, newdom, frvars, ptvars, ghosts>>

InheritRule(t, o) ==
    /\ At(t, "inherit") /\ o \in todo[t]
    /\ InsertRule(newdom[t], o, tree[Parent(t)][o])
    /\ todo' = [todo EXCEPT ![t] = @ \ {o}]
    /\ UNCHANGED <<rstate, rusage, rlock, masks, hier, hvars, fd, cvars, pc, rs,
                   arg, ncred, newdom, frvars, ptvars, ghosts>>

InheritFails(t) ==
    /\ At(t, "inherit") /\ todo[t] # {}
    /\ Unlock(t, Parent(t))
    /\ todo' = [todo EXCEPT ![t] = {}]
    /\ Goto(t, "put_dom")
    /\ UNCHANGED <<rstate, rusage, masks, tree, hier, hvars, fd, cvars, rs, arg,
                   ncred, newdom, frvars, ptvars, ghosts>>
\* Mutant: no get_hierarchy().
MutInheritDone(t) ==
    /\ At(t, "inherit") /\ todo[t] = {}
    /\ LET p == Parent(t)  d == newdom[t]  IN
       /\ masks' = [masks EXCEPT ![d] =
              [i \in DOMAIN @ |-> IF i <= Len(masks[p]) THEN masks[p][i] ELSE @[i]]]
       /\ hparent' = [hparent EXCEPT ![hier[d]] = hier[p]]
    /\ Unlock(t, Parent(t))
    /\ Goto(t, "merge_lock")
    /\ UNCHANGED <<husage, rstate, rusage, tree, hier, fd, cvars, locals,
                   frvars, ptvars, ghosts>>

\* Mutant: the hierarchy node gets no parent.
MutInheritDoneNoParent(t) ==
    /\ At(t, "inherit") /\ todo[t] = {}
    /\ LET p == Parent(t)  d == newdom[t]  IN
       /\ masks' = [masks EXCEPT ![d] =
              [i \in DOMAIN @ |-> IF i <= Len(masks[p]) THEN masks[p][i] ELSE @[i]]]
       /\ husage' = [husage EXCEPT ![hier[p]] = @ + 1]
    /\ Unlock(t, Parent(t))
    /\ Goto(t, "merge_lock")
    /\ UNCHANGED <<hparent, rstate, rusage, tree, hier, fd, cvars, locals,
                   frvars, ptvars, ghosts>>

\* Mutant: the parent's layer stack is not copied.
MutInheritDoneNoMasks(t) ==
    /\ At(t, "inherit") /\ todo[t] = {}
    /\ LET p == Parent(t)  d == newdom[t]  IN
       /\ husage' = [husage EXCEPT ![hier[p]] = @ + 1]
       /\ hparent' = [hparent EXCEPT ![hier[d]] = hier[p]]
    /\ Unlock(t, Parent(t))
    /\ Goto(t, "merge_lock")
    /\ UNCHANGED <<masks, rstate, rusage, tree, hier, fd, cvars, locals,
                   frvars, ptvars, ghosts>>

\* The parent's masks are copied and its hierarchy becomes the parent node.
InheritDone(t) ==
    /\ At(t, "inherit") /\ todo[t] = {}
    /\ LET p == Parent(t)  d == newdom[t]  IN
       /\ masks' = [masks EXCEPT ![d] =
              [i \in DOMAIN @ |-> IF i <= Len(masks[p]) THEN masks[p][i] ELSE @[i]]]
       /\ husage' = [husage EXCEPT ![hier[p]] = @ + 1]
       /\ hparent' = [hparent EXCEPT ![hier[d]] = hier[p]]
    /\ Unlock(t, Parent(t))
    /\ Goto(t, "merge_lock")
    /\ UNCHANGED <<rstate, rusage, tree, hier, fd, cvars, locals, frvars, ptvars,
                   ghosts>>
\* Mutant: only the new domain's mutex is taken.
MutMergeLock(t) ==
    /\ At(t, "merge_lock")
    /\ rlock' = [rlock EXCEPT ![newdom[t]] = t]
    /\ masks' = [masks EXCEPT ![newdom[t]][Len(masks[newdom[t]])] = masks[rs[t]][1]]
    /\ todo' = [todo EXCEPT ![t] = RulesOf(rs[t])]
    /\ Goto(t, "merge_rules")
    /\ UNCHANGED <<rstate, rusage, tree, hier, hvars, fd, cvars, rs, arg, ncred,
                   newdom, frvars, ptvars, ghosts>>

MergeLock(t) ==
    /\ At(t, "merge_lock")
    /\ Unlocked(t, rs[t]) /\ Lock(t, rs[t])
    /\ masks' = [masks EXCEPT ![newdom[t]][Len(masks[newdom[t]])] = masks[rs[t]][1]]
    /\ todo' = [todo EXCEPT ![t] = RulesOf(rs[t])]
    /\ Goto(t, "merge_rules")
    /\ UNCHANGED <<rstate, rusage, tree, hier, hvars, fd, cvars, rs, arg, ncred,
                   newdom, frvars, ptvars, ghosts>>
\* Mutant: levels start at 0.
MutMergedLayer(t, o) ==
    <<[level |-> Len(masks[newdom[t]]) - 1, access |-> tree[rs[t]][o][1].access]>>

\* The layer that a rule of the ruleset adds to the new domain.
MergedLayer(t, o) ==
    <<[level |-> Len(masks[newdom[t]]), access |-> tree[rs[t]][o][1].access]>>

MergeRule(t, o) ==
    /\ At(t, "merge_rules") /\ o \in todo[t]
    /\ InsertRule(newdom[t], o, MergedLayer(t, o))
    /\ todo' = [todo EXCEPT ![t] = @ \ {o}]
    /\ UNCHANGED <<rstate, rusage, rlock, masks, hier, hvars, fd, cvars, pc, rs,
                   arg, ncred, newdom, frvars, ptvars, ghosts>>

MergeRuleFails(t) ==
    /\ At(t, "merge_rules") /\ todo[t] # {}
    /\ Unlock(t, rs[t])
    /\ todo' = [todo EXCEPT ![t] = {}]
    /\ Goto(t, "put_dom")
    /\ UNCHANGED <<rstate, rusage, masks, tree, hier, hvars, fd, cvars, rs, arg,
                   ncred, newdom, frvars, ptvars, ghosts>>

MergeDone(t) ==
    /\ At(t, "merge_rules") /\ todo[t] = {}
    /\ Unlock(t, rs[t])
    /\ Goto(t, "replace")
    /\ UNCHANGED <<rstate, rusage, masks, tree, hier, hvars, fd, cvars, locals,
                   frvars, ptvars, ghosts>>

\* out_put_dom: of landlock_merge_ruleset()
PutDom(t) ==
    /\ At(t, "put_dom")
    /\ Put(t, newdom[t], "abort_creds")
    /\ newdom' = [newdom EXCEPT ![t] = NULL]
    /\ UNCHANGED <<rlock, masks, tree, hier, hvars, fd, cvars, rs, arg, ncred,
                   todo, wh, ptvars, ghosts>>

-----------------------------------------------------------------------------
(* landlock_restrict_self(2) after the merge; credentials of other origin  *)

\* The prepared credential drops the old domain...
ReplaceDomain(t) ==
    /\ At(t, "replace")
    /\ cdom' = [cdom EXCEPT ![ncred[t]] = NULL]
    /\ IF Parent(t) = NULL
       THEN Goto(t, "assign") /\ UNCHANGED <<rusage, rstate, fr, ret>>
       ELSE Put(t, Parent(t), "assign")
    /\ UNCHANGED <<rlock, masks, tree, hier, hvars, fd, cstate, cgp, tcred,
                   locals, wh, ptvars, ghosts>>

\* ...and takes over new_dom.
AssignDomain(t) ==
    /\ At(t, "assign")
    /\ cdom' = [cdom EXCEPT ![ncred[t]] = newdom[t]]
    /\ newdom' = [newdom EXCEPT ![t] = NULL]
    /\ Goto(t, "put_ruleset")
    /\ UNCHANGED <<rvars, hvars, fd, cstate, cgp, tcred, rs, arg, ncred, todo,
                   frvars, ptvars, ghosts>>

CommitCreds(t) ==
    /\ At(t, "commit_creds")
    /\ tcred' = [tcred EXCEPT ![t] = ncred[t]]
    /\ ncred' = [ncred EXCEPT ![t] = NULL]
    /\ PutCred(tcred[t], tcred', ncred')
    /\ Goto(t, "idle")
    /\ UNCHANGED <<rvars, hvars, fd, cdom, rs, arg, newdom, todo, frvars, ptvars,
                   ghosts>>

AbortCreds(t) ==
    /\ At(t, "abort_creds")
    /\ ncred' = [ncred EXCEPT ![t] = NULL]
    /\ PutCred(ncred[t], tcred, ncred')
    /\ Goto(t, "put_ruleset")
    /\ UNCHANGED <<rvars, hvars, fd, cdom, tcred, rs, arg, newdom, todo, frvars,
                   ptvars, ghosts>>

\* fork(2): copy_creds() prepares a credential for the child...
Fork(t, u, c) ==
    /\ Idle(t) /\ tcred[u] = NULL
    /\ NewCred(t, c)
    /\ cstate' = [cstate EXCEPT ![c] = "live"]
    /\ tcred' = [tcred EXCEPT ![u] = c]
    /\ UNCHANGED <<rstate, rlock, masks, tree, hier, hvars, fd, cgp, pc, locals,
                   frvars, ptvars, ghosts>>

\* ...or, for a thread, shares the one of its creator.
CloneThread(t, u) ==
    /\ Idle(t) /\ tcred[u] = NULL
    /\ tcred' = [tcred EXCEPT ![u] = tcred[t]]
    /\ UNCHANGED <<rvars, hvars, fd, cstate, cdom, cgp, pc, locals, frvars, ptvars,
                   ghosts>>

\* execve(2), setuid(2), keyctl(2)...: another credential, the same domain.
ChangeCreds(t, c) ==
    /\ Idle(t)
    /\ cstate[c] = "free"
    /\ cdom' = [cdom EXCEPT ![c] = DomainOf(t)]
    /\ GetDomain(DomainOf(t))
    /\ tcred' = [tcred EXCEPT ![t] = c]
    /\ LET shared == \E u \in Tasks \ {t} : tcred[u] = tcred[t] IN
       /\ cstate' = [cstate EXCEPT ![c] = "live",
                                   ![tcred[t]] = IF shared THEN @ ELSE "rcu"]
       /\ cgp' = IF shared THEN cgp ELSE [cgp EXCEPT ![tcred[t]] = rcu]
    /\ UNCHANGED <<rstate, rlock, masks, tree, hier, hvars, fd, pc, locals, frvars,
                   ptvars, ghosts>>

\* The credential of a task goes with its last reference; a ptrace check
\* holds one on both tasks.  The last task (init) never exits.
Exit(t) ==
    /\ Idle(t)
    /\ \E u \in Tasks \ {t} : tcred[u] # NULL
    /\ \A u \in Tasks : t \notin {pt[u].parent, pt[u].child}
    /\ tcred' = [tcred EXCEPT ![t] = NULL]
    /\ PutCred(tcred[t], tcred', ncred)
    /\ UNCHANGED <<rvars, hvars, fd, cdom, pc, locals, frvars, ptvars, ghosts>>

\* put_cred_rcu(): hook_cred_free() and landlock_put_ruleset_deferred().
CredFree(c) ==
    /\ cstate[c] = "rcu" /\ cgp[c] = {}
    /\ cstate' = [cstate EXCEPT ![c] = "free"]
    /\ cdom' = [cdom EXCEPT ![c] = NULL]
    /\ IF cdom[c] = NULL THEN UNCHANGED <<rusage, rstate>>
       ELSE /\ rusage' = [rusage EXCEPT ![cdom[c]] = @ - 1]
            /\ rstate' = IF rusage[cdom[c]] = 1
                         THEN [rstate EXCEPT ![cdom[c]] = "work"] ELSE rstate
    /\ UNCHANGED <<rlock, masks, tree, hier, hvars, fd, cgp, tcred, pc, locals,
                   frvars, ptvars, ghosts>>

-----------------------------------------------------------------------------
(* free_ruleset(), by the thread that put the last reference or by the     *)
(* workqueue                                                               *)

FreeRulesetWork(r) ==
    /\ At(Worker, "idle") /\ rstate[r] = "work"
    /\ rstate' = [rstate EXCEPT ![r] = "freeing"]
    /\ fr' = [fr EXCEPT ![Worker] = r]
    /\ Goto(Worker, "free_ruleset")
    /\ UNCHANGED <<rusage, rlock, masks, tree, hier, hvars, fd, cvars, locals, wh,
                   ret, ptvars, ghosts>>

FreeRuleset(t) ==
    /\ At(t, "free_ruleset")
    /\ tree' = [tree EXCEPT ![fr[t]] = NoRules]
    /\ wh' = [wh EXCEPT ![t] = hier[fr[t]]]
    /\ hier' = [hier EXCEPT ![fr[t]] = NULL]
    /\ Goto(t, "put_hierarchy")
    /\ UNCHANGED <<rstate, rusage, rlock, masks, hvars, fd, cvars, locals, fr, ret,
                   ptvars, ghosts>>

\* One iteration of the loop of put_hierarchy().
PutHierarchy(t) ==
    /\ At(t, "put_hierarchy") /\ wh[t] # NULL
    /\ husage' = [husage EXCEPT ![wh[t]] = @ - 1]
    /\ IF husage[wh[t]] = 1
       THEN /\ wh' = [wh EXCEPT ![t] = hparent[wh[t]]]
            /\ hparent' = [hparent EXCEPT ![wh[t]] = NULL]
       ELSE wh' = [wh EXCEPT ![t] = NULL] /\ UNCHANGED hparent
    /\ UNCHANGED <<rvars, fd, cvars, pc, locals, fr, ret, ptvars, ghosts>>

Kfree(t) ==
    /\ At(t, "put_hierarchy") /\ wh[t] = NULL
    /\ rstate' = [rstate EXCEPT ![fr[t]] = "free"]
    /\ masks' = [masks EXCEPT ![fr[t]] = <<>>]
    /\ line' = [line EXCEPT ![fr[t]] = <<>>]
    /\ fr' = [fr EXCEPT ![t] = NULL]
    /\ ret' = [ret EXCEPT ![t] = "idle"]
    /\ Goto(t, ret[t])
    /\ UNCHANGED <<rusage, rlock, tree, hier, hvars, fd, cvars, locals, wh, ptvars,
                   nextid>>

-----------------------------------------------------------------------------
(* task_ptrace(): hook_ptrace_access_check() runs it in the tracer (t = p), *)
(* hook_ptrace_traceme() in the tracee (t = c).                            *)

\* landlocked(parent): nothing to check for a task without a domain.
TaskPtrace(t, p, c) ==
    /\ t \in Tracers /\ Idle(t) /\ t \in {p, c} /\ p # c
    /\ tcred[p] # NULL /\ tcred[c] # NULL
    /\ DomainOf(p) # NULL
    /\ pt' = [pt EXCEPT ![t] = [@ EXCEPT !.parent = p, !.child = c]]
    /\ Goto(t, "task_is_scoped")
    /\ UNCHANGED <<rvars, hvars, fd, cvars, locals, frvars, rcu, ghosts>>

\* rcu_read_lock(), dom_parent = landlock_get_task_domain(parent)
TaskIsScoped(t) ==
    /\ At(t, "task_is_scoped")
    /\ rcu' = rcu \cup {t}
    /\ pt' = [pt EXCEPT ![t].dom_parent = DomainOf(pt[t].parent)]
    /\ Goto(t, "dom_child")
    /\ UNCHANGED <<rvars, hvars, fd, cvars, locals, frvars, ghosts>>

\* dom_child = landlock_get_task_domain(child), walker = child->hierarchy
DomChild(t) ==
    /\ At(t, "dom_child")
    /\ LET d == DomainOf(pt[t].child) IN
       pt' = [pt EXCEPT ![t].dom_child = d,
                        ![t].walker = IF d = NULL THEN NULL ELSE hier[d]]
    /\ Goto(t, "domain_scope_le")
    /\ UNCHANGED <<rvars, hvars, fd, cvars, locals, frvars, rcu, ghosts>>

\* The walk ends at the tracer's node (allowed) or above the root (denied).
ScopeDecided(t) == pt[t].walker \in {NULL, hier[pt[t].dom_parent]}

DomainScopeLe(t) ==
    /\ At(t, "domain_scope_le")
    /\ IF ScopeDecided(t)
       THEN /\ pt' = [pt EXCEPT ![t] = NoPtrace]
            /\ rcu' = rcu \ {t}
            /\ cgp' = [c \in Creds |-> cgp[c] \ {t}]
            /\ Goto(t, "idle")
       ELSE /\ pt' = [pt EXCEPT ![t].walker = hparent[@]]
            /\ UNCHANGED <<rcu, cgp, pc>>
    /\ UNCHANGED <<rvars, hvars, fd, cstate, cdom, tcred, locals, frvars, ghosts>>

-----------------------------------------------------------------------------

AllocStep(t) ==
    \E r \in Rulesets :
       \/ \E handled \in SUBSET Access :
             CreateRuleset(t, r, handled) \/ CreateRulesetNoFd(t, r, handled)
       \/ \E h \in Hierarchies : CreateDomain(t, r, h)
       \/ CreateHierarchyFails(t, r)

\* System calls that a task may or may not make.
CallStep(t) ==
    \/ \E r \in Rulesets :
          \/ \E o \in Objects, allowed \in SUBSET Access : AddRule(t, r, o, allowed)
          \/ Close(t, r)
          \/ RestrictSelf(t, r)
    \/ \E c \in Creds : ChangeCreds(t, c) \/ \E u \in Tasks : Fork(t, u, c)
    \/ \E u \in Tasks : CloneThread(t, u)
    \/ \E p, c \in Tasks : TaskPtrace(t, p, c)
    \/ Exit(t)

\* Steps that may have to wait for a mutex.
LockStep(t) == AppendFsRule(t) \/ InheritLock(t) \/ MergeLock(t)

\* The rest of a system call.
KernelStep(t) ==
    \/ AppendFsRuleFails(t) \/ PutRuleset(t)
    \/ \E c \in Creds : PrepareCreds(t, c)
    \/ PrepareCredsFails(t) \/ MergeFails(t)
    \/ \E o \in Objects : InheritRule(t, o) \/ MergeRule(t, o)
    \/ InheritFails(t) \/ InheritDone(t) \/ MergeRuleFails(t) \/ MergeDone(t)
    \/ PutDom(t) \/ ReplaceDomain(t) \/ AssignDomain(t)
    \/ CommitCreds(t) \/ AbortCreds(t)
    \/ TaskIsScoped(t) \/ DomChild(t) \/ DomainScopeLe(t)

FreeStep(t) == FreeRuleset(t) \/ PutHierarchy(t) \/ Kfree(t)

Next ==
    \/ \E t \in Tasks : AllocStep(t) \/ CallStep(t) \/ LockStep(t) \/ KernelStep(t)
    \/ \E t \in Threads : FreeStep(t)
    \/ \E c \in Creds : CredFree(c)
    \/ \E r \in Rulesets : FreeRulesetWork(r)

Spec == Init /\ [][Next]_vars

\* The scheduler keeps every thread running, mutexes are granted in turn,
\* grace periods end once their readers have left and the workqueue runs its
\* queue.  User space promises nothing.
FairSpec ==
    /\ Spec
    /\ \A t \in Tasks : WF_vars(KernelStep(t) \/ FreeStep(t)) /\ SF_vars(LockStep(t))
    /\ WF_vars(FreeStep(Worker))
    /\ \A c \in Creds : WF_vars(CredFree(c))
    /\ \A r \in Rulesets : WF_vars(FreeRulesetWork(r))

-----------------------------------------------------------------------------
(* Properties                                                              *)

WalkLabels == {"inherit", "merge_rules"}
DomainLabels == {"inherit_lock", "merge_lock", "put_dom", "replace", "assign"}
                \cup WalkLabels
CallLabels == {"prepare_creds", "merge", "abort_creds", "put_ruleset",
               "insert_rule"} \cup DomainLabels
PtraceLabels == {"task_is_scoped", "dom_child", "domain_scope_le"}
FreeLabels == {"free_ruleset", "put_hierarchy"}
Labels == {"idle", "commit_creds"} \cup CallLabels \cup PtraceLabels \cup FreeLabels

\* Where a thread is, or where it goes on after free_ruleset().
Label(t) == IF pc[t] \in FreeLabels THEN ret[t] ELSE pc[t]

Layers == Seq([level : Nat, access : SUBSET Access])
OrNull(S) == S \cup {NULL}

\* Types, and which locals a thread uses where: in particular a mutex is held
\* only during the walks of inherit_ruleset() and merge_ruleset(), so every
\* error path releases it.
TypeOK ==
    /\ rstate \in [Rulesets -> {"free", "live", "work", "freeing"}]
    /\ rusage \in [Rulesets -> Nat]
    /\ rlock \in [Rulesets -> OrNull(Tasks)]
    /\ masks \in [Rulesets -> Seq(SUBSET Access)]
    /\ tree \in [Rulesets -> [Objects -> Layers]]
    /\ hier \in [Rulesets -> OrNull(Hierarchies)]
    /\ husage \in [Hierarchies -> Nat]
    /\ hparent \in [Hierarchies -> OrNull(Hierarchies)]
    /\ fd \subseteq Rulesets
    /\ cstate \in [Creds -> {"free", "live", "rcu"}]
    /\ cdom \in [Creds -> OrNull(Rulesets)]
    /\ cgp \in [Creds -> SUBSET Tasks]
    /\ tcred \in [Tasks -> OrNull(Creds)]
    /\ pc \in [Threads -> Labels]
    /\ rs \in [Tasks -> OrNull(Rulesets)]
    /\ ncred \in [Tasks -> OrNull(Creds)]
    /\ newdom \in [Tasks -> OrNull(Rulesets)]
    /\ todo \in [Tasks -> SUBSET Objects]
    /\ fr \in [Threads -> OrNull(Rulesets)]
    /\ wh \in [Threads -> OrNull(Hierarchies)]
    /\ ret \in [Threads -> Labels]
    /\ rcu \subseteq Tasks
    /\ nextid \in 0..MaxDomains
    /\ \A r \in Rulesets : rlock[r] # NULL =>
          /\ pc[rlock[r]] \in WalkLabels
          /\ r \in {newdom[rlock[r]], rs[rlock[r]], Parent(rlock[r])}
    /\ \A t \in Tasks :
          /\ (rs[t] # NULL) <=> (Label(t) \in CallLabels)
          /\ (newdom[t] # NULL) <=> (Label(t) \in DomainLabels)
          /\ (fr[t] # NULL) <=> (pc[t] \in FreeLabels)
          /\ (t \in rcu) <=> (pc[t] \in {"dom_child", "domain_scope_le"})

Count(S) == Cardinality(S)

\* ruleset->usage counts the open file, the calls that got the ruleset from
\* it, the merge that builds a domain and the credentials that hold it: no
\* path of the system calls and hooks leaks or drops twice a reference.
RulesetUsageExact ==
    \A r \in Rulesets :
       rusage[r] = Count({r} \cap fd) + Count({t \in Tasks : rs[t] = r})
                   + Count({t \in Tasks : newdom[t] = r})
                   + Count({c \in Creds : cdom[c] = r})

\* hierarchy->usage counts its own domain, the nodes below it and the loop
\* of put_hierarchy() that is about to drop a reference.
HierarchyUsageExact ==
    \A h \in Hierarchies :
       husage[h] = Count({r \in Rulesets : hier[r] = h})
                   + Count({k \in Hierarchies : hparent[k] = h})
                   + Count({t \in Threads : wh[t] = h})

\* Both counts of ruleset.h are exact through restrictions, failures, ptrace
\* checks, exits and descriptors closed by another thread.
ReferencesExact == RulesetUsageExact /\ HierarchyUsageExact

\* Nobody holds a pointer to a ruleset, a credential or a node of the
\* hierarchy that is freed or waits to be freed: not the system calls while
\* another thread closes the descriptor, not the credentials, and not a
\* ptrace check that reads another task's domain under RCU only.
NoDanglingPointer ==
    /\ \A r \in fd : rstate[r] = "live"
    /\ \A c \in Creds : cdom[c] # NULL => rstate[cdom[c]] = "live"
    /\ \A t \in Tasks :
          /\ rs[t] # NULL => rstate[rs[t]] = "live"
          /\ newdom[t] # NULL => rstate[newdom[t]] = "live"
          /\ tcred[t] # NULL => cstate[tcred[t]] = "live"
          /\ ncred[t] # NULL => cstate[ncred[t]] = "live"
          /\ \A d \in {pt[t].dom_parent, pt[t].dom_child} :
                d # NULL => rstate[d] = "live"
          /\ pt[t].walker # NULL => husage[pt[t].walker] > 0
    /\ \A r \in Rulesets : hier[r] # NULL => husage[hier[r]] > 0
    /\ \A h \in Hierarchies : hparent[h] # NULL => husage[hparent[h]] > 0

\* A rule of a ruleset has one layer, of level 0.  The layers of a domain's
\* rule are sorted by level, each at most the number of layers of the domain,
\* which is what unmask_layers() of fs.c relies on.
LayersOrdered ==
    \A r \in Rulesets, o \in Objects :
       LET layers == tree[r][o]
           n == Len(masks[r])  IN
       rstate[r] = "live" =>
          IF hier[r] = NULL
          THEN layers = <<>> \/ (Len(layers) = 1 /\ layers[1].level = 0)
          ELSE /\ \A i \in 1..Len(layers) : layers[i].level \in 1..n
               /\ \A i \in 2..Len(layers) : layers[i-1].level < layers[i].level

\* No WARN_ON_ONCE() of ruleset.c and syscalls.c fires, whatever the order of
\* the calls: the number of layers is checked before the merge and no object
\* has a rule of the wrong shape.
NoWarning ==
    /\ \A r \in fd : Len(masks[r]) = 1
    /\ \A t \in Tasks :
          /\ At(t, "insert_rule") => ~InsertWarns(rs[t], arg[t][1], arg[t][2])
          /\ At(t, "merge") => Parent(t) # rs[t]
          /\ At(t, "inherit") =>
                /\ Len(masks[newdom[t]]) > Len(masks[Parent(t)])
                /\ hier[Parent(t)] # NULL
                /\ \A o \in todo[t] :
                      ~InsertWarns(newdom[t], o, tree[Parent(t)][o])
          /\ At(t, "merge_rules") =>
                /\ hier[newdom[t]] # NULL /\ Len(masks[rs[t]]) = 1
                /\ \A o \in todo[t] :
                      /\ Len(tree[rs[t]][o]) = 1 /\ tree[rs[t]][o][1].level = 0
                      /\ ~InsertWarns(newdom[t], o, MergedLayer(t, o))

\* A ruleset and the locals of the threads always look as ruleset.c expects them.
WellFormed == TypeOK /\ LayersOrdered /\ NoWarning

LineOf(t) == IF DomainOf(t) = NULL THEN <<>> ELSE line[DomainOf(t)]
IsPrefixOf(s, u) == Len(s) <= Len(u) /\ SubSeq(u, 1, Len(s)) = s

\* When a ptrace check allows the access, the tracee runs under the domain
\* that the tracer had when it was read, or under a descendant of it; when it
\* denies the access, it does not.  Nodes are compared by address while tasks
\* restrict themselves and exit, and freed addresses are used again.
PtraceSound ==
    \A t \in Tasks : At(t, "domain_scope_le") /\ ScopeDecided(t) =>
       LET tracer == line[pt[t].dom_parent]
           tracee == LineOf(pt[t].child)  IN
       /\ (pt[t].walker # NULL) <=> IsPrefixOf(tracer, tracee)
       /\ t = pt[t].parent => tracer = LineOf(t)

-----------------------------------------------------------------------------
(* Refinement of LandlockPolicy                                            *)

LayerAt(r, i, level) ==
    [handled |-> masks[r][i],
     rights |-> [o \in Objects |-> masks[r][i] \cap
         UNION {l.access : l \in {tree[r][o][k] : k \in
                   {j \in 1..Len(tree[r][o]) : tree[r][o][j].level = level}}}]]

Decode(d) ==
    IF d = NULL THEN <<>> ELSE [i \in 1..Len(masks[d]) |-> LayerAt(d, i, i)]

Top(d) == LayerAt(d, Len(masks[d]), Len(masks[d]))

IsRuleset(r) ==
    rstate[r] = "live" /\ hier[r] = NULL /\ \A t \in Tasks : newdom[t] # r

MappedContent ==
    [r \in Rulesets |-> IF IsRuleset(r) THEN LayerAt(r, 1, 0) ELSE NULL]

MappedPolicy ==
    [t \in Tasks |-> IF tcred[t] = NULL THEN NULL ELSE Decode(DomainOf(t))]

\* The copy is taken when the mutex of the ruleset is, and lives in the
\* ruleset until merge_ruleset() is done.
MappedCopied ==
    [t \in Tasks |->
        IF Label(t) = "merge_rules" THEN LayerAt(rs[t], 1, 0)
        ELSE IF Label(t) \in {"replace", "assign"} THEN Top(newdom[t])
        ELSE IF Label(t) \in {"put_ruleset", "commit_creds"} /\ ncred[t] # NULL
        THEN Top(cdom[ncred[t]]) ELSE NULL]

Policy == INSTANCE LandlockPolicy WITH
    content <- MappedContent, policy <- MappedPolicy, copied <- MappedCopied,
    None <- NULL

\* NULL is neither a layer nor a stack of layers.
ASSUME NullAssumption ==
    /\ NULL \notin Policy!Layer
    /\ \A n \in 0..MaxLayers : NULL \notin [1..n -> Policy!Layer]

\* Rulesets, domains and credentials implement LandlockPolicy: a successful
\* landlock_restrict_self(2) stacks exactly one layer on the caller's policy,
\* a consistent copy of the ruleset although other threads add rules to it
\* meanwhile; a failed one changes nothing; and no policy changes otherwise.
ImplementsPolicy == Policy!PolicySpec

-----------------------------------------------------------------------------
(* Liveness                                                                *)

\* landlock_restrict_self(2) returns: no walk is left with a mutex held and
\* the mutexes of a domain and of a ruleset do not block each other.
RestrictReturns ==
    \A t \in Tasks : (pc[t] = "prepare_creds") ~> (pc[t] = "idle")

\* Neither a descriptor, nor a running call, nor the credential of a task
\* refers to the ruleset any more.
Orphan(r) ==
    /\ rstate[r] # "free" /\ r \notin fd
    /\ \A t \in Tasks : rs[t] # r /\ newdom[t] # r
    /\ \A c \in Creds : cdom[c] = r => cstate[c] = "rcu"

\* A ruleset or domain that nobody can use any more is freed: the deferred
\* free is always scheduled and run.
OrphansAreFreed == \A r \in Rulesets : Orphan(r) ~> (rstate[r] = "free")

\* Every call of landlock_restrict_self(2) and every deferred free completes.
CallsComplete == RestrictReturns /\ OrphansAreFreed

=============================================================================
