--------------------------- MODULE LandlockObject ---------------------------
(***************************************************************************)
(* Lifetime of Landlock objects: object.c, the "underlying object          *)
(* management" and get_inode_object() of fs.c, hook_sb_delete() and        *)
(* hook_inode_free_security().                                             *)
(*                                                                         *)
(* A landlock_object ties access rules to an inode.  The inode points to   *)
(* its object (landlock_inode(inode)->object, read under RCU), the object  *)
(* points back to the inode (underobj, protected by object->lock) and owns *)
(* one reference on it.  Tasks add rules and free rulesets while one       *)
(* thread unmounts the filesystem and runs hook_sb_delete().               *)
(*                                                                         *)
(* One action is one access to memory that another thread can see, or one  *)
(* critical section.  A section under inode->i_lock is one action: inode   *)
(* counts and states change only under that lock or by an atomic           *)
(* operation, and i_lock nests inside every other lock.                    *)
(***************************************************************************)
EXTENDS Integers, FiniteSets

CONSTANTS
    Inodes,      \* inodes of the one superblock
    Objects,     \* addresses that kzalloc() may return for a landlock_object
    Rulesets,    \* rulesets and domains
    Tasks,       \* threads that add rules and free rulesets
    Umount,      \* the thread that shuts the superblock down
    NULL

ASSUME ConstantsAssumption ==
    /\ Umount \notin Tasks
    /\ NULL \notin Inodes \cup Objects \cup Rulesets \cup Tasks \cup {Umount}
    /\ Tasks \cap Rulesets = {}
    /\ IsFiniteSet(Tasks) /\ IsFiniteSet(Rulesets)

Threads == Tasks \cup {Umount}

VARIABLES
    ostate,      \* memory of an object: "free", "live", "rcu" (kfree_rcu'd)
    usage,       \* object->usage
    olock,       \* holder of object->lock, or NULL
    underobj,    \* object->underobj
    gp,          \* readers that kfree_rcu(object) still waits for
    inode_sec,   \* landlock_inode(inode)->object
    i_count,     \* inode->i_count
    istate,      \* "active", "freeing" (I_FREEING) or "freed"
    dref,        \* the dentry cache references the inode
    rules,       \* <<ruleset, object>>: a rule of the ruleset owns a usage
    inode_refs,  \* landlock_superblock(sb)->inode_refs
    list_lock,   \* holder of sb->s_inode_list_lock, or NULL
    mounted,     \* SB_ACTIVE
    rcu,         \* threads in an RCU read-side critical section
    pc,          \* what a thread does next
    call,        \* the call a task runs: "none", "add" or "free"
    ti,          \* local inode
    to,          \* local object
    tr,          \* local ruleset
    prev,        \* prev_inode of hook_sb_delete()
    todo         \* inodes that the loop of hook_sb_delete() has not visited

objvars   == <<ostate, usage, olock, underobj, gp>>
inodevars == <<inode_sec, i_count, istate, dref>>
sbvars    == <<inode_refs, list_lock, mounted>>
locals    == <<call, ti, to, tr>>
sbdvars   == <<prev, todo>>
vars == <<objvars, inodevars, rules, sbvars, rcu, pc, locals, sbdvars>>

-----------------------------------------------------------------------------

\* The filesystem is mounted and none of its inodes is tied to an object.
Init ==
    /\ ostate = [o \in Objects |-> "free"]
    /\ usage = [o \in Objects |-> 0]
    /\ olock = [o \in Objects |-> NULL]
    /\ underobj = [o \in Objects |-> NULL]
    /\ gp = [o \in Objects |-> {}]
    /\ inode_sec = [i \in Inodes |-> NULL]
    /\ i_count = [i \in Inodes |-> 1]
    /\ istate = [i \in Inodes |-> "active"]
    /\ dref = [i \in Inodes |-> TRUE]
    /\ rules = {}
    /\ inode_refs = 0
    /\ list_lock = NULL
    /\ mounted = TRUE
    /\ rcu = {}
    /\ pc = [t \in Threads |-> "idle"]
    /\ call = [t \in Threads |-> "none"]
    /\ ti = [t \in Threads |-> NULL]
    /\ to = [t \in Threads |-> NULL]
    /\ tr = [t \in Threads |-> NULL]
    /\ prev = NULL
    /\ todo = {}

Goto(t, label) == pc' = [pc EXCEPT ![t] = label]

At(t, label) == pc[t] = label

\* rcu_read_unlock(): a grace period no longer waits for this reader.
RcuUnlock(t) ==
    /\ rcu' = rcu \ {t}
    /\ gp' = [o \in Objects |-> gp[o] \ {t}]

\* A ruleset whose last reference is gone is in nobody's hands but the task's
\* that frees it.
BeingFreed(r) == \E t \in Tasks : call[t] = "free" /\ tr[t] = r
InUse(r) == \E t \in Tasks : tr[t] = r

-----------------------------------------------------------------------------
(* get_inode_object() on behalf of landlock_append_fs_rule().              *)

\* The caller holds a path on the inode, and the ruleset through its file
\* descriptor.
AddRule(t, r, i) ==
    /\ At(t, "idle")
    /\ mounted /\ dref[i]
    /\ ~BeingFreed(r)
    /\ call' = [call EXCEPT ![t] = "add"]
    /\ ti' = [ti EXCEPT ![t] = i]
    /\ tr' = [tr EXCEPT ![t] = r]
    /\ rcu' = rcu \cup {t}
    /\ Goto(t, "deref")
    /\ UNCHANGED <<objvars, inodevars, rules, sbvars, to, sbdvars>>

\* retry: object = rcu_dereference(inode_sec->object)
Deref(t) ==
    /\ At(t, "deref")
    /\ to' = [to EXCEPT ![t] = inode_sec[ti[t]]]
    /\ IF inode_sec[ti[t]] = NULL
       THEN RcuUnlock(t) /\ Goto(t, "create")
       ELSE UNCHANGED <<rcu, gp>> /\ Goto(t, "inc")
    /\ UNCHANGED <<ostate, usage, olock, underobj, inodevars, rules, sbvars,
                   call, ti, tr, sbdvars>>

\* refcount_inc_not_zero(&object->usage)
IncNotZero(t) ==
    /\ At(t, "inc")
    /\ \/ /\ usage[to[t]] > 0
          /\ usage' = [usage EXCEPT ![to[t]] = @ + 1]
          /\ RcuUnlock(t)
          /\ Goto(t, "insert")
       \/ /\ usage[to[t]] = 0
          /\ Goto(t, "wait")
          /\ UNCHANGED <<usage, rcu, gp>>
    /\ UNCHANGED <<ostate, olock, underobj, inodevars, rules, sbvars, locals,
                   sbdvars>>

\* spin_lock(&object->lock); spin_unlock(&object->lock); goto retry
WaitRelease(t) ==
    /\ At(t, "wait")
    /\ olock[to[t]] = NULL
    /\ Goto(t, "deref")
    /\ UNCHANGED <<objvars, inodevars, rules, sbvars, rcu, locals, sbdvars>>

\* landlock_create_object()
CreateObject(t, o) ==
    /\ At(t, "create")
    /\ ostate[o] = "free"
    /\ ostate' = [ostate EXCEPT ![o] = "live"]
    /\ usage' = [usage EXCEPT ![o] = 1]
    /\ underobj' = [underobj EXCEPT ![o] = ti[t]]
    /\ to' = [to EXCEPT ![t] = o]
    /\ Goto(t, "install")
    /\ UNCHANGED <<olock, gp, inodevars, rules, sbvars, rcu, call, ti, tr, sbdvars>>

\* -ENOMEM ends the call.
CreateObjectFails(t) ==
    /\ At(t, "create")
    /\ call' = [call EXCEPT ![t] = "none"]
    /\ ti' = [ti EXCEPT ![t] = NULL]
    /\ tr' = [tr EXCEPT ![t] = NULL]
    /\ Goto(t, "idle")
    /\ UNCHANGED <<objvars, inodevars, rules, sbvars, rcu, to, sbdvars>>

\* Mutant: the pointer is not checked again under i_lock.
MutInstall(t) ==
    /\ At(t, "install")
    /\ i_count' = [i_count EXCEPT ![ti[t]] = @ + 1]
    /\ inode_sec' = [inode_sec EXCEPT ![ti[t]] = to[t]]
    /\ Goto(t, "insert")
    /\ UNCHANGED <<objvars, istate, dref, rules, sbvars, rcu, locals, sbdvars>>

\* The section under inode->i_lock: tie the inode to the new object.
Install(t) ==
    /\ At(t, "install")
    /\ inode_sec[ti[t]] = NULL
    /\ i_count' = [i_count EXCEPT ![ti[t]] = @ + 1]
    /\ inode_sec' = [inode_sec EXCEPT ![ti[t]] = to[t]]
    /\ Goto(t, "insert")
    /\ UNCHANGED <<objvars, istate, dref, rules, sbvars, rcu, locals, sbdvars>>

\* Somebody else tied the inode first: free the new object and retry.
InstallRaced(t) ==
    /\ At(t, "install")
    /\ inode_sec[ti[t]] # NULL
    /\ ostate' = [ostate EXCEPT ![to[t]] = "free"]
    /\ usage' = [usage EXCEPT ![to[t]] = 0]
    /\ underobj' = [underobj EXCEPT ![to[t]] = NULL]
    /\ to' = [to EXCEPT ![t] = NULL]
    /\ rcu' = rcu \cup {t}
    /\ Goto(t, "deref")
    /\ UNCHANGED <<olock, gp, inodevars, rules, sbvars, call, ti, tr, sbdvars>>

\* Mutant: extending an existing rule takes a reference too.
MutInsertRule(t) ==
    /\ At(t, "insert")
    /\ rules' = rules \cup {<<tr[t], to[t]>>}
    /\ usage' = [usage EXCEPT ![to[t]] = @ + 1]
    /\ Goto(t, "put")
    /\ UNCHANGED <<ostate, olock, underobj, gp, inodevars, sbvars, rcu, locals,
                   sbdvars>>

\* landlock_insert_rule() under ruleset->lock: a new rule takes a reference on
\* the object (create_rule), an existing one is extended, or the call fails.
InsertRule(t) ==
    /\ At(t, "insert")
    /\ \/ /\ <<tr[t], to[t]>> \notin rules
          /\ rules' = rules \cup {<<tr[t], to[t]>>}
          /\ usage' = [usage EXCEPT ![to[t]] = @ + 1]
       \/ UNCHANGED <<rules, usage>>
    /\ Goto(t, "put")
    /\ UNCHANGED <<ostate, olock, underobj, gp, inodevars, sbvars, rcu, locals,
                   sbdvars>>

-----------------------------------------------------------------------------
(* landlock_put_object() and release_inode().                              *)

\* The call that put the object returns, or frees the ruleset's next rule.
AfterPut(t) ==
    /\ to' = [to EXCEPT ![t] = NULL]
    /\ IF call[t] = "free"
       THEN /\ Goto(t, "next_rule")
            /\ ti' = [ti EXCEPT ![t] = NULL]
            /\ UNCHANGED <<call, tr>>
       ELSE /\ Goto(t, "idle")
            /\ call' = [call EXCEPT ![t] = "none"]
            /\ ti' = [ti EXCEPT ![t] = NULL]
            /\ tr' = [tr EXCEPT ![t] = NULL]

\* refcount_dec_and_lock(), first part: decrement unless the count is one.
DecNotOne(t) ==
    /\ At(t, "put")
    /\ \/ /\ usage[to[t]] # 1
          /\ usage' = [usage EXCEPT ![to[t]] = @ - 1]
          /\ AfterPut(t)
       \/ /\ usage[to[t]] = 1
          /\ Goto(t, "dec_lock")
          /\ UNCHANGED <<usage, locals>>
    /\ UNCHANGED <<ostate, olock, underobj, gp, inodevars, rules, sbvars, rcu,
                   sbdvars>>

\* refcount_dec_and_lock(), second part: decrement under object->lock, and
\* keep the lock if the count reached zero.
DecAndLock(t) ==
    /\ At(t, "dec_lock")
    /\ olock[to[t]] = NULL
    /\ usage' = [usage EXCEPT ![to[t]] = @ - 1]
    /\ \/ /\ usage[to[t]] = 1
          /\ olock' = [olock EXCEPT ![to[t]] = t]
          /\ Goto(t, "release")
          /\ UNCHANGED locals
       \/ /\ usage[to[t]] # 1
          /\ AfterPut(t)
          /\ UNCHANGED olock
    /\ UNCHANGED <<ostate, underobj, gp, inodevars, rules, sbvars, rcu, sbdvars>>

\* release_inode() with object->lock held: take the inode over from the object
\* unless hook_sb_delete() already did.
Release(t) ==
    /\ At(t, "release")
    /\ ti' = [ti EXCEPT ![t] = underobj[to[t]]]
    /\ IF underobj[to[t]] = NULL
       THEN /\ olock' = [olock EXCEPT ![to[t]] = NULL]
            /\ Goto(t, "kfree_rcu")
            /\ UNCHANGED underobj
       ELSE /\ underobj' = [underobj EXCEPT ![to[t]] = NULL]
            /\ Goto(t, "inc_refs")
            /\ UNCHANGED olock
    /\ UNCHANGED <<ostate, usage, gp, inodevars, rules, sbvars, rcu, call, to, tr,
                   sbdvars>>

\* Mutant: hook_sb_delete() is not told about the pending iput().
MutIncRefs(t) ==
    /\ At(t, "inc_refs")
    /\ olock' = [olock EXCEPT ![to[t]] = NULL]
    /\ Goto(t, "clear")
    /\ UNCHANGED <<ostate, usage, underobj, gp, inodevars, rules, sbvars, rcu,
                   locals, sbdvars>>

\* atomic_long_inc(inode_refs); spin_unlock(&object->lock)
IncRefs(t) ==
    /\ At(t, "inc_refs")
    /\ inode_refs' = inode_refs + 1
    /\ olock' = [olock EXCEPT ![to[t]] = NULL]
    /\ Goto(t, "clear")
    /\ UNCHANGED <<ostate, usage, underobj, gp, inodevars, rules, list_lock,
                   mounted, rcu, locals, sbdvars>>

\* rcu_assign_pointer(landlock_inode(inode)->object, NULL)
ClearPointer(t) ==
    /\ At(t, "clear")
    /\ inode_sec' = [inode_sec EXCEPT ![ti[t]] = NULL]
    /\ Goto(t, "iput")
    /\ UNCHANGED <<objvars, i_count, istate, dref, rules, sbvars, rcu, locals,
                   sbdvars>>

\* iput(inode): the last reference keeps the inode cached while the filesystem
\* is active (or drops it at once, e.g. when it was unlinked), and evicts it
\* during the shutdown.
Iput(t) ==
    /\ At(t, "iput")
    /\ i_count' = [i_count EXCEPT ![ti[t]] = @ - 1]
    /\ \/ /\ i_count[ti[t]] # 1 \/ mounted
          /\ Goto(t, "dec_refs")
          /\ UNCHANGED istate
       \/ /\ i_count[ti[t]] = 1
          /\ istate' = [istate EXCEPT ![ti[t]] = "freeing"]
          /\ Goto(t, "evict")
    /\ UNCHANGED <<objvars, inode_sec, dref, rules, sbvars, rcu, locals, sbdvars>>

\* The inode leaves the superblock's list and is freed.
Evict(t) ==
    /\ At(t, "evict")
    /\ list_lock = NULL
    /\ istate' = [istate EXCEPT ![ti[t]] = "freed"]
    /\ Goto(t, "dec_refs")
    /\ UNCHANGED <<objvars, inode_sec, i_count, dref, rules, sbvars, rcu, locals,
                   sbdvars>>

\* Mutant: inode_refs is not decremented when the last iput() evicted.
MutDecRefs(t) ==
    /\ At(t, "dec_refs")
    /\ inode_refs' = IF istate[ti[t]] = "freed" THEN inode_refs ELSE inode_refs - 1
    /\ Goto(t, "kfree_rcu")
    /\ UNCHANGED <<objvars, inodevars, rules, list_lock, mounted, rcu, locals,
                   sbdvars>>

\* atomic_long_dec_and_test(inode_refs), wake_up_var()
DecRefs(t) ==
    /\ At(t, "dec_refs")
    /\ inode_refs' = inode_refs - 1
    /\ Goto(t, "kfree_rcu")
    /\ UNCHANGED <<objvars, inodevars, rules, list_lock, mounted, rcu, locals,
                   sbdvars>>

\* Mutant: kfree() instead of kfree_rcu().
MutKfreeRcu(t) ==
    /\ At(t, "kfree_rcu")
    /\ ostate' = [ostate EXCEPT ![to[t]] = "free"]
    /\ AfterPut(t)
    /\ UNCHANGED <<usage, olock, underobj, gp, inodevars, rules, sbvars, rcu,
                   sbdvars>>

\* kfree_rcu(object): freed once every present reader has left.
KfreeRcu(t) ==
    /\ At(t, "kfree_rcu")
    /\ ostate' = [ostate EXCEPT ![to[t]] = "rcu"]
    /\ gp' = [gp EXCEPT ![to[t]] = rcu]
    /\ AfterPut(t)
    /\ UNCHANGED <<usage, olock, underobj, inodevars, rules, sbvars, rcu, sbdvars>>

-----------------------------------------------------------------------------
(* Rulesets and domains, as far as they own references on objects.         *)

\* free_ruleset(): the last reference on the ruleset is gone.
FreeRuleset(t, r) ==
    /\ At(t, "idle")
    /\ ~InUse(r)
    /\ call' = [call EXCEPT ![t] = "free"]
    /\ tr' = [tr EXCEPT ![t] = r]
    /\ Goto(t, "next_rule")
    /\ UNCHANGED <<objvars, inodevars, rules, sbvars, rcu, ti, to, sbdvars>>

\* free_rule() of the next rule of the tree: its reference is put.
FreeRule(t, o) ==
    /\ At(t, "next_rule")
    /\ <<tr[t], o>> \in rules
    /\ rules' = rules \ {<<tr[t], o>>}
    /\ to' = [to EXCEPT ![t] = o]
    /\ Goto(t, "put")
    /\ UNCHANGED <<objvars, inodevars, sbvars, rcu, call, ti, tr, sbdvars>>

\* No rule is left: kfree(ruleset).
FreeRulesetEnd(t) ==
    /\ At(t, "next_rule")
    /\ \A o \in Objects : <<tr[t], o>> \notin rules
    /\ call' = [call EXCEPT ![t] = "none"]
    /\ tr' = [tr EXCEPT ![t] = NULL]
    /\ Goto(t, "idle")
    /\ UNCHANGED <<objvars, inodevars, rules, sbvars, rcu, ti, to, sbdvars>>

\* A domain inherits the rule of another ruleset (create_rule() on behalf of
\* inherit_ruleset() and merge_ruleset(), which hold and lock both).
InheritRule(r, s, o) ==
    /\ r # s
    /\ ~BeingFreed(r) /\ ~BeingFreed(s)
    /\ <<r, o>> \in rules /\ <<s, o>> \notin rules
    /\ rules' = rules \cup {<<s, o>>}
    /\ usage' = [usage EXCEPT ![o] = @ + 1]
    /\ UNCHANGED <<ostate, olock, underobj, gp, inodevars, sbvars, rcu, pc,
                   locals, sbdvars>>

-----------------------------------------------------------------------------
(* The rest of the kernel.                                                 *)

\* End of the grace period that kfree_rcu() started.
RcuFree(o) ==
    /\ ostate[o] = "rcu"
    /\ gp[o] = {}
    /\ ostate' = [ostate EXCEPT ![o] = "free"]
    /\ UNCHANGED <<usage, olock, underobj, gp, inodevars, rules, sbvars, rcu, pc,
                   locals, sbdvars>>

\* A path lookup brings the inode (back) into the dentry cache; the blob of a
\* newly allocated inode is zeroed.
Lookup(i) ==
    /\ mounted
    /\ ~dref[i]
    /\ istate[i] \in {"active", "freed"}
    /\ dref' = [dref EXCEPT ![i] = TRUE]
    /\ i_count' = [i_count EXCEPT ![i] = @ + 1]
    /\ istate' = [istate EXCEPT ![i] = "active"]
    /\ inode_sec' = IF istate[i] = "freed" THEN [inode_sec EXCEPT ![i] = NULL]
                                           ELSE inode_sec
    /\ UNCHANGED <<objvars, rules, sbvars, rcu, pc, locals, sbdvars>>

\* The dentry is dropped when no path refers to it; an inode without any
\* reference may stay cached.
DropDentry(i) ==
    /\ mounted
    /\ dref[i]
    /\ \A t \in Tasks : ~(call[t] = "add" /\ ti[t] = i)
    /\ dref' = [dref EXCEPT ![i] = FALSE]
    /\ i_count' = [i_count EXCEPT ![i] = @ - 1]
    /\ UNCHANGED <<objvars, inode_sec, istate, rules, sbvars, rcu, pc, locals,
                   sbdvars>>

\* The inode shrinker evicts a cached inode that nobody references.
Reclaim(i) ==
    /\ mounted
    /\ istate[i] = "active"
    /\ i_count[i] = 0
    /\ istate' = [istate EXCEPT ![i] = "freed"]
    /\ UNCHANGED <<objvars, inode_sec, i_count, dref, rules, sbvars, rcu, pc,
                   locals, sbdvars>>

-----------------------------------------------------------------------------
(* hook_sb_delete(), called by generic_shutdown_super() once no path refers *)
(* to the filesystem, its dentries are gone and its unreferenced inodes are *)
(* evicted.                                                                 *)

SbDelete ==
    LET count == [i \in Inodes |-> IF dref[i] THEN i_count[i] - 1 ELSE i_count[i]]
    IN
    /\ At(Umount, "idle")
    /\ \A t \in Tasks : call[t] # "add"
    /\ mounted' = FALSE
    /\ dref' = [i \in Inodes |-> FALSE]
    /\ i_count' = count
    /\ istate' = [i \in Inodes |-> IF istate[i] = "active" /\ count[i] = 0
                                   THEN "freed" ELSE istate[i]]
    /\ list_lock' = Umount
    /\ todo' = Inodes
    /\ Goto(Umount, "sb_loop")
    /\ UNCHANGED <<objvars, inode_sec, rules, inode_refs, rcu, locals, prev>>

\* The next inode of the list; those without reference are skipped.
SbNext(i) ==
    /\ At(Umount, "sb_loop")
    /\ i \in todo
    /\ istate[i] # "freed"
    /\ todo' = todo \ {i}
    /\ IF i_count[i] = 0
       THEN UNCHANGED <<ti, pc>>
       ELSE ti' = [ti EXCEPT ![Umount] = i] /\ Goto(Umount, "sb_inode")
    /\ UNCHANGED <<objvars, inodevars, rules, sbvars, rcu, call, to, tr, prev>>

\* The section under inode->i_lock: skip an inode that is being freed or is not
\* tied, else take a reference (__iget) and enter RCU.
SbGet ==
    LET i == ti[Umount] IN
    /\ At(Umount, "sb_inode")
    /\ \/ /\ istate[i] = "freeing" \/ inode_sec[i] = NULL
          /\ Goto(Umount, "sb_loop")
          /\ UNCHANGED <<i_count, to, rcu>>
       \/ /\ istate[i] # "freeing" /\ inode_sec[i] # NULL
          /\ i_count' = [i_count EXCEPT ![i] = @ + 1]
          /\ to' = [to EXCEPT ![Umount] = inode_sec[i]]
          /\ rcu' = rcu \cup {Umount}
          /\ Goto(Umount, "sb_lock")
    /\ UNCHANGED <<objvars, inode_sec, istate, dref, rules, sbvars, call, ti, tr,
                   sbdvars>>

\* The section under object->lock: take the inode over from the object unless
\* release_inode() already did.
SbLock ==
    LET o == to[Umount] IN
    /\ At(Umount, "sb_lock")
    /\ olock[o] = NULL
    /\ IF underobj[o] = ti[Umount]
       THEN underobj' = [underobj EXCEPT ![o] = NULL] /\ Goto(Umount, "sb_clear")
       ELSE UNCHANGED underobj /\ Goto(Umount, "sb_prev")
    /\ to' = [to EXCEPT ![Umount] = NULL]
    /\ RcuUnlock(Umount)
    /\ UNCHANGED <<ostate, usage, olock, inodevars, rules, sbvars, call, ti, tr,
                   sbdvars>>

\* rcu_assign_pointer(landlock_inode(inode)->object, NULL)
SbClear ==
    /\ At(Umount, "sb_clear")
    /\ inode_sec' = [inode_sec EXCEPT ![ti[Umount]] = NULL]
    /\ Goto(Umount, "sb_iput")
    /\ UNCHANGED <<objvars, i_count, istate, dref, rules, sbvars, rcu, locals,
                   sbdvars>>

\* iput(inode) of the reference that get_inode_object() took.
SbIput ==
    /\ At(Umount, "sb_iput")
    /\ i_count' = [i_count EXCEPT ![ti[Umount]] = @ - 1]
    /\ Goto(Umount, "sb_prev")
    /\ UNCHANGED <<objvars, inode_sec, istate, dref, rules, sbvars, rcu, locals,
                   sbdvars>>

\* The list lock is dropped to put the inode of the previous walk, if any.
SbPrev ==
    /\ At(Umount, "sb_prev")
    /\ IF prev = NULL
       THEN /\ prev' = ti[Umount]
            /\ Goto(Umount, "sb_loop")
            /\ UNCHANGED list_lock
       ELSE /\ list_lock' = NULL
            /\ Goto(Umount, "sb_put_prev")
            /\ UNCHANGED prev
    /\ UNCHANGED <<objvars, inodevars, rules, inode_refs, mounted, rcu, locals,
                   todo>>

\* End of the loop: the last walk's reference is put without the list lock.
SbEndLoop ==
    /\ At(Umount, "sb_loop")
    /\ \A i \in todo : istate[i] = "freed"
    /\ list_lock' = NULL
    /\ ti' = [ti EXCEPT ![Umount] = NULL]
    /\ Goto(Umount, IF prev = NULL THEN "sb_wait" ELSE "sb_put_prev")
    /\ UNCHANGED <<objvars, inodevars, rules, inode_refs, mounted, rcu, call, to,
                   tr, sbdvars>>

\* iput(prev_inode); the superblock is not active, the last reference evicts.
SbPutPrev ==
    /\ At(Umount, "sb_put_prev")
    /\ i_count' = [i_count EXCEPT ![prev] = @ - 1]
    /\ IF i_count[prev] = 1
       THEN /\ istate' = [istate EXCEPT ![prev] = "freeing"]
            /\ Goto(Umount, "sb_evict")
       ELSE /\ UNCHANGED istate
            /\ Goto(Umount, "sb_relock")
    /\ UNCHANGED <<objvars, inode_sec, dref, rules, sbvars, rcu, locals, sbdvars>>

SbEvict ==
    /\ At(Umount, "sb_evict")
    /\ list_lock = NULL
    /\ istate' = [istate EXCEPT ![prev] = "freed"]
    /\ Goto(Umount, "sb_relock")
    /\ UNCHANGED <<objvars, inode_sec, i_count, dref, rules, sbvars, rcu, locals,
                   sbdvars>>

\* Back to the loop with the list lock, or on to the final wait.
SbRelock ==
    /\ At(Umount, "sb_relock")
    /\ prev' = ti[Umount]
    /\ IF ti[Umount] = NULL
       THEN Goto(Umount, "sb_wait") /\ UNCHANGED list_lock
       ELSE /\ list_lock = NULL
            /\ list_lock' = Umount
            /\ Goto(Umount, "sb_loop")
    /\ UNCHANGED <<objvars, inodevars, rules, inode_refs, mounted, rcu, locals,
                   todo>>

\* wait_var_event(inode_refs, !inode_refs); then the superblock is gone.
SbWait ==
    /\ At(Umount, "sb_wait")
    /\ inode_refs = 0
    /\ Goto(Umount, "done")
    /\ UNCHANGED <<objvars, inodevars, rules, sbvars, rcu, locals, sbdvars>>

-----------------------------------------------------------------------------

\* What a task does once it has entered a call.
GetInodeObject(t) ==
    \/ Deref(t) \/ IncNotZero(t) \/ WaitRelease(t)
    \/ \E o \in Objects : CreateObject(t, o)
    \/ CreateObjectFails(t) \/ Install(t) \/ InstallRaced(t)

PutObject(t) ==
    \/ DecNotOne(t) \/ DecAndLock(t) \/ Release(t) \/ IncRefs(t)
    \/ ClearPointer(t) \/ Iput(t) \/ Evict(t) \/ DecRefs(t) \/ KfreeRcu(t)

FreeRules(t) == (\E o \in Objects : FreeRule(t, o)) \/ FreeRulesetEnd(t)

TaskStep(t) == GetInodeObject(t) \/ InsertRule(t) \/ PutObject(t) \/ FreeRules(t)

SbStep ==
    \/ \E i \in Inodes : SbNext(i)
    \/ SbGet \/ SbLock \/ SbClear \/ SbIput \/ SbPrev \/ SbEndLoop
    \/ SbPutPrev \/ SbEvict \/ SbRelock \/ SbWait

Environment ==
    \/ \E o \in Objects : RcuFree(o)
    \/ \E i \in Inodes : Lookup(i) \/ DropDentry(i) \/ Reclaim(i)

Next ==
    \/ \E t \in Tasks, r \in Rulesets, i \in Inodes : AddRule(t, r, i)
    \/ \E t \in Tasks, r \in Rulesets : FreeRuleset(t, r)
    \/ \E t \in Tasks : TaskStep(t)
    \/ \E r, s \in Rulesets, o \in Objects : InheritRule(r, s, o)
    \/ SbDelete
    \/ SbStep
    \/ Environment

Spec == Init /\ [][Next]_vars

(***************************************************************************)
(* Every thread keeps running: no step sleeps on anything but a lock that  *)
(* is held for a bounded time, or on inode_refs.  Nobody is obliged to     *)
(* start a call, to shut the superblock down or to end a grace period.     *)
(***************************************************************************)
Fairness ==
    /\ \A t \in Tasks : WF_vars(TaskStep(t))
    /\ WF_vars(SbStep)

FairSpec == Spec /\ Fairness

-----------------------------------------------------------------------------
(* Properties.                                                             *)

\* Where a task owns one unit of usage of its local object.
Owning == {"install", "insert", "put", "dec_lock"}

\* From the last decrement of usage to kfree_rcu().
Releasing == {"release", "inc_refs", "clear", "iput", "evict", "dec_refs",
              "kfree_rcu"}

\* Where a task holds the reference on the inode that its object held.
TakenOver == {"inc_refs", "clear", "iput"}

TaskPC == {"idle", "deref", "inc", "wait", "create", "next_rule"}
              \cup Owning \cup Releasing
SbPC == {"idle", "sb_loop", "sb_inode", "sb_lock", "sb_clear", "sb_iput",
         "sb_prev", "sb_put_prev", "sb_evict", "sb_relock", "sb_wait", "done"}

\* The type of every variable.
TypeOK ==
    /\ ostate \in [Objects -> {"free", "live", "rcu"}]
    /\ usage \in [Objects -> Int]
    /\ olock \in [Objects -> Tasks \cup {NULL}]
    /\ underobj \in [Objects -> Inodes \cup {NULL}]
    /\ gp \in [Objects -> SUBSET Threads]
    /\ inode_sec \in [Inodes -> Objects \cup {NULL}]
    /\ i_count \in [Inodes -> Int]
    /\ istate \in [Inodes -> {"active", "freeing", "freed"}]
    /\ dref \in [Inodes -> BOOLEAN]
    /\ rules \subseteq Rulesets \X Objects
    /\ inode_refs \in Int
    /\ list_lock \in {Umount, NULL}
    /\ mounted \in BOOLEAN
    /\ rcu \subseteq Threads
    /\ pc \in [Threads -> TaskPC \cup SbPC]
    /\ \A t \in Tasks : pc[t] \in TaskPC
    /\ pc[Umount] \in SbPC
    /\ call \in [Threads -> {"none", "add", "free"}]
    /\ ti \in [Threads -> Inodes \cup {NULL}]
    /\ to \in [Threads -> Objects \cup {NULL}]
    /\ tr \in [Threads -> Rulesets \cup {NULL}]
    /\ prev \in Inodes \cup {NULL}
    /\ todo \subseteq Inodes

\* The references on an object: the tasks that own one and the rulesets with a
\* rule on it.
Refs(o) == {t \in Tasks : to[t] = o /\ pc[t] \in Owning}
              \cup {r \in Rulesets : <<r, o>> \in rules}

\* Usage counts exactly the owners: a leaked or a lost reference in any of
\* get_inode_object(), create_rule(), free_rule() and landlock_put_object()
\* breaks it.
UsageExact ==
    \A o \in Objects : usage[o] = Cardinality(Refs(o))

\* No thread touches the memory of an object after it was freed: neither a
\* lockless reader of landlock_inode(inode)->object nor an owner.
Touching == {"inc", "wait", "sb_lock"} \cup Owning \cup Releasing
NoUseAfterFree ==
    \A t \in Threads : pc[t] \in Touching => ostate[to[t]] # "free"

\* A thread that works on an inode has it protected from being freed: by a
\* reference, or by the list lock.
NoInodeUseAfterFree ==
    /\ \A t \in Tasks : pc[t] \in {"deref", "install", "inc_refs", "clear", "iput"}
          => istate[ti[t]] = "active"
    /\ pc[Umount] = "sb_inode" => istate[ti[Umount]] # "freed"
    /\ pc[Umount] \in {"sb_lock", "sb_clear", "sb_iput", "sb_prev"}
          => istate[ti[Umount]] = "active"

\* References on an inode that hook_sb_delete() holds: the one it takes over
\* from the object, the __iget() of this walk and the one of the last walk.
B(b) == IF b THEN 1 ELSE 0
SbPins(i) ==
    B(pc[Umount] = "sb_iput" /\ ti[Umount] = i)
    + B(pc[Umount] \in {"sb_lock", "sb_clear", "sb_iput", "sb_prev", "sb_put_prev",
                        "sb_evict", "sb_relock"} /\ ti[Umount] = i)
    + B(pc[Umount] \notin {"sb_evict", "sb_relock"} /\ prev = i)

\* Tasks that untied the inode and must still put the object's reference.
Iputters(i) == {t \in Tasks : pc[t] = "iput" /\ ti[t] = i}

\* i_count counts exactly the dentry, the tie, and those that broke a tie and
\* have not called iput() yet: get_inode_object()'s ihold() is put exactly once,
\* by release_inode() or by hook_sb_delete(), never by both.
InodeCountExact ==
    \A i \in Inodes :
        i_count[i] = B(dref[i]) + B(inode_sec[i] # NULL)
                     + Cardinality(Iputters(i)) + SbPins(i)

\* Every reference is counted, on objects (object.h) and on inodes (fs.c), through
\* any interleaving of rule insertion, rule removal and unmount.
CountsExact == UsageExact /\ InodeCountExact

\* An inode that is being freed is not tied to an object: the WARN_ON_ONCE of
\* hook_inode_free_security().
FreedInodeUntied ==
    \A i \in Inodes : istate[i] # "active" => inode_sec[i] = NULL

\* "the following call to iput() will not sleep nor drop the inode because
\* there is now at least two references to it" (hook_sb_delete() calls it with
\* the list lock held).
SbIputNeverLast ==
    pc[Umount] = "sb_iput" => i_count[ti[Umount]] >= 2

\* Nothing is used after it was freed, and no last reference is dropped where
\* that must not happen: object.c and the hooks of fs.c on inodes and superblocks.
MemorySafe == NoUseAfterFree /\ FreedInodeUntied /\ SbIputNeverLast

\* Once hook_sb_delete() returned, every inode of the superblock is gone and no
\* release_inode() still uses the inode or the superblock.
NoBusyInodes ==
    pc[Umount] = "done" =>
        /\ \A i \in Inodes : istate[i] = "freed"
        /\ \A t \in Tasks : pc[t] \notin TakenOver \cup {"evict", "dec_refs"}

\* The unmount protocol of hook_sb_delete() and release_inode(): inodes outlive
\* those who work on them, and none outlives the superblock.
UnmountSafe == NoInodeUseAfterFree /\ NoBusyInodes

\* An inode is never re-tied while it is tied, and is untied only by the thread
\* that took the inode over (underobj is NULL by then): this is why neither
\* writer needs inode->i_lock to reset the pointer.
UntiedByOwner ==
    \A i \in Inodes :
        inode_sec[i] # NULL /\ inode_sec'[i] # inode_sec[i]
            => inode_sec'[i] = NULL /\ underobj[inode_sec[i]] = NULL

\* An object whose usage dropped to zero is never used again: its count leaves
\* zero only when the memory is allocated anew.
NeverRevived ==
    \A o \in Objects : usage[o] = 0 /\ usage'[o] # 0 => ostate[o] = "free"

\* What no step may do to the weak pointer of an inode and to the count of an
\* object: get_inode_object(), release_inode() and landlock_put_object().
MemoryDiscipline == [][UntiedByOwner /\ NeverRevived]_vars

\* The unmount completes, whatever rules are freed meanwhile.
UnmountCompletes == pc[Umount] = "sb_loop" ~> pc[Umount] = "done"

\* Freeing a ruleset completes, with or without an unmount going on.
FreeCompletes == \A t \in Tasks : call[t] = "free" ~> call[t] = "none"

\* Neither waits for the other for ever: hook_sb_delete() and
\* landlock_put_object() take s_inode_list_lock and object->lock in turn and the
\* unmount waits for inode_refs.
BothComplete == UnmountCompletes /\ FreeCompletes

-----------------------------------------------------------------------------
(* The inductive invariant behind UsageExact, NoUseAfterFree,              *)
(* InodeCountExact and FreedInodeUntied (module LandlockObjectProofs).     *)

\* Where a task looks the inode's object up: it holds a path on the inode.
Getting == {"deref", "inc", "wait", "create", "install"}

\* Which locals a thread has set where, and where it is an RCU reader.
LocalsOK ==
    /\ \A t \in Tasks :
        /\ pc[t] = "idle" <=> call[t] = "none"
        /\ pc[t] \in Getting \cup {"insert"} => call[t] = "add"
        /\ pc[t] = "next_rule" => call[t] = "free"
        /\ pc[t] # "idle" => tr[t] \in Rulesets
        /\ pc[t] \in Touching => to[t] \in Objects
        /\ pc[t] \in Getting \cup {"inc_refs", "clear", "iput", "evict", "dec_refs"}
              => ti[t] \in Inodes
        /\ t \in rcu <=> pc[t] \in {"deref", "inc", "wait"}
    /\ pc[Umount] \in {"sb_inode", "sb_lock", "sb_clear", "sb_iput", "sb_prev"}
          => ti[Umount] \in Inodes
    /\ pc[Umount] = "sb_lock" => to[Umount] \in Objects
    /\ pc[Umount] \in {"sb_put_prev", "sb_evict"} => prev \in Inodes
    /\ Umount \in rcu <=> pc[Umount] = "sb_lock"
    /\ mounted <=> pc[Umount] = "idle"

\* A path is held during the lookup, hence no unmount runs.
PathHeld ==
    \A t \in Tasks : pc[t] \in Getting => mounted /\ dref[ti[t]]

\* Memory that is not allocated, or waits for a grace period, has no owner and
\* no inode.
DeadObjects ==
    \A o \in Objects : ostate[o] # "live" => usage[o] = 0 /\ underobj[o] = NULL

\* One task at most releases an object, and nobody else owns it then.
OneReleaser ==
    \A t \in Tasks : pc[t] \in Releasing =>
        /\ ostate[to[t]] = "live"
        /\ usage[to[t]] = 0
        /\ pc[t] # "release" => underobj[to[t]] = NULL
        /\ \A u \in Tasks : u # t /\ pc[u] \in Releasing => to[u] # to[t]

\* An object is private until it is installed.
FreshPrivate ==
    \A t \in Tasks : pc[t] = "install" =>
        /\ ostate[to[t]] = "live"
        /\ underobj[to[t]] = ti[t]
        /\ \A r \in Rulesets : <<r, to[t]>> \notin rules
        /\ \A i \in Inodes : inode_sec[i] # to[t]
        /\ \A u \in Threads : u # t /\ pc[u] \in Touching => to[u] # to[t]

\* A reader found its object before the memory was given to kfree_rcu(), which
\* therefore waits for the reader.
ReaderSafe ==
    \A t \in Threads : pc[t] \in {"inc", "wait", "sb_lock"} =>
        \/ ostate[to[t]] = "live"
        \/ ostate[to[t]] = "rcu" /\ t \in gp[to[t]]

SbClearing(i) == pc[Umount] = "sb_clear" /\ ti[Umount] = i

\* A pointer to an object is matched by underobj, or by the one thread that took
\* the inode over and is about to reset the pointer; and conversely.
PointerMatched ==
    /\ \A i \in Inodes : inode_sec[i] # NULL =>
        \/ SbClearing(i)
        \/ underobj[inode_sec[i]] = i
        \/ \E t \in Tasks : /\ pc[t] \in {"inc_refs", "clear"}
                            /\ to[t] = inode_sec[i] /\ ti[t] = i
    /\ \A o \in Objects : underobj[o] # NULL =>
        \/ \E t \in Tasks : pc[t] = "install" /\ to[t] = o
        \/ inode_sec[underobj[o]] = o /\ ~SbClearing(underobj[o])
    /\ \A t \in Tasks : pc[t] \in {"inc_refs", "clear"} =>
        inode_sec[ti[t]] = to[t] /\ ~SbClearing(ti[t])
    /\ pc[Umount] = "sb_clear" => inode_sec[ti[Umount]] # NULL

\* Only an unreferenced inode is freed.
FreedUnreferenced ==
    \A i \in Inodes : istate[i] # "active" => i_count[i] = 0

\* One thread at most evicts an inode.
EvictOnce ==
    /\ \A t \in Tasks : pc[t] = "evict" =>
        /\ istate[ti[t]] = "freeing"
        /\ \A u \in Tasks : u # t /\ pc[u] = "evict" => ti[u] # ti[t]
    /\ pc[Umount] = "sb_evict" =>
        /\ istate[prev] = "freeing"
        /\ \A t \in Tasks : pc[t] = "evict" => ti[t] # prev

IInv ==
    /\ TypeOK
    /\ LocalsOK
    /\ PathHeld
    /\ UsageExact
    /\ DeadObjects
    /\ OneReleaser
    /\ FreshPrivate
    /\ ReaderSafe
    /\ PointerMatched
    /\ InodeCountExact
    /\ FreedUnreferenced
    /\ EvictOnce
=============================================================================
