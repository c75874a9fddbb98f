--------------------------- MODULE SelinuxServer ---------------------------
(***************************************************************************)
(* The security server of SELinux while its policy changes: loading a      *)
(* policy and committing booleans through selinuxfs, setting the enforcing *)
(* mode, the SID table that survives a load, the access vector cache, the  *)
(* caches of network SIDs, and the status page that user space maps.       *)
(*                                                                         *)
(* Tasks enter the server at any time: they check permissions, look up the *)
(* SID of a context or of a network object, and administer the policy.     *)
(***************************************************************************)
EXTENDS SelinuxSidtab

CONSTANTS
    Images,      \* the policies there are to load, see PolicyImage
    BoolNames, Perms, XPerms,
    Slots,       \* AVC_CACHE_SLOTS; one (ssid, tsid, tclass) hashes to each
    NetKinds,    \* the network caches in use
    NetKeys,     \* ports, nodes, interfaces or partition keys
    Checkers, Labellers, Netters, Admins,  \* the tasks, by what they do
    Scenarios,   \* tasks that run together, and the policy changes they live through
    CacheThreshold,  \* avc_cache_threshold
    NetLimit,    \* entries of a bucket of a network cache
    MaxSeq       \* bound on the policy changes of a scenario

PolicyImage ==
    [known : SUBSET Contexts, valid : SUBSET Contexts,
     bools : UNION {[S -> BOOLEAN] : S \in SUBSET BoolNames},
     allow : SUBSET Perms, cond : [BoolNames -> SUBSET Perms],
     xperms : (SUBSET XPerms) \cup {NULL},
     permissive : BOOLEAN, deny_unknown : BOOLEAN]

\* The values that take the place of NULL: an installed policy, a SID table, a
\* node of the access vector cache and the status page.
Seqs == 1 .. MaxSeq
BoolValues == UNION {[S -> BOOLEAN] : S \in SUBSET BoolNames}
Policy == [image : Images, bools : BoolValues, tab : Seqs]
Context == [name : Contexts \cup {Unlabeled, NULL}, len : BOOLEAN]
Table == [entry : Seq(Context), hash : Seq(Nat), frozen : BOOLEAN,
          convert : Seqs \cup {NULL}]
Decision == [seq : Nat, allowed : SUBSET Perms, permissive : BOOLEAN, xp : BOOLEAN,
             xpd : (SUBSET XPerms) \cup {NULL}]
Page == [sequence : {0, 1}, enforcing : BOOLEAN, policyload : Nat, deny_unknown : BOOLEAN]

Tasks == Checkers \cup Labellers \cup Netters \cup Admins

ASSUME ServerAssumption ==
    /\ Images \subseteq PolicyImage
    /\ Slots \in Nat \ {0} /\ CacheThreshold \in Nat /\ NetLimit \in Nat \ {0}
    /\ MaxSeq \in Nat
    /\ Scenarios \subseteq [tasks : SUBSET Tasks, changes : 1 .. MaxSeq]
    /\ NetKinds \subseteq {"netif", "netnode", "netport", "ibpkey"}
    /\ IsFiniteSet(Checkers)
    /\ Checkers \cap (Labellers \cup Netters \cup Admins) = {}
    /\ Labellers \cap (Netters \cup Admins) = {} /\ Netters \cap Admins = {}
    /\ NULL \notin Nat \cup Tasks \cup Policy \cup Table \cup Decision \cup Page

Keys == 1 .. Slots

VARIABLES
    pol,       \* struct selinux_policy by latest_granting: image, bools, table
    cur,       \* selinux_state.policy; 0 before the first load
    tabs,      \* the SID tables, by the load that built them
    mutex,     \* the owner of policy_mutex
    pending,   \* fsi->bool_pending_names and bool_pending_values
    enforcing, \* selinux_state.enforcing
    status,    \* the status page
    avc,       \* the node of an access vector
    active,    \* avc_cache.active_nodes
    latest,    \* avc_cache.latest_notif
    net,       \* the entries of a network cache, the latest first
    netlock,   \* the owner of the lock of a network cache
    issued,    \* ghost: the contexts for which SIDs were given out
    task,      \* what a task is doing
    who        \* the scenario of this behaviour

policyvars == <<pol, cur, tabs, mutex, pending>>
avcvars == <<avc, active>>
netvars == <<net, netlock>>
vars == <<policyvars, enforcing, status, avcvars, latest, netvars, issued, task, who>>

idle == [pc |-> "idle"]
Goto(t, pc) == task' = [task EXCEPT ![t].pc = pc]
Return(t) == task' = [task EXCEPT ![t] = idle]
At(t, pc) == task[t].pc = pc

Init ==
    /\ pol = [s \in Seqs |-> NULL] /\ cur = 0
    /\ tabs = [s \in Seqs |-> NULL]
    /\ mutex = NULL
    /\ pending = <<>>
    /\ enforcing \in BOOLEAN
    /\ status = NULL
    /\ avc = [k \in Keys |-> NULL] /\ active = 0 /\ latest = 0
    /\ net = [n \in NetKinds |-> <<>>] /\ netlock = [n \in NetKinds |-> NULL]
    /\ issued = {}
    /\ task = [t \in Tasks |-> idle]
    /\ who \in Scenarios

\* The policies whose memory a task in an RCU read-side section still uses.
Readers(s) == {t \in Labellers : task[t].pc = "locked" /\ task[t].policy = s}

-----------------------------------------------------------------------------
(* security_context_to_sid() and, with `force', the _default() and _force() *)
(* variants.                                                                *)

Resolve(t, c, force, garbled) ==
    LET p == pol[cur]
        ok == string_to_context_struct(p.image, c, garbled)
        ctx == IF ok THEN mapped(c) ELSE unmapped(c)
        sid == context_to_sid(tabs[p.tab], ctx) IN
    IF ~ok /\ ~force THEN Return(t) /\ UNCHANGED issued
    ELSE IF sid # SECSID_NULL
    THEN Return(t) /\ issued' = issued \cup {<<sid, c>>}
    ELSE /\ task' = [task EXCEPT ![t] = [pc |-> "locked", ctx |-> ctx,
                                         force |-> force, policy |-> cur]]
         /\ UNCHANGED issued

security_context_to_sid_core(t) == \E c \in Contexts, force \in BOOLEAN :
    /\ At(t, "idle") /\ cur # 0
    /\ Resolve(t, c, force, FALSE)
    /\ UNCHANGED <<policyvars, enforcing, status, avcvars, latest, netvars, who>>

\* The table was frozen: the caller parses the same buffer again.
security_context_to_sid_retry(t) ==
    /\ At(t, "retry")
    /\ Resolve(t, task[t].ctx.name, task[t].force, TRUE)
    /\ UNCHANGED <<policyvars, enforcing, status, avcvars, latest, netvars, who>>

\* Under the lock of the table.  -EOVERFLOW and -ENOMEM leave it alone.
sidtab_context_to_sid(t) ==
    LET l == task[t]
        g == pol[l.policy].tab
        s == tabs[g]
        sid == context_to_sid(s, l.ctx)
        target == IF s.convert = NULL THEN NULL ELSE task[mutex].image IN
    /\ At(t, "locked")
    /\ \/ /\ sid # SECSID_NULL
          /\ issued' = issued \cup {<<sid, l.ctx.name>>}
          /\ Return(t) /\ UNCHANGED tabs
       \/ /\ sid = SECSID_NULL /\ s.frozen
          /\ Goto(t, "retry") /\ UNCHANGED <<tabs, issued>>
       \/ /\ sid = SECSID_NULL /\ ~s.frozen /\ Len(s.entry) < SIDTAB_MAX
          /\ tabs' = sidtab_insert(tabs, g, l.ctx, target, enforcing)
          /\ issued' = issued \cup {<<index_to_sid(Len(s.entry) + 1), l.ctx.name>>}
          /\ Return(t)
       \/ /\ sid = SECSID_NULL /\ ~s.frozen
          /\ Return(t) /\ UNCHANGED <<tabs, issued>>
    /\ UNCHANGED <<pol, cur, mutex, pending, enforcing, status, avcvars, latest, netvars, who>>

-----------------------------------------------------------------------------
(* The network caches.  The SID is computed and inserted under the lock of *)
(* the cache; what is kept here of a SID is the policy it comes from.      *)

Cached(n, k) == \E i \in DOMAIN net[n] : net[n][i].key = k

\* Mutant: the slow path computes the SID before it takes the lock.
Mutsel_net_lock(t, n) == UNCHANGED netlock

sel_net_lock(t, n) == netlock[n] = NULL /\ netlock' = [netlock EXCEPT ![n] = t]

\* sel_netport_sid(), sel_netnode_sid(), sel_netif_sid() and sel_ib_pkey_sid():
\* a miss, which takes the lock and computes the SID.
sel_net_sid(t) == \E n \in NetKinds, k \in NetKeys :
    /\ At(t, "idle") /\ ~Cached(n, k)
    /\ sel_net_lock(t, n)
    /\ task' = [task EXCEPT ![t] = [pc |-> "net", n |-> n, k |-> k, seq |-> cur]]
    /\ UNCHANGED <<policyvars, enforcing, status, avcvars, latest, net, issued, who>>

\* A full bucket of ports, nodes or partition keys loses its oldest entry.
sel_netport_insert(list, e) ==
    <<e>> \o (IF Len(list) = NetLimit THEN SubSeq(list, 1, NetLimit - 1) ELSE list)

\* -ENOSPC: a full table of interfaces keeps what it has.
sel_netif_insert(list, e) == IF Len(list) >= NetLimit THEN list ELSE <<e>> \o list

sel_net_insert(n, e) ==
    IF n = "netif" THEN sel_netif_insert(net[n], e) ELSE sel_netport_insert(net[n], e)

\* Without memory the SID is returned and not cached; a partition key fails.
sel_net_sid_slow(t) ==
    LET l == task[t] IN
    /\ At(t, "net")
    /\ \/ net' = [net EXCEPT ![l.n] = sel_net_insert(l.n, [key |-> l.k, seq |-> l.seq])]
       \/ UNCHANGED net
    /\ netlock' = [netlock EXCEPT ![l.n] = NULL]
    /\ Return(t)
    /\ UNCHANGED <<policyvars, enforcing, status, avcvars, latest, issued, who>>

\* The notifier of network devices: an interface goes down, and its entry goes.
sel_netif_kill ==
    /\ "netif" \in NetKinds /\ netlock["netif"] = NULL
    /\ \E i \in DOMAIN net["netif"] :
         net' = [net EXCEPT !["netif"] = SubSeq(@, 1, i - 1) \o SubSeq(@, i + 1, Len(@))]
    /\ UNCHANGED <<policyvars, enforcing, status, avcvars, latest, netlock, issued, task, who>>

-----------------------------------------------------------------------------
(* The access vector cache.                                                *)

\* context_struct_compute_av() and the booleans of conditional rules.
Allowed(p) == p.image.allow \cup UNION {p.image.cond[b] : b \in {x \in DOMAIN p.bools : p.bools[x]}}

\* Before the first policy everything is allowed.
security_compute_av ==
    IF cur = 0 THEN [seq |-> 0, allowed |-> Perms, permissive |-> FALSE,
                      xp |-> FALSE, xpd |-> NULL]
    ELSE [seq |-> cur, allowed |-> Allowed(pol[cur]),
          permissive |-> pol[cur].image.permissive,
          xp |-> pol[cur].image.xperms # NULL, xpd |-> NULL]

\* avc_lookup() in avc_has_perm_noaudit() and, with an xperm, in
\* avc_has_extended_perms().
avc_lookup(t) == \E k \in Keys, r \in Perms, x \in XPerms \cup {NULL} :
    /\ At(t, "idle")
    /\ task' = [task EXCEPT ![t] =
         [pc |-> IF avc[k] = NULL THEN "compute" ELSE "decide",
          key |-> k, req |-> r, x |-> x, avd |-> avc[k]]]
    /\ UNCHANGED <<policyvars, enforcing, status, avcvars, latest, netvars, issued, who>>

avc_compute_av(t) ==
    /\ At(t, "compute")
    /\ task' = [task EXCEPT ![t].avd = security_compute_av, ![t].pc = "notif"]
    /\ UNCHANGED <<policyvars, enforcing, status, avcvars, latest, netvars, issued, who>>

\* The check of avc_insert(), before it allocates and locks anything.
avc_latest_notif_check(t) ==
    /\ At(t, "notif")
    /\ Goto(t, IF task[t].avd.seq < latest THEN "decide" ELSE "alloc")
    /\ UNCHANGED <<policyvars, enforcing, status, avcvars, latest, netvars, issued, who>>

\* Above the threshold a node is reclaimed, unless its slot is locked.
Reclaimable == {k \in Keys : avc[k] # NULL} \cup {NULL}

avc_alloc_node(t, next) ==
    \/ /\ active' = active + 1
       /\ active' <= CacheThreshold /\ UNCHANGED avc
       /\ Goto(t, next)
    \/ /\ active + 1 > CacheThreshold
       /\ \E v \in Reclaimable :
          IF v = NULL THEN active' = active + 1 /\ UNCHANGED avc
          ELSE active' = active /\ avc' = [avc EXCEPT ![v] = NULL]
       /\ Goto(t, next)

avc_insert_alloc(t) ==
    /\ At(t, "alloc")
    /\ \/ avc_alloc_node(t, "insert")
       \/ Goto(t, "decide") /\ UNCHANGED avcvars
    /\ UNCHANGED <<policyvars, enforcing, status, latest, netvars, issued, who>>

\* hlist_add_head_rcu() or avc_node_replace() under the lock of the slot.
avc_node_replace(k, node) ==
    /\ avc' = [avc EXCEPT ![k] = node]
    /\ active' = IF avc[k] = NULL THEN active ELSE active - 1

avc_insert(t) ==
    /\ At(t, "insert")
    /\ avc_node_replace(task[t].key, task[t].avd)
    /\ Goto(t, "decide")
    /\ UNCHANGED <<policyvars, enforcing, status, latest, netvars, issued, who>>

\* What the task was allowed, with the extended permission it asks for.
Granted(l) ==
    /\ l.req \in l.avd.allowed
    /\ l.x # NULL /\ l.avd.xp => l.x \in l.avd.xpd

\* A decision about extended permissions is computed when the node has none.
avc_compute_xperms(t) ==
    LET l == task[t] IN
    /\ At(t, "decide")
    /\ l.x # NULL /\ l.avd.xp /\ l.avd.xpd = NULL
    /\ task' = [task EXCEPT ![t].pc = "xalloc", ![t].avd.xpd =
                    IF pol[cur].image.xperms = NULL THEN {} ELSE pol[cur].image.xperms]
    /\ UNCHANGED <<policyvars, enforcing, status, avcvars, latest, netvars, issued, who>>

avc_update_alloc(t) ==
    /\ At(t, "xalloc") \/ At(t, "galloc")
    /\ \/ avc_alloc_node(t, IF At(t, "xalloc") THEN "xupdate" ELSE "gupdate")
       \/ /\ IF At(t, "xalloc") THEN Goto(t, "decide") ELSE Return(t)
          /\ UNCHANGED avcvars
    /\ UNCHANGED <<policyvars, enforcing, status, latest, netvars, issued, who>>

\* AVC_CALLBACK_ADD_XPERMS and AVC_CALLBACK_GRANT.
Updated(l, node) ==
    IF l.pc = "xupdate" THEN [node EXCEPT !.xpd = l.avd.xpd]
    ELSE [node EXCEPT !.allowed = @ \cup {l.req},
                      !.xpd = IF l.x = NULL \/ @ = NULL THEN @ ELSE @ \cup {l.x}]

\* The node is updated if it is the one the decision was made from.
avc_update_node(t) ==
    LET l == task[t]
        node == avc[l.key] IN
    /\ At(t, "xupdate") \/ At(t, "gupdate")
    /\ IF node # NULL /\ node.seq = l.avd.seq
       THEN avc_node_replace(l.key, Updated(l, node))
       ELSE active' = active - 1 /\ UNCHANGED avc      \* avc_node_kill()
    /\ IF l.pc = "xupdate" THEN Goto(t, "decide") ELSE Return(t)
    /\ UNCHANGED <<policyvars, enforcing, status, latest, netvars, issued, who>>

\* The check ends: all was granted, or the denial stands because of AVC_STRICT
\* or of the enforcing mode; or avc_denied() lets the task pass.
avc_denied(t) ==
    LET l == task[t] IN
    /\ At(t, "decide")
    /\ l.x # NULL /\ l.avd.xp => l.avd.xpd # NULL
    /\ \/ Return(t)
       \/ ~Granted(l) /\ (enforcing => l.avd.permissive) /\ Goto(t, "galloc")
    /\ UNCHANGED <<policyvars, enforcing, status, avcvars, latest, netvars, issued, who>>

-----------------------------------------------------------------------------
(* Loading a policy: sel_write_load().                                     *)

Held(a, pc) == mutex = a /\ At(a, pc)

\* The lock and the permission check, whose denial changes nothing.
sel_write_load(a) == \E image \in Images :
    /\ At(a, "idle") /\ mutex = NULL /\ cur < who.changes
    /\ mutex' = a
    /\ task' = [task EXCEPT ![a] = [pc |-> "load", image |-> image, bools |-> image.bools,
                                    seq |-> cur + 1, pos |-> 1, count |-> 0]]
    /\ UNCHANGED <<pol, cur, tabs, pending, enforcing, status, avcvars, latest, netvars, issued, who>>

\* Mutant: the active values of the booleans are lost.
Mutsecurity_preserve_bools(old, bools) == bools

security_preserve_bools(old, bools) ==
    [b \in DOMAIN bools |-> IF b \in DOMAIN old THEN old[b] ELSE bools[b]]

\* The policy is read; the first needs no conversion.
security_load_policy(a) ==
    LET l == task[a] IN
    /\ Held(a, "load")
    /\ IF cur = 0
       THEN /\ tabs' = [tabs EXCEPT ![l.seq] = sidtab_init]
            /\ Goto(a, "nodes")
       ELSE /\ tabs' = sidtab_convert(tabs, pol[cur].tab, l.seq)
            /\ task' = [task EXCEPT ![a].pc = "convert",
                 ![a].count = Len(tabs[pol[cur].tab].entry),
                 ![a].bools = security_preserve_bools(pol[cur].bools, @)]
    /\ UNCHANGED <<pol, cur, mutex, pending, enforcing, status, avcvars, latest, netvars, issued, who>>

convert_entry(a) ==
    LET l == task[a] IN
    /\ Held(a, "convert") /\ l.pos <= l.count
    /\ tabs' = sidtab_convert_tree(tabs, pol[cur].tab, l.seq, l.pos, l.image, enforcing)
    /\ task' = [task EXCEPT ![a].pos = @ + 1]
    /\ UNCHANGED <<pol, cur, mutex, pending, enforcing, status, avcvars, latest, netvars, issued, who>>

convert_done(a) ==
    LET l == task[a] IN
    /\ Held(a, "convert") /\ l.pos > l.count
    /\ tabs' = sidtab_convert_hashtable(tabs, l.seq, l.count)
    /\ Goto(a, "nodes")
    /\ UNCHANGED <<pol, cur, mutex, pending, enforcing, status, avcvars, latest, netvars, issued, who>>

\* Reading the policy, converting the table or building the directories of
\* selinuxfs failed: the new policy goes.  Nothing is there to cancel, and
\* selinux_policy_cancel() faults, if it was the first one.
load_fails(a) ==
    LET l == task[a] IN
    /\ Held(a, "load") \/ Held(a, "convert") \/ Held(a, "nodes")
    /\ IF cur = 0 /\ l.pc = "nodes" THEN Goto(a, "oops") /\ UNCHANGED <<tabs, mutex>>
       ELSE /\ tabs' = [x \in Seqs |-> IF x = l.seq THEN NULL
                          ELSE IF cur # 0 /\ x = pol[cur].tab
                               THEN sidtab_cancel_convert(tabs, x)[x]
                          ELSE tabs[x]]
            /\ mutex' = NULL /\ Return(a)
    /\ UNCHANGED <<pol, cur, pending, enforcing, status, avcvars, latest, netvars, issued, who>>

\* Mutant: selinuxfs keeps the booleans of the old policy.
Mutsel_make_policy_nodes(a) ==
    /\ Held(a, "nodes")
    /\ Goto(a, "commit")
    /\ UNCHANGED <<pol, cur, tabs, mutex, pending, enforcing, status, avcvars, latest, netvars, issued, who>>

\* The booleans of the new policy replace the pending ones in selinuxfs.
sel_make_policy_nodes(a) ==
    /\ Held(a, "nodes")
    /\ pending' = task[a].bools
    /\ Goto(a, "commit")
    /\ UNCHANGED <<pol, cur, tabs, mutex, enforcing, status, avcvars, latest, netvars, issued, who>>

\* The pointer moves to the new policy while the old table is frozen.
selinux_policy_commit(a) ==
    LET l == task[a] IN
    /\ Held(a, "commit")
    /\ pol' = [pol EXCEPT ![l.seq] = [image |-> l.image, bools |-> l.bools, tab |-> l.seq]]
    /\ tabs' = IF cur = 0 THEN tabs ELSE sidtab_freeze_begin(tabs, pol[cur].tab)
    /\ cur' = l.seq
    /\ task' = [task EXCEPT ![a] = [pc |-> "sync", mode |-> "policy", todo |-> NetKinds,
                                    old |-> cur, keep |-> FALSE]]
    /\ UNCHANGED <<mutex, pending, enforcing, status, avcvars, latest, netvars, issued, who>>

-----------------------------------------------------------------------------
(* Booleans and the enforcing mode.                                        *)

sel_write_bool(a) == \E b \in DOMAIN pending :
    /\ At(a, "idle") /\ mutex = NULL
    /\ pending' = [pending EXCEPT ![b] = ~@]
    /\ UNCHANGED <<pol, cur, tabs, mutex, enforcing, status, avcvars, latest, netvars, issued, task, who>>

\* sel_commit_bools_write(), up to the installation of the copy of the policy.
security_set_bools(a) ==
    /\ At(a, "idle") /\ mutex = NULL /\ cur # 0 /\ cur < who.changes
    /\ pending # <<>>
    /\ mutex' = a
    /\ pol' = [pol EXCEPT ![cur + 1] = [pol[cur] EXCEPT !.bools =
                    [b \in DOMAIN pol[cur].bools |-> IF b \in DOMAIN pending THEN pending[b]
                                                    ELSE pol[cur].bools[b]]]]
    /\ cur' = cur + 1
    /\ task' = [task EXCEPT ![a] = [pc |-> "sync", mode |-> "policy", todo |-> NetKinds,
                                    old |-> cur, keep |-> TRUE]]
    /\ UNCHANGED <<tabs, pending, enforcing, status, avcvars, latest, netvars, issued, who>>

\* No lock serialises sel_write_enforce().
sel_write_enforce(a) ==
    /\ At(a, "idle")
    /\ enforcing' = ~enforcing
    /\ task' = [task EXCEPT ![a] = [pc |-> IF enforcing' THEN "flush" ELSE "status",
                                    mode |-> "enforce",
                                    value |-> enforcing', slot |-> 1, todo |-> NetKinds]]
    /\ UNCHANGED <<policyvars, status, avcvars, latest, netvars, issued, who>>

-----------------------------------------------------------------------------
(* What follows a change: the old policy is freed, and the caches flushed. *)

\* Mutant: the old policy is freed at once.
Mutsynchronize_rcu(s) == TRUE

synchronize_rcu(s) == Readers(s) = {}

\* selinux_policy_free(), or selinux_policy_cond_free() which keeps the table.
policy_free(a) ==
    LET l == task[a] IN
    /\ Held(a, "sync")
    /\ l.old # 0 => synchronize_rcu(l.old)
    /\ pol' = [s \in Seqs |-> IF s = l.old THEN NULL ELSE pol[s]]
    /\ tabs' = [s \in Seqs |-> IF l.old # 0 /\ ~l.keep /\ s = pol[l.old].tab THEN NULL ELSE tabs[s]]
    /\ task' = [task EXCEPT ![a] = [pc |-> "flush", mode |-> "policy",
                                    value |-> cur, slot |-> 1, todo |-> NetKinds]]
    /\ UNCHANGED <<cur, mutex, pending, enforcing, status, avcvars, latest, netvars, issued, who>>

\* One slot after the other, each under its lock.
avc_flush(a) ==
    LET k == task[a].slot IN
    /\ At(a, "flush")
    /\ avc' = [avc EXCEPT ![k] = NULL]
    /\ active' = IF avc[k] = NULL THEN active ELSE active - 1
    /\ IF k < Slots THEN task' = [task EXCEPT ![a].slot = k + 1] ELSE Goto(a, "callbacks")
    /\ UNCHANGED <<policyvars, enforcing, status, latest, netvars, issued, who>>

\* The AVC_CALLBACK_RESET callbacks: sel_netif_flush() and the like, each under
\* the lock of its cache.
sel_net_flush(n) == netlock[n] = NULL /\ net' = [net EXCEPT ![n] = <<>>]

avc_callbacks(a) ==
    /\ At(a, "callbacks") /\ task[a].todo # {}
    /\ LET n == CHOOSE n \in task[a].todo : TRUE IN
       sel_net_flush(n) /\ task' = [task EXCEPT ![a].todo = @ \ {n}]
    /\ UNCHANGED <<policyvars, enforcing, status, avcvars, latest, netlock, issued, who>>

\* avc_latest_notif_update() ends avc_ss_reset(): after setenforce for seqno 0.
avc_latest_notif_update(a) ==
    /\ At(a, "callbacks") /\ task[a].todo = {}
    /\ latest' = IF task[a].mode = "policy" THEN task[a].value ELSE latest
    /\ Goto(a, "status")
    /\ UNCHANGED <<policyvars, enforcing, status, avcvars, netvars, issued, who>>

\* The page exists from the first opening of /selinux/status on.
selinux_kernel_status_page ==
    /\ status = NULL /\ cur # 0
    /\ status' = [sequence |-> 0, enforcing |-> enforcing, policyload |-> 0,
                  deny_unknown |-> pol[cur].image.deny_unknown]
    /\ UNCHANGED <<policyvars, enforcing, avcvars, latest, netvars, issued, task, who>>

Done(a) == Return(a) /\ mutex' = IF mutex = a THEN NULL ELSE mutex

\* selinux_status_update_setenforce() and selinux_status_update_policyload():
\* the sequence is odd while the values change.
status_update_begin(a) ==
    LET l == task[a] IN
    /\ At(a, "status")
    /\ IF status = NULL THEN Done(a) /\ UNCHANGED status
       ELSE /\ status.sequence = 0
            /\ status' = [status EXCEPT !.sequence = 1,
                 !.enforcing = IF l.mode = "enforce" THEN l.value ELSE @,
                 !.policyload = IF l.mode = "policy" THEN l.value ELSE @]
            /\ Goto(a, "status2") /\ UNCHANGED mutex
    /\ UNCHANGED <<pol, cur, tabs, pending, enforcing, avcvars, latest, netvars, issued, who>>

\* Mutant: a policy load leaves deny_unknown as it was.
Mutstatus_update_end(a) ==
    /\ At(a, "status2")
    /\ status' = [status EXCEPT !.sequence = 0]
    /\ Done(a)
    /\ UNCHANGED <<pol, cur, tabs, pending, enforcing, avcvars, latest, netvars, issued, who>>

status_update_end(a) ==
    LET l == task[a] IN
    /\ At(a, "status2")
    /\ status' = [status EXCEPT !.sequence = 0, !.deny_unknown =
                    IF l.mode = "policy" THEN pol[cur].image.deny_unknown ELSE @]
    /\ Done(a)
    /\ UNCHANGED <<pol, cur, tabs, pending, enforcing, avcvars, latest, netvars, issued, who>>

-----------------------------------------------------------------------------
Label(t) == security_context_to_sid_core(t) \/ security_context_to_sid_retry(t)
            \/ sidtab_context_to_sid(t)
Net(t) == sel_net_sid(t) \/ sel_net_sid_slow(t)
Check(t) == avc_lookup(t) \/ avc_compute_av(t) \/ avc_latest_notif_check(t)
            \/ avc_insert_alloc(t) \/ avc_insert(t) \/ avc_compute_xperms(t)
            \/ avc_update_alloc(t) \/ avc_update_node(t) \/ avc_denied(t)
Load(a) == sel_write_load(a) \/ security_load_policy(a) \/ convert_entry(a)
           \/ convert_done(a) \/ load_fails(a) \/ sel_make_policy_nodes(a)
           \/ selinux_policy_commit(a)
Notify(a) == policy_free(a) \/ avc_flush(a) \/ avc_callbacks(a)
             \/ avc_latest_notif_update(a) \/ status_update_begin(a) \/ status_update_end(a)

Next ==
    \/ \E t \in Labellers \cap who.tasks : Label(t)
    \/ \E t \in Netters \cap who.tasks : Net(t)
    \/ \E t \in Checkers \cap who.tasks : Check(t)
    \/ \E a \in Admins \cap who.tasks :
        Load(a) \/ Notify(a) \/ sel_write_bool(a) \/ security_set_bools(a) \/ sel_write_enforce(a)
    \/ sel_netif_kill \/ selinux_kernel_status_page

Spec == Init /\ [][Next]_vars

-----------------------------------------------------------------------------
(* Properties.                                                             *)

\* No SID is lost or changes its meaning: whatever loads, cancellations and
\* lookups happened in between, the table in use has the context for which a SID
\* was given out, and finds the SID, or another of that context, by it.  The live
\* conversion in sidtab_context_to_sid() and the freezing in
\* selinux_policy_commit() exist for this.
SidsKept ==
    \A i \in issued : cur # 0 =>
        LET s == tabs[pol[cur].tab] IN
        /\ sidtab_search_core(s, i[1], TRUE).name = i[2]
        /\ context_to_sid(s, ContextOf(s, i[1])) # SECSID_NULL

\* A task that found its policy under RCU never sees it, or its SID table, freed
\* by selinux_policy_free(); the commit of booleans frees the policy and keeps
\* the table the new policy shares.
NoStalePolicy ==
    /\ \A t \in Labellers : At(t, "locked") =>
        pol[task[t].policy] # NULL /\ tabs[pol[task[t].policy].tab] # NULL
    /\ cur # 0 => pol[cur] # NULL /\ tabs[pol[cur].tab] # NULL

\* The change of policy is not yet known to a network cache.
Unflushed(n) == \E a \in Admins : /\ task[a].pc \in {"sync", "flush", "callbacks"}
                                  /\ task[a].mode = "policy" /\ n \in task[a].todo

\* A network cache never answers from an older policy once its reset callback has
\* run: a SID that sel_netport_sid_slow() computed from the old policy is inserted
\* before the flush, because the lock covers both.
NetFresh ==
    \A n \in NetKinds : \A i \in DOMAIN net[n] : net[n][i].seq = cur \/ Unflushed(n)

\* active_nodes, which decides when nodes are reclaimed, counts the nodes in the
\* cache and those that tasks allocated and did not link yet, through every
\* replacement, reclaim, flush and failure.
ActiveExact ==
    active = Cardinality({k \in Keys : avc[k] # NULL})
             + Cardinality({t \in Checkers : task[t].pc \in {"insert", "xupdate", "gupdate"}})

\* The caches of the server are what their counters and numbers say: none keeps
\* a node it does not count or an answer of a policy that is gone (avc.c, netport.c
\* and its kin).
CachesExact == ActiveExact /\ NetFresh

\* selinuxfs and the policy agree on the booleans whenever policy_mutex is free:
\* security_set_bools() warns when their numbers differ.
BoolsAgree == mutex = NULL /\ cur # 0 => DOMAIN pending = DOMAIN pol[cur].bools

\* A policy load keeps the values of the booleans the old policy has.
BoolsPreserved == [][cur # 0 /\ cur' > cur /\ pol'[cur'].tab # pol[cur].tab =>
    \A b \in DOMAIN pol[cur].bools \cap DOMAIN pol'[cur'].bools :
        pol'[cur'].bools[b] = pol[cur].bools[b]]_vars

\* What a process reads from the mapped status page with an even sequence number
\* belongs to one policy: once the load is announced, deny_unknown is that of the
\* policy whose number is in policyload, and it is the current one if no change
\* is under way.
StatusSound ==
    status # NULL /\ status.sequence = 0 /\ mutex = NULL =>
        /\ status.policyload \in {0, cur}
        /\ status.deny_unknown = pol[cur].image.deny_unknown

\* What the comment on security_context_to_sid() says (services.c:1675): -EINVAL
\* means that the context is invalid.
ValidResolves == [][\A t \in Labellers :
    At(t, "retry") /\ task'[t].pc = "idle" /\ issued' = issued /\ ~task[t].force
    => ~Accepts(pol[cur].image, task[t].ctx.name)
       \/ context_to_sid(tabs[pol[cur].tab], mapped(task[t].ctx.name)) # SECSID_NULL]_vars
=============================================================================
