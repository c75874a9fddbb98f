------------------------ MODULE SelinuxServerProofs ------------------------
(***************************************************************************)
(* Proofs about SelinuxServer, for every set of policies and tasks and any *)
(* number of policy changes.  The invariant comes in layers: the types and *)
(* the owner of policy_mutex first, then one layer for each property.      *)
(***************************************************************************)
EXTENDS SelinuxServer, FiniteSetTheorems, SequenceTheorems, WellFoundedInduction, TLAPS

-----------------------------------------------------------------------------
(* Types, and the owner of policy_mutex.                                   *)

LabelTask == [pc : {"locked", "retry"}, ctx : Context, force : BOOLEAN, policy : Seqs]
NetTask == [pc : {"net"}, n : NetKinds, k : NetKeys, seq : Nat]
CheckTask ==
    [pc : {"compute"}, key : Keys, req : Perms, x : XPerms \cup {NULL}, avd : {NULL}] \cup
    [pc : {"decide", "notif", "alloc", "insert", "xalloc", "xupdate", "galloc", "gupdate"},
     key : Keys, req : Perms, x : XPerms \cup {NULL}, avd : Decision]
Loading == {"load", "convert", "nodes", "commit", "oops"}
\* What `count' is depends on the table that is converted: TabsInv says how.
LoadTask(h) ==
    /\ h = [pc |-> h.pc, image |-> h.image, bools |-> h.bools, seq |-> h.seq, pos |-> h.pos,
            count |-> h.count]
    /\ h.pc \in Loading /\ h.image \in Images /\ h.bools \in BoolValues /\ h.seq \in Seqs
    /\ h.pos \in Nat
SyncTask == [pc : {"sync"}, mode : {"policy"}, todo : SUBSET NetKinds, old : Nat,
             keep : BOOLEAN]
Notifying == {"flush", "callbacks", "status", "status2"}
PolicyTask == [pc : Notifying, mode : {"policy"}, value : Nat, slot : Keys,
               todo : SUBSET NetKinds]
EnforceTask == [pc : Notifying, mode : {"enforce"}, value : BOOLEAN, slot : Keys,
                todo : SUBSET NetKinds]

\* What a task of each kind may be doing.
Idle == [pc : {"idle"}]
LabelStates == Idle \cup LabelTask
NetStates == Idle \cup NetTask
CheckStates == Idle \cup CheckTask
AdminState(h) == \/ h \in Idle \cup SyncTask \cup PolicyTask \cup EnforceTask
                 \/ LoadTask(h)

VarsOK ==
    /\ pol \in [Seqs -> Policy \cup {NULL}]
    /\ cur \in 0 .. MaxSeq
    /\ mutex \in Admins \cup {NULL}
    /\ \A b \in DOMAIN pending : pending[b] \in BOOLEAN
    /\ enforcing \in BOOLEAN
    /\ status \in Page \cup {NULL}
    /\ avc \in [Keys -> Decision \cup {NULL}]
    /\ active \in Int /\ latest \in Nat
    /\ net \in [NetKinds -> Seq([key : NetKeys, seq : Nat])]
    /\ who \in Scenarios

TaskOK ==
    /\ task = [t \in Tasks |-> task[t]]
    /\ \A t \in Labellers : task[t] \in LabelStates
    /\ \A t \in Netters : task[t] \in NetStates
    /\ \A t \in Checkers : task[t] \in CheckStates
    /\ \A a \in Admins : AdminState(task[a])

\* policy_mutex belongs to the administrator who changes the policy.
Owning(h) == \/ h.pc \in Loading \cup {"sync"}
             \/ h.pc \in Notifying /\ h.mode = "policy"
MutexOK == \A a \in Admins : mutex = a <=> Owning(task[a])

\* There is a policy from the first load on: the one in use, and the one that a
\* change replaced until it is freed.  Decisions about extended permissions come
\* from a policy.
Progress(a) ==
    /\ task[a].pc \in {"load", "convert", "nodes", "commit"} => task[a].seq = cur + 1
    /\ task[a].pc = "convert" => cur # 0
    /\ task[a].pc = "sync" =>
         /\ task[a].old < cur
         /\ task[a].old # 0 => pol[task[a].old] # NULL
    /\ task[a].pc \in Notifying /\ task[a].mode = "policy" => cur # 0
    /\ task[a].pc = "status2" => status # NULL
Current ==
    /\ cur # 0 => pol[cur] # NULL
    /\ \A a \in Admins : Progress(a)
    /\ \A t \in Labellers : task[t].pc # "idle" => cur # 0
    /\ \A t \in Checkers : task[t].pc \notin {"idle", "compute"} /\ task[t].avd.xp => cur # 0
    /\ \A k \in Keys : avc[k] # NULL /\ avc[k].xp => cur # 0

TypeInv == VarsOK /\ TaskOK /\ MutexOK /\ Current

-----------------------------------------------------------------------------
(* The caches.                                                             *)

Pending == {t \in Checkers : task[t].pc \in {"insert", "xupdate", "gupdate"}}
Linked == {k \in Keys : avc[k] # NULL}

\* A task that computes the SID of a network object owns the lock of the cache,
\* and a policy it started from that is gone is still to be flushed.
NetInv ==
    /\ netlock \in [NetKinds -> Netters \cup {NULL}]
    /\ NetFresh
    /\ \A t \in Netters : task[t].pc = "net" =>
         /\ netlock[task[t].n] = t
         /\ task[t].seq = cur \/ Unflushed(task[t].n)

-----------------------------------------------------------------------------
(* The booleans and the status page.                                       *)

BoolsOf(a) ==
    /\ task[a].pc \in {"load", "convert", "nodes"} /\ cur # 0 =>
         DOMAIN pending = DOMAIN pol[cur].bools
    /\ task[a].pc \in {"convert", "nodes", "commit"} /\ cur # 0 =>
         \A b \in DOMAIN pol[cur].bools \cap DOMAIN task[a].bools :
            task[a].bools[b] = pol[cur].bools[b]
    /\ task[a].pc = "commit" => DOMAIN pending = DOMAIN task[a].bools
    /\ Owning(task[a]) /\ task[a].pc \in {"sync"} \cup Notifying =>
         DOMAIN pending = DOMAIN pol[cur].bools
BoolsInv == BoolsAgree /\ \A a \in Admins : BoolsOf(a)

StatusNow == /\ status.policyload \in {0, cur}
             /\ status.deny_unknown = pol[cur].image.deny_unknown

StatusOf(a) ==
    /\ status # NULL /\ task[a].pc \in {"load", "convert", "nodes", "commit"} => StatusNow
    /\ task[a].pc \in Notifying /\ task[a].mode = "policy" => task[a].value = cur
    /\ task[a].pc = "status2" /\ task[a].mode = "policy" => status.policyload = cur
StatusInv ==
    /\ status # NULL => cur # 0
    /\ status # NULL /\ mutex = NULL => StatusNow
    /\ \A a \in Admins : StatusOf(a)
-----------------------------------------------------------------------------
(* The types are kept.                                                     *)

LEMMA Kinds ==
    /\ \A t \in Labellers : t \in Tasks /\ t \notin Netters \cup Checkers \cup Admins
    /\ \A t \in Netters : t \in Tasks /\ t \notin Labellers \cup Checkers \cup Admins
    /\ \A t \in Checkers : t \in Tasks /\ t \notin Labellers \cup Netters \cup Admins
    /\ \A t \in Admins : t \in Tasks /\ t \notin Labellers \cup Netters \cup Checkers
    /\ NULL \notin Tasks
BY ServerAssumption DEF Tasks

\* What a task is doing when its pc says so.
LEMMA Shapes ==
    ASSUME TaskOK
    PROVE  /\ \A t \in Labellers : task[t].pc # "idle" => task[t] \in LabelTask
           /\ \A t \in Netters : task[t].pc # "idle" => task[t] \in NetTask
           /\ \A t \in Checkers : task[t].pc # "idle" => task[t] \in CheckTask
           /\ \A a \in Admins :
                /\ task[a].pc \in Loading => LoadTask(task[a])
                /\ task[a].pc = "sync" => task[a] \in SyncTask
                /\ task[a].pc \in Notifying => task[a] \in PolicyTask \cup EnforceTask
BY DEF TaskOK, LabelStates, NetStates, CheckStates, AdminState, Idle, LabelTask, NetTask,
       CheckTask, LoadTask, SyncTask, PolicyTask, EnforceTask, Notifying, Loading

\* A step of one task.
LEMMA TaskChange ==
    ASSUME TaskOK, NEW t \in Tasks, NEW h, task' = [task EXCEPT ![t] = h],
           t \in Labellers => h \in LabelStates,
           t \in Netters => h \in NetStates,
           t \in Checkers => h \in CheckStates,
           t \in Admins => AdminState(h)
    PROVE  TaskOK' /\ task'[t] = h /\ \A u \in Tasks : u # t => task'[u] = task[u]
<1>1. task'[t] = h /\ \A u \in Tasks : u # t => task'[u] = task[u]
  BY DEF TaskOK
<1>2. task' = [u \in Tasks |-> task'[u]]
  BY DEF TaskOK
<1> QED BY <1>1, <1>2, Kinds DEF TaskOK

LEMMA MutexChange ==
    ASSUME MutexOK, NEW a \in Admins, \A u \in Admins : u # a => task'[u] = task[u],
           \/ mutex' = mutex /\ (Owning(task'[a]) <=> Owning(task[a]))
           \/ mutex = NULL /\ mutex' = a /\ Owning(task'[a])
           \/ mutex = a /\ mutex' = NULL /\ ~Owning(task'[a])
    PROVE  MutexOK'
BY Kinds DEF MutexOK

LEMMA MutexFrame ==
    ASSUME MutexOK, UNCHANGED mutex, \A u \in Admins : task'[u] = task[u]
    PROVE  MutexOK'
BY DEF MutexOK

LEMMA IdleType ==
    /\ idle \in LabelStates /\ idle \in NetStates /\ idle \in CheckStates
    /\ AdminState(idle) /\ ~Owning(idle)
BY DEF idle, Idle, LabelStates, NetStates, CheckStates, AdminState, Owning, Notifying, Loading

LEMMA TypeInit == Init => TypeInv
<1> SUFFICES ASSUME Init PROVE TypeInv
  OBVIOUS
<1>1. VarsOK
  <2>1. \A b \in DOMAIN pending : pending[b] \in BOOLEAN
    BY DEF Init
  <2>2. net \in [NetKinds -> Seq([key : NetKeys, seq : Nat])]
    BY DEF Init
  <2>3. cur \in 0 .. MaxSeq
    BY ServerAssumption DEF Init
  <2> QED BY <2>1, <2>2, <2>3 DEF Init, VarsOK
<1>2. TaskOK
  BY IdleType, Kinds DEF Init, TaskOK
<1>3. MutexOK
  BY IdleType, Kinds DEF Init, MutexOK
<1>4. Current
  BY Kinds DEF Init, Current, Progress, idle, Notifying
<1> QED BY <1>1, <1>2, <1>3, <1>4 DEF TypeInv
\* Steps of tasks that are not administrators leave the policies alone.
LEMMA CurrentFrame ==
    ASSUME Current, UNCHANGED <<pol, cur, status>>, \A a \in Admins : task'[a] = task[a],
           \A t \in Labellers : task'[t].pc # "idle" => cur # 0,
           \A t \in Checkers : task'[t].pc \notin {"idle", "compute"} /\ task'[t].avd.xp => cur # 0,
           \A k \in Keys : avc'[k] # NULL /\ avc'[k].xp => cur # 0
    PROVE  Current'
BY DEF Current, Progress

LEMMA ContextTypes ==
    /\ \A c \in Contexts : mapped(c) \in Context /\ unmapped(c) \in Context
    /\ mapped(Unlabeled) \in Context /\ mapped(NULL) \in Context
BY DEF mapped, unmapped, Context

LEMMA TypeLabel ==
    ASSUME TypeInv, NEW t \in Labellers, Label(t)
    PROVE  TypeInv' /\ \A u \in Tasks : u # t => task'[u] = task[u]
<1> USE Kinds
<1>0. task[t].pc # "idle" => task[t] \in LabelTask
  BY Shapes DEF TypeInv
<1>1. PICK h : /\ task' = [task EXCEPT ![t] = h]
               /\ h \in LabelStates
               /\ h.pc # "idle" => cur # 0
  <2>1. ASSUME NEW c \in Contexts \cup {Unlabeled, NULL}, NEW force \in BOOLEAN, NEW g,
               Resolve(t, c, force, g), cur # 0
        PROVE  \E h : /\ task' = [task EXCEPT ![t] = h] /\ h \in LabelStates
                      /\ h.pc # "idle" => cur # 0
    <3>1. CASE Return(t)
      BY <2>1, <3>1, IdleType DEF Return
    <3>2. CASE \E ctx \in {mapped(c), unmapped(c)} :
                  task' = [task EXCEPT ![t] = [pc |-> "locked", ctx |-> ctx, force |-> force,
                                               policy |-> cur]]
      <4>1. PICK ctx \in Context :
                task' = [task EXCEPT ![t] = [pc |-> "locked", ctx |-> ctx, force |-> force,
                                             policy |-> cur]]
        BY <3>2 DEF mapped, unmapped, Context
      <4>2. cur \in Seqs
        BY <2>1 DEF TypeInv, VarsOK, Seqs
      <4>3. [pc |-> "locked", ctx |-> ctx, force |-> force, policy |-> cur] \in LabelStates
        BY <4>2 DEF LabelStates, LabelTask
      <4> QED BY <2>1, <4>1, <4>3
    <3> QED BY <2>1, <3>1, <3>2 DEF Resolve
  <2>2. CASE security_context_to_sid_core(t)
    BY <2>1, <2>2 DEF security_context_to_sid_core
  <2>3. CASE security_context_to_sid_retry(t)
    <3>1. /\ cur # 0 /\ task[t].ctx.name \in Contexts \cup {Unlabeled, NULL}
          /\ task[t].force \in BOOLEAN
      BY <1>0, <2>3 DEF security_context_to_sid_retry, At, TypeInv, Current, LabelTask, Context
    <3> QED BY <2>1, <2>3, <3>1 DEF security_context_to_sid_retry
  <2>4. CASE sidtab_context_to_sid(t)
    <3>1. task[t] \in LabelTask /\ cur # 0
      BY <1>0, <2>4 DEF sidtab_context_to_sid, At, TypeInv, Current
    <3>2. CASE Return(t)
      BY <3>1, <3>2, IdleType DEF Return
    <3>3. CASE Goto(t, "retry")
      <4>1. [task[t] EXCEPT !.pc = "retry"] \in LabelStates
        BY <3>1 DEF LabelTask, LabelStates
      <4>2. task' = [task EXCEPT ![t] = [task[t] EXCEPT !.pc = "retry"]]
        BY <3>3 DEF Goto
      <4> QED BY <3>1, <4>1, <4>2
    <3> QED BY <2>4, <3>2, <3>3 DEF sidtab_context_to_sid
  <2> QED BY <2>2, <2>3, <2>4 DEF Label
<1>2. TaskOK' /\ task'[t] = h /\ \A u \in Tasks : u # t => task'[u] = task[u]
  BY <1>1, TaskChange DEF TypeInv
<1>3. UNCHANGED <<pol, cur, mutex, pending, enforcing, status, avcvars, latest, netvars, who>>
  BY DEF Label, security_context_to_sid_core, security_context_to_sid_retry,
         sidtab_context_to_sid, policyvars
<1>4. VarsOK'
  BY <1>3 DEF TypeInv, VarsOK, avcvars, netvars
<1>5. MutexOK'
  BY <1>2, <1>3, MutexFrame DEF TypeInv
<1>6. Current'
  <2>1. UNCHANGED <<pol, cur, status, avc>> /\ \A a \in Admins : task'[a] = task[a]
    BY <1>2, <1>3 DEF avcvars
  <2>2. \A u \in Labellers : task'[u].pc # "idle" => cur # 0
    BY <1>1, <1>2 DEF TypeInv, Current
  <2>3. \A u \in Checkers : task'[u] = task[u]
    BY <1>2
  <2> QED BY <2>1, <2>2, <2>3, CurrentFrame DEF TypeInv, Current
<1> QED BY <1>2, <1>4, <1>5, <1>6 DEF TypeInv
NetEntry == [key : NetKeys, seq : Nat]

\* What the network caches insert and drop.
LEMMA NetInsertType ==
    ASSUME VarsOK, NEW n \in NetKinds, NEW e \in NetEntry
    PROVE  /\ sel_net_insert(n, e) \in Seq(NetEntry)
           /\ \A i \in DOMAIN sel_net_insert(n, e) :
                 \/ sel_net_insert(n, e)[i] = e
                 \/ \E j \in DOMAIN net[n] : sel_net_insert(n, e)[i] = net[n][j]
<1> DEFINE old == net[n]
           kept == IF Len(old) = NetLimit THEN SubSeq(old, 1, NetLimit - 1) ELSE old
<1>1. old \in Seq(NetEntry)
  BY DEF VarsOK, NetEntry
<1>2. /\ kept \in Seq(NetEntry)
      /\ \A i \in DOMAIN kept : \E j \in DOMAIN old : kept[i] = old[j]
  <2>1. CASE Len(old) = NetLimit
    <3>1. kept = SubSeq(old, 1, NetLimit - 1) /\ NetLimit - 1 \in 0 .. Len(old)
      BY <1>1, <2>1, ServerAssumption
    <3>2. Len(kept) = NetLimit - 1 /\ kept \in Seq(NetEntry)
          /\ \A i \in 1 .. NetLimit - 1 : kept[i] = old[i]
      BY <1>1, <2>1, <3>1, ServerAssumption, SubSeqProperties
    <3>3. DOMAIN kept = 1 .. NetLimit - 1 /\ DOMAIN old = 1 .. NetLimit
      BY <1>1, <2>1, <3>2
    <3> QED BY <3>2, <3>3, ServerAssumption
  <2>2. CASE Len(old) # NetLimit
    BY <1>1, <2>2
  <2> QED BY <2>1, <2>2
<1>3. ASSUME NEW s \in Seq(NetEntry)
      PROVE  /\ <<e>> \o s \in Seq(NetEntry)
             /\ \A i \in DOMAIN (<<e>> \o s) :
                   (<<e>> \o s)[i] = e \/ \E j \in DOMAIN s : (<<e>> \o s)[i] = s[j]
  <2>1. Len(<<e>> \o s) = 1 + Len(s) /\ <<e>> \o s \in Seq(NetEntry)
    OBVIOUS
  <2>2. ASSUME NEW i \in 1 .. 1 + Len(s)
        PROVE  (<<e>> \o s)[i] = IF i = 1 THEN e ELSE s[i - 1]
    OBVIOUS
  <2>3. DOMAIN (<<e>> \o s) = 1 .. 1 + Len(s) /\ DOMAIN s = 1 .. Len(s)
    BY <2>1
  <2>4. ASSUME NEW i \in 1 .. 1 + Len(s), i # 1 PROVE i - 1 \in 1 .. Len(s)
    BY <2>4
  <2> QED BY <2>1, <2>2, <2>3, <2>4
<1>4. CASE n # "netif"
  <2>1. sel_net_insert(n, e) = <<e>> \o kept
    BY <1>4 DEF sel_net_insert, sel_netport_insert
  <2> HIDE DEF kept, old
  <2>2. /\ <<e>> \o kept \in Seq(NetEntry)
        /\ \A i \in DOMAIN (<<e>> \o kept) :
              (<<e>> \o kept)[i] = e \/ \E j \in DOMAIN kept : (<<e>> \o kept)[i] = kept[j]
    BY <1>2, <1>3
  <2>3. \A i \in DOMAIN (<<e>> \o kept) :
              (<<e>> \o kept)[i] = e \/ \E j \in DOMAIN old : (<<e>> \o kept)[i] = old[j]
    BY <1>2, <2>2
  <2> USE DEF old
  <2> QED BY <2>1, <2>2, <2>3
<1>5. CASE n = "netif" /\ Len(old) >= NetLimit
  <2>1. sel_net_insert(n, e) = old
    BY <1>5 DEF sel_net_insert, sel_netif_insert
  <2> QED BY <1>1, <2>1
<1>6. CASE n = "netif" /\ ~(Len(old) >= NetLimit)
  <2>1. sel_net_insert(n, e) = <<e>> \o old
    BY <1>6 DEF sel_net_insert, sel_netif_insert
  <2> HIDE DEF kept, old
  <2>2. /\ <<e>> \o old \in Seq(NetEntry)
        /\ \A i \in DOMAIN (<<e>> \o old) :
              (<<e>> \o old)[i] = e \/ \E j \in DOMAIN old : (<<e>> \o old)[i] = old[j]
    BY <1>1, <1>3
  <2> USE DEF old
  <2> QED BY <2>1, <2>2
<1> QED BY <1>4, <1>5, <1>6

LEMMA RemoveEntryType ==
    ASSUME NEW s \in Seq(NetEntry), NEW k \in DOMAIN s
    PROVE  LET r == SubSeq(s, 1, k - 1) \o SubSeq(s, k + 1, Len(s)) IN
           /\ r \in Seq(NetEntry)
           /\ \A i \in DOMAIN r : \E j \in DOMAIN s : r[i] = s[j]
<1> DEFINE a == SubSeq(s, 1, k - 1)
           b == SubSeq(s, k + 1, Len(s))
<1>0. k \in 1 .. Len(s) /\ DOMAIN s = 1 .. Len(s) /\ Len(s) \in Nat
  OBVIOUS
<1>1. a \in Seq(NetEntry) /\ Len(a) = k - 1 /\ \A i \in 1 .. k - 1 : a[i] = s[i]
  BY <1>0, SubSeqProperties
<1>2. b \in Seq(NetEntry) /\ Len(b) = Len(s) - k /\ \A i \in 1 .. Len(s) - k : b[i] = s[k + i]
  BY <1>0, SubSeqProperties
<1> HIDE DEF a, b
<1>3. a \o b \in Seq(NetEntry) /\ Len(a \o b) = Len(s) - 1
  <2>1. a \o b \in Seq(NetEntry) /\ Len(a \o b) = Len(a) + Len(b)
    BY <1>1, <1>2, ConcatProperties
  <2> QED BY <1>0, <1>1, <1>2, <2>1
<1>4. ASSUME NEW i \in 1 .. Len(s) - 1
      PROVE  \E j \in 1 .. Len(s) : (a \o b)[i] = s[j]
  <2>1. CASE i <= k - 1
    <3>1. (a \o b)[i] = a[i] /\ i \in 1 .. k - 1 /\ i \in 1 .. Len(s)
      BY <1>0, <1>1, <1>2, <2>1
    <3> QED BY <1>1, <3>1
  <2>2. CASE ~(i <= k - 1)
    <3>1. i - (k - 1) \in 1 .. Len(s) - k
      BY <1>0, <2>2
    <3>2. (a \o b)[i] = b[i - (k - 1)]
      BY <1>0, <1>1, <1>2, <2>2, <3>1
    <3>3. b[i - (k - 1)] = s[k + (i - (k - 1))] /\ k + (i - (k - 1)) \in 1 .. Len(s)
      BY <1>0, <1>2, <3>1
    <3> QED BY <3>2, <3>3
  <2> QED BY <2>1, <2>2
<1>5. DOMAIN (a \o b) = 1 .. Len(s) - 1
  BY <1>3
<1>6. /\ a \o b \in Seq(NetEntry)
      /\ \A i \in DOMAIN (a \o b) : \E j \in DOMAIN s : (a \o b)[i] = s[j]
  BY <1>0, <1>3, <1>4, <1>5
<1> USE DEF a, b
<1> QED BY <1>6

LEMMA TypeNet ==
    ASSUME TypeInv, NEW t \in Netters, Net(t)
    PROVE  TypeInv' /\ \A u \in Tasks : u # t => task'[u] = task[u]
<1> USE Kinds
<1>1. PICK h : task' = [task EXCEPT ![t] = h] /\ h \in NetStates
  <2>1. CASE sel_net_sid(t)
    <3>1. PICK n \in NetKinds, k \in NetKeys :
             task' = [task EXCEPT ![t] = [pc |-> "net", n |-> n, k |-> k, seq |-> cur]]
      BY <2>1 DEF sel_net_sid
    <3>2. [pc |-> "net", n |-> n, k |-> k, seq |-> cur] \in NetStates
      BY DEF NetStates, NetTask, TypeInv, VarsOK
    <3> QED BY <3>1, <3>2
  <2>2. CASE sel_net_sid_slow(t)
    BY <2>2, IdleType DEF sel_net_sid_slow, Return
  <2> QED BY <2>1, <2>2 DEF Net
<1>2. TaskOK' /\ \A u \in Tasks : u # t => task'[u] = task[u]
  BY <1>1, TaskChange DEF TypeInv
<1>3. UNCHANGED <<pol, cur, mutex, pending, enforcing, status, avcvars, latest, who>>
  BY DEF Net, sel_net_sid, sel_net_sid_slow, policyvars
<1>n. net' \in [NetKinds -> Seq([key : NetKeys, seq : Nat])]
  <2>1. CASE UNCHANGED net
    BY <2>1 DEF TypeInv, VarsOK
  <2>2. CASE sel_net_sid_slow(t)
               /\ net' = [net EXCEPT ![task[t].n] =
                            sel_net_insert(task[t].n, [key |-> task[t].k, seq |-> task[t].seq])]
    <3>1. task[t] \in NetTask
      BY <2>2, Shapes DEF sel_net_sid_slow, At, TypeInv
    <3>2. task[t].n \in NetKinds /\ [key |-> task[t].k, seq |-> task[t].seq] \in NetEntry
      BY <3>1 DEF NetTask, NetEntry
    <3>3. sel_net_insert(task[t].n, [key |-> task[t].k, seq |-> task[t].seq]) \in Seq(NetEntry)
      BY <3>2, NetInsertType DEF TypeInv
    <3> QED BY <2>2, <3>2, <3>3 DEF TypeInv, VarsOK, NetEntry
  <2> QED BY <2>1, <2>2 DEF Net, sel_net_sid, sel_net_sid_slow
<1>4. VarsOK'
  BY <1>3, <1>n DEF TypeInv, VarsOK, avcvars
<1>5. MutexOK'
  BY <1>2, <1>3, MutexFrame DEF TypeInv
<1>6. Current'
  <2>1. UNCHANGED <<pol, cur, status, avc>> /\ \A u \in Admins \cup Labellers \cup Checkers : task'[u] = task[u]
    BY <1>2, <1>3 DEF avcvars
  <2> QED BY <2>1, CurrentFrame DEF TypeInv, Current
<1> QED BY <1>2, <1>4, <1>5, <1>6 DEF TypeInv
LEMMA CheckShape ==
    ASSUME TaskOK, NEW t \in Checkers, task[t].pc # "idle"
    PROVE  /\ task[t].key \in Keys /\ task[t].req \in Perms /\ task[t].x \in XPerms \cup {NULL}
           /\ task[t].pc # "compute" => task[t].avd \in Decision
           /\ task[t].pc \in {"compute", "decide", "notif", "alloc", "insert", "xalloc",
                              "xupdate", "galloc", "gupdate"}
           /\ \A d \in Decision, p \in {"decide", "notif", "alloc", "insert", "xalloc",
                                        "xupdate", "galloc", "gupdate"} :
                [task[t] EXCEPT !.avd = d, !.pc = p] \in CheckStates
           /\ task[t].pc # "compute" =>
                \A p \in {"decide", "notif", "alloc", "insert", "xalloc", "xupdate", "galloc",
                          "gupdate"} : [task[t] EXCEPT !.pc = p] \in CheckStates
BY Shapes DEF CheckTask, CheckStates

\* Decisions are computed from the policy in use.
LEMMA DecisionType ==
    ASSUME TypeInv
    PROVE  security_compute_av \in Decision /\ (security_compute_av.xp => cur # 0)
<1>1. CASE cur = 0
  <2>1. security_compute_av = [seq |-> 0, allowed |-> Perms, permissive |-> FALSE,
                               xp |-> FALSE, xpd |-> NULL]
    BY <1>1 DEF security_compute_av
  <2> QED BY <2>1 DEF Decision
<1>2. CASE cur # 0
  <2>1. pol[cur] \in Policy /\ cur \in Nat
    BY <1>2 DEF TypeInv, VarsOK, Current, Seqs
  <2>2. pol[cur].image \in PolicyImage /\ pol[cur].bools \in BoolValues
    BY <2>1, ServerAssumption DEF Policy
  <2>3. pol[cur].image.allow \subseteq Perms /\ pol[cur].image.cond \in [BoolNames -> SUBSET Perms]
        /\ pol[cur].image.permissive \in BOOLEAN /\ DOMAIN pol[cur].bools \subseteq BoolNames
    BY <2>2 DEF PolicyImage, BoolValues
  <2>4. Allowed(pol[cur]) \subseteq Perms
    BY <2>3 DEF Allowed
  <2>5. security_compute_av = [seq |-> cur, allowed |-> Allowed(pol[cur]),
                               permissive |-> pol[cur].image.permissive,
                               xp |-> pol[cur].image.xperms # NULL, xpd |-> NULL]
    BY <1>2 DEF security_compute_av
  <2> QED BY <1>2, <2>1, <2>3, <2>4, <2>5 DEF Decision
<1> QED BY <1>1, <1>2

\* What a check does to its task, and to the cache.
CheckStep(t, h) ==
    /\ task' = [task EXCEPT ![t] = h]
    /\ h \in CheckStates
    /\ h.pc \notin {"idle", "compute"} /\ h.avd.xp => cur # 0
CacheStep ==
    /\ avc' \in [Keys -> Decision \cup {NULL}]
    /\ active' \in Int
    /\ \A k \in Keys : avc'[k] # NULL /\ avc'[k].xp => cur # 0

LEMMA GotoStep ==
    ASSUME TypeInv, NEW t \in Checkers, task[t].pc \notin {"idle", "compute"},
           NEW p \in {"decide", "notif", "alloc", "insert", "xalloc", "xupdate", "galloc",
                      "gupdate"}, Goto(t, p)
    PROVE  /\ CheckStep(t, [task[t] EXCEPT !.pc = p])
           /\ [task[t] EXCEPT !.pc = p].pc = p
<1>1. task' = [task EXCEPT ![t] = [task[t] EXCEPT !.pc = p]]
  BY DEF Goto
<1>2. [task[t] EXCEPT !.pc = p] \in CheckStates
  BY CheckShape DEF TypeInv
<1>3. [task[t] EXCEPT !.pc = p].avd = task[t].avd /\ [task[t] EXCEPT !.pc = p].pc = p
  BY Shapes DEF TypeInv, CheckTask
<1>4. task[t].avd.xp => cur # 0
  BY DEF TypeInv, Current
<1> QED BY <1>1, <1>2, <1>3, <1>4 DEF CheckStep

LEMMA ReturnStep ==
    ASSUME NEW t \in Checkers, Return(t)
    PROVE  CheckStep(t, idle) /\ idle.pc = "idle"
BY IdleType DEF Return, CheckStep, idle

LEMMA CacheFrame ==
    ASSUME TypeInv, UNCHANGED avc, active' \in Int
    PROVE  CacheStep
BY DEF TypeInv, VarsOK, Current, CacheStep

LEMMA CacheChange ==
    ASSUME TypeInv, NEW k \in Keys, NEW d \in Decision \cup {NULL},
           d # NULL /\ d.xp => cur # 0, avc' = [avc EXCEPT ![k] = d], active' \in Int
    PROVE  CacheStep
<1>1. avc' \in [Keys -> Decision \cup {NULL}]
  BY DEF TypeInv, VarsOK
<1>2. \A j \in Keys : avc'[j] = d \/ avc'[j] = avc[j]
  BY DEF TypeInv, VarsOK
<1> QED BY <1>1, <1>2 DEF TypeInv, Current, CacheStep

LEMMA AllocStep ==
    ASSUME TypeInv, NEW t \in Checkers, NEW p, avc_alloc_node(t, p)
    PROVE  Goto(t, p) /\ CacheStep
<1>0. active \in Int
  BY DEF TypeInv, VarsOK
<1>1. CASE active' \in Int /\ UNCHANGED avc
  BY <1>1, CacheFrame DEF avc_alloc_node
<1>2. CASE \E v \in Keys : active' = active /\ avc' = [avc EXCEPT ![v] = NULL]
  BY <1>0, <1>2, CacheChange DEF avc_alloc_node
<1> QED BY <1>0, <1>1, <1>2 DEF avc_alloc_node, Reclaimable

LEMMA ReplaceStep ==
    ASSUME TypeInv, NEW k \in Keys, NEW d \in Decision, d.xp => cur # 0, avc_node_replace(k, d)
    PROVE  CacheStep
<1>1. active' \in Int
  BY DEF avc_node_replace, TypeInv, VarsOK
<1> QED BY <1>1, CacheChange DEF avc_node_replace

\* An update keeps a decision a decision.
LEMMA UpdatedType ==
    ASSUME NEW l, NEW d \in Decision, l.avd \in Decision, l.x \in XPerms \cup {NULL},
           l.req \in Perms
    PROVE  Updated(l, d) \in Decision /\ Updated(l, d).xp = d.xp
<1>1. CASE l.pc = "xupdate"
  <2>1. Updated(l, d) = [d EXCEPT !.xpd = l.avd.xpd]
    BY <1>1 DEF Updated
  <2>2. l.avd.xpd \in (SUBSET XPerms) \cup {NULL}
    BY DEF Decision
  <2> HIDE DEF Updated
  <2>3. \A z \in (SUBSET XPerms) \cup {NULL} :
           [d EXCEPT !.xpd = z] \in Decision /\ [d EXCEPT !.xpd = z].xp = d.xp
    BY DEF Decision
  <2> QED BY <2>1, <2>2, <2>3
<1>2. CASE l.pc # "xupdate" /\ (l.x = NULL \/ d.xpd = NULL)
  <2>1. Updated(l, d) = [d EXCEPT !.allowed = d.allowed \cup {l.req}, !.xpd = d.xpd]
    BY <1>2 DEF Updated
  <2>2. d.xpd \in (SUBSET XPerms) \cup {NULL} /\ d.allowed \cup {l.req} \in SUBSET Perms
    BY DEF Decision
  <2> HIDE DEF Updated
  <2>3. \A y \in SUBSET Perms, z \in (SUBSET XPerms) \cup {NULL} :
           /\ [d EXCEPT !.allowed = y, !.xpd = z] \in Decision
           /\ [d EXCEPT !.allowed = y, !.xpd = z].xp = d.xp
    BY DEF Decision
  <2> QED BY <2>1, <2>2, <2>3
<1>3. CASE l.pc # "xupdate" /\ ~(l.x = NULL \/ d.xpd = NULL)
  <2>1. Updated(l, d) = [d EXCEPT !.allowed = d.allowed \cup {l.req},
                                  !.xpd = d.xpd \cup {l.x}]
    BY <1>3 DEF Updated
  <2>2. d.xpd \cup {l.x} \in SUBSET XPerms /\ d.allowed \cup {l.req} \in SUBSET Perms
    BY <1>3 DEF Decision
  <2> QED BY <2>1, <2>2 DEF Decision
<1> QED BY <1>1, <1>2, <1>3
LEMMA TypeCheck ==
    ASSUME TypeInv, NEW t \in Checkers, Check(t)
    PROVE  TypeInv' /\ \A u \in Tasks : u # t => task'[u] = task[u]
<1> USE Kinds
<1>0. /\ task[t].pc # "idle" =>
           /\ task[t].key \in Keys /\ task[t].req \in Perms /\ task[t].x \in XPerms \cup {NULL}
           /\ task[t].pc # "compute" => task[t].avd \in Decision
           /\ \A d \in Decision, p \in {"decide", "notif", "alloc", "insert", "xalloc",
                                        "xupdate", "galloc", "gupdate"} :
                [task[t] EXCEPT !.avd = d, !.pc = p] \in CheckStates
      /\ task[t].pc \notin {"idle", "compute"} /\ task[t].avd.xp => cur # 0
  BY CheckShape DEF TypeInv, Current
<1>1. (\E h : CheckStep(t, h)) /\ CacheStep
  <2>1. CASE avc_lookup(t)
    <3>1. PICK k \in Keys, r \in Perms, x \in XPerms \cup {NULL} :
             task' = [task EXCEPT ![t] =
               [pc |-> IF avc[k] = NULL THEN "compute" ELSE "decide",
                key |-> k, req |-> r, x |-> x, avd |-> avc[k]]]
      BY <2>1 DEF avc_lookup
    <3> DEFINE h == [pc |-> IF avc[k] = NULL THEN "compute" ELSE "decide",
                     key |-> k, req |-> r, x |-> x, avd |-> avc[k]]
    <3>2. avc[k] \in Decision \cup {NULL}
      BY DEF TypeInv, VarsOK
    <3>3. h \in CheckStates
      BY <3>2 DEF CheckStates, CheckTask
    <3>4. h.pc \notin {"idle", "compute"} /\ h.avd.xp => cur # 0
      BY DEF TypeInv, Current
    <3>5. CheckStep(t, h)
      BY <3>1, <3>3, <3>4 DEF CheckStep
    <3>6. CacheStep
      BY <2>1, CacheFrame DEF avc_lookup, avcvars, TypeInv, VarsOK
    <3> QED BY <3>5, <3>6
  <2>2. CASE avc_compute_av(t)
    <3> DEFINE h == [task[t] EXCEPT !.avd = security_compute_av, !.pc = "notif"]
    <3>1. task' = [task EXCEPT ![t] = h] /\ task[t].pc = "compute"
      BY <2>2 DEF avc_compute_av, At, TypeInv, TaskOK
    <3>2. security_compute_av \in Decision /\ (security_compute_av.xp => cur # 0)
      BY DecisionType
    <3>3. h \in CheckStates
      BY <1>0, <3>1, <3>2
    <3>4. h.avd = security_compute_av
      BY <3>1, Shapes DEF TypeInv, CheckTask
    <3>5. CheckStep(t, h)
      BY <3>1, <3>2, <3>3, <3>4 DEF CheckStep
    <3>6. CacheStep
      BY <2>2, CacheFrame DEF avc_compute_av, avcvars, TypeInv, VarsOK
    <3> QED BY <3>5, <3>6
  <2>3. CASE avc_latest_notif_check(t)
    <3>1. \E p \in {"decide", "alloc"} : Goto(t, p)
      BY <2>3 DEF avc_latest_notif_check
    <3>2. task[t].pc \notin {"idle", "compute"}
      BY <2>3 DEF avc_latest_notif_check, At
    <3>3. \E h : CheckStep(t, h)
      BY <3>1, <3>2, GotoStep
    <3>4. CacheStep
      BY <2>3, CacheFrame DEF avc_latest_notif_check, avcvars, TypeInv, VarsOK
    <3> QED BY <3>3, <3>4
  <2>4. CASE avc_insert_alloc(t)
    <3>1. task[t].pc \notin {"idle", "compute"}
      BY <2>4 DEF avc_insert_alloc, At
    <3>2. CASE avc_alloc_node(t, "insert")
      <4>1. Goto(t, "insert") /\ CacheStep
        BY <3>2, AllocStep
      <4> QED BY <3>1, <4>1, GotoStep
    <3>3. CASE Goto(t, "decide") /\ UNCHANGED avcvars
      <4>1. CacheStep
        BY <3>3, CacheFrame DEF avcvars, TypeInv, VarsOK
      <4> QED BY <3>1, <3>3, <4>1, GotoStep
    <3> QED BY <2>4, <3>2, <3>3 DEF avc_insert_alloc
  <2>5. CASE avc_insert(t)
    <3>1. /\ task[t].pc = "insert" /\ Goto(t, "decide")
          /\ avc_node_replace(task[t].key, task[t].avd)
      BY <2>5 DEF avc_insert, At
    <3>2. CacheStep
      <4>1. task[t].key \in Keys /\ task[t].avd \in Decision /\ (task[t].avd.xp => cur # 0)
        BY <1>0, <3>1
      <4> QED BY <3>1, <4>1, ReplaceStep
    <3>3. \E h : CheckStep(t, h)
      BY <3>1, GotoStep
    <3> QED BY <3>2, <3>3
  <2>6. CASE avc_compute_xperms(t)
    <3> DEFINE xd == IF pol[cur].image.xperms = NULL THEN {} ELSE pol[cur].image.xperms
               d == [task[t].avd EXCEPT !.xpd = xd]
               h == [task[t] EXCEPT !.pc = "xalloc", !.avd.xpd = xd]
    <3>1. /\ task[t].pc = "decide" /\ task[t].avd \in Decision /\ cur # 0
          /\ task[t] \in CheckTask
      BY <2>6, <1>0, Shapes DEF avc_compute_xperms, At, TypeInv
    <3>2. pol[cur] \in Policy
      BY <3>1 DEF TypeInv, VarsOK, Current, Seqs
    <3>3. xd \in SUBSET XPerms
      <4>1. pol[cur].image \in PolicyImage
        BY <3>2, ServerAssumption DEF Policy
      <4>2. pol[cur].image.xperms \in (SUBSET XPerms) \cup {NULL}
        BY <4>1 DEF PolicyImage
      <4> QED BY <4>2
    <3>4. task' = [task EXCEPT ![t] = h]
      <4>1. task' = [task EXCEPT ![t].pc = "xalloc", ![t].avd.xpd = xd]
        BY <2>6 DEF avc_compute_xperms
      <4> HIDE DEF xd
      <4> QED BY <4>1
    <3> HIDE DEF xd
    <3>5. d \in Decision /\ d.xp = task[t].avd.xp
      BY <3>1, <3>3 DEF Decision
    <3>6. h \in CheckStates /\ h.avd = d
      <4>1. h = [task[t] EXCEPT !.pc = "xalloc", !.avd = d]
        OBVIOUS
      <4> HIDE DEF d
      <4> QED BY <3>1, <3>5, <4>1 DEF CheckTask, CheckStates
    <3>7. CheckStep(t, h)
      BY <3>1, <3>4, <3>5, <3>6 DEF CheckStep
    <3>8. CacheStep
      BY <2>6, CacheFrame DEF avc_compute_xperms, avcvars, TypeInv, VarsOK
    <3> QED BY <3>7, <3>8
  <2>7. CASE avc_update_alloc(t)
    <3>1. task[t].pc \notin {"idle", "compute"}
      BY <2>7 DEF avc_update_alloc, At
    <3>2. CASE \E p \in {"xupdate", "gupdate"} : avc_alloc_node(t, p)
      <4>1. PICK p \in {"xupdate", "gupdate"} : avc_alloc_node(t, p)
        BY <3>2
      <4>2. Goto(t, p) /\ CacheStep
        BY <4>1, AllocStep
      <4> QED BY <3>1, <4>2, GotoStep
    <3>3. CASE (Goto(t, "decide") \/ Return(t)) /\ UNCHANGED avcvars
      <4>1. CacheStep
        BY <3>3, CacheFrame DEF avcvars, TypeInv, VarsOK
      <4> QED BY <3>1, <3>3, <4>1, GotoStep, ReturnStep
    <3> QED BY <2>7, <3>2, <3>3 DEF avc_update_alloc
  <2>8. CASE avc_update_node(t)
    <3>1. task[t].pc \in {"xupdate", "gupdate"} /\ (Goto(t, "decide") \/ Return(t))
      BY <2>8 DEF avc_update_node, At
    <3>2. \E h : CheckStep(t, h)
      BY <3>1, GotoStep, ReturnStep
    <3> DEFINE node == avc[task[t].key]
    <3>3. task[t].key \in Keys /\ node \in Decision \cup {NULL}
      BY <1>0, <3>1 DEF TypeInv, VarsOK
    <3>4. CASE node # NULL /\ avc_node_replace(task[t].key, Updated(task[t], node))
      <4>1. node \in Decision /\ (node.xp => cur # 0)
        BY <3>3, <3>4 DEF TypeInv, Current
      <4>2. Updated(task[t], node) \in Decision /\ Updated(task[t], node).xp = node.xp
        BY <1>0, <3>1, <4>1, UpdatedType
      <4>3. Updated(task[t], node).xp => cur # 0
        BY <4>1, <4>2
      <4>4. CacheStep
        BY <3>3, <3>4, <4>2, <4>3, ReplaceStep
      <4> QED BY <3>2, <4>4
    <3>5. CASE active' = active - 1 /\ UNCHANGED avc
      <4>1. active' \in Int
        BY <3>5 DEF TypeInv, VarsOK
      <4>2. CacheStep
        BY <3>5, <4>1, CacheFrame
      <4> QED BY <3>2, <4>2
    <3> QED BY <2>8, <3>4, <3>5 DEF avc_update_node
  <2>9. CASE avc_denied(t)
    <3>1. task[t].pc = "decide" /\ (Return(t) \/ Goto(t, "galloc")) /\ UNCHANGED avcvars
      BY <2>9 DEF avc_denied, At
    <3>2. CacheStep
      BY <3>1, CacheFrame DEF avcvars, TypeInv, VarsOK
    <3> QED BY <3>1, <3>2, GotoStep, ReturnStep
  <2> QED BY <2>1, <2>2, <2>3, <2>4, <2>5, <2>6, <2>7, <2>8, <2>9 DEF Check
<1>2. PICK h : CheckStep(t, h)
  BY <1>1
<1>3. TaskOK' /\ task'[t] = h /\ \A u \in Tasks : u # t => task'[u] = task[u]
  BY <1>2, TaskChange DEF TypeInv, CheckStep
<1>4. UNCHANGED <<pol, cur, mutex, pending, enforcing, status, latest, net, who>>
  BY DEF Check, avc_lookup, avc_compute_av, avc_latest_notif_check, avc_insert_alloc,
         avc_insert, avc_compute_xperms, avc_update_alloc, avc_update_node, avc_denied,
         policyvars, netvars
<1>5. VarsOK'
  BY <1>1, <1>4 DEF TypeInv, VarsOK, CacheStep
<1>6. MutexOK'
  BY <1>3, <1>4, MutexFrame DEF TypeInv
<1>7. Current'
  <2>1. \A u \in Checkers : task'[u].pc \notin {"idle", "compute"} /\ task'[u].avd.xp => cur # 0
    BY <1>2, <1>3 DEF CheckStep, TypeInv, Current
  <2>2. \A u \in Admins \cup Labellers : task'[u] = task[u]
    BY <1>3
  <2> QED BY <1>1, <1>4, <2>1, <2>2, CurrentFrame DEF TypeInv, Current, CacheStep
<1> QED BY <1>3, <1>5, <1>6, <1>7 DEF TypeInv
-----------------------------------------------------------------------------
(* Steps of administrators.                                                *)

\* What a step of an administrator does to its task and to policy_mutex.
AdminStep(a, h) ==
    /\ task' = [task EXCEPT ![a] = h]
    /\ AdminState(h)
    /\ \/ mutex' = mutex /\ (Owning(h) <=> Owning(task[a]))
       \/ mutex = NULL /\ mutex' = a /\ Owning(h)
       \/ mutex = a /\ mutex' = NULL /\ ~Owning(h)

\* Only the owner of policy_mutex changes the policies.
LEMMA TypeAdmin ==
    ASSUME TypeInv, NEW a \in Admins, NEW h, AdminStep(a, h), VarsOK',
           UNCHANGED <<pol, cur>> \/ mutex \in {a, NULL},
           cur # 0 => cur' # 0, cur' # 0 => pol'[cur'] # NULL,
           status # NULL => status' # NULL,
           \A k \in Keys : avc'[k] \in {avc[k], NULL},
           task'[a] = h => Progress(a)'
    PROVE  TypeInv' /\ task'[a] = h /\ \A u \in Tasks : u # a => task'[u] = task[u]
<1> USE Kinds
<1>1. TaskOK' /\ task'[a] = h /\ \A u \in Tasks : u # a => task'[u] = task[u]
  BY TaskChange DEF TypeInv, AdminStep
<1>2. MutexOK'
  BY <1>1, MutexChange DEF TypeInv, AdminStep
<1>3. Current'
  <2>1. ASSUME NEW u \in Admins, u # a PROVE Progress(u)'
    <3>1. task'[u] = task[u] /\ Progress(u)
      BY <1>1, <2>1 DEF TypeInv, Current
    <3>2. CASE UNCHANGED <<pol, cur>>
      BY <3>1, <3>2 DEF Progress
    <3>3. CASE mutex \in {a, NULL}
      <4>1. ~Owning(task[u])
        BY <2>1, <3>3 DEF TypeInv, MutexOK
      <4> QED BY <3>1, <4>1 DEF Progress, Owning, Loading
    <3> QED BY <3>2, <3>3
  <2>2. \A u \in Labellers \cup Checkers : task'[u] = task[u]
    BY <1>1
  <2>3. \A u \in Labellers : task'[u].pc # "idle" => cur' # 0
    BY <2>2 DEF TypeInv, Current
  <2>4. \A t \in Checkers : task'[t].pc \notin {"idle", "compute"} /\ task'[t].avd.xp => cur' # 0
    BY <2>2 DEF TypeInv, Current
  <2>5. \A k \in Keys : avc'[k] # NULL /\ avc'[k].xp => cur' # 0
    BY DEF TypeInv, Current
  <2>6. Progress(a)'
    BY <1>1
  <2> QED BY <2>1, <2>3, <2>4, <2>5, <2>6 DEF Current
<1> QED BY <1>1, <1>2, <1>3 DEF TypeInv

LEMMA AdminShape ==
    ASSUME TypeInv, NEW a \in Admins
    PROVE  /\ task[a].pc \in Loading => LoadTask(task[a])
           /\ task[a].pc = "sync" => task[a] \in SyncTask
           /\ task[a].pc \in Notifying => task[a] \in PolicyTask \cup EnforceTask
           /\ Progress(a)
           /\ mutex = a <=> Owning(task[a])
BY Shapes DEF TypeInv, Current, MutexOK

LEMMA NewSeq ==
    ASSUME TypeInv, NEW a \in Admins, cur < who.changes
    PROVE  cur + 1 \in Seqs
<1>1. who.changes \in 1 .. MaxSeq /\ cur \in Nat
  BY ServerAssumption DEF TypeInv, VarsOK
<1> QED BY <1>1, ServerAssumption DEF Seqs

LEMMA TypeLoad ==
    ASSUME TypeInv, NEW a \in Admins, Load(a)
    PROVE  TypeInv' /\ \A u \in Tasks : u # a => task'[u] = task[u]
<1> USE Kinds
<1>0. VarsOK /\ NULL # a /\ cur \in Nat
  <2>1. cur \in Nat
    BY DEF TypeInv, VarsOK
  <2> QED BY <2>1 DEF TypeInv
<1>1. CASE sel_write_load(a)
  <2>1. PICK image \in Images :
           task' = [task EXCEPT ![a] = [pc |-> "load", image |-> image, bools |-> image.bools,
                                        seq |-> cur + 1, pos |-> 1, count |-> 0]]
    BY <1>1 DEF sel_write_load
  <2> DEFINE h == [pc |-> "load", image |-> image, bools |-> image.bools,
                   seq |-> cur + 1, pos |-> 1, count |-> 0]
  <2>2. cur + 1 \in Seqs /\ image.bools \in BoolValues
    <3>1. image \in PolicyImage
      BY ServerAssumption
    <3>2. image.bools \in BoolValues
      BY <3>1 DEF PolicyImage, BoolValues
    <3> QED BY <1>1, <3>2, NewSeq DEF sel_write_load
  <2>3. AdminState(h) /\ Owning(h)
    BY <2>2 DEF AdminState, LoadTask, Owning, Loading
  <2>4. AdminStep(a, h)
    BY <1>1, <2>1, <2>3 DEF AdminStep, sel_write_load
  <2>5. VarsOK'
    BY <1>0, <1>1 DEF sel_write_load, VarsOK, avcvars, netvars
  <2>6. task'[a] = h => Progress(a)'
    BY <1>1 DEF sel_write_load, Progress, Notifying
  <2>7. cur # 0 => pol[cur] # NULL
    BY DEF TypeInv, Current
  <2>8. UNCHANGED <<pol, cur, status, avc>>
    BY <1>1 DEF sel_write_load, avcvars
  <2> HIDE DEF h
  <2> QED BY <2>4, <2>5, <2>6, <2>7, <2>8, TypeAdmin
<1>2. CASE security_load_policy(a)
  <2>0. task[a].pc = "load" /\ mutex = a /\ LoadTask(task[a]) /\ task[a].seq = cur + 1
    BY <1>2, AdminShape DEF security_load_policy, Held, At, Loading, Progress
  <2>1. PICK h : /\ task' = [task EXCEPT ![a] = h]
                 /\ LoadTask(h) /\ h.pc \in {"nodes", "convert"} /\ h.seq = task[a].seq
                 /\ h.pc = "convert" => cur # 0
    <3>1. CASE cur = 0
      <4>1. task' = [task EXCEPT ![a] = [task[a] EXCEPT !.pc = "nodes"]]
        BY <1>2, <3>1 DEF security_load_policy, Goto
      <4>2. LoadTask([task[a] EXCEPT !.pc = "nodes"])
        BY <2>0 DEF LoadTask, Loading
      <4>3. /\ [task[a] EXCEPT !.pc = "nodes"].pc = "nodes"
            /\ [task[a] EXCEPT !.pc = "nodes"].seq = task[a].seq
        BY <2>0 DEF LoadTask
      <4> QED BY <4>1, <4>2, <4>3
    <3>2. CASE cur # 0
      <4> DEFINE l == task[a]
                 bools == security_preserve_bools(pol[cur].bools, l.bools)
                 n == Len(tabs[pol[cur].tab].entry)
                 h == [task[a] EXCEPT !.pc = "convert", !.count = n, !.bools = bools]
      <4>1. bools \in BoolValues
        <5>1. pol[cur] \in Policy
          BY <1>0, <3>2 DEF TypeInv, Current, VarsOK, Seqs
        <5>2. pol[cur].bools \in BoolValues /\ l.bools \in BoolValues
          BY <2>0, <5>1 DEF Policy, LoadTask
        <5>3. PICK S \in SUBSET BoolNames : l.bools \in [S -> BOOLEAN]
          BY <5>2 DEF BoolValues
        <5>4. \A b \in DOMAIN pol[cur].bools : pol[cur].bools[b] \in BOOLEAN
          BY <5>2 DEF BoolValues
        <5>5. bools \in [S -> BOOLEAN]
          BY <5>3, <5>4 DEF security_preserve_bools
        <5> QED BY <5>5 DEF BoolValues
      <4>2. task' = [task EXCEPT ![a] = h]
        <5>1. task' = [task EXCEPT ![a].pc = "convert", ![a].count = n,
                 ![a].bools = security_preserve_bools(pol[cur].bools, @)]
          BY <1>2, <3>2 DEF security_load_policy
        <5> QED BY <5>1
      <4> HIDE DEF bools, n
      <4>3. LoadTask(h) /\ h.pc = "convert" /\ h.seq = l.seq
        <5> DEFINE h1 == [task[a] EXCEPT !.pc = "convert"]
                   h2 == [h1 EXCEPT !.count = n]
        <5>1. LoadTask(h1) /\ h1.pc = "convert" /\ h1.seq = l.seq
          BY <2>0 DEF LoadTask, Loading
        <5> HIDE DEF h1
        <5>2. LoadTask(h2) /\ h2.pc = "convert" /\ h2.seq = l.seq
          BY <5>1 DEF LoadTask
        <5> HIDE DEF h2
        <5>3. LoadTask([h2 EXCEPT !.bools = bools]) /\ [h2 EXCEPT !.bools = bools].pc = "convert"
              /\ [h2 EXCEPT !.bools = bools].seq = l.seq
          BY <5>2, <4>1 DEF LoadTask
        <5> USE DEF h1, h2
        <5> QED BY <5>3
      <4> HIDE DEF h
      <4> QED BY <3>2, <4>2, <4>3
    <3> QED BY <3>1, <3>2
  <2>2. AdminStep(a, h)
    BY <1>2, <2>0, <2>1 DEF AdminStep, AdminState, Owning, Loading, security_load_policy
  <2>3. VarsOK'
    BY <1>0, <1>2 DEF security_load_policy, VarsOK, avcvars, netvars
  <2>4. task'[a] = h => Progress(a)'
    BY <1>2, <2>0, <2>1 DEF security_load_policy, Progress, Notifying
  <2>5. cur # 0 => pol[cur] # NULL
    BY DEF TypeInv, Current
  <2>6. UNCHANGED <<pol, cur, status, avc>>
    BY <1>2 DEF security_load_policy, avcvars
  <2> QED BY <2>2, <2>3, <2>4, <2>5, <2>6, TypeAdmin
<1>3. CASE convert_entry(a) \/ convert_done(a)
  <2>0. task[a].pc = "convert" /\ mutex = a /\ LoadTask(task[a]) /\ task[a].seq = cur + 1 /\ cur # 0
    BY <1>3, AdminShape DEF convert_entry, convert_done, Held, At, Loading, Progress
  <2>1. PICK h : /\ task' = [task EXCEPT ![a] = h]
                 /\ LoadTask(h) /\ h.pc \in {"nodes", "convert"} /\ h.seq = task[a].seq
    <3>1. CASE convert_entry(a)
      <4>1. task' = [task EXCEPT ![a] = [task[a] EXCEPT !.pos = task[a].pos + 1]]
        BY <3>1 DEF convert_entry
      <4>2. task[a].pos + 1 \in Nat
        BY <2>0 DEF LoadTask
      <4>3. LoadTask([task[a] EXCEPT !.pos = task[a].pos + 1])
        BY <2>0, <4>2 DEF LoadTask, Loading
      <4>4. /\ [task[a] EXCEPT !.pos = task[a].pos + 1].pc = "convert"
            /\ [task[a] EXCEPT !.pos = task[a].pos + 1].seq = task[a].seq
        BY <2>0 DEF LoadTask
      <4> QED BY <4>1, <4>3, <4>4
    <3>2. CASE convert_done(a)
      <4>1. task' = [task EXCEPT ![a] = [task[a] EXCEPT !.pc = "nodes"]]
        BY <3>2 DEF convert_done, Goto
      <4>2. LoadTask([task[a] EXCEPT !.pc = "nodes"])
        BY <2>0 DEF LoadTask, Loading
      <4>3. /\ [task[a] EXCEPT !.pc = "nodes"].pc = "nodes"
            /\ [task[a] EXCEPT !.pc = "nodes"].seq = task[a].seq
        BY <2>0 DEF LoadTask
      <4> QED BY <4>1, <4>2, <4>3
    <3> QED BY <1>3, <3>1, <3>2
  <2>2. UNCHANGED <<pol, cur, mutex, pending, enforcing, status, avcvars, latest, netvars, who>>
    BY <1>3 DEF convert_entry, convert_done
  <2>3. AdminStep(a, h)
    BY <2>0, <2>1, <2>2 DEF AdminStep, AdminState, Owning, Loading
  <2>4. VarsOK'
    BY <1>0, <2>2 DEF VarsOK, avcvars, netvars
  <2>5. task'[a] = h => Progress(a)'
    BY <2>0, <2>1, <2>2 DEF Progress, Notifying
  <2>6. pol[cur] # NULL
    BY <2>0 DEF TypeInv, Current
  <2> QED BY <2>2, <2>3, <2>4, <2>5, <2>6, TypeAdmin DEF avcvars
<1>4. CASE load_fails(a)
  <2>0. task[a].pc \in {"load", "convert", "nodes"} /\ mutex = a /\ LoadTask(task[a])
    BY <1>4, AdminShape DEF load_fails, Held, At, Loading
  <2>1. PICK h : AdminStep(a, h) /\ h.pc \in {"oops", "idle"}
    <3>1. CASE Goto(a, "oops") /\ UNCHANGED mutex
      <4>1. task' = [task EXCEPT ![a] = [task[a] EXCEPT !.pc = "oops"]]
        BY <3>1 DEF Goto
      <4>2. LoadTask([task[a] EXCEPT !.pc = "oops"]) /\ [task[a] EXCEPT !.pc = "oops"].pc = "oops"
        BY <2>0 DEF LoadTask, Loading
      <4>3. AdminStep(a, [task[a] EXCEPT !.pc = "oops"])
        BY <2>0, <3>1, <4>1, <4>2 DEF AdminStep, AdminState, Owning, Loading
      <4> QED BY <4>2, <4>3
    <3>2. CASE mutex' = NULL /\ Return(a)
      <4>1. AdminStep(a, idle)
        BY <2>0, <3>2, IdleType DEF AdminStep, Return
      <4> QED BY <4>1 DEF idle
    <3> QED BY <1>4, <3>1, <3>2 DEF load_fails
  <2>2. UNCHANGED <<pol, cur, pending, enforcing, status, avcvars, latest, netvars, who>>
        /\ mutex' \in {mutex, NULL}
    BY <1>4 DEF load_fails
  <2>4. VarsOK'
    BY <1>0, <2>2 DEF VarsOK, avcvars, netvars
  <2>5. task'[a] = h => Progress(a)'
    BY <2>1, <2>2 DEF Progress, Notifying
  <2>6. cur # 0 => pol[cur] # NULL
    BY DEF TypeInv, Current
  <2> QED BY <2>1, <2>2, <2>4, <2>5, <2>6, TypeAdmin DEF avcvars
<1>5. CASE sel_make_policy_nodes(a)
  <2>0. task[a].pc = "nodes" /\ mutex = a /\ LoadTask(task[a]) /\ task[a].seq = cur + 1
    BY <1>5, AdminShape DEF sel_make_policy_nodes, Held, At, Loading, Progress
  <2> DEFINE h == [task[a] EXCEPT !.pc = "commit"]
  <2>1. task' = [task EXCEPT ![a] = h]
    BY <1>5 DEF sel_make_policy_nodes, Goto
  <2>2. LoadTask(h) /\ h.pc = "commit" /\ h.seq = task[a].seq
    BY <2>0 DEF LoadTask, Loading
  <2> HIDE DEF h
  <2>3. AdminStep(a, h)
    BY <1>5, <2>0, <2>1, <2>2 DEF AdminStep, AdminState, Owning, Loading, sel_make_policy_nodes
  <2>4. VarsOK'
    <3>1. \A b \in DOMAIN pending' : pending'[b] \in BOOLEAN
      <4>1. pending' \in BoolValues
        BY <1>5, <2>0 DEF sel_make_policy_nodes, LoadTask
      <4> QED BY <4>1 DEF BoolValues
    <3> QED BY <1>0, <1>5, <3>1 DEF sel_make_policy_nodes, VarsOK, avcvars, netvars
  <2>5. task'[a] = h => Progress(a)'
    BY <1>5, <2>0, <2>2 DEF sel_make_policy_nodes, Progress, Notifying
  <2>6. cur # 0 => pol[cur] # NULL
    BY DEF TypeInv, Current
  <2>7. UNCHANGED <<pol, cur, status, avc>>
    BY <1>5 DEF sel_make_policy_nodes, avcvars
  <2> QED BY <2>3, <2>4, <2>5, <2>6, <2>7, TypeAdmin
<1>6. CASE selinux_policy_commit(a)
  <2>0. task[a].pc = "commit" /\ mutex = a /\ LoadTask(task[a]) /\ task[a].seq = cur + 1
    BY <1>6, AdminShape DEF selinux_policy_commit, Held, At, Loading, Progress
  <2> DEFINE h == [pc |-> "sync", mode |-> "policy", todo |-> NetKinds, old |-> cur,
                   keep |-> FALSE]
             p == [image |-> task[a].image, bools |-> task[a].bools, tab |-> task[a].seq]
  <2>1. task' = [task EXCEPT ![a] = h] /\ cur' = task[a].seq /\ pol' = [pol EXCEPT ![cur'] = p]
        /\ UNCHANGED <<mutex, pending, enforcing, status, avcvars, latest, netvars, who>>
    BY <1>6 DEF selinux_policy_commit
  <2>2. p \in Policy /\ cur' \in Seqs /\ cur' = cur + 1
    BY <2>0, <2>1 DEF LoadTask, Policy
  <2>3. AdminState(h) /\ Owning(h) /\ Owning(task[a])
    BY <1>0, <2>0 DEF AdminState, SyncTask, Owning, Loading
  <2>4. AdminStep(a, h)
    BY <2>1, <2>3 DEF AdminStep
  <2>5. pol' \in [Seqs -> Policy \cup {NULL}] /\ pol'[cur'] = p
        /\ \A s \in Seqs : s # cur' => pol'[s] = pol[s]
    BY <1>0, <2>1, <2>2 DEF VarsOK
  <2>6. cur' \in 0 .. MaxSeq /\ cur' # 0
    BY <2>2 DEF Seqs
  <2>7. VarsOK'
    BY <1>0, <2>1, <2>5, <2>6 DEF VarsOK, avcvars, netvars
  <2>8. task'[a] = h => Progress(a)'
    <3>1. cur # 0 => cur \in Seqs /\ pol[cur] # NULL
      BY <1>0 DEF TypeInv, Current, VarsOK, Seqs
    <3> QED BY <1>0, <2>2, <2>5, <3>1 DEF Progress, Notifying
  <2>9. pol'[cur'] # NULL
    BY <2>2, <2>5, ServerAssumption
  <2> HIDE DEF h
  <2> QED BY <2>0, <2>1, <2>4, <2>6, <2>7, <2>8, <2>9, TypeAdmin DEF avcvars
<1> QED BY <1>1, <1>2, <1>3, <1>4, <1>5, <1>6 DEF Load
\* A step along the notification of a change.
LEMMA NotifyShape ==
    ASSUME NEW g \in PolicyTask \cup EnforceTask,
           NEW h, \/ \E p \in Notifying : h = [g EXCEPT !.pc = p]
                  \/ \E k \in Keys : h = [g EXCEPT !.slot = k]
                  \/ \E s \in SUBSET NetKinds : h = [g EXCEPT !.todo = s]
    PROVE  /\ h \in PolicyTask \cup EnforceTask /\ AdminState(h)
           /\ Owning(h) <=> Owning(g)
           /\ h.mode = g.mode /\ h.value = g.value /\ h.pc \in Notifying
           /\ h.pc # "status2" \/ h = [g EXCEPT !.pc = "status2"] \/ h.pc = g.pc
<1>1. CASE g \in PolicyTask
  <2>1. /\ h \in PolicyTask /\ h.mode = g.mode /\ h.value = g.value
        /\ h.pc # "status2" \/ h = [g EXCEPT !.pc = "status2"] \/ h.pc = g.pc
    BY <1>1 DEF PolicyTask
  <2> QED BY <1>1, <2>1 DEF PolicyTask, AdminState, Owning
<1>2. CASE g \in EnforceTask
  <2>1. /\ h \in EnforceTask /\ h.mode = g.mode /\ h.value = g.value
        /\ h.pc # "status2" \/ h = [g EXCEPT !.pc = "status2"] \/ h.pc = g.pc
    BY <1>2 DEF EnforceTask
  <2> QED BY <1>2, <2>1 DEF EnforceTask, AdminState, Owning, Notifying, Loading
<1> QED BY <1>1, <1>2

LEMMA TypeNotify ==
    ASSUME TypeInv, NEW a \in Admins, Notify(a)
    PROVE  TypeInv' /\ \A u \in Tasks : u # a => task'[u] = task[u]
<1> USE Kinds
<1>0. VarsOK /\ NULL # a /\ cur \in Nat /\ (cur # 0 => pol[cur] # NULL)
  <2>1. cur \in Nat
    BY DEF TypeInv, VarsOK
  <2> QED BY <2>1 DEF TypeInv, Current
<1>1. CASE policy_free(a)
  <2>0. task[a].pc = "sync" /\ mutex = a /\ task[a] \in SyncTask /\ task[a].old < cur
    BY <1>1, AdminShape DEF policy_free, Held, At, Loading, Progress
  <2> DEFINE h == [pc |-> "flush", mode |-> "policy", value |-> cur, slot |-> 1,
                   todo |-> NetKinds]
  <2>1. /\ task' = [task EXCEPT ![a] = h]
        /\ pol' = [s \in Seqs |-> IF s = task[a].old THEN NULL ELSE pol[s]]
        /\ UNCHANGED <<cur, mutex, pending, enforcing, status, avcvars, latest, netvars, who>>
    BY <1>1 DEF policy_free
  <2>2. cur # 0 /\ cur # task[a].old /\ cur \in Seqs
    BY <1>0, <2>0 DEF SyncTask, VarsOK, Seqs
  <2>3. AdminState(h) /\ Owning(h) /\ Owning(task[a])
    <3>1. 1 \in Keys
      BY ServerAssumption DEF Keys
    <3> QED BY <1>0, <2>0, <3>1 DEF AdminState, PolicyTask, Owning, Notifying
  <2>4. AdminStep(a, h)
    BY <2>1, <2>3 DEF AdminStep
  <2>5. VarsOK'
    BY <1>0, <2>1 DEF VarsOK, avcvars, netvars
  <2>6. task'[a] = h => Progress(a)'
    BY <2>1, <2>2 DEF Progress, Notifying
  <2>7. pol'[cur'] # NULL
    BY <1>0, <2>1, <2>2
  <2> HIDE DEF h
  <2> QED BY <2>0, <2>1, <2>4, <2>5, <2>6, <2>7, TypeAdmin DEF avcvars
<1>2. CASE avc_flush(a)
  <2>0. task[a].pc = "flush" /\ task[a] \in PolicyTask \cup EnforceTask
    BY <1>2, AdminShape DEF avc_flush, At, Notifying
  <2>1. task[a].slot \in Keys
    BY <2>0 DEF PolicyTask, EnforceTask
  <2>2. PICK h : /\ task' = [task EXCEPT ![a] = h]
                 /\ \/ h = [task[a] EXCEPT !.pc = "callbacks"]
                    \/ \E k \in Keys : h = [task[a] EXCEPT !.slot = k]
    <3>1. task[a].slot < Slots => task[a].slot + 1 \in Keys
      BY <2>1, ServerAssumption DEF Keys
    <3>2. CASE task[a].slot < Slots
      BY <1>2, <3>1, <3>2 DEF avc_flush
    <3>3. CASE ~(task[a].slot < Slots)
      BY <1>2, <3>3 DEF avc_flush, Goto
    <3> QED BY <3>2, <3>3
  <2>3. /\ AdminState(h) /\ (Owning(h) <=> Owning(task[a]))
        /\ h.mode = task[a].mode /\ h.pc \in Notifying
        /\ h.pc # "status2"
    <3>1. /\ \E p \in Notifying : h = [task[a] EXCEPT !.pc = p]
             \/ \E k \in Keys : h = [task[a] EXCEPT !.slot = k]
      BY <2>2 DEF Notifying
    <3>2. /\ AdminState(h) /\ (Owning(h) <=> Owning(task[a]))
          /\ h.mode = task[a].mode /\ h.pc \in Notifying
      BY <2>0, <3>1, NotifyShape
    <3>3. h.pc # "status2"
      BY <2>0, <2>2 DEF PolicyTask, EnforceTask
    <3> QED BY <3>2, <3>3
  <2>4. UNCHANGED <<policyvars, enforcing, status, latest, netvars, who>>
        /\ avc' = [avc EXCEPT ![task[a].slot] = NULL] /\ active' \in {active, active - 1}
    BY <1>2 DEF avc_flush
  <2>5. AdminStep(a, h)
    BY <2>2, <2>3, <2>4 DEF AdminStep, policyvars
  <2>6. VarsOK' /\ \A k \in Keys : avc'[k] \in {avc[k], NULL}
    <3>1. active' \in Int
      BY <1>0, <2>4 DEF VarsOK
    <3>2. avc' \in [Keys -> Decision \cup {NULL}] /\ \A k \in Keys : avc'[k] \in {avc[k], NULL}
      BY <1>0, <2>4 DEF VarsOK
    <3> QED BY <1>0, <2>4, <3>1, <3>2 DEF VarsOK, policyvars, netvars
  <2>7. task'[a] = h => Progress(a)'
    <3>1. task[a].mode = "policy" => cur # 0
      BY <2>0, AdminShape DEF Progress, Notifying
    <3> QED BY <2>3, <2>4, <3>1 DEF Progress, Notifying, policyvars
  <2> QED BY <1>0, <2>4, <2>5, <2>6, <2>7, TypeAdmin DEF policyvars
<1>3. CASE avc_callbacks(a)
  <2>0. task[a].pc = "callbacks" /\ task[a] \in PolicyTask \cup EnforceTask
    BY <1>3, AdminShape DEF avc_callbacks, At, Notifying
  <2>1. PICK n \in task[a].todo :
           /\ net' = [net EXCEPT ![n] = <<>>]
           /\ task' = [task EXCEPT ![a] = [task[a] EXCEPT !.todo = task[a].todo \ {n}]]
    <3> DEFINE n == CHOOSE n \in task[a].todo : TRUE
    <3>1. n \in task[a].todo
      BY <1>3 DEF avc_callbacks
    <3>2. /\ net' = [net EXCEPT ![n] = <<>>]
          /\ task' = [task EXCEPT ![a].todo = task[a].todo \ {n}]
      BY <1>3 DEF avc_callbacks, sel_net_flush
    <3> HIDE DEF n
    <3> QED BY <3>1, <3>2
  <2> DEFINE h == [task[a] EXCEPT !.todo = task[a].todo \ {n}]
  <2>2. n \in NetKinds /\ task[a].todo \ {n} \in SUBSET NetKinds
    BY <2>0 DEF PolicyTask, EnforceTask
  <2>3. /\ AdminState(h) /\ (Owning(h) <=> Owning(task[a]))
        /\ h.mode = task[a].mode /\ h.pc = "callbacks"
    <3>1. h.pc = "callbacks"
      BY <2>0 DEF PolicyTask, EnforceTask
    <3>2. \E s \in SUBSET NetKinds : h = [task[a] EXCEPT !.todo = s]
      BY <2>2
    <3> HIDE DEF h
    <3> QED BY <2>0, <3>1, <3>2, NotifyShape
  <2> HIDE DEF h
  <2>4. UNCHANGED <<policyvars, enforcing, status, avcvars, latest, who>>
    BY <1>3 DEF avc_callbacks
  <2>5. AdminStep(a, h)
    BY <2>1, <2>3, <2>4 DEF AdminStep, policyvars, h
  <2>6. VarsOK'
    <3>1. net' \in [NetKinds -> Seq([key : NetKeys, seq : Nat])]
      <4>1. <<>> \in Seq([key : NetKeys, seq : Nat])
        OBVIOUS
      <4> QED BY <1>0, <2>1, <2>2, <4>1 DEF VarsOK
    <3> QED BY <1>0, <2>4, <3>1 DEF VarsOK, policyvars, avcvars
  <2>7. task'[a] = h => Progress(a)'
    <3>1. task[a].mode = "policy" => cur # 0
      BY <2>0, AdminShape DEF Progress, Notifying
    <3> QED BY <2>3, <2>4, <3>1 DEF Progress, Notifying, policyvars
  <2> QED BY <1>0, <2>4, <2>5, <2>6, <2>7, TypeAdmin DEF policyvars, avcvars
<1>4. CASE avc_latest_notif_update(a)
  <2>0. task[a].pc = "callbacks" /\ task[a] \in PolicyTask \cup EnforceTask
    BY <1>4, AdminShape DEF avc_latest_notif_update, At, Notifying
  <2> DEFINE h == [task[a] EXCEPT !.pc = "status"]
  <2>1. task' = [task EXCEPT ![a] = h]
    BY <1>4 DEF avc_latest_notif_update, Goto
  <2>3. /\ AdminState(h) /\ (Owning(h) <=> Owning(task[a]))
        /\ h.mode = task[a].mode /\ h.pc = "status"
    <3>1. h.pc = "status"
      BY <2>0 DEF PolicyTask, EnforceTask
    <3>2. \E p \in Notifying : h = [task[a] EXCEPT !.pc = p]
      BY DEF Notifying
    <3> HIDE DEF h
    <3> QED BY <2>0, <3>1, <3>2, NotifyShape
  <2> HIDE DEF h
  <2>4. UNCHANGED <<policyvars, enforcing, status, avcvars, netvars, who>>
    BY <1>4 DEF avc_latest_notif_update
  <2>5. AdminStep(a, h)
    BY <2>1, <2>3, <2>4 DEF AdminStep, policyvars
  <2>6. VarsOK'
    <3>1. latest' \in Nat
      <4>1. task[a].mode = "policy" => task[a].value \in Nat
        BY <2>0 DEF PolicyTask, EnforceTask
      <4> QED BY <1>0, <1>4, <4>1 DEF VarsOK, avc_latest_notif_update
    <3> QED BY <1>0, <2>4, <3>1 DEF VarsOK, policyvars, avcvars, netvars
  <2>7. task'[a] = h => Progress(a)'
    <3>1. task[a].mode = "policy" => cur # 0
      BY <2>0, AdminShape DEF Progress, Notifying
    <3> QED BY <2>3, <2>4, <3>1 DEF Progress, Notifying, policyvars
  <2> QED BY <1>0, <2>4, <2>5, <2>6, <2>7, TypeAdmin DEF policyvars, avcvars
<1>d. ASSUME task[a].pc \in Notifying, Done(a),
             UNCHANGED <<pol, cur, pending, enforcing, avcvars, latest, netvars, who>>,
             status' \in Page \cup {NULL}, status # NULL => status' # NULL
      PROVE  TypeInv' /\ \A u \in Tasks : u # a => task'[u] = task[u]
  <2>1. AdminStep(a, idle)
    <3>1. mutex = a <=> Owning(task[a])
      BY AdminShape
    <3> QED BY <1>d, <3>1, IdleType, <1>0 DEF AdminStep, Done, Return
  <2>2. VarsOK'
    <3>1. mutex' \in Admins \cup {NULL}
      BY <1>0, <1>d DEF Done, VarsOK
    <3> QED BY <1>0, <1>d, <3>1 DEF VarsOK, avcvars, netvars
  <2>3. task'[a] = idle => Progress(a)'
    BY DEF Progress, idle, Notifying
  <2> QED BY <1>0, <1>d, <2>1, <2>2, <2>3, TypeAdmin DEF avcvars
<1>5. CASE status_update_begin(a)
  <2>0. task[a].pc = "status" /\ task[a] \in PolicyTask \cup EnforceTask
    BY <1>5, AdminShape DEF status_update_begin, At, Notifying
  <2>1. CASE status = NULL
    <3>1. task[a].pc \in Notifying
      BY <2>0 DEF Notifying
    <3> QED BY <1>d, <1>0, <1>5, <2>1, <3>1 DEF status_update_begin, VarsOK
  <2>2. CASE status # NULL
    <3> DEFINE h == [task[a] EXCEPT !.pc = "status2"]
    <3>1. /\ task' = [task EXCEPT ![a] = h]
          /\ UNCHANGED <<policyvars, enforcing, avcvars, latest, netvars, who>>
          /\ status' = [status EXCEPT !.sequence = 1,
                 !.enforcing = IF task[a].mode = "enforce" THEN task[a].value ELSE @,
                 !.policyload = IF task[a].mode = "policy" THEN task[a].value ELSE @]
      BY <1>5, <2>2 DEF status_update_begin, Goto, policyvars
    <3>2. /\ AdminState(h) /\ (Owning(h) <=> Owning(task[a]))
          /\ h.mode = task[a].mode /\ h.pc = "status2"
      <4>1. h.pc = "status2"
        BY <2>0 DEF PolicyTask, EnforceTask
      <4>2. \E p \in Notifying : h = [task[a] EXCEPT !.pc = p]
        BY DEF Notifying
      <4> HIDE DEF h
      <4> QED BY <2>0, <4>1, <4>2, NotifyShape
    <3> HIDE DEF h
    <3>3. status' \in Page
      <4>1. status \in Page
        BY <1>0, <2>2 DEF VarsOK
      <4>2. /\ task[a].mode = "enforce" => task[a].value \in BOOLEAN
            /\ task[a].mode = "policy" => task[a].value \in Nat
        BY <2>0 DEF PolicyTask, EnforceTask
      <4>3. PICK e \in BOOLEAN, l \in Nat :
               status' = [status EXCEPT !.sequence = 1, !.enforcing = e, !.policyload = l]
        <5> DEFINE e == IF task[a].mode = "enforce" THEN task[a].value ELSE status.enforcing
                   l == IF task[a].mode = "policy" THEN task[a].value ELSE status.policyload
        <5>1. e \in BOOLEAN /\ l \in Nat
          BY <4>1, <4>2 DEF Page
        <5>2. status' = [status EXCEPT !.sequence = 1, !.enforcing = e, !.policyload = l]
          BY <3>1
        <5> QED BY <5>1, <5>2
      <4> QED BY <4>1, <4>3 DEF Page
    <3>4. status' # NULL
      BY <3>3, ServerAssumption
    <3>5. AdminStep(a, h)
      BY <3>1, <3>2 DEF AdminStep, policyvars
    <3>6. VarsOK'
      BY <1>0, <3>1, <3>3 DEF VarsOK, policyvars, avcvars, netvars
    <3>7. task'[a] = h => Progress(a)'
      <4>1. task[a].mode = "policy" => cur # 0
        BY <2>0, AdminShape DEF Progress, Notifying
      <4> QED BY <3>1, <3>2, <3>4, <4>1 DEF Progress, Notifying, policyvars
    <3> QED BY <1>0, <3>1, <3>4, <3>5, <3>6, <3>7, TypeAdmin DEF policyvars, avcvars
  <2> QED BY <2>1, <2>2
<1>6. CASE status_update_end(a)
  <2>0. task[a].pc = "status2" /\ task[a] \in PolicyTask \cup EnforceTask /\ status # NULL
    BY <1>6, AdminShape DEF status_update_end, At, Notifying, Progress
  <2>1. status' \in Page
    <3>1. status \in Page
      BY <1>0, <2>0 DEF VarsOK
    <3>2. task[a].mode = "policy" => pol[cur].image.deny_unknown \in BOOLEAN
      <4>1. task[a].mode = "policy" => pol[cur] \in Policy
        BY <1>0, <2>0, AdminShape DEF Progress, Notifying, VarsOK, Seqs
      <4>2. \A i \in Images : i.deny_unknown \in BOOLEAN
        BY ServerAssumption DEF PolicyImage
      <4> QED BY <4>1, <4>2 DEF Policy
    <3>3. PICK d \in BOOLEAN : status' = [status EXCEPT !.sequence = 0, !.deny_unknown = d]
      <4> DEFINE d == IF task[a].mode = "policy" THEN pol[cur].image.deny_unknown
                      ELSE status.deny_unknown
      <4>1. d \in BOOLEAN
        BY <3>1, <3>2 DEF Page
      <4>2. status' = [status EXCEPT !.sequence = 0, !.deny_unknown = d]
        BY <1>6 DEF status_update_end
      <4> QED BY <4>1, <4>2
    <3> QED BY <3>1, <3>3 DEF Page
  <2>2. status' # NULL
    BY <2>1, ServerAssumption
  <2>3. task[a].pc \in Notifying
    BY <2>0 DEF Notifying
  <2> QED BY <1>d, <1>6, <2>1, <2>2, <2>3 DEF status_update_end
<1> QED BY <1>1, <1>2, <1>3, <1>4, <1>5, <1>6 DEF Notify
LEMMA TypeSetBools ==
    ASSUME TypeInv, NEW a \in Admins, security_set_bools(a)
    PROVE  TypeInv' /\ \A u \in Tasks : u # a => task'[u] = task[u]
<1> USE Kinds
<1>0. VarsOK /\ NULL # a /\ cur \in Nat /\ cur # 0 /\ mutex = NULL
  <2>1. cur \in Nat
    BY DEF TypeInv, VarsOK
  <2> QED BY <2>1 DEF TypeInv, security_set_bools
<1> DEFINE h == [pc |-> "sync", mode |-> "policy", todo |-> NetKinds, old |-> cur, keep |-> TRUE]
           bools == [b \in DOMAIN pol[cur].bools |-> IF b \in DOMAIN pending THEN pending[b]
                                                     ELSE pol[cur].bools[b]]
           p == [pol[cur] EXCEPT !.bools = bools]
<1>1. /\ task' = [task EXCEPT ![a] = h] /\ cur' = cur + 1 /\ mutex' = a
      /\ pol' = [pol EXCEPT ![cur + 1] = p]
      /\ UNCHANGED <<tabs, pending, enforcing, status, avcvars, latest, netvars, who>>
  BY DEF security_set_bools
<1>2. cur \in Seqs /\ pol[cur] \in Policy
  BY <1>0 DEF TypeInv, VarsOK, Current, Seqs
<1>3. p \in Policy
  <2>1. PICK S \in SUBSET BoolNames : pol[cur].bools \in [S -> BOOLEAN]
    BY <1>2 DEF Policy, BoolValues
  <2>2. bools \in [S -> BOOLEAN]
    BY <1>0, <2>1 DEF VarsOK
  <2>3. bools \in BoolValues
    BY <2>2 DEF BoolValues
  <2> HIDE DEF bools
  <2> QED BY <1>2, <2>3 DEF Policy
<1>4. cur + 1 \in Seqs
  BY NewSeq DEF security_set_bools
<1> HIDE DEF p
<1>5. /\ pol' \in [Seqs -> Policy \cup {NULL}] /\ pol'[cur'] = p
      /\ \A s \in Seqs : s # cur' => pol'[s] = pol[s]
  BY <1>0, <1>1, <1>3, <1>4 DEF VarsOK
<1>6. cur' \in 0 .. MaxSeq /\ cur' # 0
  BY <1>1, <1>4 DEF Seqs
<1>7. VarsOK'
  BY <1>0, <1>1, <1>5, <1>6 DEF VarsOK, avcvars, netvars
<1>8. AdminStep(a, h)
  <2>1. AdminState(h) /\ Owning(h)
    BY <1>0 DEF AdminState, SyncTask, Owning
  <2> QED BY <1>0, <1>1, <2>1 DEF AdminStep
<1>9. task'[a] = h => Progress(a)'
  <2>1. pol[cur] # NULL
    BY <1>0 DEF TypeInv, Current
  <2> QED BY <1>0, <1>1, <1>2, <1>5, <2>1 DEF Progress, Notifying
<1>10. pol'[cur'] # NULL
  BY <1>3, <1>5, ServerAssumption
<1> HIDE DEF h
<1> QED BY <1>0, <1>1, <1>6, <1>7, <1>8, <1>9, <1>10, TypeAdmin DEF avcvars

LEMMA TypeEnforce ==
    ASSUME TypeInv, NEW a \in Admins, sel_write_enforce(a)
    PROVE  TypeInv' /\ \A u \in Tasks : u # a => task'[u] = task[u]
<1> USE Kinds
<1> DEFINE h == [pc |-> IF enforcing' THEN "flush" ELSE "status", mode |-> "enforce",
                 value |-> enforcing', slot |-> 1, todo |-> NetKinds]
<1>1. /\ task' = [task EXCEPT ![a] = h] /\ enforcing' = ~enforcing /\ task[a].pc = "idle"
      /\ UNCHANGED <<policyvars, status, avcvars, latest, netvars, who>>
  BY DEF sel_write_enforce, At
<1>2. 1 \in Keys /\ enforcing' \in BOOLEAN
  BY <1>1, ServerAssumption DEF Keys, TypeInv, VarsOK
<1>3. AdminState(h) /\ ~Owning(h) /\ ~Owning(task[a])
  BY <1>1, <1>2 DEF AdminState, EnforceTask, Owning, Notifying, Loading
<1>4. AdminStep(a, h)
  BY <1>1, <1>3 DEF AdminStep, policyvars
<1>5. VarsOK'
  BY <1>1, <1>2 DEF TypeInv, VarsOK, policyvars, avcvars, netvars
<1>6. task'[a] = h => Progress(a)'
  BY DEF Progress, Notifying
<1>7. cur # 0 => pol[cur] # NULL
  BY DEF TypeInv, Current
<1> HIDE DEF h
<1> QED BY <1>1, <1>4, <1>5, <1>6, <1>7, TypeAdmin DEF policyvars, avcvars

\* Steps that leave the tasks alone.
LEMMA TypeQuiet ==
    ASSUME TypeInv, UNCHANGED <<pol, cur, mutex, avc, task>>, VarsOK',
           status # NULL => status' # NULL
    PROVE  TypeInv'
<1>1. MutexOK' /\ TaskOK'
  BY DEF TypeInv, MutexOK, TaskOK
<1>2. Current'
  <2>1. \A a \in Admins : Progress(a)'
    BY DEF TypeInv, Current, Progress
  <2> QED BY <2>1 DEF TypeInv, Current
<1> QED BY <1>1, <1>2 DEF TypeInv

LEMMA TypeWriteBool ==
    ASSUME TypeInv, NEW a \in Admins, sel_write_bool(a)
    PROVE  TypeInv'
<1>1. UNCHANGED <<pol, cur, mutex, enforcing, status, avcvars, latest, netvars, task, who>>
  BY DEF sel_write_bool
<1>2. \A b \in DOMAIN pending' : pending'[b] \in BOOLEAN
  BY DEF sel_write_bool, TypeInv, VarsOK
<1>3. VarsOK'
  BY <1>1, <1>2 DEF TypeInv, VarsOK, avcvars, netvars
<1> QED BY <1>1, <1>3, TypeQuiet DEF avcvars

LEMMA TypeKill ==
    ASSUME TypeInv, sel_netif_kill
    PROVE  TypeInv'
<1>1. PICK i \in DOMAIN net["netif"] :
         net' = [net EXCEPT !["netif"] = SubSeq(net["netif"], 1, i - 1)
                                         \o SubSeq(net["netif"], i + 1, Len(net["netif"]))]
  BY DEF sel_netif_kill
<1>2. UNCHANGED <<policyvars, enforcing, status, avcvars, latest, netlock, task, who>>
      /\ "netif" \in NetKinds
  BY DEF sel_netif_kill
<1>3. net["netif"] \in Seq(NetEntry)
  BY <1>2 DEF TypeInv, VarsOK, NetEntry
<1>4. SubSeq(net["netif"], 1, i - 1) \o SubSeq(net["netif"], i + 1, Len(net["netif"]))
        \in Seq(NetEntry)
  BY <1>3, RemoveEntryType
<1>5. net' \in [NetKinds -> Seq([key : NetKeys, seq : Nat])]
  BY <1>1, <1>2, <1>4 DEF TypeInv, VarsOK, NetEntry
<1>6. VarsOK'
  BY <1>2, <1>5 DEF TypeInv, VarsOK, policyvars, avcvars
<1> QED BY <1>2, <1>6, TypeQuiet DEF policyvars, avcvars

LEMMA TypePage ==
    ASSUME TypeInv, selinux_kernel_status_page
    PROVE  TypeInv'
<1>1. UNCHANGED <<policyvars, enforcing, avcvars, latest, netvars, task, who>>
      /\ cur # 0 /\ status = NULL
      /\ status' = [sequence |-> 0, enforcing |-> enforcing, policyload |-> 0,
                    deny_unknown |-> pol[cur].image.deny_unknown]
  BY DEF selinux_kernel_status_page
<1>2. pol[cur] \in Policy
  BY <1>1 DEF TypeInv, VarsOK, Current, Seqs
<1>3. pol[cur].image.deny_unknown \in BOOLEAN /\ enforcing \in BOOLEAN
  BY <1>2, ServerAssumption DEF Policy, PolicyImage, TypeInv, VarsOK
<1>4. status' \in Page
  BY <1>1, <1>3 DEF Page
<1>5. VarsOK'
  BY <1>1, <1>4 DEF TypeInv, VarsOK, policyvars, avcvars, netvars
<1> QED BY <1>1, <1>5, TypeQuiet DEF policyvars, avcvars

LEMMA TypeStutter ==
    ASSUME TypeInv, UNCHANGED vars
    PROVE  TypeInv'
<1>1. VarsOK'
  BY DEF TypeInv, VarsOK, vars, policyvars, avcvars, netvars
<1> QED BY <1>1, TypeQuiet DEF vars, policyvars, avcvars

\* The steps of the system.
LEMMA Steps ==
    ASSUME [Next]_vars
    PROVE  \/ \E t \in Labellers : Label(t)
           \/ \E t \in Netters : Net(t)
           \/ \E t \in Checkers : Check(t)
           \/ \E a \in Admins : Load(a) \/ Notify(a) \/ sel_write_bool(a)
                                \/ security_set_bools(a) \/ sel_write_enforce(a)
           \/ sel_netif_kill \/ selinux_kernel_status_page \/ UNCHANGED vars
BY DEF Next

LEMMA TypeStep == TypeInv /\ [Next]_vars => TypeInv'
BY Steps, TypeLabel, TypeNet, TypeCheck, TypeLoad, TypeNotify, TypeSetBools, TypeEnforce,
   TypeWriteBool, TypeKill, TypePage, TypeStutter

\* The types hold, policy_mutex has the owner who changes the policy, and the
\* policy in use and the one being replaced are there.
THEOREM TypeCorrect == Spec => []TypeInv
<1>1. Init => TypeInv
  BY TypeInit
<1>2. TypeInv /\ [Next]_vars => TypeInv'
  BY TypeStep
<1> QED BY <1>1, <1>2, PTL DEF Spec
-----------------------------------------------------------------------------
(* What a step does to the task that takes it.                             *)

LEMMA Frames ==
    ASSUME TypeInv
    PROVE  /\ \A t \in Labellers : Label(t) =>
                /\ UNCHANGED <<pol, cur, mutex, pending, enforcing, status, avc, active, latest,
                               net, netlock, who>>
                /\ \A u \in Tasks : u # t => task'[u] = task[u]
                /\ \A u \in Netters \cup Checkers \cup Admins : task'[u] = task[u]
           /\ \A t \in Netters : Net(t) =>
                /\ UNCHANGED <<pol, cur, tabs, mutex, pending, enforcing, status, avc, active,
                               latest, issued, who>>
                /\ \A u \in Tasks : u # t => task'[u] = task[u]
                /\ \A u \in Labellers \cup Checkers \cup Admins : task'[u] = task[u]
           /\ \A t \in Checkers : Check(t) =>
                /\ UNCHANGED <<pol, cur, tabs, mutex, pending, enforcing, status, latest, net,
                               netlock, issued, who>>
                /\ \A u \in Tasks : u # t => task'[u] = task[u]
                /\ \A u \in Labellers \cup Netters \cup Admins : task'[u] = task[u]
           /\ \A a \in Admins :
                Load(a) \/ Notify(a) \/ security_set_bools(a) \/ sel_write_enforce(a) =>
                /\ UNCHANGED <<netlock, issued, who>>
                /\ \A u \in Tasks : u # a => task'[u] = task[u]
                /\ \A u \in Labellers \cup Netters \cup Checkers : task'[u] = task[u]
<1> USE Kinds
<1>1. ASSUME NEW t \in Labellers, Label(t)
      PROVE  /\ UNCHANGED <<pol, cur, mutex, pending, enforcing, status, avc, active, latest,
                            net, netlock, who>>
             /\ \A u \in Tasks : u # t => task'[u] = task[u]
  BY <1>1, TypeLabel DEF Label, security_context_to_sid_core, security_context_to_sid_retry,
         sidtab_context_to_sid, policyvars, avcvars, netvars
<1>2. ASSUME NEW t \in Netters, Net(t)
      PROVE  /\ UNCHANGED <<pol, cur, tabs, mutex, pending, enforcing, status, avc, active,
                            latest, issued, who>>
             /\ \A u \in Tasks : u # t => task'[u] = task[u]
  BY <1>2, TypeNet DEF Net, sel_net_sid, sel_net_sid_slow, policyvars, avcvars
<1>3. ASSUME NEW t \in Checkers, Check(t)
      PROVE  /\ UNCHANGED <<pol, cur, tabs, mutex, pending, enforcing, status, latest, net,
                            netlock, issued, who>>
             /\ \A u \in Tasks : u # t => task'[u] = task[u]
  BY <1>3, TypeCheck DEF Check, avc_lookup, avc_compute_av, avc_latest_notif_check,
         avc_insert_alloc, avc_insert, avc_compute_xperms, avc_update_alloc, avc_update_node,
         avc_denied, policyvars, netvars
<1>4. ASSUME NEW a \in Admins,
             Load(a) \/ Notify(a) \/ security_set_bools(a) \/ sel_write_enforce(a)
      PROVE  /\ UNCHANGED <<netlock, issued, who>>
             /\ \A u \in Tasks : u # a => task'[u] = task[u]
  <2>1. \A u \in Tasks : u # a => task'[u] = task[u]
    BY <1>4, TypeLoad, TypeNotify, TypeSetBools, TypeEnforce
  <2>2. CASE Load(a)
    BY <2>1, <2>2 DEF Load, sel_write_load, security_load_policy, convert_entry, convert_done,
         load_fails, sel_make_policy_nodes, selinux_policy_commit, netvars
  <2>3. CASE Notify(a)
    BY <2>1, <2>3 DEF Notify, policy_free, avc_flush, avc_callbacks, avc_latest_notif_update,
         status_update_begin, status_update_end, netvars
  <2>4. CASE security_set_bools(a) \/ sel_write_enforce(a)
    BY <2>1, <2>4 DEF security_set_bools, sel_write_enforce, netvars
  <2> QED BY <1>4, <2>2, <2>3, <2>4
<1> QED BY <1>1, <1>2, <1>3, <1>4

\* A load goes on with the same policy.
SameLoad(a) == /\ task'[a].image = task[a].image /\ task'[a].seq = task[a].seq
               /\ LoadTask(task[a])

LEMMA LoadGoto ==
    ASSUME TypeInv, NEW a \in Admins, task[a].pc \in Loading, NEW p \in Loading, Goto(a, p)
    PROVE  /\ SameLoad(a) /\ task'[a].pc = p /\ task'[a].bools = task[a].bools
           /\ task'[a].pos = task[a].pos /\ task'[a].count = task[a].count
<1>1. LoadTask(task[a])
  BY AdminShape
<1>2. task'[a] = [task[a] EXCEPT !.pc = p]
  BY Kinds DEF TypeInv, TaskOK, Goto
<1> QED BY <1>1, <1>2 DEF LoadTask, SameLoad

LEMMA LoadMoves ==
    ASSUME TypeInv, NEW a \in Admins
    PROVE  /\ sel_write_load(a) =>
                /\ task[a].pc = "idle" /\ mutex = NULL /\ mutex' = a
                /\ task'[a].pc = "load" /\ task'[a].image \in Images
           /\ security_load_policy(a) =>
                /\ task[a].pc = "load" /\ mutex = a /\ SameLoad(a)
                /\ task'[a].pos = task[a].pos
                /\ cur = 0 => task'[a].pc = "nodes" /\ task'[a].bools = task[a].bools
                /\ cur # 0 =>
                     /\ task'[a].pc = "convert"
                     /\ task'[a].count = Len(tabs[pol[cur].tab].entry)
                     /\ task'[a].bools = security_preserve_bools(pol[cur].bools, task[a].bools)
           /\ convert_entry(a) =>
                /\ task[a].pc = "convert" /\ task'[a].pc = "convert" /\ mutex = a /\ SameLoad(a)
                /\ task'[a].bools = task[a].bools /\ task'[a].count = task[a].count
                /\ task'[a].pos = task[a].pos + 1
           /\ convert_done(a) =>
                /\ task[a].pc = "convert" /\ task'[a].pc = "nodes" /\ mutex = a /\ SameLoad(a)
                /\ task'[a].bools = task[a].bools
           /\ load_fails(a) =>
                /\ task[a].pc \in {"load", "convert", "nodes"} /\ mutex = a
                /\ LoadTask(task[a])
                /\ \/ cur = 0 /\ task'[a].pc = "oops" /\ UNCHANGED <<mutex, tabs>>
                   \/ task'[a].pc = "idle" /\ mutex' = NULL
           /\ sel_make_policy_nodes(a) =>
                /\ task[a].pc = "nodes" /\ task'[a].pc = "commit" /\ mutex = a /\ SameLoad(a)
                /\ task'[a].bools = task[a].bools
           /\ selinux_policy_commit(a) =>
                /\ task[a].pc = "commit" /\ mutex = a /\ LoadTask(task[a])
                /\ task'[a] = [pc |-> "sync", mode |-> "policy", todo |-> NetKinds,
                               old |-> cur, keep |-> FALSE]
<1> USE Kinds
<1>0. task = [u \in Tasks |-> task[u]] /\ a \in Tasks
  BY DEF TypeInv, TaskOK
<1>1. ASSUME sel_write_load(a)
      PROVE  /\ task[a].pc = "idle" /\ mutex = NULL /\ mutex' = a
             /\ task'[a].pc = "load" /\ task'[a].image \in Images
  BY <1>0, <1>1 DEF sel_write_load, At
<1>2. ASSUME security_load_policy(a)
      PROVE  /\ task[a].pc = "load" /\ mutex = a /\ SameLoad(a)
             /\ task'[a].pos = task[a].pos
             /\ cur = 0 => task'[a].pc = "nodes" /\ task'[a].bools = task[a].bools
             /\ cur # 0 =>
                  /\ task'[a].pc = "convert"
                  /\ task'[a].count = Len(tabs[pol[cur].tab].entry)
                  /\ task'[a].bools = security_preserve_bools(pol[cur].bools, task[a].bools)
  <2>1. task[a].pc = "load" /\ mutex = a
    BY <1>2 DEF security_load_policy, Held, At
  <2>2. CASE cur = 0
    <3>1. Goto(a, "nodes")
      BY <1>2, <2>2 DEF security_load_policy
    <3> QED BY <2>1, <2>2, <3>1, LoadGoto DEF Loading
  <2>3. CASE cur # 0
    <3> DEFINE n == Len(tabs[pol[cur].tab].entry)
               bools == security_preserve_bools(pol[cur].bools, task[a].bools)
    <3>1. LoadTask(task[a])
      BY <2>1, AdminShape DEF Loading
    <3>2. task'[a] = [task[a] EXCEPT !.pc = "convert", !.count = n, !.bools = bools]
      BY <1>0, <1>2, <2>3 DEF security_load_policy
    <3> HIDE DEF n, bools
    <3>3. /\ task'[a].pc = "convert" /\ task'[a].count = n /\ task'[a].bools = bools
          /\ task'[a].image = task[a].image /\ task'[a].seq = task[a].seq
          /\ task'[a].pos = task[a].pos
      <4> DEFINE h1 == [task[a] EXCEPT !.pc = "convert"]
                 h2 == [h1 EXCEPT !.count = n]
      <4>1. /\ LoadTask(h1) /\ h1.pc = "convert" /\ h1.image = task[a].image
            /\ h1.seq = task[a].seq /\ h1.pos = task[a].pos
        BY <3>1 DEF LoadTask, Loading
      <4> HIDE DEF h1
      <4>2. /\ LoadTask(h2) /\ h2.pc = "convert" /\ h2.image = task[a].image
            /\ h2.seq = task[a].seq /\ h2.pos = task[a].pos /\ h2.count = n
        BY <4>1 DEF LoadTask
      <4> HIDE DEF h2
      <4>3. \A h : h = [h2 EXCEPT !.bools = bools] =>
               /\ h.pc = "convert" /\ h.count = n /\ h.bools = bools
               /\ h.image = task[a].image /\ h.seq = task[a].seq
               /\ h.pos = task[a].pos
        BY <4>2 DEF LoadTask
      <4>4. task'[a] = [h2 EXCEPT !.bools = bools]
        BY <3>2 DEF h1, h2
      <4> QED BY <4>3, <4>4
    <3> USE DEF n, bools
    <3> QED BY <2>1, <2>3, <3>1, <3>3 DEF SameLoad
  <2> QED BY <2>2, <2>3
<1>3. ASSUME convert_entry(a)
      PROVE  /\ task[a].pc = "convert" /\ task'[a].pc = "convert" /\ mutex = a /\ SameLoad(a)
             /\ task'[a].bools = task[a].bools /\ task'[a].count = task[a].count
             /\ task'[a].pos = task[a].pos + 1
  <2>1. task[a].pc = "convert" /\ mutex = a
    BY <1>3 DEF convert_entry, Held, At
  <2>2. LoadTask(task[a])
    BY <2>1, AdminShape DEF Loading
  <2>3. task'[a] = [task[a] EXCEPT !.pos = task[a].pos + 1]
    BY <1>0, <1>3 DEF convert_entry
  <2> QED BY <2>1, <2>2, <2>3 DEF LoadTask, SameLoad
<1>4. ASSUME convert_done(a)
      PROVE  /\ task[a].pc = "convert" /\ task'[a].pc = "nodes" /\ mutex = a /\ SameLoad(a)
             /\ task'[a].bools = task[a].bools
  BY <1>4, LoadGoto DEF convert_done, Held, At, Loading
<1>5. ASSUME load_fails(a)
      PROVE  /\ task[a].pc \in {"load", "convert", "nodes"} /\ mutex = a
             /\ LoadTask(task[a])
             /\ \/ cur = 0 /\ task'[a].pc = "oops" /\ UNCHANGED <<mutex, tabs>>
                \/ task'[a].pc = "idle" /\ mutex' = NULL
  <2>1. task[a].pc \in {"load", "convert", "nodes"} /\ mutex = a
    BY <1>5 DEF load_fails, Held, At
  <2>2. LoadTask(task[a])
    BY <2>1, AdminShape DEF Loading
  <2>3. CASE cur = 0 /\ Goto(a, "oops") /\ UNCHANGED <<tabs, mutex>>
    BY <2>1, <2>2, <2>3, LoadGoto DEF Loading
  <2>4. CASE Return(a) /\ mutex' = NULL
    <3>1. task'[a] = idle
      BY <1>0, <2>4 DEF Return
    <3> QED BY <2>1, <2>2, <2>4, <3>1 DEF idle
  <2> QED BY <1>5, <2>3, <2>4 DEF load_fails
<1>6. ASSUME sel_make_policy_nodes(a)
      PROVE  /\ task[a].pc = "nodes" /\ task'[a].pc = "commit" /\ mutex = a /\ SameLoad(a)
             /\ task'[a].bools = task[a].bools
  BY <1>6, LoadGoto DEF sel_make_policy_nodes, Held, At, Loading
<1>7. ASSUME selinux_policy_commit(a)
      PROVE  /\ task[a].pc = "commit" /\ mutex = a /\ LoadTask(task[a])
             /\ task'[a] = [pc |-> "sync", mode |-> "policy", todo |-> NetKinds,
                            old |-> cur, keep |-> FALSE]
  <2>1. task[a].pc = "commit" /\ mutex = a
    BY <1>7 DEF selinux_policy_commit, Held, At
  <2> QED BY <1>0, <1>7, <2>1, AdminShape DEF selinux_policy_commit, Loading
<1> QED BY <1>1, <1>2, <1>3, <1>4, <1>5, <1>6, <1>7

\* A notification goes on about the same change.
SameChange(a) == /\ task'[a].mode = task[a].mode /\ task'[a].value = task[a].value
                 /\ task[a] \in PolicyTask \cup EnforceTask

LEMMA NotifyGoto ==
    ASSUME TypeInv, NEW a \in Admins, task[a].pc \in Notifying, NEW p \in Notifying, Goto(a, p)
    PROVE  SameChange(a) /\ task'[a].pc = p /\ task'[a].todo = task[a].todo
<1>1. task[a] \in PolicyTask \cup EnforceTask
  BY AdminShape
<1>2. task'[a] = [task[a] EXCEPT !.pc = p]
  BY Kinds DEF TypeInv, TaskOK, Goto
<1>3. CASE task[a] \in PolicyTask
  BY <1>2, <1>3 DEF PolicyTask, SameChange
<1>4. CASE task[a] \in EnforceTask
  BY <1>2, <1>4 DEF EnforceTask, SameChange
<1> QED BY <1>1, <1>3, <1>4

LEMMA NotifyMoves ==
    ASSUME TypeInv, NEW a \in Admins
    PROVE  /\ policy_free(a) =>
                /\ task[a].pc = "sync" /\ mutex = a /\ task[a] \in SyncTask
                /\ task'[a] = [pc |-> "flush", mode |-> "policy", value |-> cur, slot |-> 1,
                               todo |-> NetKinds]
           /\ avc_flush(a) =>
                /\ task[a].pc = "flush" /\ task'[a].pc \in {"flush", "callbacks"}
                /\ SameChange(a) /\ task'[a].todo = task[a].todo /\ task[a].slot \in Keys
           /\ avc_callbacks(a) =>
                /\ task[a].pc = "callbacks" /\ task'[a].pc = "callbacks" /\ SameChange(a)
                /\ \E n \in NetKinds : /\ n \in task[a].todo /\ task'[a].todo = task[a].todo \ {n}
                                       /\ netlock[n] = NULL /\ net' = [net EXCEPT ![n] = <<>>]
           /\ avc_latest_notif_update(a) =>
                /\ task[a].pc = "callbacks" /\ task[a].todo = {}
                /\ task'[a].pc = "status" /\ SameChange(a)
           /\ status_update_begin(a) =>
                /\ task[a].pc = "status" /\ task[a] \in PolicyTask \cup EnforceTask
                /\ status = NULL => Done(a) /\ task'[a].pc = "idle"
                /\ status # NULL => task'[a].pc = "status2" /\ SameChange(a)
           /\ status_update_end(a) =>
                /\ task[a].pc = "status2" /\ task[a] \in PolicyTask \cup EnforceTask
                /\ Done(a) /\ task'[a].pc = "idle"
           /\ security_set_bools(a) =>
                /\ task[a].pc = "idle"
                /\ task'[a] = [pc |-> "sync", mode |-> "policy", todo |-> NetKinds,
                               old |-> cur, keep |-> TRUE]
           /\ sel_write_enforce(a) =>
                /\ task[a].pc = "idle" /\ task'[a].pc \in {"flush", "status"}
                /\ task'[a].mode = "enforce"
<1> USE Kinds
<1>0. task = [u \in Tasks |-> task[u]] /\ a \in Tasks
  BY DEF TypeInv, TaskOK
<1>i. Return(a) => task'[a].pc = "idle"
  BY <1>0 DEF Return, idle
<1>1. ASSUME policy_free(a)
      PROVE  /\ task[a].pc = "sync" /\ mutex = a /\ task[a] \in SyncTask
             /\ task'[a] = [pc |-> "flush", mode |-> "policy", value |-> cur, slot |-> 1,
                            todo |-> NetKinds]
  BY <1>0, <1>1, AdminShape DEF policy_free, Held, At
<1>2. ASSUME avc_flush(a)
      PROVE  /\ task[a].pc = "flush" /\ task'[a].pc \in {"flush", "callbacks"}
             /\ SameChange(a) /\ task'[a].todo = task[a].todo /\ task[a].slot \in Keys
  <2>1. task[a].pc = "flush"
    BY <1>2 DEF avc_flush, At
  <2>2. task[a] \in PolicyTask \cup EnforceTask
    BY <2>1, AdminShape DEF Notifying
  <2>3. task[a].slot \in Keys
    BY <2>2 DEF PolicyTask, EnforceTask
  <2>4. CASE Goto(a, "callbacks")
    BY <2>1, <2>3, <2>4, NotifyGoto DEF Notifying
  <2>5. CASE task' = [task EXCEPT ![a].slot = task[a].slot + 1]
    <3>1. task'[a] = [task[a] EXCEPT !.slot = task[a].slot + 1]
      BY <1>0, <2>5
    <3>2. CASE task[a] \in PolicyTask
      BY <2>1, <2>3, <3>1, <3>2 DEF PolicyTask, SameChange
    <3>3. CASE task[a] \in EnforceTask
      BY <2>1, <2>3, <3>1, <3>3 DEF EnforceTask, SameChange
    <3> QED BY <2>2, <3>2, <3>3
  <2> QED BY <1>2, <2>4, <2>5 DEF avc_flush
<1>3. ASSUME avc_callbacks(a)
      PROVE  /\ task[a].pc = "callbacks" /\ task'[a].pc = "callbacks" /\ SameChange(a)
             /\ \E n \in NetKinds : /\ n \in task[a].todo /\ task'[a].todo = task[a].todo \ {n}
                                    /\ netlock[n] = NULL /\ net' = [net EXCEPT ![n] = <<>>]
  <2>1. task[a].pc = "callbacks"
    BY <1>3 DEF avc_callbacks, At
  <2>2. task[a] \in PolicyTask \cup EnforceTask
    BY <2>1, AdminShape DEF Notifying
  <2>3. PICK n \in task[a].todo :
           /\ netlock[n] = NULL /\ net' = [net EXCEPT ![n] = <<>>]
           /\ task'[a] = [task[a] EXCEPT !.todo = task[a].todo \ {n}]
    <3> DEFINE n == CHOOSE n \in task[a].todo : TRUE
    <3>1. n \in task[a].todo
      BY <1>3 DEF avc_callbacks
    <3>2. /\ netlock[n] = NULL /\ net' = [net EXCEPT ![n] = <<>>]
          /\ task' = [task EXCEPT ![a].todo = task[a].todo \ {n}]
      BY <1>3 DEF avc_callbacks, sel_net_flush
    <3> HIDE DEF n
    <3> QED BY <1>0, <3>1, <3>2
  <2>4. CASE task[a] \in PolicyTask
    <3>1. n \in NetKinds /\ task'[a].todo = task[a].todo \ {n} /\ task'[a].pc = "callbacks"
          /\ task'[a].mode = task[a].mode /\ task'[a].value = task[a].value
      BY <2>1, <2>3, <2>4 DEF PolicyTask
    <3> QED BY <2>1, <2>2, <2>3, <3>1 DEF SameChange
  <2>5. CASE task[a] \in EnforceTask
    <3>1. n \in NetKinds /\ task'[a].todo = task[a].todo \ {n} /\ task'[a].pc = "callbacks"
          /\ task'[a].mode = task[a].mode /\ task'[a].value = task[a].value
      BY <2>1, <2>3, <2>5 DEF EnforceTask
    <3> QED BY <2>1, <2>2, <2>3, <3>1 DEF SameChange
  <2> QED BY <2>2, <2>4, <2>5
<1>4. ASSUME avc_latest_notif_update(a)
      PROVE  /\ task[a].pc = "callbacks" /\ task[a].todo = {}
             /\ task'[a].pc = "status" /\ SameChange(a)
  BY <1>4, NotifyGoto DEF avc_latest_notif_update, At, Notifying
<1>5. ASSUME status_update_begin(a)
      PROVE  /\ task[a].pc = "status" /\ task[a] \in PolicyTask \cup EnforceTask
             /\ status = NULL => Done(a) /\ task'[a].pc = "idle"
             /\ status # NULL => task'[a].pc = "status2" /\ SameChange(a)
  BY <1>5, <1>i, NotifyGoto, AdminShape DEF status_update_begin, At, Notifying, Done
<1>6. ASSUME status_update_end(a)
      PROVE  /\ task[a].pc = "status2" /\ task[a] \in PolicyTask \cup EnforceTask
             /\ Done(a) /\ task'[a].pc = "idle"
  BY <1>6, <1>i, AdminShape DEF status_update_end, At, Notifying, Done
<1>7. ASSUME security_set_bools(a)
      PROVE  /\ task[a].pc = "idle"
             /\ task'[a] = [pc |-> "sync", mode |-> "policy", todo |-> NetKinds,
                            old |-> cur, keep |-> TRUE]
  BY <1>0, <1>7 DEF security_set_bools, At
<1>8. ASSUME sel_write_enforce(a)
      PROVE  /\ task[a].pc = "idle" /\ task'[a].pc \in {"flush", "status"}
             /\ task'[a].mode = "enforce"
  BY <1>0, <1>8 DEF sel_write_enforce, At
<1> QED BY <1>1, <1>2, <1>3, <1>4, <1>5, <1>6, <1>7, <1>8
-----------------------------------------------------------------------------
(* The booleans.                                                           *)

LEMMA BoolsFrame ==
    ASSUME TypeInv, BoolsInv, UNCHANGED <<pol, cur, mutex>>, DOMAIN pending' = DOMAIN pending,
           \A a \in Admins : task'[a] = task[a]
    PROVE  BoolsInv'
BY DEF BoolsInv, BoolsAgree, BoolsOf

\* Of the other administrators none is in the middle of a change.
LEMMA BoolsAdmin ==
    ASSUME TypeInv, BoolsInv, NEW a \in Admins, \A u \in Tasks : u # a => task'[u] = task[u],
           \/ UNCHANGED <<pol, cur, pending>>
           \/ mutex \in {a, NULL},
           BoolsOf(a)', BoolsAgree'
    PROVE  BoolsInv'
<1> SUFFICES ASSUME NEW u \in Admins, u # a PROVE BoolsOf(u)'
  BY DEF BoolsInv
<1>1. task'[u] = task[u] /\ BoolsOf(u)
  BY Kinds DEF BoolsInv
<1>2. CASE UNCHANGED <<pol, cur, pending>>
  BY <1>1, <1>2 DEF BoolsOf
<1>3. CASE mutex \in {a, NULL}
  <2>1. ~Owning(task[u])
    BY <1>3, Kinds DEF TypeInv, MutexOK
  <2> QED BY <1>1, <2>1 DEF BoolsOf, Owning, Loading
<1> QED BY <1>2, <1>3

LEMMA BoolsLoad ==
    ASSUME TypeInv, TypeInv', BoolsInv, NEW a \in Admins, Load(a)
    PROVE  BoolsInv'
<1> USE Kinds
<1>0. BoolsOf(a) /\ BoolsAgree /\ \A u \in Tasks : u # a => task'[u] = task[u]
  BY Frames DEF BoolsInv
<1> SUFFICES BoolsOf(a)' /\ BoolsAgree' /\ mutex \in {a, NULL}
  BY <1>0, BoolsAdmin
<1>1. CASE sel_write_load(a)
  <2>1. task'[a].pc = "load" /\ mutex = NULL /\ mutex' = a /\ UNCHANGED <<pol, cur, pending>>
    BY <1>1, LoadMoves DEF sel_write_load
  <2> QED BY <1>0, <2>1 DEF BoolsOf, BoolsAgree, Notifying
<1>2. CASE security_load_policy(a)
  <2>1. UNCHANGED <<pol, cur, mutex, pending>> /\ task[a].pc = "load" /\ mutex = a
    BY <1>2, LoadMoves DEF security_load_policy
  <2>2. CASE cur = 0
    <3>1. task'[a].pc = "nodes"
      BY <1>2, <2>2, LoadMoves
    <3> QED BY <1>0, <2>1, <2>2, <3>1 DEF BoolsOf, BoolsAgree, Notifying
  <2>3. CASE cur # 0
    <3>1. /\ task'[a].pc = "convert"
          /\ task'[a].bools = security_preserve_bools(pol[cur].bools, task[a].bools)
      BY <1>2, <2>3, LoadMoves
    <3>2. \A b \in DOMAIN pol[cur].bools \cap DOMAIN task'[a].bools :
             task'[a].bools[b] = pol[cur].bools[b]
      BY <3>1 DEF security_preserve_bools
    <3> QED BY <1>0, <2>1, <2>3, <3>1, <3>2 DEF BoolsOf, BoolsAgree, Notifying
  <2> QED BY <2>2, <2>3
<1>3. CASE convert_entry(a) \/ convert_done(a)
  <2>1. /\ UNCHANGED <<pol, cur, mutex, pending>> /\ task[a].pc = "convert" /\ mutex = a
        /\ task'[a].pc \in {"convert", "nodes"} /\ task'[a].bools = task[a].bools
    BY <1>3, LoadMoves DEF convert_entry, convert_done
  <2> QED BY <1>0, <2>1 DEF BoolsOf, BoolsAgree, Notifying
<1>4. CASE load_fails(a)
  <2>1. /\ UNCHANGED <<pol, cur, pending>> /\ task[a].pc \in {"load", "convert", "nodes"}
        /\ mutex = a
        /\ \/ cur = 0 /\ task'[a].pc = "oops" /\ UNCHANGED mutex
           \/ task'[a].pc = "idle" /\ mutex' = NULL
    BY <1>4, LoadMoves DEF load_fails
  <2> QED BY <1>0, <2>1 DEF BoolsOf, BoolsAgree, Notifying
<1>5. CASE sel_make_policy_nodes(a)
  <2>1. /\ UNCHANGED <<pol, cur, mutex>> /\ task[a].pc = "nodes" /\ mutex = a
        /\ task'[a].pc = "commit" /\ task'[a].bools = task[a].bools
        /\ pending' = task[a].bools
    BY <1>5, LoadMoves DEF sel_make_policy_nodes
  <2> QED BY <1>0, <2>1 DEF BoolsOf, BoolsAgree, Notifying
<1>6. CASE selinux_policy_commit(a)
  <2>1. /\ UNCHANGED <<pending, mutex>> /\ task[a].pc = "commit" /\ mutex = a
        /\ task'[a].pc = "sync" /\ cur' = task[a].seq
        /\ pol' = [pol EXCEPT ![task[a].seq] = [image |-> task[a].image, bools |-> task[a].bools,
                                                tab |-> task[a].seq]]
    <3>1. task[a].pc = "commit" /\ mutex = a /\ task'[a].pc = "sync"
      BY <1>6, LoadMoves
    <3> QED BY <1>6, <3>1 DEF selinux_policy_commit
  <2>2. task[a].seq \in Seqs
    BY <1>6, LoadMoves DEF LoadTask
  <2>3. pol'[cur'].bools = task[a].bools
    BY <2>1, <2>2 DEF TypeInv, VarsOK
  <2>4. DOMAIN pending' = DOMAIN pol'[cur'].bools
    BY <1>0, <2>1, <2>3 DEF BoolsOf
  <2> QED BY <2>1, <2>4 DEF BoolsOf, BoolsAgree, Notifying
<1> QED BY <1>1, <1>2, <1>3, <1>4, <1>5, <1>6 DEF Load

LEMMA BoolsNotify ==
    ASSUME TypeInv, TypeInv', BoolsInv, NEW a \in Admins, Notify(a)
    PROVE  BoolsInv'
<1> USE Kinds
<1>0. BoolsOf(a) /\ BoolsAgree /\ \A u \in Tasks : u # a => task'[u] = task[u]
  BY Frames DEF BoolsInv
<1>1. CASE policy_free(a)
  <2>1. /\ UNCHANGED <<pending, cur, mutex>> /\ mutex = a /\ task[a].pc = "sync"
        /\ task'[a].pc = "flush" /\ task[a] \in SyncTask
        /\ pol' = [s \in Seqs |-> IF s = task[a].old THEN NULL ELSE pol[s]]
    <3>1. mutex = a /\ task[a].pc = "sync" /\ task'[a].pc = "flush" /\ task[a] \in SyncTask
      BY <1>1, NotifyMoves
    <3> QED BY <1>1, <3>1 DEF policy_free
  <2>2. cur \in Seqs /\ cur # task[a].old
    <3>1. task[a].old < cur /\ cur \in 0 .. MaxSeq
      BY <2>1, AdminShape DEF Progress, TypeInv, VarsOK
    <3> QED BY <2>1, <3>1 DEF Seqs, SyncTask
  <2>3. pol'[cur'] = pol[cur]
    BY <2>1, <2>2
  <2>4. BoolsOf(a)' /\ BoolsAgree'
    BY <1>0, <2>1, <2>3 DEF BoolsOf, BoolsAgree, Notifying, Owning
  <2> QED BY <1>0, <2>1, <2>4, BoolsAdmin
<1>2. CASE /\ UNCHANGED <<pending, cur, pol, mutex>> /\ SameChange(a)
           /\ task[a].pc \in Notifying /\ task'[a].pc \in Notifying
  <2>1. BoolsOf(a)' /\ BoolsAgree'
    BY <1>0, <1>2 DEF BoolsOf, BoolsAgree, Notifying, Owning, SameChange, Loading
  <2> QED BY <1>0, <1>2, <2>1, BoolsAdmin
<1>3. CASE /\ UNCHANGED <<pending, cur, pol>> /\ Done(a)
           /\ task[a].pc \in Notifying /\ task'[a].pc = "idle"
  <2>1. BoolsOf(a)' /\ BoolsAgree'
    <3>1. BoolsOf(a)'
      BY <1>3 DEF BoolsOf, Notifying
    <3>2. CASE mutex = a
      <4>1. Owning(task[a])
        BY <3>2, AdminShape
      <4> QED BY <1>0, <1>3, <3>1, <4>1 DEF BoolsOf, BoolsAgree
    <3>3. CASE mutex # a
      BY <1>0, <1>3, <3>1, <3>3 DEF Done, BoolsAgree
    <3> QED BY <3>2, <3>3
  <2> QED BY <1>0, <1>3, <2>1, BoolsAdmin
<1>4. CASE avc_flush(a) \/ avc_callbacks(a) \/ avc_latest_notif_update(a)
  BY <1>2, <1>4, NotifyMoves DEF avc_flush, avc_callbacks, avc_latest_notif_update,
     policyvars, Notifying
<1>5. CASE status_update_begin(a)
  <2>1. CASE status = NULL
    BY <1>3, <1>5, <2>1, NotifyMoves DEF status_update_begin, Notifying
  <2>2. CASE status # NULL
    BY <1>2, <1>5, <2>2, NotifyMoves DEF status_update_begin, Notifying
  <2> QED BY <2>1, <2>2
<1>6. CASE status_update_end(a)
  BY <1>3, <1>6, NotifyMoves DEF status_update_end, Notifying
<1> QED BY <1>1, <1>4, <1>5, <1>6 DEF Notify

\* What a commit of booleans installs.
LEMMA SetBools ==
    ASSUME TypeInv, NEW a \in Admins, security_set_bools(a)
    PROVE  /\ cur # 0 /\ cur' = cur + 1 /\ cur \in Seqs /\ cur' \in Seqs
           /\ mutex = NULL /\ mutex' = a
           /\ UNCHANGED <<tabs, pending, enforcing, status, avcvars, latest, netvars, who>>
           /\ pol'[cur'] # NULL /\ pol'[cur'].tab = pol[cur].tab
           /\ pol'[cur'].image = pol[cur].image
           /\ DOMAIN pol'[cur'].bools = DOMAIN pol[cur].bools
           /\ \A s \in Seqs : s # cur' => pol'[s] = pol[s]
<1> DEFINE bools == [b \in DOMAIN pol[cur].bools |-> IF b \in DOMAIN pending THEN pending[b]
                                                     ELSE pol[cur].bools[b]]
           p == [pol[cur] EXCEPT !.bools = bools]
<1>1. /\ cur # 0 /\ cur' = cur + 1 /\ mutex = NULL /\ mutex' = a
      /\ pol' = [pol EXCEPT ![cur + 1] = p]
      /\ UNCHANGED <<tabs, pending, enforcing, status, avcvars, latest, netvars, who>>
  BY DEF security_set_bools
<1>2. cur + 1 \in Seqs /\ cur \in Seqs
  <2>1. cur + 1 \in Seqs
    BY NewSeq DEF security_set_bools
  <2> QED BY <1>1, <2>1 DEF Seqs, TypeInv, VarsOK
<1>3. pol[cur] \in Policy
  BY <1>1, <1>2 DEF TypeInv, VarsOK, Current
<1>4. p.tab = pol[cur].tab /\ p.image = pol[cur].image /\ DOMAIN p.bools = DOMAIN pol[cur].bools
  <2>1. p.tab = pol[cur].tab /\ p.image = pol[cur].image /\ p.bools = bools
    <3> HIDE DEF bools
    <3> QED BY <1>3 DEF Policy
  <2> QED BY <2>1
<1> HIDE DEF p
<1>5. pol'[cur'] = p /\ \A s \in Seqs : s # cur' => pol'[s] = pol[s]
  BY <1>1, <1>2 DEF TypeInv, VarsOK
<1>6. pol'[cur'] # NULL
  <2>1. TypeInv'
    BY TypeSetBools
  <2> QED BY <1>1, <1>2, <2>1 DEF TypeInv, Current, Seqs
<1> QED BY <1>1, <1>2, <1>4, <1>5, <1>6

LEMMA BoolsStep == TypeInv /\ BoolsInv /\ [Next]_vars => BoolsInv'
<1> SUFFICES ASSUME TypeInv, BoolsInv, [Next]_vars PROVE BoolsInv'
  OBVIOUS
<1> USE Kinds
<1>0. TypeInv'
  BY TypeStep
<1>1. CASE \/ \E t \in Labellers : Label(t)
           \/ \E t \in Netters : Net(t)
           \/ \E t \in Checkers : Check(t)
  BY <1>1, Frames, BoolsFrame
<1>2. ASSUME NEW a \in Admins, security_set_bools(a) PROVE BoolsInv'
  <2>1. /\ cur # 0 /\ mutex = NULL /\ mutex' = a /\ UNCHANGED pending
        /\ DOMAIN pol'[cur'].bools = DOMAIN pol[cur].bools
    BY <1>2, SetBools
  <2>2. task'[a].pc = "sync" /\ \A u \in Tasks : u # a => task'[u] = task[u]
    BY <1>2, Frames, NotifyMoves
  <2>3. DOMAIN pending = DOMAIN pol[cur].bools
    BY <2>1 DEF BoolsInv, BoolsAgree
  <2>4. BoolsOf(a)' /\ BoolsAgree'
    BY <2>1, <2>2, <2>3 DEF BoolsOf, BoolsAgree, Notifying
  <2> QED BY <2>1, <2>2, <2>4, BoolsAdmin
<1>3. ASSUME NEW a \in Admins, sel_write_enforce(a) PROVE BoolsInv'
  <2>1. /\ task'[a].pc \in Notifying /\ task'[a].mode = "enforce"
        /\ \A u \in Tasks : u # a => task'[u] = task[u]
        /\ UNCHANGED <<pol, cur, pending, mutex>>
    BY <1>3, Frames, NotifyMoves DEF sel_write_enforce, policyvars, Notifying
  <2>2. BoolsOf(a)' /\ BoolsAgree'
    BY <2>1 DEF BoolsOf, BoolsAgree, BoolsInv, Notifying, Owning, Loading
  <2> QED BY <2>1, <2>2, BoolsAdmin
<1>4. ASSUME NEW a \in Admins, sel_write_bool(a) PROVE BoolsInv'
  BY <1>4, BoolsFrame DEF sel_write_bool
<1>5. CASE sel_netif_kill \/ selinux_kernel_status_page \/ UNCHANGED vars
  BY <1>5, BoolsFrame DEF sel_netif_kill, selinux_kernel_status_page, vars, policyvars
<1> QED BY <1>0, <1>1, <1>2, <1>3, <1>4, <1>5, Steps, BoolsLoad, BoolsNotify

LEMMA BoolsInit == Init => BoolsInv
BY IdleType, Kinds DEF Init, BoolsInv, BoolsAgree, BoolsOf, idle, Owning, Notifying, Loading

\* A commit of booleans finds as many of them in selinuxfs as in the policy.
THEOREM BooleansAgree == Spec => []BoolsAgree
<1>1. Init => TypeInv /\ BoolsInv
  BY TypeInit, BoolsInit
<1>2. TypeInv /\ BoolsInv /\ [Next]_vars => (TypeInv /\ BoolsInv)'
  BY TypeStep, BoolsStep
<1>3. BoolsInv => BoolsAgree
  BY DEF BoolsInv
<1> QED BY <1>1, <1>2, <1>3, PTL DEF Spec
\* What a load installs.
LEMMA Commit ==
    ASSUME TypeInv, NEW a \in Admins, selinux_policy_commit(a)
    PROVE  /\ cur' = cur + 1 /\ cur' = task[a].seq /\ cur' \in Seqs /\ cur' # 0 /\ cur \in Nat
           /\ mutex = a /\ mutex' = a /\ task[a].pc = "commit"
           /\ UNCHANGED <<pending, enforcing, status, avcvars, latest, netvars, issued, who>>
           /\ pol'[cur'] = [image |-> task[a].image, bools |-> task[a].bools, tab |-> cur']
           /\ \A s \in Seqs : s # cur' => pol'[s] = pol[s]
<1>1. task[a].pc = "commit" /\ mutex = a /\ LoadTask(task[a])
  BY LoadMoves
<1>2. task[a].seq = cur + 1 /\ task[a].seq \in Seqs
  BY <1>1, AdminShape DEF Progress, LoadTask
<1>3. /\ cur' = task[a].seq /\ mutex' = mutex
      /\ UNCHANGED <<pending, enforcing, status, avcvars, latest, netvars, issued, who>>
      /\ pol' = [pol EXCEPT ![task[a].seq] = [image |-> task[a].image, bools |-> task[a].bools,
                                              tab |-> task[a].seq]]
  BY DEF selinux_policy_commit
<1>4. cur' # 0 /\ cur \in Nat
  BY <1>2, <1>3 DEF Seqs, TypeInv, VarsOK
<1> QED BY <1>1, <1>2, <1>3, <1>4 DEF TypeInv, VarsOK

\* The policy in use changes when a load or a commit of booleans ends.
LEMMA CurChanges ==
    ASSUME TypeInv, [Next]_vars
    PROVE  \/ UNCHANGED cur
           \/ \E a \in Admins : selinux_policy_commit(a) \/ security_set_bools(a)
<1>1. CASE \/ \E t \in Labellers : Label(t)
           \/ \E t \in Netters : Net(t)
           \/ \E t \in Checkers : Check(t)
  BY <1>1, Frames
<1>2. ASSUME NEW a \in Admins, Load(a), ~selinux_policy_commit(a) PROVE UNCHANGED cur
  BY <1>2 DEF Load, sel_write_load, security_load_policy, convert_entry, convert_done, load_fails,
     sel_make_policy_nodes
<1>3. ASSUME NEW a \in Admins, Notify(a) PROVE UNCHANGED cur
  BY <1>3 DEF Notify, policy_free, avc_flush, avc_callbacks, avc_latest_notif_update,
     status_update_begin, status_update_end, policyvars
<1>4. ASSUME NEW a \in Admins, sel_write_bool(a) \/ sel_write_enforce(a) PROVE UNCHANGED cur
  BY <1>4 DEF sel_write_bool, sel_write_enforce, policyvars
<1>5. CASE sel_netif_kill \/ selinux_kernel_status_page \/ UNCHANGED vars
  BY <1>5 DEF sel_netif_kill, selinux_kernel_status_page, vars, policyvars
<1> QED BY <1>1, <1>2, <1>3, <1>4, <1>5, Steps

\* A load of a policy keeps the values that the booleans had.
THEOREM BooleansPreserved == Spec => BoolsPreserved
<1> DEFINE Kept == cur # 0 /\ cur' > cur /\ pol'[cur'].tab # pol[cur].tab =>
              \A b \in DOMAIN pol[cur].bools \cap DOMAIN pol'[cur'].bools :
                 pol'[cur'].bools[b] = pol[cur].bools[b]
<1>1. Init => TypeInv /\ BoolsInv
  BY TypeInit, BoolsInit
<1>2. TypeInv /\ BoolsInv /\ [Next]_vars => (TypeInv /\ BoolsInv)'
  BY TypeStep, BoolsStep
<1>3. TypeInv /\ BoolsInv /\ [Next]_vars => Kept
  <2> SUFFICES ASSUME TypeInv, BoolsInv, [Next]_vars PROVE Kept
    OBVIOUS
  <2>1. CASE UNCHANGED cur
    <3>1. cur \in Nat
      BY DEF TypeInv, VarsOK
    <3> QED BY <2>1, <3>1
  <2>2. ASSUME NEW a \in Admins, security_set_bools(a) PROVE Kept
    BY <2>2, SetBools
  <2>3. ASSUME NEW a \in Admins, selinux_policy_commit(a) PROVE Kept
    <3>1. pol'[cur'].bools = task[a].bools /\ task[a].pc = "commit"
      <4>1. /\ task[a].pc = "commit"
            /\ pol'[cur'] = [image |-> task[a].image, bools |-> task[a].bools, tab |-> cur']
        BY <2>3, Commit
      <4> QED BY ONLY <4>1
    <3>2. cur # 0 => \A b \in DOMAIN pol[cur].bools \cap DOMAIN task[a].bools :
                        task[a].bools[b] = pol[cur].bools[b]
      BY <3>1 DEF BoolsInv, BoolsOf
    <3> QED BY <3>1, <3>2
  <2> QED BY <2>1, <2>2, <2>3, CurChanges
<1>4. TypeInv /\ BoolsInv /\ [Next]_vars => [Kept]_vars
  BY <1>3
<1> QED BY <1>1, <1>2, <1>4, PTL DEF Spec, BoolsPreserved

-----------------------------------------------------------------------------
(* The status page.                                                        *)

SameStatus ==
    /\ status # NULL <=> status' # NULL
    /\ status'.policyload = status.policyload /\ status'.deny_unknown = status.deny_unknown

LEMMA StatusFrame ==
    ASSUME StatusInv, UNCHANGED <<pol, cur, mutex, status>>,
           \A a \in Admins : task'[a] = task[a]
    PROVE  StatusInv'
BY DEF StatusInv, StatusNow, StatusOf

LEMMA StatusAdmin ==
    ASSUME TypeInv, StatusInv, NEW a \in Admins, \A u \in Tasks : u # a => task'[u] = task[u],
           \/ UNCHANGED <<pol, cur>> /\ SameStatus
           \/ mutex \in {a, NULL},
           StatusOf(a)', status' # NULL => cur' # 0, status' # NULL /\ mutex' = NULL => StatusNow'
    PROVE  StatusInv'
<1> SUFFICES ASSUME NEW u \in Admins, u # a PROVE StatusOf(u)'
  BY DEF StatusInv
<1>1. task'[u] = task[u] /\ StatusOf(u)
  BY Kinds DEF StatusInv
<1>2. CASE UNCHANGED <<pol, cur>> /\ SameStatus
  BY <1>1, <1>2 DEF StatusOf, StatusNow, SameStatus
<1>3. CASE mutex \in {a, NULL}
  <2>1. ~Owning(task[u])
    BY <1>3, Kinds DEF TypeInv, MutexOK
  <2> QED BY <1>1, <2>1 DEF StatusOf, Owning, Loading, Notifying
<1> QED BY <1>2, <1>3

LEMMA StatusLoad ==
    ASSUME TypeInv, TypeInv', StatusInv, NEW a \in Admins, Load(a)
    PROVE  StatusInv'
<1> USE Kinds
<1>0. StatusOf(a) /\ \A u \in Tasks : u # a => task'[u] = task[u]
  BY Frames DEF StatusInv
<1>1. UNCHANGED status
  BY DEF Load, sel_write_load, security_load_policy, convert_entry, convert_done, load_fails,
     sel_make_policy_nodes, selinux_policy_commit
<1>2. CASE sel_write_load(a)
  <2>1. task'[a].pc = "load" /\ mutex = NULL /\ mutex' = a /\ UNCHANGED <<pol, cur>>
    BY <1>2, LoadMoves DEF sel_write_load
  <2>2. StatusOf(a)' /\ mutex' # NULL
    BY <1>1, <2>1 DEF StatusOf, StatusInv, StatusNow, Notifying
  <2>3. status # NULL => cur # 0
    BY DEF StatusInv
  <2> QED BY <1>0, <1>1, <2>1, <2>2, <2>3, StatusAdmin
<1>3. CASE security_load_policy(a) \/ convert_entry(a) \/ convert_done(a)
           \/ sel_make_policy_nodes(a)
  <2>1. /\ task'[a].pc \in {"convert", "nodes", "commit"} /\ UNCHANGED <<pol, cur, mutex>>
        /\ task[a].pc \in {"load", "convert", "nodes"} /\ mutex = a
    BY <1>3, LoadMoves DEF security_load_policy, convert_entry, convert_done,
       sel_make_policy_nodes
  <2>2. StatusOf(a)' /\ mutex' # NULL
    BY <1>0, <1>1, <2>1 DEF StatusOf, StatusNow, Notifying
  <2>3. status # NULL => cur # 0
    BY DEF StatusInv
  <2> QED BY <1>0, <1>1, <2>1, <2>2, <2>3, StatusAdmin
<1>4. CASE load_fails(a)
  <2>1. /\ UNCHANGED <<pol, cur>> /\ task[a].pc \in {"load", "convert", "nodes"}
        /\ mutex = a /\ task'[a].pc \in {"oops", "idle"}
    BY <1>4, LoadMoves DEF load_fails
  <2>2. StatusOf(a)' /\ (status # NULL => StatusNow')
    BY <1>0, <1>1, <2>1 DEF StatusOf, StatusNow, Notifying
  <2>3. status # NULL => cur # 0
    BY DEF StatusInv
  <2> QED BY <1>0, <1>1, <2>1, <2>2, <2>3, StatusAdmin
<1>5. CASE selinux_policy_commit(a)
  <2>1. mutex = a /\ mutex' = a /\ cur' # 0 /\ task'[a].pc = "sync"
    <3>1. task'[a] = [pc |-> "sync", mode |-> "policy", todo |-> NetKinds,
                      old |-> cur, keep |-> FALSE]
      BY <1>5, LoadMoves
    <3>2. mutex = a /\ mutex' = a /\ cur' # 0
      BY <1>5, Commit
    <3> QED BY <3>1, <3>2
  <2>2. StatusOf(a)' /\ mutex' # NULL
    BY <2>1 DEF StatusOf, Notifying
  <2> QED BY <1>0, <2>1, <2>2, StatusAdmin
<1> QED BY <1>2, <1>3, <1>4, <1>5 DEF Load

LEMMA StatusNotify ==
    ASSUME TypeInv, TypeInv', StatusInv, NEW a \in Admins, Notify(a)
    PROVE  StatusInv'
<1> USE Kinds
<1>0. StatusOf(a) /\ (\A u \in Tasks : u # a => task'[u] = task[u]) /\ (status # NULL => cur # 0)
      /\ UNCHANGED cur
  BY Frames DEF StatusInv, Notify, policy_free, avc_flush, avc_callbacks,
     avc_latest_notif_update, status_update_begin, status_update_end, policyvars
<1>1. CASE policy_free(a)
  <2>1. mutex = a /\ mutex' = a /\ UNCHANGED status
    BY <1>1, NotifyMoves DEF policy_free
  <2>2. task'[a].pc = "flush" /\ task'[a].value = cur
    BY <1>1, NotifyMoves
  <2>3. StatusOf(a)' /\ mutex' # NULL
    BY <1>0, <2>1, <2>2 DEF StatusOf, Notifying
  <2> QED BY <1>0, <2>1, <2>3, StatusAdmin
<1>2. CASE avc_flush(a) \/ avc_callbacks(a) \/ avc_latest_notif_update(a)
  <2>1. /\ UNCHANGED <<pol, mutex, status>> /\ SameChange(a) /\ task[a].pc \in Notifying
        /\ task'[a].pc \in {"flush", "callbacks", "status"}
    BY <1>2, NotifyMoves DEF avc_flush, avc_callbacks, avc_latest_notif_update, policyvars,
       Notifying
  <2>2. StatusOf(a)'
    BY <1>0, <2>1 DEF StatusOf, SameChange, Notifying
  <2>3. status' # NULL /\ mutex' = NULL => StatusNow'
    BY <1>0, <2>1 DEF StatusInv, StatusNow
  <2>4. SameStatus
    BY <2>1 DEF SameStatus
  <2> QED BY <1>0, <2>1, <2>2, <2>3, <2>4, StatusAdmin
<1>3. CASE status_update_begin(a)
  <2>0. task[a].pc = "status" /\ task[a] \in PolicyTask \cup EnforceTask /\ UNCHANGED pol
    BY <1>3, NotifyMoves DEF status_update_begin
  <2>1. CASE status = NULL
    <3>1. Done(a) /\ task'[a].pc = "idle" /\ UNCHANGED status
      BY <1>3, <2>1, NotifyMoves DEF status_update_begin
    <3>2. StatusOf(a)'
      BY <3>1 DEF StatusOf, Notifying
    <3>3. SameStatus
      BY <3>1 DEF SameStatus
    <3> QED BY <1>0, <2>0, <2>1, <3>1, <3>2, <3>3, StatusAdmin
  <2>2. CASE status # NULL
    <3>1. task'[a].pc = "status2" /\ SameChange(a) /\ UNCHANGED mutex
      BY <1>3, <2>2, NotifyMoves DEF status_update_begin
    <3>2. /\ status' # NULL /\ status'.deny_unknown = status.deny_unknown
          /\ status'.policyload = IF task[a].mode = "policy" THEN task[a].value
                                  ELSE status.policyload
      <4>1. status \in Page
        BY <2>2 DEF TypeInv, VarsOK
      <4>2. status' = [status EXCEPT !.sequence = 1,
                 !.enforcing = IF task[a].mode = "enforce" THEN task[a].value ELSE @,
                 !.policyload = IF task[a].mode = "policy" THEN task[a].value ELSE @]
        BY <1>3, <2>2 DEF status_update_begin
      <4>3. status' # NULL
        BY <3>1, AdminShape DEF TypeInv, Current, Progress
      <4> QED BY <4>1, <4>2, <4>3 DEF Page
    <3>3. CASE task[a].mode = "policy"
      <4>1. mutex = a /\ mutex' = a
        BY <2>0, <3>1, <3>3, AdminShape DEF Owning, Notifying
      <4>2. StatusOf(a)' /\ mutex' # NULL
        BY <1>0, <2>0, <3>1, <3>2, <3>3, <4>1 DEF StatusOf, SameChange, Notifying
      <4> QED BY <1>0, <2>2, <4>1, <4>2, StatusAdmin
    <3>4. CASE task[a].mode # "policy"
      <4>1. SameStatus
        BY <2>2, <3>2, <3>4 DEF SameStatus
      <4>2. StatusOf(a)'
        BY <3>1, <3>4 DEF StatusOf, SameChange
      <4>3. mutex' = NULL => StatusNow'
        BY <1>0, <2>0, <2>2, <3>1, <3>2, <3>4 DEF StatusInv, StatusNow
      <4> QED BY <1>0, <2>0, <2>2, <4>1, <4>2, <4>3, StatusAdmin
    <3> QED BY <3>3, <3>4
  <2> QED BY <2>1, <2>2
<1>4. CASE status_update_end(a)
  <2>0. /\ task[a].pc = "status2" /\ task[a] \in PolicyTask \cup EnforceTask /\ UNCHANGED pol
        /\ Done(a) /\ task'[a].pc = "idle" /\ status # NULL
    BY <1>4, NotifyMoves, AdminShape DEF status_update_end, Progress
  <2>1. /\ status' # NULL /\ status'.policyload = status.policyload
        /\ status'.deny_unknown = IF task[a].mode = "policy" THEN pol[cur].image.deny_unknown
                                  ELSE status.deny_unknown
    <3>1. status \in Page
      BY <2>0 DEF TypeInv, VarsOK
    <3>2. status' = [status EXCEPT !.sequence = 0, !.deny_unknown =
                        IF task[a].mode = "policy" THEN pol[cur].image.deny_unknown ELSE @]
      BY <1>4 DEF status_update_end
    <3>3. status' \in Page \cup {NULL} /\ status' # NULL
      <4>1. \A d : [status EXCEPT !.sequence = 0, !.deny_unknown = d].sequence = 0
        BY <3>1 DEF Page
      <4>2. task[a].mode = "policy" => pol[cur].image.deny_unknown \in BOOLEAN
        <5>1. task[a].mode = "policy" => pol[cur] \in Policy
          BY <2>0, AdminShape DEF Progress, Notifying, TypeInv, Current, VarsOK, Seqs
        <5>2. \A i \in Images : i.deny_unknown \in BOOLEAN
          BY ServerAssumption DEF PolicyImage
        <5> QED BY <5>1, <5>2 DEF Policy
      <4>3. status.deny_unknown \in BOOLEAN
        BY <3>1 DEF Page
      <4>4. PICK d \in BOOLEAN : status' = [status EXCEPT !.sequence = 0, !.deny_unknown = d]
        <5> DEFINE d == IF task[a].mode = "policy" THEN pol[cur].image.deny_unknown
                        ELSE status.deny_unknown
        <5>1. d \in BOOLEAN
          BY <4>2, <4>3
        <5>2. status' = [status EXCEPT !.sequence = 0, !.deny_unknown = d]
          BY <3>2
        <5> QED BY <5>1, <5>2
      <4>5. status' \in Page
        BY <3>1, <4>4 DEF Page
      <4> QED BY <4>5, ServerAssumption
    <3> QED BY <3>1, <3>2, <3>3 DEF Page
  <2>2. StatusOf(a)'
    BY <2>0 DEF StatusOf, Notifying
  <2>3. CASE task[a].mode = "policy"
    <3>1. mutex = a
      BY <2>0, <2>3, AdminShape DEF Owning, Notifying
    <3>2. StatusNow'
      BY <1>0, <2>0, <2>1, <2>3 DEF StatusOf, StatusNow
    <3> QED BY <1>0, <2>0, <2>2, <3>1, <3>2, StatusAdmin
  <2>4. CASE task[a].mode # "policy"
    <3>1. SameStatus
      BY <2>0, <2>1, <2>4 DEF SameStatus
    <3>2. mutex' = NULL => StatusNow'
      <4>1. mutex # a
        <5>1. ~Owning(task[a])
          BY <2>0, <2>4 DEF Owning, Loading
        <5> QED BY <5>1, AdminShape
      <4>2. mutex' = mutex
        BY <2>0, <4>1 DEF Done
      <4> QED BY <1>0, <2>0, <2>1, <2>4, <4>2 DEF StatusInv, StatusNow
    <3> QED BY <1>0, <2>0, <2>2, <3>1, <3>2, StatusAdmin
  <2> QED BY <2>3, <2>4
<1> QED BY <1>1, <1>2, <1>3, <1>4 DEF Notify

LEMMA StatusStep == TypeInv /\ StatusInv /\ [Next]_vars => StatusInv'
<1> SUFFICES ASSUME TypeInv, StatusInv, [Next]_vars PROVE StatusInv'
  OBVIOUS
<1> USE Kinds
<1>0. TypeInv'
  BY TypeStep
<1>1. CASE \/ \E t \in Labellers : Label(t)
           \/ \E t \in Netters : Net(t)
           \/ \E t \in Checkers : Check(t)
  BY <1>1, Frames, StatusFrame
<1>2. ASSUME NEW a \in Admins, security_set_bools(a) PROVE StatusInv'
  <2>1. /\ cur # 0 /\ mutex = NULL /\ mutex' = a /\ UNCHANGED status /\ cur' = cur + 1
        /\ cur' \in Seqs
    BY <1>2, SetBools
  <2>2. task'[a].pc = "sync" /\ \A u \in Tasks : u # a => task'[u] = task[u]
    BY <1>2, Frames, NotifyMoves
  <2>3. StatusOf(a)' /\ mutex' # NULL
    BY <2>1, <2>2 DEF StatusOf, Notifying
  <2>4. cur' # 0
    BY <2>1 DEF Seqs
  <2> QED BY <2>1, <2>2, <2>3, <2>4, StatusAdmin
<1>3. ASSUME NEW a \in Admins, sel_write_enforce(a) PROVE StatusInv'
  <2>1. /\ task'[a].pc \in {"flush", "status"} /\ task'[a].mode = "enforce"
        /\ \A u \in Tasks : u # a => task'[u] = task[u]
        /\ UNCHANGED <<pol, cur, status, mutex>>
    BY <1>3, Frames, NotifyMoves DEF sel_write_enforce, policyvars
  <2>2. StatusOf(a)' /\ SameStatus
    BY <2>1 DEF StatusOf, SameStatus
  <2>3. /\ status' # NULL => cur' # 0
        /\ status' # NULL /\ mutex' = NULL => StatusNow'
    BY <2>1 DEF StatusInv, StatusNow
  <2> QED BY <2>1, <2>2, <2>3, StatusAdmin
<1>4. ASSUME NEW a \in Admins, sel_write_bool(a) PROVE StatusInv'
  BY <1>4, StatusFrame DEF sel_write_bool
<1>5. CASE selinux_kernel_status_page
  <2>1. /\ UNCHANGED <<pol, cur, mutex, task>> /\ cur # 0 /\ status = NULL
        /\ status'.policyload = 0 /\ status'.deny_unknown = pol[cur].image.deny_unknown
    BY <1>5 DEF selinux_kernel_status_page, policyvars
  <2>2. StatusNow'
    BY <2>1 DEF StatusNow
  <2>3. ASSUME NEW a \in Admins PROVE StatusOf(a)'
    <3>1. StatusOf(a) /\ task[a].pc # "status2"
      BY <2>1, AdminShape DEF StatusInv, Progress
    <3> QED BY <2>1, <2>2, <3>1 DEF StatusOf
  <2> QED BY <2>1, <2>2, <2>3 DEF StatusInv
<1>6. CASE sel_netif_kill \/ UNCHANGED vars
  BY <1>6, StatusFrame DEF sel_netif_kill, vars, policyvars
<1> QED BY <1>0, <1>1, <1>2, <1>3, <1>4, <1>5, <1>6, Steps, StatusLoad, StatusNotify

LEMMA StatusInit == Init => StatusInv
BY Kinds DEF Init, StatusInv, StatusOf, StatusNow, idle, Notifying

\* The page that user space maps belongs to one policy.
THEOREM StatusPage == Spec => []StatusSound
<1>1. Init => TypeInv /\ StatusInv
  BY TypeInit, StatusInit
<1>2. TypeInv /\ StatusInv /\ [Next]_vars => (TypeInv /\ StatusInv)'
  BY TypeStep, StatusStep
<1>3. StatusInv => StatusSound
  BY DEF StatusInv, StatusNow, StatusSound
<1> QED BY <1>1, <1>2, <1>3, PTL DEF Spec
-----------------------------------------------------------------------------
(* The network caches.                                                     *)

\* What administrator a has still to flush.
UnflushedBy(a, n) == /\ task[a].pc \in {"sync", "flush", "callbacks"}
                     /\ task[a].mode = "policy" /\ n \in task[a].todo

LEMMA NetFrame ==
    ASSUME NetInv, UNCHANGED <<cur, netlock>>,
           \A n \in NetKinds : Unflushed(n) => Unflushed(n)',
           \A n \in NetKinds : \A i \in DOMAIN net'[n] : \E j \in DOMAIN net[n] : net'[n][i] = net[n][j],
           \A t \in Netters : task'[t] = task[t], TaskOK
    PROVE  NetInv'
<1>1. NetFresh'
  BY DEF NetInv, NetFresh
<1>2. ASSUME NEW t \in Netters, task[t].pc = "net" PROVE task[t].n \in NetKinds
  BY <1>2, Shapes DEF NetTask
<1> QED BY <1>1, <1>2 DEF NetInv

LEMMA UnflushedFrame ==
    ASSUME \A a \in Admins : task'[a] = task[a]
    PROVE  \A n \in NetKinds : Unflushed(n) => Unflushed(n)'
BY DEF Unflushed

LEMMA UnflushedAdmin ==
    ASSUME NEW a \in Admins, \A u \in Tasks : u # a => task'[u] = task[u],
           NEW n \in NetKinds, UnflushedBy(a, n) => UnflushedBy(a, n)'
    PROVE  Unflushed(n) => Unflushed(n)'
<1>1. \A u \in Admins : UnflushedBy(u, n) => UnflushedBy(u, n)'
  BY Kinds DEF UnflushedBy
<1> QED BY <1>1 DEF Unflushed, UnflushedBy

\* The policy changes: every cache is to be flushed.
LEMMA NetChange ==
    ASSUME TypeInv, NetInv, NEW a \in Admins, UNCHANGED netlock,
           \A n \in NetKinds : UnflushedBy(a, n)', \A t \in Netters : task'[t] = task[t]
    PROVE  NetInv'
<1>1. \A n \in NetKinds : Unflushed(n)'
  BY DEF Unflushed, UnflushedBy
<1>2. ASSUME NEW t \in Netters, task[t].pc = "net" PROVE task[t].n \in NetKinds
  BY <1>2, Shapes DEF NetTask, TypeInv
<1> QED BY <1>1, <1>2 DEF NetInv, NetFresh

LEMMA NetLookup ==
    ASSUME TypeInv, NetInv, NEW t \in Netters, Net(t)
    PROVE  NetInv'
<1> USE Kinds
<1>0. /\ UNCHANGED cur /\ \A u \in Tasks : u # t => task'[u] = task[u]
      /\ \A n \in NetKinds : Unflushed(n) => Unflushed(n)'
  BY Frames, UnflushedFrame
<1>1. CASE sel_net_sid(t)
  <2>1. PICK n \in NetKinds, k \in NetKeys :
          /\ netlock[n] = NULL /\ netlock' = [netlock EXCEPT ![n] = t] /\ UNCHANGED net
          /\ task' = [task EXCEPT ![t] = [pc |-> "net", n |-> n, k |-> k, seq |-> cur]]
    BY <1>1 DEF sel_net_sid, sel_net_lock
  <2>2. task'[t] = [pc |-> "net", n |-> n, k |-> k, seq |-> cur]
    BY <2>1 DEF TypeInv, TaskOK
  <2>3. NetFresh'
    BY <1>0, <2>1 DEF NetInv, NetFresh
  <2>4. netlock' \in [NetKinds -> Netters \cup {NULL}] /\ netlock'[n] = t
        /\ \A m \in NetKinds : m # n => netlock'[m] = netlock[m]
    BY <2>1 DEF NetInv
  <2>5. ASSUME NEW u \in Netters, task'[u].pc = "net"
        PROVE  /\ netlock'[task'[u].n] = u
               /\ task'[u].seq = cur' \/ Unflushed(task[u].n)'
    <3>1. CASE u = t
      BY <1>0, <2>2, <2>4, <3>1
    <3>2. CASE u # t
      <4>1. task'[u] = task[u] /\ task[u].n \in NetKinds
        BY <1>0, <2>5, <3>2, Shapes DEF TypeInv, NetTask
      <4>2. netlock[task[u].n] = u /\ (task[u].seq = cur \/ Unflushed(task[u].n))
        BY <2>5, <4>1 DEF NetInv
      <4>3. task[u].n # n
        BY <2>1, <4>2
      <4> QED BY <1>0, <2>4, <4>1, <4>2, <4>3
    <3> QED BY <3>1, <3>2
  <2> QED BY <2>3, <2>4, <2>5 DEF NetInv
<1>2. CASE sel_net_sid_slow(t)
  <2> DEFINE l == task[t]
             e == [key |-> l.k, seq |-> l.seq]
  <2>1. /\ l \in NetTask /\ l.n \in NetKinds /\ e \in NetEntry /\ l.pc = "net"
    <3>1. l \in NetTask /\ l.pc = "net"
      BY <1>2, Shapes DEF sel_net_sid_slow, At, TypeInv
    <3> QED BY <3>1 DEF NetTask, NetEntry
  <2>2. /\ net' = [net EXCEPT ![l.n] = sel_net_insert(l.n, e)] \/ UNCHANGED net
        /\ netlock' = [netlock EXCEPT ![l.n] = NULL] /\ task'[t] = idle
    BY <1>2 DEF sel_net_sid_slow, Return, TypeInv, TaskOK
  <2>3. netlock[l.n] = t /\ (l.seq = cur \/ Unflushed(l.n))
    BY <2>1 DEF NetInv
  <2>4. NetFresh'
    <3>1. CASE UNCHANGED net
      BY <1>0, <3>1 DEF NetInv, NetFresh
    <3>2. CASE net' = [net EXCEPT ![l.n] = sel_net_insert(l.n, e)]
      <4>1. /\ net'[l.n] = sel_net_insert(l.n, e)
            /\ \A m \in NetKinds : m # l.n => net'[m] = net[m]
        BY <2>1, <3>2 DEF TypeInv, VarsOK
      <4>2. \A i \in DOMAIN net'[l.n] :
               net'[l.n][i] = e \/ \E j \in DOMAIN net[l.n] : net'[l.n][i] = net[l.n][j]
        BY <2>1, <4>1, NetInsertType DEF TypeInv
      <4>3. \A i \in DOMAIN net'[l.n] : net'[l.n][i].seq = cur \/ Unflushed(l.n)
        <5>1. e.seq = l.seq
          OBVIOUS
        <5> HIDE DEF e
        <5> QED BY <2>1, <2>3, <4>2, <5>1 DEF NetInv, NetFresh
      <4> QED BY <1>0, <2>1, <4>1, <4>3 DEF NetInv, NetFresh
    <3> QED BY <2>2, <3>1, <3>2
  <2>5. /\ netlock' \in [NetKinds -> Netters \cup {NULL}]
        /\ \A m \in NetKinds : m # l.n => netlock'[m] = netlock[m]
    BY <2>1, <2>2 DEF NetInv
  <2>6. ASSUME NEW u \in Netters, task'[u].pc = "net"
        PROVE  /\ netlock'[task'[u].n] = u
               /\ task'[u].seq = cur' \/ Unflushed(task[u].n)'
    <3>1. u # t
      BY <2>2, <2>6 DEF idle
    <3>2. task'[u] = task[u] /\ task[u].n \in NetKinds
      BY <1>0, <2>6, <3>1, Shapes DEF TypeInv, NetTask
    <3>3. netlock[task[u].n] = u /\ (task[u].seq = cur \/ Unflushed(task[u].n))
      BY <2>6, <3>2 DEF NetInv
    <3>4. task[u].n # l.n
      BY <2>3, <3>1, <3>3
    <3> QED BY <1>0, <2>5, <3>2, <3>3, <3>4
  <2> QED BY <2>4, <2>5, <2>6 DEF NetInv
<1> QED BY <1>1, <1>2 DEF Net

LEMMA NetNotify ==
    ASSUME TypeInv, NetInv, NEW a \in Admins, Notify(a)
    PROVE  NetInv'
<1> USE Kinds
<1>0. /\ UNCHANGED <<cur, netlock>> /\ \A u \in Tasks : u # a => task'[u] = task[u]
      /\ \A t \in Netters : task'[t] = task[t]
      /\ TaskOK
  BY Frames DEF TypeInv, Notify, policy_free, avc_flush, avc_callbacks, avc_latest_notif_update,
     status_update_begin, status_update_end, policyvars
<1>1. CASE policy_free(a)
  <2>1. task'[a] = [pc |-> "flush", mode |-> "policy", value |-> cur, slot |-> 1,
                    todo |-> NetKinds]
    BY <1>1, NotifyMoves
  <2>2. \A n \in NetKinds : UnflushedBy(a, n)'
    BY <2>1 DEF UnflushedBy
  <2> QED BY <1>0, <2>2, NetChange
<1>2. CASE avc_flush(a)
  <2>1. /\ task'[a].pc \in {"flush", "callbacks"} /\ task'[a].mode = task[a].mode
        /\ task'[a].todo = task[a].todo /\ UNCHANGED net
    BY <1>2, NotifyMoves DEF SameChange, avc_flush, netvars
  <2>2. \A n \in NetKinds : UnflushedBy(a, n) => UnflushedBy(a, n)'
    BY <2>1 DEF UnflushedBy
  <2>3. \A n \in NetKinds : Unflushed(n) => Unflushed(n)'
    BY <1>0, <2>2, UnflushedAdmin
  <2> QED BY <1>0, <2>1, <2>3, NetFrame
<1>3. CASE avc_callbacks(a)
  <2>1. /\ task[a].pc = "callbacks" /\ task'[a].pc = "callbacks"
        /\ task'[a].mode = task[a].mode
    BY <1>3, NotifyMoves DEF SameChange
  <2>2. PICK n \in NetKinds :
           /\ task'[a].todo = task[a].todo \ {n} /\ netlock[n] = NULL
           /\ net' = [net EXCEPT ![n] = <<>>]
    BY <1>3, NotifyMoves
  <2>3. net'[n] = <<>> /\ \A m \in NetKinds : m # n => net'[m] = net[m]
    BY <2>2 DEF TypeInv, VarsOK
  <2>4. ASSUME NEW m \in NetKinds, m # n PROVE Unflushed(m) => Unflushed(m)'
    <3>1. UnflushedBy(a, m) => UnflushedBy(a, m)'
      BY <2>1, <2>2, <2>4 DEF UnflushedBy
    <3> QED BY <1>0, <3>1, UnflushedAdmin
  <2>5. NetFresh'
    <3>1. DOMAIN net'[n] = {}
      BY <2>3
    <3> QED BY <1>0, <2>3, <2>4, <3>1 DEF NetInv, NetFresh
  <2>6. ASSUME NEW u \in Netters, task'[u].pc = "net"
        PROVE  /\ netlock'[task'[u].n] = u
               /\ task'[u].seq = cur' \/ Unflushed(task[u].n)'
    <3>1. task'[u] = task[u] /\ task[u].n \in NetKinds
      BY <1>0, <2>6, Shapes DEF NetTask
    <3>2. netlock[task[u].n] = u /\ (task[u].seq = cur \/ Unflushed(task[u].n))
      BY <2>6, <3>1 DEF NetInv
    <3>3. task[u].n # n
      BY <2>2, <3>2
    <3> QED BY <1>0, <2>4, <3>1, <3>2, <3>3
  <2> QED BY <1>0, <2>5, <2>6 DEF NetInv
<1>4. CASE avc_latest_notif_update(a) \/ status_update_begin(a) \/ status_update_end(a)
  <2>1. (task[a].pc \in {"status", "status2"} \/ task[a].todo = {}) /\ UNCHANGED net
    BY <1>4, NotifyMoves DEF avc_latest_notif_update, status_update_begin, status_update_end,
       netvars
  <2>2. \A n \in NetKinds : UnflushedBy(a, n) => UnflushedBy(a, n)'
    BY <2>1 DEF UnflushedBy
  <2>3. \A n \in NetKinds : Unflushed(n) => Unflushed(n)'
    BY <1>0, <2>2, UnflushedAdmin
  <2> QED BY <1>0, <2>1, <2>3, NetFrame
<1> QED BY <1>1, <1>2, <1>3, <1>4 DEF Notify

LEMMA NetStep == TypeInv /\ NetInv /\ [Next]_vars => NetInv'
<1> SUFFICES ASSUME TypeInv, NetInv, [Next]_vars PROVE NetInv'
  OBVIOUS
<1> USE Kinds
<1>0. TaskOK
  BY DEF TypeInv
<1>1. CASE \/ \E t \in Labellers : Label(t)
           \/ \E t \in Checkers : Check(t)
  <2>1. UNCHANGED <<cur, net, netlock>> /\ \A u \in Netters \cup Admins : task'[u] = task[u]
    BY <1>1, Frames
  <2> QED BY <1>0, <2>1, NetFrame, UnflushedFrame
<1>2. ASSUME NEW a \in Admins, security_set_bools(a) \/ selinux_policy_commit(a) PROVE NetInv'
  <2>1. UNCHANGED netlock /\ \A t \in Netters : task'[t] = task[t]
    BY <1>2, Frames DEF Load
  <2>2. /\ task'[a].pc = "sync" /\ task'[a].mode = "policy" /\ task'[a].todo = NetKinds
    <3>1. \E old, keep : task'[a] = [pc |-> "sync", mode |-> "policy", todo |-> NetKinds,
                                     old |-> old, keep |-> keep]
      BY <1>2, NotifyMoves, LoadMoves
    <3> QED BY <3>1
  <2>3. \A n \in NetKinds : UnflushedBy(a, n)'
    BY <2>2 DEF UnflushedBy
  <2> QED BY <2>1, <2>3, NetChange
<1>3. ASSUME NEW a \in Admins, Load(a) \/ sel_write_enforce(a), ~selinux_policy_commit(a)
      PROVE  NetInv'
  <2>1. /\ UNCHANGED netlock /\ \A t \in Netters : task'[t] = task[t]
        /\ \A u \in Tasks : u # a => task'[u] = task[u]
    BY <1>3, Frames
  <2>2. UNCHANGED <<cur, net>>
    BY <1>3 DEF Load, sel_write_load, security_load_policy, convert_entry, convert_done, load_fails,
       sel_make_policy_nodes, sel_write_enforce, policyvars, netvars
  <2>3. task[a].pc \in {"idle", "load", "convert", "nodes"}
    BY <1>3, LoadMoves, NotifyMoves DEF Load
  <2>4. \A n \in NetKinds : UnflushedBy(a, n) => UnflushedBy(a, n)'
    BY <2>3 DEF UnflushedBy
  <2>5. \A n \in NetKinds : Unflushed(n) => Unflushed(n)'
    BY <2>1, <2>4, UnflushedAdmin
  <2> QED BY <1>0, <2>1, <2>2, <2>5, NetFrame
<1>4. CASE sel_netif_kill
  <2>1. PICK i \in DOMAIN net["netif"] :
           net' = [net EXCEPT !["netif"] = SubSeq(net["netif"], 1, i - 1)
                                           \o SubSeq(net["netif"], i + 1, Len(net["netif"]))]
    BY <1>4 DEF sel_netif_kill
  <2>2. UNCHANGED <<policyvars, netlock, task>> /\ "netif" \in NetKinds
    BY <1>4 DEF sel_netif_kill
  <2>3. net["netif"] \in Seq(NetEntry)
    BY <2>2 DEF TypeInv, VarsOK, NetEntry
  <2> DEFINE r == SubSeq(net["netif"], 1, i - 1) \o SubSeq(net["netif"], i + 1, Len(net["netif"]))
  <2>4. \A k \in DOMAIN r : \E j \in DOMAIN net["netif"] : r[k] = net["netif"][j]
    BY <2>3, RemoveEntryType
  <2>5. net'["netif"] = r /\ \A m \in NetKinds : m # "netif" => net'[m] = net[m]
    BY <2>1, <2>2 DEF TypeInv, VarsOK
  <2> HIDE DEF r
  <2>6. \A m \in NetKinds : \A k \in DOMAIN net'[m] : \E j \in DOMAIN net[m] : net'[m][k] = net[m][j]
    BY <2>2, <2>4, <2>5
  <2>7. UNCHANGED cur
    BY <2>2 DEF policyvars
  <2> QED BY <1>0, <2>2, <2>6, <2>7, NetFrame, UnflushedFrame
<1>5. CASE selinux_kernel_status_page \/ (\E a \in Admins : sel_write_bool(a)) \/ UNCHANGED vars
  <2>1. UNCHANGED <<cur, net, netlock, task>>
    BY <1>5 DEF selinux_kernel_status_page, sel_write_bool, vars, policyvars, netvars
  <2> QED BY <1>0, <2>1, NetFrame, UnflushedFrame
<1> QED BY <1>1, <1>2, <1>3, <1>4, <1>5, Steps, NetLookup, NetNotify
-----------------------------------------------------------------------------
(* The counter of the access vector cache.                                 *)

LEMMA CacheFinite ==
    /\ IsFiniteSet(Pending) /\ IsFiniteSet(Linked)
    /\ Cardinality(Pending) \in Nat /\ Cardinality(Linked) \in Nat
<1>1. IsFiniteSet(Pending)
  BY ServerAssumption, FS_Subset DEF Pending
<1>2. IsFiniteSet(Keys)
  BY ServerAssumption, FS_Interval DEF Keys
<1>3. IsFiniteSet(Linked)
  BY <1>2, FS_Subset DEF Linked
<1> QED BY <1>1, <1>3, FS_CardinalityType

One(c) == IF c THEN 1 ELSE 0
PendingPc == {"insert", "xupdate", "gupdate"}

\* Of the sets that active_nodes counts, a step changes one member.
LEMMA SetMember ==
    ASSUME NEW S, NEW T, NEW x, IsFiniteSet(S), IsFiniteSet(T),
           \A y : y # x => (y \in S <=> y \in T)
    PROVE  Cardinality(T) = Cardinality(S) - One(x \in S) + One(x \in T)
<1> DEFINE R == S \ {x}
<1>0. IsFiniteSet(R) /\ x \notin R /\ Cardinality(R) \in Nat
  BY FS_RemoveElement, FS_CardinalityType
<1>1. ASSUME NEW U, U = R \/ U = R \cup {x}
      PROVE  Cardinality(U) = Cardinality(R) + One(x \in U)
  <2>1. Cardinality(R \cup {x}) = Cardinality(R) + 1
    BY <1>0, FS_AddElement
  <2> HIDE DEF R
  <2>3. CASE U = R
    <3>1. One(x \in U) = 0
      BY <1>0, <2>3 DEF One
    <3> QED BY <1>0, <2>3, <3>1
  <2>4. CASE U = R \cup {x}
    <3>1. One(x \in U) = 1
      BY <2>4 DEF One
    <3> QED BY <1>0, <2>1, <2>4, <3>1
  <2> QED BY <1>1, <2>3, <2>4
<1>2. S = (IF x \in S THEN R \cup {x} ELSE R) /\ T = (IF x \in T THEN R \cup {x} ELSE R)
  OBVIOUS
<1>3. Cardinality(S) = Cardinality(R) + One(x \in S)
  BY <1>1, <1>2
<1>4. Cardinality(T) = Cardinality(R) + One(x \in T)
  BY <1>1, <1>2
<1> QED BY <1>0, <1>3, <1>4 DEF One

LEMMA PendingStep ==
    ASSUME NEW t \in Checkers, \A u \in Tasks : u # t => task'[u] = task[u]
    PROVE  Cardinality(Pending') = Cardinality(Pending) - One(task[t].pc \in PendingPc)
                                   + One(task'[t].pc \in PendingPc)
<1>1. IsFiniteSet(Pending) /\ IsFiniteSet(Pending')
  BY ServerAssumption, FS_Subset, CacheFinite DEF Pending
<1>2. /\ t \in Pending <=> task[t].pc \in PendingPc
      /\ t \in Pending' <=> task'[t].pc \in PendingPc
      /\ \A u : u # t => (u \in Pending <=> u \in Pending')
  BY Kinds DEF Pending, PendingPc
<1>3. Cardinality(Pending') = Cardinality(Pending) - One(t \in Pending) + One(t \in Pending')
  BY <1>1, <1>2, SetMember
<1> QED BY <1>2, <1>3 DEF One

LEMMA LinkedStep ==
    ASSUME TypeInv, NEW k \in Keys, NEW d, avc' = [avc EXCEPT ![k] = d]
    PROVE  Cardinality(Linked') = Cardinality(Linked) - One(avc[k] # NULL) + One(d # NULL)
<1>0. avc'[k] = d /\ \A j \in Keys : j # k => avc'[j] = avc[j]
  BY DEF TypeInv, VarsOK
<1>1. IsFiniteSet(Linked) /\ IsFiniteSet(Linked')
  <2>1. IsFiniteSet(Keys)
    BY ServerAssumption, FS_Interval DEF Keys
  <2> QED BY <2>1, FS_Subset DEF Linked
<1>2. /\ k \in Linked <=> avc[k] # NULL
      /\ k \in Linked' <=> d # NULL
      /\ \A j : j # k => (j \in Linked <=> j \in Linked')
  BY <1>0 DEF Linked
<1>3. Cardinality(Linked') = Cardinality(Linked) - One(k \in Linked) + One(k \in Linked')
  BY <1>1, <1>2, SetMember
<1> QED BY <1>2, <1>3 DEF One

\* What a step does to active_nodes, to the cache and to its own allocation.
LEMMA ActiveChange ==
    ASSUME TypeInv, ActiveExact,
           active' - active = (Cardinality(Linked') - Cardinality(Linked))
                              + (Cardinality(Pending') - Cardinality(Pending)),
           active' \in Int,
           Cardinality(Linked') \in Nat, Cardinality(Pending') \in Nat
    PROVE  ActiveExact'
<1>1. active = Cardinality(Linked) + Cardinality(Pending)
  BY DEF ActiveExact, Linked, Pending
<1>2. active \in Int /\ Cardinality(Linked) \in Nat /\ Cardinality(Pending) \in Nat
  BY CacheFinite DEF TypeInv, VarsOK
<1>3. active' = Cardinality(Linked') + Cardinality(Pending')
  BY <1>1, <1>2
<1> QED BY <1>3 DEF ActiveExact, Linked, Pending

LEMMA NextFinite == Cardinality(Linked') \in Nat /\ Cardinality(Pending') \in Nat
<1>1. IsFiniteSet(Keys) /\ IsFiniteSet(Checkers)
  BY ServerAssumption, FS_Interval DEF Keys
<1>2. IsFiniteSet(Linked') /\ IsFiniteSet(Pending')
  BY <1>1, FS_Subset DEF Linked, Pending
<1> QED BY <1>2, FS_CardinalityType

LEMMA ActiveCheck ==
    ASSUME TypeInv, TypeInv', ActiveExact, NEW t \in Checkers, Check(t)
    PROVE  ActiveExact'
<1> USE Kinds
<1>0. /\ active \in Int /\ active' \in Int
      /\ Cardinality(Linked) \in Nat /\ Cardinality(Pending) \in Nat
      /\ Cardinality(Linked') \in Nat /\ Cardinality(Pending') \in Nat
  BY CacheFinite, NextFinite DEF TypeInv, VarsOK
<1>p. Cardinality(Pending') = Cardinality(Pending) - One(task[t].pc \in PendingPc)
                              + One(task'[t].pc \in PendingPc)
  BY PendingStep, Frames
<1>l. UNCHANGED avc => Cardinality(Linked') = Cardinality(Linked)
  BY DEF Linked
<1>t. task = [u \in Tasks |-> task[u]]
  BY DEF TypeInv, TaskOK
<1>g. \A p \in {"decide", "notif", "alloc", "insert", "xalloc", "xupdate", "galloc", "gupdate"} :
         Goto(t, p) /\ task[t].pc # "idle" => task'[t].pc = p
  <2> TAKE p \in {"decide", "notif", "alloc", "insert", "xalloc", "xupdate", "galloc", "gupdate"}
  <2>1. Goto(t, p) => task'[t] = [task[t] EXCEPT !.pc = p]
    BY <1>t DEF Goto
  <2>2. task[t].pc # "idle" => task[t] \in CheckTask
    BY Shapes DEF TypeInv
  <2> QED BY <2>1, <2>2 DEF CheckTask
<1>r. Return(t) => task'[t].pc = "idle"
  BY <1>t DEF Return, idle
\* Nothing is allocated, linked or freed.
<1>1. CASE /\ UNCHANGED <<avc, active>> /\ task[t].pc \notin PendingPc /\ task'[t].pc \notin PendingPc
  BY <1>0, <1>1, <1>p, <1>l, ActiveChange DEF One
\* A node is allocated.
<1>2. ASSUME NEW p \in PendingPc, avc_alloc_node(t, p), task[t].pc \notin PendingPc \cup {"idle"}
      PROVE  ActiveExact'
  <2>1. task'[t].pc = p
    BY <1>2, <1>g DEF avc_alloc_node, PendingPc
  <2>2. Cardinality(Pending') = Cardinality(Pending) + 1
    BY <1>0, <1>2, <1>p, <2>1 DEF One
  <2>3. CASE active' = active + 1 /\ UNCHANGED avc
    BY <1>0, <1>l, <2>2, <2>3, ActiveChange
  <2>4. CASE \E v \in Keys : avc[v] # NULL /\ active' = active /\ avc' = [avc EXCEPT ![v] = NULL]
    <3>1. Cardinality(Linked') = Cardinality(Linked) - 1
      <4>1. PICK v \in Keys : avc[v] # NULL /\ avc' = [avc EXCEPT ![v] = NULL]
        BY <2>4
      <4>2. Cardinality(Linked') = Cardinality(Linked) - One(avc[v] # NULL) + One(NULL # NULL)
        BY <4>1, LinkedStep
      <4> QED BY <1>0, <4>1, <4>2 DEF One
    <3> QED BY <1>0, <2>2, <2>4, <3>1, ActiveChange
  <2> QED BY <1>2, <2>3, <2>4 DEF avc_alloc_node, Reclaimable
\* The allocated node takes the place of the one in the cache, or the first there.
<1>3. ASSUME NEW k \in Keys, NEW d \in Decision, avc_node_replace(k, d),
             task[t].pc \in PendingPc, task'[t].pc \notin PendingPc
      PROVE  ActiveExact'
  <2>1. Cardinality(Pending') = Cardinality(Pending) - 1
    BY <1>0, <1>3, <1>p DEF One
  <2>2. /\ active' = IF avc[k] = NULL THEN active ELSE active - 1
        /\ avc' = [avc EXCEPT ![k] = d] /\ d # NULL
    BY <1>3, ServerAssumption DEF avc_node_replace
  <2>3. Cardinality(Linked') = Cardinality(Linked) - One(avc[k] # NULL) + 1
    BY <2>2, LinkedStep DEF One
  <2> QED BY <1>0, <2>1, <2>2, <2>3, ActiveChange DEF One
\* The allocated node is freed.
<1>4. CASE /\ UNCHANGED avc /\ active' = active - 1
           /\ task[t].pc \in PendingPc /\ task'[t].pc \notin PendingPc
  BY <1>0, <1>4, <1>p, <1>l, ActiveChange DEF One
<1>5. CASE avc_lookup(t)
  <2>1. task[t].pc = "idle" /\ task'[t].pc \in {"compute", "decide"} /\ UNCHANGED <<avc, active>>
    BY <1>5, <1>t DEF avc_lookup, At, avcvars
  <2> QED BY <1>1, <2>1 DEF PendingPc
<1>6. CASE avc_compute_av(t)
  <2>1. task[t].pc = "compute" /\ UNCHANGED <<avc, active>>
        /\ task'[t] = [task[t] EXCEPT !.avd = security_compute_av, !.pc = "notif"]
    BY <1>6, <1>t DEF avc_compute_av, At, avcvars
  <2>2. task'[t].pc = "notif"
    BY <2>1, Shapes DEF TypeInv, CheckTask
  <2> QED BY <1>1, <2>1, <2>2 DEF PendingPc
<1>7. CASE avc_latest_notif_check(t)
  BY <1>1, <1>7, <1>g DEF avc_latest_notif_check, At, avcvars, PendingPc
<1>8. CASE avc_insert_alloc(t)
  <2>1. CASE avc_alloc_node(t, "insert")
    BY <1>2, <1>8, <2>1 DEF avc_insert_alloc, At, PendingPc
  <2>2. CASE Goto(t, "decide") /\ UNCHANGED avcvars
    BY <1>1, <1>8, <1>g, <2>2 DEF avc_insert_alloc, At, avcvars, PendingPc
  <2> QED BY <1>8, <2>1, <2>2 DEF avc_insert_alloc
<1>9. CASE avc_insert(t)
  <2>1. task[t].pc = "insert" /\ task'[t].pc = "decide"
        /\ avc_node_replace(task[t].key, task[t].avd)
    BY <1>9, <1>g DEF avc_insert, At
  <2>2. task[t].key \in Keys /\ task[t].avd \in Decision
    BY <2>1, CheckShape DEF TypeInv
  <2> QED BY <1>3, <2>1, <2>2 DEF PendingPc
<1>10. CASE avc_compute_xperms(t)
  <2>1. task[t].pc = "decide" /\ UNCHANGED <<avc, active>>
    BY <1>10 DEF avc_compute_xperms, At, avcvars
  <2>2. task'[t].pc = "xalloc"
    <3> DEFINE xd == IF pol[cur].image.xperms = NULL THEN {} ELSE pol[cur].image.xperms
    <3>1. task' = [task EXCEPT ![t].pc = "xalloc", ![t].avd.xpd = xd]
      BY <1>10 DEF avc_compute_xperms
    <3> HIDE DEF xd
    <3>2. task'[t] = [task[t] EXCEPT !.pc = "xalloc", !.avd.xpd = xd]
      BY <1>t, <3>1
    <3>3. task[t] \in CheckTask
      BY <2>1, Shapes DEF TypeInv
    <3> QED BY <3>2, <3>3 DEF CheckTask
  <2> QED BY <1>1, <2>1, <2>2 DEF PendingPc
<1>11. CASE avc_update_alloc(t)
  <2>0. task[t].pc \in {"xalloc", "galloc"}
    BY <1>11 DEF avc_update_alloc, At
  <2>1. ASSUME NEW p \in {"xupdate", "gupdate"}, avc_alloc_node(t, p) PROVE ActiveExact'
    BY <1>2, <2>0, <2>1 DEF PendingPc
  <2>2. CASE (Goto(t, "decide") \/ Return(t)) /\ UNCHANGED avcvars
    BY <1>1, <1>g, <1>r, <2>0, <2>2 DEF avcvars, PendingPc
  <2> QED BY <1>11, <2>1, <2>2 DEF avc_update_alloc
<1>12. CASE avc_update_node(t)
  <2> DEFINE node == avc[task[t].key]
  <2>0. /\ task[t].pc \in {"xupdate", "gupdate"} /\ task'[t].pc \in {"decide", "idle"}
        /\ \/ node # NULL /\ avc_node_replace(task[t].key, Updated(task[t], node))
           \/ active' = active - 1 /\ UNCHANGED avc
    BY <1>12, <1>g, <1>r DEF avc_update_node, At
  <2>1. CASE node # NULL /\ avc_node_replace(task[t].key, Updated(task[t], node))
    <3>1. /\ task[t].key \in Keys /\ task[t].avd \in Decision /\ task[t].x \in XPerms \cup {NULL}
          /\ task[t].req \in Perms
      BY <2>0, CheckShape DEF TypeInv
    <3>2. node \in Decision
      BY <2>1, <3>1 DEF TypeInv, VarsOK
    <3> HIDE DEF node
    <3>3. Updated(task[t], node) \in Decision
      BY <3>1, <3>2, UpdatedType
    <3> QED BY <1>3, <2>0, <2>1, <3>1, <3>3 DEF PendingPc
  <2>2. CASE active' = active - 1 /\ UNCHANGED avc
    BY <1>4, <2>0, <2>2 DEF PendingPc
  <2> QED BY <2>0, <2>1, <2>2
<1>13. CASE avc_denied(t)
  BY <1>1, <1>13, <1>g, <1>r DEF avc_denied, At, avcvars, PendingPc
<1> QED BY <1>5, <1>6, <1>7, <1>8, <1>9, <1>10, <1>11, <1>12, <1>13 DEF Check

LEMMA ActiveFrame ==
    ASSUME ActiveExact, UNCHANGED <<avc, active>>, \A t \in Checkers : task'[t] = task[t]
    PROVE  ActiveExact'
<1>1. Linked' = Linked /\ Pending' = Pending
  BY DEF Linked, Pending
<1>2. active = Cardinality(Linked) + Cardinality(Pending)
  BY DEF ActiveExact, Linked, Pending
<1>3. active' = Cardinality(Linked') + Cardinality(Pending')
  BY <1>1, <1>2
<1> QED BY <1>3 DEF ActiveExact, Linked, Pending

LEMMA ActiveStep == TypeInv /\ ActiveExact /\ [Next]_vars => ActiveExact'
<1> SUFFICES ASSUME TypeInv, ActiveExact, [Next]_vars PROVE ActiveExact'
  OBVIOUS
<1> USE Kinds
<1>0. TypeInv'
  BY TypeStep
<1>1. CASE \/ \E t \in Labellers : Label(t)
           \/ \E t \in Netters : Net(t)
  BY <1>1, Frames, ActiveFrame
<1>2. ASSUME NEW a \in Admins, avc_flush(a) PROVE ActiveExact'
  <2> DEFINE k == task[a].slot
  <2>1. /\ k \in Keys /\ avc' = [avc EXCEPT ![k] = NULL]
        /\ active' = IF avc[k] = NULL THEN active ELSE active - 1
    BY <1>2, NotifyMoves DEF avc_flush
  <2>2. \A t \in Checkers : task'[t] = task[t]
    BY <1>2, Frames DEF Notify
  <2>3. Pending' = Pending
    BY <2>2 DEF Pending
  <2>4. Cardinality(Linked') = Cardinality(Linked) - One(avc[k] # NULL)
    <3>1. Cardinality(Linked') = Cardinality(Linked) - One(avc[k] # NULL) + One(NULL # NULL)
      BY <2>1, LinkedStep
    <3> QED BY <3>1, CacheFinite DEF One
  <2>5. /\ active \in Int /\ active' \in Int
        /\ Cardinality(Linked) \in Nat /\ Cardinality(Pending) \in Nat
        /\ Cardinality(Linked') \in Nat /\ Cardinality(Pending') \in Nat
    BY <1>0, CacheFinite, NextFinite DEF TypeInv, VarsOK
  <2> HIDE DEF k
  <2> QED BY <2>1, <2>3, <2>4, <2>5, ActiveChange DEF One
<1>3. ASSUME NEW a \in Admins,
             \/ Load(a) \/ security_set_bools(a) \/ sel_write_enforce(a)
             \/ Notify(a) /\ ~avc_flush(a)
      PROVE  ActiveExact'
  <2>1. \A t \in Checkers : task'[t] = task[t]
    BY <1>3, Frames
  <2>2. UNCHANGED <<avc, active>>
    <3>1. CASE Load(a)
      BY <3>1 DEF Load, sel_write_load, security_load_policy, convert_entry, convert_done,
         load_fails, sel_make_policy_nodes, selinux_policy_commit, avcvars
    <3>2. CASE Notify(a) /\ ~avc_flush(a)
      BY <3>2 DEF Notify, policy_free, avc_callbacks, avc_latest_notif_update,
         status_update_begin, status_update_end, avcvars
    <3>3. CASE security_set_bools(a) \/ sel_write_enforce(a)
      BY <3>3 DEF security_set_bools, sel_write_enforce, avcvars
    <3> QED BY <1>3, <3>1, <3>2, <3>3
  <2> QED BY <2>1, <2>2, ActiveFrame
<1>4. CASE \/ selinux_kernel_status_page \/ (\E a \in Admins : sel_write_bool(a))
           \/ sel_netif_kill \/ UNCHANGED vars
  BY <1>4, ActiveFrame DEF selinux_kernel_status_page, sel_write_bool, sel_netif_kill, vars, avcvars
<1> QED BY <1>0, <1>1, <1>2, <1>3, <1>4, Steps, ActiveCheck

LEMMA CachesInit == Init => ActiveExact /\ NetInv
<1> SUFFICES ASSUME Init PROVE ActiveExact /\ NetInv
  OBVIOUS
<1>1. NetInv
  BY Kinds DEF Init, NetInv, NetFresh, idle
<1>2. Linked = {} /\ Pending = {} /\ active = 0
  BY Kinds DEF Init, Linked, Pending, idle
<1>3. active = Cardinality(Linked) + Cardinality(Pending)
  BY <1>2, FS_EmptySet
<1> QED BY <1>1, <1>3 DEF ActiveExact, Linked, Pending

\* The caches count what they hold, and hold nothing of a policy that is gone
\* once they are flushed.
THEOREM CachesHonest == Spec => []CachesExact
<1>1. Init => TypeInv /\ ActiveExact /\ NetInv
  BY TypeInit, CachesInit
<1>2. TypeInv /\ ActiveExact /\ NetInv /\ [Next]_vars => (TypeInv /\ ActiveExact /\ NetInv)'
  BY TypeStep, ActiveStep, NetStep
<1>3. ActiveExact /\ NetInv => CachesExact
  BY DEF NetInv, CachesExact
<1> QED BY <1>1, <1>2, <1>3, PTL DEF Spec

-----------------------------------------------------------------------------
(* The SID tables.                                                         *)

\* The hash of a table lists SIDs of the table, and has all those in S.
HashSound(s) == \A i \in DOMAIN s.hash : s.hash[i] \in 1 .. Len(s.entry) + 1
Covers(s, S) == \A sid \in S : \E i \in DOMAIN s.hash : s.hash[i] = sid
Hashed(s) == HashSound(s) /\ Covers(s, 1 .. Len(s.entry) + 1)

\* The entries of s that are in S have the same names in r.
SameNames(s, r, S) == \A i \in S : r.entry[i].name = s.entry[i].name

\* While r is built from s: the entries below pos were converted, those above
\* count were inserted in both tables.
Copying(s, r, pos, count) ==
    /\ r # NULL /\ r.convert = NULL /\ Len(r.entry) = Len(s.entry)
    /\ count \in 0 .. Len(s.entry) /\ pos \in 1 .. count + 1
    /\ SameNames(s, r, {i \in 1 .. Len(s.entry) : i < pos \/ i > count})
    /\ HashSound(r) /\ Covers(r, {1} \cup (count + 2 .. Len(s.entry) + 1))

\* r was built from s, and both still grow.
Copied(s, r) ==
    /\ r # NULL /\ r.convert = NULL /\ Len(r.entry) = Len(s.entry)
    /\ SameNames(s, r, 1 .. Len(s.entry)) /\ Hashed(r)

\* r took the place of s, which tasks still read and nobody changes.
Succeeds(s, r) ==
    /\ s # NULL /\ s.frozen /\ s.convert = NULL /\ Hashed(s) /\ Len(s.entry) <= Len(r.entry)
    /\ SameNames(s, r, 1 .. Len(s.entry))

\* A SID that was given out has its context in s.
Means(s, i) == i[1] \in 1 .. Len(s.entry) + 1 /\ ContextOf(s, i[1]).name = i[2]

CurTab == tabs[pol[cur].tab]
Converting(a) == task[a].pc \in {"convert", "nodes", "commit"}

\* The policy a change replaced, until it is freed.
Replaced(s) == \E a \in Admins : task[a].pc = "sync" /\ task[a].old = s

TabOf(a) ==
    LET r == tabs[task[a].seq]
        old == pol[task[a].old].tab IN
    /\ task[a].pc = "load" => task[a].pos = 1
    /\ Converting(a) /\ cur # 0 => CurTab.convert = task[a].seq
    /\ task[a].pc = "convert" => Copying(CurTab, r, task[a].pos, task[a].count)
    /\ task[a].pc \in {"nodes", "commit"} =>
         IF cur = 0 THEN r # NULL /\ r.convert = NULL /\ Hashed(r) ELSE Copied(CurTab, r)
    /\ task[a].pc = "sync" /\ task[a].old # 0 =>
         IF task[a].keep THEN old = pol[cur].tab
         ELSE old < pol[cur].tab /\ Succeeds(tabs[old], CurTab)

TabsInv ==
    /\ tabs \in [Seqs -> Table \cup {NULL}]
    /\ IF cur = 0 THEN issued = {}
       ELSE /\ pol[cur].tab <= cur /\ CurTab # NULL /\ Hashed(CurTab)
            /\ \A i \in issued : Means(CurTab, i)
            /\ CurTab.convert # NULL => \E a \in Admins : Converting(a)
    /\ \A a \in Admins : TabOf(a)
    /\ \A t \in Labellers :
         task[t].pc = "locked" => task[t].policy = cur \/ Replaced(task[t].policy)

-----------------------------------------------------------------------------
(* Tables: what insertion, conversion and lookup do.                       *)

\* A conversion keeps the name of a context.
LEMMA Converted ==
    ASSUME NEW image, NEW c \in Context, NEW e
    PROVE  /\ services_convert_context(image, c, e) \in Context
           /\ services_convert_context(image, c, e).name = c.name
BY DEF services_convert_context, mapped, unmapped, Context

\* A table with one more entry.
Grown(s, c) == [s EXCEPT !.entry = Append(s.entry, c),
                         !.hash = <<Len(s.entry) + 2>> \o s.hash]

LEMMA GrownFields ==
    ASSUME NEW s \in Table, NEW c \in Context
    PROVE  /\ Grown(s, c) \in Table
           /\ Grown(s, c).entry = Append(s.entry, c)
           /\ Grown(s, c).hash = <<Len(s.entry) + 2>> \o s.hash
           /\ Grown(s, c).frozen = s.frozen /\ Grown(s, c).convert = s.convert
           /\ Len(Grown(s, c).entry) = Len(s.entry) + 1 /\ Len(s.entry) \in Nat
           /\ \A i \in 1 .. Len(s.entry) : Grown(s, c).entry[i] = s.entry[i]
           /\ Grown(s, c).entry[Len(s.entry) + 1] = c
<1>1. s.entry \in Seq(Context) /\ s.hash \in Seq(Nat) /\ Len(s.entry) \in Nat
  BY DEF Table
<1>2. Append(s.entry, c) \in Seq(Context) /\ <<Len(s.entry) + 2>> \o s.hash \in Seq(Nat)
  <2>1. Len(s.entry) + 2 \in Nat
    BY <1>1
  <2>2. <<Len(s.entry) + 2>> \in Seq(Nat)
    BY <2>1
  <2> QED BY <1>1, <2>2, ConcatProperties
<1>3. /\ Len(Append(s.entry, c)) = Len(s.entry) + 1
      /\ \A i \in 1 .. Len(s.entry) : Append(s.entry, c)[i] = s.entry[i]
      /\ Append(s.entry, c)[Len(s.entry) + 1] = c
  BY <1>1
<1>4. \A x \in Seq(Context) : \A g : g = [s EXCEPT !.entry = x] =>
         /\ g \in Table /\ g.entry = x /\ g.hash = s.hash /\ g.frozen = s.frozen
         /\ g.convert = s.convert
  BY DEF Table
<1>5. \A r \in Table, y \in Seq(Nat) : \A g : g = [r EXCEPT !.hash = y] =>
         /\ g \in Table /\ g.entry = r.entry /\ g.hash = y /\ g.frozen = r.frozen
         /\ g.convert = r.convert
  BY DEF Table
<1>6. /\ Grown(s, c) \in Table /\ Grown(s, c).entry = Append(s.entry, c)
      /\ Grown(s, c).hash = <<Len(s.entry) + 2>> \o s.hash
      /\ Grown(s, c).frozen = s.frozen /\ Grown(s, c).convert = s.convert
  <2> DEFINE x == Append(s.entry, c)
             y == <<Len(s.entry) + 2>> \o s.hash
             h == [s EXCEPT !.entry = x]
  <2>1. Grown(s, c) = [h EXCEPT !.hash = y]
    BY DEF Grown
  <2>2. x \in Seq(Context) /\ y \in Seq(Nat)
    BY <1>2
  <2> HIDE DEF x, y
  <2>3. /\ h \in Table /\ h.entry = x /\ h.frozen = s.frozen /\ h.convert = s.convert
    BY <1>4, <2>2
  <2> HIDE DEF h
  <2>4. /\ Grown(s, c) \in Table /\ Grown(s, c).entry = h.entry /\ Grown(s, c).hash = y
        /\ Grown(s, c).frozen = h.frozen /\ Grown(s, c).convert = h.convert
    BY <1>5, <2>1, <2>2, <2>3
  <2> QED BY <2>3, <2>4 DEF x, y
<1> QED BY <1>1, <1>3, <1>6

LEMMA GrownHash ==
    ASSUME NEW s \in Table, NEW c \in Context, HashSound(s), NEW S, Covers(s, S)
    PROVE  HashSound(Grown(s, c)) /\ Covers(Grown(s, c), S \cup {Len(s.entry) + 2})
<1> DEFINE n == Len(s.entry)
           h == <<n + 2>> \o s.hash
<1>1. s.hash \in Seq(Nat) /\ n \in Nat
  BY DEF Table
<1>2. Grown(s, c).hash = h /\ Len(Grown(s, c).entry) = n + 1
  BY GrownFields
<1>3. /\ DOMAIN h = 1 .. Len(s.hash) + 1 /\ DOMAIN s.hash = 1 .. Len(s.hash) /\ Len(s.hash) \in Nat
      /\ h[1] = n + 2 /\ \A i \in 1 .. Len(s.hash) : h[i + 1] = s.hash[i]
  BY <1>1
<1> HIDE DEF h, n
<1>4. \A i \in DOMAIN h : i = 1 \/ (i - 1 \in DOMAIN s.hash /\ h[i] = s.hash[i - 1])
  <2> TAKE i \in DOMAIN h
  <2>1. i # 1 => i - 1 \in 1 .. Len(s.hash) /\ (i - 1) + 1 = i
    BY <1>3
  <2> QED BY <1>3, <2>1
<1>5. \A i \in DOMAIN s.hash : s.hash[i] \in 1 .. n + 1
  BY DEF HashSound, n
<1>6. \A i \in DOMAIN h : h[i] \in 1 .. n + 2
  <2>1. n \in Nat
    BY <1>1 DEF n
  <2>2. \A x \in 1 .. n + 1 : x \in 1 .. n + 2
    BY <2>1
  <2>3. n + 2 \in 1 .. n + 2
    BY <2>1
  <2> QED BY <1>3, <1>4, <1>5, <2>2, <2>3
<1>7. ASSUME NEW sid \in S \cup {n + 2} PROVE \E i \in DOMAIN h : h[i] = sid
  <2>1. CASE sid = n + 2
    <3>1. 1 \in DOMAIN h
      BY <1>3
    <3> QED BY <1>3, <2>1, <3>1
  <2>2. CASE sid \in S
    <3>1. PICK i \in DOMAIN s.hash : s.hash[i] = sid
      BY <2>2 DEF Covers
    <3>2. i + 1 \in DOMAIN h
      BY <1>3
    <3> QED BY <1>3, <3>1, <3>2
  <2> QED BY <2>1, <2>2
<1>8. 1 .. (n + 1) + 1 = 1 .. n + 2
  BY <1>1 DEF n
<1> QED BY <1>2, <1>6, <1>7, <1>8 DEF HashSound, Covers, n

LEMMA GrownHashed ==
    ASSUME NEW s \in Table, NEW c \in Context, Hashed(s)
    PROVE  Hashed(Grown(s, c))
<1>1. Len(s.entry) \in Nat /\ Len(Grown(s, c).entry) = Len(s.entry) + 1
  BY GrownFields
<1>2. 1 .. (Len(s.entry) + 1) + 1 = (1 .. Len(s.entry) + 1) \cup {Len(s.entry) + 2}
  BY <1>1
<1>3. /\ HashSound(Grown(s, c))
      /\ Covers(Grown(s, c), (1 .. Len(s.entry) + 1) \cup {Len(s.entry) + 2})
  BY GrownHash DEF Hashed
<1> QED BY <1>1, <1>2, <1>3 DEF Hashed

\* The hash after a conversion.
LEMMA ConvertedHash ==
    ASSUME NEW r \in Table, NEW count \in Nat, count <= Len(r.entry), HashSound(r),
           Covers(r, {1} \cup (count + 2 .. Len(r.entry) + 1)),
           NEW g, g = [r EXCEPT !.hash = [i \in 1 .. count |-> index_to_sid(count + 1 - i)] \o r.hash]
    PROVE  /\ g \in Table /\ g.entry = r.entry /\ g.convert = r.convert /\ g.frozen = r.frozen
           /\ Hashed(g)
<1> DEFINE n == Len(r.entry)
           a == [i \in 1 .. count |-> index_to_sid(count + 1 - i)]
           h == a \o r.hash
<1>1. n \in Nat /\ r.hash \in Seq(Nat) /\ Len(r.hash) \in Nat /\ DOMAIN r.hash = 1 .. Len(r.hash)
  BY DEF Table
<1>2. \A i \in 1 .. count : a[i] = count + 2 - i /\ a[i] \in 2 .. count + 1 /\ a[i] \in Nat
  BY DEF index_to_sid
<1>3. a \in Seq(Nat) /\ Len(a) = count
  BY <1>2
<1> HIDE DEF a, n
<1>4. /\ h \in Seq(Nat) /\ Len(h) = count + Len(r.hash)
      /\ \A i \in 1 .. count : h[i] = a[i]
      /\ \A i \in count + 1 .. count + Len(r.hash) : h[i] = r.hash[i - count]
  <2>1. /\ a \o r.hash \in Seq(Nat) /\ Len(a \o r.hash) = Len(a) + Len(r.hash)
        /\ \A i \in 1 .. Len(a) + Len(r.hash) :
             (a \o r.hash)[i] = IF i <= Len(a) THEN a[i] ELSE r.hash[i - Len(a)]
    BY <1>1, <1>3, ConcatProperties
  <2>2. h = a \o r.hash
    OBVIOUS
  <2> HIDE DEF h
  <2>3. \A i \in 1 .. count : i \in 1 .. count + Len(r.hash) /\ i <= count
    BY <1>1
  <2>4. \A i \in count + 1 .. count + Len(r.hash) : i \in 1 .. count + Len(r.hash) /\ ~(i <= count)
    BY <1>1
  <2> QED BY <1>1, <1>3, <2>1, <2>2, <2>3, <2>4
<1>5. DOMAIN h = 1 .. count + Len(r.hash)
  BY <1>4
<1> HIDE DEF h
<1>6. \A i \in DOMAIN h : h[i] \in 1 .. n + 1
  <2> SUFFICES ASSUME NEW i \in 1 .. count + Len(r.hash) PROVE h[i] \in 1 .. n + 1
    BY <1>5
  <2>1. CASE i \in 1 .. count
    <3>1. h[i] \in 2 .. count + 1
      BY <1>2, <1>4, <2>1
    <3>2. count <= n /\ n \in Nat
      BY <1>1 DEF n
    <3> QED BY <3>1, <3>2
  <2>2. CASE i \in count + 1 .. count + Len(r.hash)
    <3>1. i - count \in 1 .. Len(r.hash)
      BY <1>1, <2>2
    <3> QED BY <1>1, <1>4, <2>2, <3>1 DEF HashSound, n
  <2>3. i \in 1 .. count \/ i \in count + 1 .. count + Len(r.hash)
    BY <1>1
  <2> QED BY <2>1, <2>2, <2>3
<1>7. \A sid \in 1 .. n + 1 : \E i \in DOMAIN h : h[i] = sid
  <2> TAKE sid \in 1 .. n + 1
  <2>1. CASE sid \in 2 .. count + 1
    <3>1. count + 2 - sid \in 1 .. count /\ count + 2 - (count + 2 - sid) = sid
      BY <2>1
    <3>2. h[count + 2 - sid] = sid /\ count + 2 - sid \in DOMAIN h
      BY <1>1, <1>2, <1>4, <1>5, <3>1
    <3> QED BY <3>2
  <2>2. CASE sid \in {1} \cup (count + 2 .. n + 1)
    <3>1. PICK i \in 1 .. Len(r.hash) : r.hash[i] = sid
      BY <1>1, <2>2 DEF Covers, n
    <3>2. i + count \in count + 1 .. count + Len(r.hash) /\ (i + count) - count = i
          /\ i + count \in DOMAIN h
      BY <1>1, <1>5
    <3> QED BY <1>4, <3>1, <3>2
  <2> QED BY <1>1, <2>1, <2>2
<1>8. g.hash = h /\ g \in Table /\ g.entry = r.entry /\ g.convert = r.convert
      /\ g.frozen = r.frozen
  <2>1. \A x \in Seq(Nat) : \A k : k = [r EXCEPT !.hash = x] =>
           /\ k \in Table /\ k.hash = x /\ k.entry = r.entry /\ k.convert = r.convert
           /\ k.frozen = r.frozen
    BY DEF Table
  <2>2. g = [r EXCEPT !.hash = h]
    BY DEF h, a
  <2> QED BY <1>4, <2>1, <2>2
<1> QED BY <1>6, <1>7, <1>8 DEF Hashed, HashSound, Covers, n

\* Whoever looks a context up finds a SID of it, if there is one.
LEMMA Lookup ==
    ASSUME NEW s \in Table, Hashed(s), NEW c
    PROVE  /\ context_to_sid(s, c) # SECSID_NULL =>
                /\ context_to_sid(s, c) \in 1 .. Len(s.entry) + 1
                /\ ContextOf(s, context_to_sid(s, c)) = c
           /\ \A sid \in 1 .. Len(s.entry) + 1 :
                ContextOf(s, sid) = c => context_to_sid(s, c) # SECSID_NULL
<1> DEFINE at == {i \in DOMAIN s.hash : ContextOf(s, s.hash[i]) = c}
           first == CHOOSE i \in at : \A j \in at : i <= j
<1>1. s.hash \in Seq(Nat) /\ DOMAIN s.hash = 1 .. Len(s.hash) /\ Len(s.hash) \in Nat
      /\ Len(s.entry) \in Nat
  BY DEF Table
<1>2. ASSUME at # {}
      PROVE  first \in at /\ context_to_sid(s, c) = s.hash[first]
  <2>1. at \in SUBSET Nat
    BY <1>1
  <2>2. \E i \in at : \A j \in at : i <= j
    <3> HIDE DEF at
    <3>1. PICK i \in at : \A j \in at : <<j, i>> \notin OpToRel(<, Nat)
      BY <1>2, <2>1, NatLessThanWellFounded, WFMin
    <3>2. \A j \in at : ~(j < i)
      BY <2>1, <3>1 DEF OpToRel
    <3> QED BY <2>1, <3>2
  <2>3. first \in at
    <3> HIDE DEF at
    <3> QED BY <2>2
  <2> QED BY <1>2, <2>3 DEF context_to_sid
<1>3. at = {} => context_to_sid(s, c) = SECSID_NULL
  BY DEF context_to_sid
<1>4. at # {} => /\ context_to_sid(s, c) \in 1 .. Len(s.entry) + 1
                 /\ ContextOf(s, context_to_sid(s, c)) = c
                 /\ context_to_sid(s, c) # SECSID_NULL
  <2> SUFFICES ASSUME at # {}
               PROVE  /\ context_to_sid(s, c) \in 1 .. Len(s.entry) + 1
                      /\ ContextOf(s, context_to_sid(s, c)) = c
                      /\ context_to_sid(s, c) # SECSID_NULL
    OBVIOUS
  <2>1. first \in DOMAIN s.hash /\ ContextOf(s, s.hash[first]) = c
        /\ context_to_sid(s, c) = s.hash[first]
    BY <1>2
  <2> HIDE DEF first
  <2>2. s.hash[first] \in 1 .. Len(s.entry) + 1
    BY <2>1 DEF Hashed, HashSound
  <2> QED BY <1>1, <2>1, <2>2 DEF SECSID_NULL
<1>5. ASSUME NEW sid \in 1 .. Len(s.entry) + 1, ContextOf(s, sid) = c PROVE at # {}
  <2>1. PICK i \in DOMAIN s.hash : s.hash[i] = sid
    BY DEF Hashed, Covers
  <2>2. i \in at
    BY <1>5, <2>1
  <2> QED BY <2>2
<1> HIDE DEF at, first
<1> QED BY <1>3, <1>4, <1>5

\* Contexts survive in the table that takes the place of another.
LEMMA SameMeaning ==
    ASSUME NEW s, NEW r, NEW i, Len(s.entry) \in Nat, Len(r.entry) \in Nat, Means(s, i),
           Len(s.entry) <= Len(r.entry), SameNames(s, r, 1 .. Len(s.entry))
    PROVE  Means(r, i)
<1>1. i[1] \in 1 .. Len(r.entry) + 1
  BY DEF Means
<1>2. ContextOf(r, i[1]).name = ContextOf(s, i[1]).name
  <2>1. CASE i[1] = 1
    BY <2>1 DEF ContextOf, SECINITSID_UNLABELED
  <2>2. CASE i[1] # 1
    <3>1. i[1] - 1 \in 1 .. Len(s.entry)
      BY <2>2 DEF Means
    <3> QED BY <2>2, <3>1 DEF ContextOf, SECINITSID_UNLABELED, sid_to_index, SameNames
  <2> QED BY <2>1, <2>2
<1> QED BY <1>1, <1>2 DEF Means
-----------------------------------------------------------------------------
(* The steps.                                                              *)

\* The policy in use and its table.
LEMMA InUse ==
    ASSUME TypeInv, TabsInv, cur # 0
    PROVE  /\ cur \in Seqs /\ pol[cur] \in Policy /\ pol[cur].tab \in Seqs
           /\ pol[cur].tab <= cur /\ CurTab \in Table /\ CurTab # NULL /\ Hashed(CurTab)
           /\ Len(CurTab.entry) \in Nat
           /\ \A i \in issued : Means(CurTab, i)
<1>1. cur \in Seqs
  BY ServerAssumption DEF TypeInv, VarsOK, Seqs
<1>2. pol[cur] \in Policy
  BY <1>1 DEF TypeInv, VarsOK, Current
<1>3. pol[cur].tab \in Seqs
  BY <1>2 DEF Policy
<1>4. /\ pol[cur].tab <= cur /\ CurTab # NULL /\ Hashed(CurTab)
      /\ \A i \in issued : Means(CurTab, i)
  BY DEF TabsInv
<1>5. CurTab \in Table
  BY <1>3, <1>4 DEF TabsInv, CurTab
<1>6. Len(CurTab.entry) \in Nat
  BY <1>5 DEF Table
<1> QED BY <1>1, <1>2, <1>3, <1>4, <1>5, <1>6

LEMMA TabOfFrame ==
    ASSUME UNCHANGED <<pol, cur, tabs>>, NEW a \in Admins, task'[a] = task[a], TabOf(a)
    PROVE  TabOf(a)'
BY DEF TabOf, CurTab, Converting

LEMMA TabsFrame ==
    ASSUME TabsInv, UNCHANGED <<pol, cur, tabs, issued>>,
           \A t \in Admins \cup Labellers : task'[t] = task[t]
    PROVE  TabsInv'
<1>1. \A a \in Admins : TabOf(a)'
  BY TabOfFrame DEF TabsInv
<1> QED BY <1>1 DEF TabsInv, Converting, CurTab, Replaced, Means, Hashed, HashSound, Covers,
        ContextOf

\* A step of an administrator that leaves the tables alone.
LEMMA TabsQuiet ==
    ASSUME TypeInv, TabsInv, NEW a \in Admins, \A u \in Tasks : u # a => task'[u] = task[u],
           UNCHANGED <<pol, cur, tabs, issued>>, task[a].pc # "sync",
           cur # 0 /\ Converting(a) => Converting(a)', TabOf(a)'
    PROVE  TabsInv'
<1> USE Kinds
<1>1. \A u \in Admins : u # a => TabOf(u)'
  <2> SUFFICES ASSUME NEW u \in Admins, u # a PROVE TabOf(u)'
    OBVIOUS
  <2>1. TabOf(u) /\ task'[u] = task[u]
    BY DEF TabsInv
  <2> QED BY <2>1, TabOfFrame
<1>2. \A s : Replaced(s) => Replaced(s)'
  BY DEF Replaced
<1>3. cur # 0 /\ CurTab.convert # NULL => \E u \in Admins : Converting(u)'
  BY DEF TabsInv, Converting
<1>4. \A t \in Labellers : task'[t] = task[t]
  OBVIOUS
<1> QED BY <1>1, <1>2, <1>3, <1>4 DEF TabsInv, CurTab, Means, Hashed, HashSound, Covers,
        ContextOf, Converting

\* Whoever has policy_mutex, or takes it, is the only one that changes the policy.
LEMMA Alone ==
    ASSUME TypeInv, NEW a \in Admins, mutex \in {a, NULL}
    PROVE  /\ \A u \in Admins : u # a => task[u].pc \notin Loading \cup {"sync"}
           /\ mutex = NULL => task[a].pc \notin Loading \cup {"sync"}
           /\ task[a].pc # "sync" => \A s : ~Replaced(s)
           /\ ~Converting(a) => \A u \in Admins : ~Converting(u)
<1>1. /\ \A u \in Admins : u # a => task[u].pc \notin Loading \cup {"sync"}
      /\ mutex = NULL => task[a].pc \notin Loading \cup {"sync"}
  BY Kinds DEF TypeInv, MutexOK, Owning
<1> QED BY <1>1 DEF Replaced, Converting, Loading

LEMMA TabsAdmin ==
    ASSUME TypeInv, NEW a \in Admins, \A u \in Tasks : u # a => task'[u] = task[u],
           mutex \in {a, NULL}, tabs' \in [Seqs -> Table \cup {NULL}], TabOf(a)',
           IF cur' = 0 THEN issued' = {}
           ELSE /\ pol'[cur'].tab <= cur' /\ tabs'[pol'[cur'].tab] # NULL
                /\ Hashed(tabs'[pol'[cur'].tab])
                /\ \A i \in issued' : Means(tabs'[pol'[cur'].tab], i)
                /\ tabs'[pol'[cur'].tab].convert # NULL =>
                     task'[a].pc \in {"convert", "nodes", "commit"},
           \A t \in Labellers : task[t].pc = "locked" =>
              \/ task[t].policy = cur'
              \/ task'[a].pc = "sync" /\ task'[a].old = task[t].policy
    PROVE  TabsInv'
<1> USE Kinds
<1>1. ASSUME NEW u \in Admins PROVE TabOf(u)'
  <2>1. CASE u = a
    BY <2>1
  <2>2. CASE u # a
    <3>1. task'[u] = task[u] /\ task[u].pc \notin Loading \cup {"sync"}
      BY <2>2, Alone
    <3> QED BY <3>1 DEF TabOf, Loading, Converting
  <2> QED BY <2>1, <2>2
<1>2. \A t \in Labellers : task'[t] = task[t]
  OBVIOUS
<1> QED BY <1>1, <1>2 DEF TabsInv, CurTab, Converting, Replaced, Means, Hashed, HashSound, Covers,
        ContextOf

\* A SID that was found is one of a context with its name.
LEMMA Found ==
    ASSUME TypeInv, TabsInv, cur # 0, NEW c, context_to_sid(CurTab, c) # SECSID_NULL
    PROVE  Means(CurTab, <<context_to_sid(CurTab, c), c.name>>)
BY InUse, Lookup DEF Means

LEMMA TabsResolve ==
    ASSUME TypeInv, TabsInv, NEW t \in Labellers, cur # 0,
           UNCHANGED <<pol, cur, tabs>>, \A u \in Tasks : u # t => task'[u] = task[u],
           task'[t].pc = "locked" => task'[t].policy = cur,
           \A i \in issued' : i \in issued \/ Means(CurTab, i)
    PROVE  TabsInv'
<1> USE Kinds
<1>1. \A a \in Admins : task'[a] = task[a]
  OBVIOUS
<1>2. \A a \in Admins : TabOf(a)'
  BY <1>1, TabOfFrame DEF TabsInv
<1>3. ASSUME NEW u \in Labellers, task'[u].pc = "locked"
      PROVE  task'[u].policy = cur' \/ Replaced(task[u].policy)'
  <2>1. CASE u = t
    BY <1>3, <2>1
  <2>2. CASE u # t
    <3>1. task'[u] = task[u]
      BY <2>2
    <3>2. task[u].policy = cur \/ Replaced(task[u].policy)
      BY <1>3, <3>1 DEF TabsInv
    <3> QED BY <1>1, <3>1, <3>2 DEF Replaced
  <2> QED BY <2>1, <2>2
<1>4. \A i \in issued' : Means(CurTab, i)
  BY DEF TabsInv
<1>5. /\ pol'[cur'].tab <= cur' /\ CurTab' # NULL /\ Hashed(CurTab)'
      /\ \A i \in issued' : Means(CurTab, i)'
      /\ CurTab'.convert # NULL => \E a \in Admins : Converting(a)'
  <2>1. /\ pol[cur].tab <= cur /\ CurTab # NULL /\ Hashed(CurTab)
        /\ CurTab.convert # NULL => \E a \in Admins : Converting(a)
    BY DEF TabsInv
  <2>2. CurTab' = CurTab
    BY DEF CurTab
  <2> QED BY <1>1, <1>4, <2>1, <2>2 DEF Converting
<1>6. tabs' \in [Seqs -> Table \cup {NULL}] /\ cur' # 0
  BY DEF TabsInv
<1> QED BY <1>2, <1>3, <1>5, <1>6 DEF TabsInv

LEMMA TabsLookup ==
    ASSUME TypeInv, TabsInv, NEW t \in Labellers, cur # 0, NEW c, NEW force, NEW garbled,
           Resolve(t, c, force, garbled), UNCHANGED <<pol, cur, tabs>>
    PROVE  TabsInv'
<1> DEFINE p == pol[cur]
           ok == string_to_context_struct(p.image, c, garbled)
           ctx == IF ok THEN mapped(c) ELSE unmapped(c)
           sid == context_to_sid(tabs[p.tab], ctx)
<1>0. ctx.name = c /\ tabs[p.tab] = CurTab
  BY DEF mapped, unmapped, CurTab
<1>1. \/ Return(t) /\ UNCHANGED issued
      \/ sid # SECSID_NULL /\ Return(t) /\ issued' = issued \cup {<<sid, c>>}
      \/ /\ task' = [task EXCEPT ![t] = [pc |-> "locked", ctx |-> ctx,
                                         force |-> force, policy |-> cur]]
         /\ UNCHANGED issued
  BY DEF Resolve
<1> HIDE DEF ctx
<1>2. task = [u \in Tasks |-> task[u]] /\ t \in Tasks
  BY Kinds DEF TypeInv, TaskOK
<1>3. CASE Return(t) /\ UNCHANGED issued
  <2>1. task'[t].pc = "idle" /\ \A u \in Tasks : u # t => task'[u] = task[u]
    BY <1>2, <1>3 DEF Return, idle
  <2> QED BY <1>3, <2>1, TabsResolve
<1>4. CASE sid # SECSID_NULL /\ Return(t) /\ issued' = issued \cup {<<sid, c>>}
  <2>1. task'[t].pc = "idle" /\ \A u \in Tasks : u # t => task'[u] = task[u]
    BY <1>2, <1>4 DEF Return, idle
  <2>2. Means(CurTab, <<sid, c>>)
    BY <1>0, <1>4, Found
  <2> HIDE DEF sid
  <2>3. \A i \in issued' : i \in issued \/ Means(CurTab, i)
    BY <1>4, <2>2
  <2> QED BY <1>4, <2>1, <2>3, TabsResolve
<1>5. CASE /\ task' = [task EXCEPT ![t] = [pc |-> "locked", ctx |-> ctx,
                                           force |-> force, policy |-> cur]]
           /\ UNCHANGED issued
  <2>1. task'[t].policy = cur /\ \A u \in Tasks : u # t => task'[u] = task[u]
    BY <1>2, <1>5
  <2> QED BY <1>5, <2>1, TabsResolve
<1> QED BY <1>1, <1>3, <1>4, <1>5

\* The table that a task locked is the one in use, or was replaced by it.
LEMMA LockedTab ==
    ASSUME TypeInv, TabsInv, NEW t \in Labellers, task[t].pc = "locked"
    PROVE  LET p == task[t].policy IN
           /\ cur # 0 /\ p \in Seqs /\ pol[p] \in Policy /\ pol[p].tab \in Seqs
           /\ \/ pol[p].tab = pol[cur].tab
              \/ Succeeds(tabs[pol[p].tab], CurTab)
<1> DEFINE p == task[t].policy
<1>1. cur # 0 /\ p \in Seqs
  BY Shapes DEF TypeInv, Current, LabelTask
<1>2. CASE p = cur
  BY <1>1, <1>2, InUse
<1>3. CASE Replaced(p)
  <2>1. PICK a \in Admins : task[a].pc = "sync" /\ task[a].old = p
    BY <1>3 DEF Replaced
  <2>2. p # 0
    BY <1>1 DEF Seqs
  <2>3. pol[p] # NULL
    BY <2>1, <2>2, AdminShape DEF Progress
  <2>4. pol[p] \in Policy /\ pol[p].tab \in Seqs
    BY <1>1, <2>3 DEF TypeInv, VarsOK, Policy
  <2>5. TabOf(a)
    BY DEF TabsInv
  <2>6. pol[p].tab = pol[cur].tab \/ Succeeds(tabs[pol[p].tab], CurTab)
    BY <2>1, <2>2, <2>5 DEF TabOf
  <2> QED BY <1>1, <2>4, <2>6
<1>4. p = cur \/ Replaced(p)
  BY DEF TabsInv
<1> QED BY <1>2, <1>3, <1>4

\* What an insertion does to the table in use, and to the one built from it.
LEMMA Insertion ==
    ASSUME NEW s \in Table, NEW g \in Seqs, tabs \in [Seqs -> Table \cup {NULL}], tabs[g] = s,
           NEW c, NEW image, NEW e, tabs' = sidtab_insert(tabs, g, c, image, e),
           s.convert # g,
           s.convert # NULL => /\ tabs[s.convert] # NULL
                               /\ Len(tabs[s.convert].entry) = Len(s.entry)
    PROVE  /\ tabs' = [x \in Seqs |-> tabs'[x]]
           /\ tabs'[g] = Grown(s, c)
           /\ \A x \in Seqs : x # g /\ x # s.convert => tabs'[x] = tabs[x]
           /\ s.convert # NULL =>
                /\ s.convert \in Seqs /\ tabs[s.convert] \in Table
                /\ tabs'[s.convert] =
                     Grown(tabs[s.convert], services_convert_context(image, c, e))
<1> DEFINE sid == index_to_sid(Len(s.entry) + 1)
           grown(tab, ctx) == [tab EXCEPT !.entry = Append(tab.entry, ctx),
                                          !.hash = <<sid>> \o tab.hash]
           conv == services_convert_context(image, c, e)
<1>1. Len(s.entry) \in Nat /\ s.convert \in Seqs \cup {NULL}
  BY DEF Table
<1>2. sid = Len(s.entry) + 2
  BY <1>1 DEF index_to_sid
<1>3. tabs' = [x \in Seqs |-> IF x = g THEN grown(s, c)
                              ELSE IF x = s.convert THEN grown(tabs[x], conv) ELSE tabs[x]]
  BY DEF sidtab_insert
<1>4. grown(s, c) = Grown(s, c)
  BY <1>2 DEF Grown
<1>5. s.convert # NULL => grown(tabs[s.convert], conv) = Grown(tabs[s.convert], conv)
  BY <1>2 DEF Grown
<1> HIDE DEF grown, sid, conv
<1> QED BY <1>1, <1>3, <1>4, <1>5 DEF conv

\* The table that is built, while the one in use grows.
LEMMA Target ==
    ASSUME TypeInv, TabsInv, NEW a \in Admins, Converting(a), cur # 0
    PROVE  /\ mutex = a /\ CurTab.convert = task[a].seq /\ task[a].seq = cur + 1
           /\ LoadTask(task[a]) /\ task[a].seq \in Seqs /\ task[a].seq # pol[cur].tab
           /\ tabs[task[a].seq] # NULL /\ tabs[task[a].seq] \in Table
           /\ tabs[task[a].seq].convert = NULL
           /\ Len(tabs[task[a].seq].entry) = Len(CurTab.entry)
           /\ task[a].image \in Images
<1>1. /\ task[a].pc \in Loading /\ LoadTask(task[a]) /\ task[a].seq = cur + 1 /\ mutex = a
      /\ task[a].seq \in Seqs /\ task[a].image \in Images
  BY AdminShape DEF Converting, Loading, Progress, Owning, LoadTask
<1>2. pol[cur].tab <= cur /\ cur \in Nat /\ pol[cur].tab \in Nat
  BY InUse DEF Seqs
<1>3. task[a].seq # pol[cur].tab
  BY <1>1, <1>2
<1>4. TabOf(a)
  BY DEF TabsInv
<1>5. CurTab.convert = task[a].seq
  BY <1>4 DEF TabOf
<1>6. /\ tabs[task[a].seq] # NULL /\ tabs[task[a].seq].convert = NULL
      /\ Len(tabs[task[a].seq].entry) = Len(CurTab.entry)
  BY <1>4 DEF TabOf, Converting, Copying, Copied
<1>7. tabs[task[a].seq] \in Table
  BY <1>1, <1>6 DEF TabsInv
<1> QED BY <1>1, <1>3, <1>5, <1>6, <1>7

\* Tables that grow together stay alike.
LEMMA GrownNames ==
    ASSUME NEW s \in Table, NEW r \in Table, NEW c \in Context, NEW d \in Context,
           d.name = c.name, Len(r.entry) = Len(s.entry)
    PROVE  /\ Len(Grown(r, d).entry) = Len(Grown(s, c).entry)
           /\ \A S : SameNames(s, r, S \cap (1 .. Len(s.entry))) =>
                SameNames(Grown(s, c), Grown(r, d), S \cap (1 .. Len(s.entry) + 1))
<1>1. /\ Len(Grown(s, c).entry) = Len(s.entry) + 1 /\ Len(s.entry) \in Nat
      /\ \A i \in 1 .. Len(s.entry) : Grown(s, c).entry[i] = s.entry[i]
      /\ Grown(s, c).entry[Len(s.entry) + 1] = c
  BY GrownFields
<1>2. /\ Len(Grown(r, d).entry) = Len(r.entry) + 1 /\ Len(r.entry) \in Nat
      /\ \A i \in 1 .. Len(r.entry) : Grown(r, d).entry[i] = r.entry[i]
      /\ Grown(r, d).entry[Len(r.entry) + 1] = d
  BY GrownFields
<1>3. \A i \in 1 .. Len(s.entry) + 1 : i \in 1 .. Len(s.entry) \/ i = Len(s.entry) + 1
  BY <1>1
<1> QED BY <1>1, <1>2, <1>3 DEF SameNames

LEMMA GrownCopying ==
    ASSUME NEW s \in Table, NEW r \in Table, NEW c \in Context, NEW d \in Context,
           d.name = c.name, NEW pos, NEW count, Copying(s, r, pos, count)
    PROVE  Copying(Grown(s, c), Grown(r, d), pos, count)
<1> DEFINE n == Len(s.entry)
           S == {i \in 1 .. n + 1 : i < pos \/ i > count}
<1>1. /\ r.convert = NULL /\ Len(r.entry) = n /\ count \in 0 .. n /\ pos \in 1 .. count + 1
      /\ SameNames(s, r, {i \in 1 .. n : i < pos \/ i > count})
      /\ HashSound(r) /\ Covers(r, {1} \cup (count + 2 .. n + 1)) /\ n \in Nat
  BY DEF Copying, Table
<1>2. /\ Grown(r, d) \in Table /\ Grown(r, d).convert = NULL
      /\ Len(Grown(r, d).entry) = n + 1 /\ Len(Grown(s, c).entry) = n + 1
  <2>1. /\ Grown(r, d) \in Table /\ Grown(r, d).convert = r.convert
        /\ Len(Grown(r, d).entry) = Len(r.entry) + 1
    BY GrownFields
  <2>2. Len(Grown(s, c).entry) = n + 1
    BY GrownFields
  <2> QED BY <1>1, <2>1, <2>2
<1>3. Grown(r, d) # NULL
  BY <1>2, ServerAssumption
<1>4. SameNames(Grown(s, c), Grown(r, d), {i \in 1 .. n + 1 : i < pos \/ i > count})
  <2>1. S \cap (1 .. n) = {i \in 1 .. n : i < pos \/ i > count}
    BY <1>1
  <2>2. S \cap (1 .. n + 1) = S
    OBVIOUS
  <2> HIDE DEF S
  <2>3. SameNames(s, r, S \cap (1 .. Len(s.entry)))
    BY <1>1, <2>1
  <2>4. SameNames(Grown(s, c), Grown(r, d), S \cap (1 .. Len(s.entry) + 1))
    BY <1>1, <2>3, GrownNames
  <2>5. SameNames(Grown(s, c), Grown(r, d), S)
    BY <2>2, <2>4
  <2> QED BY <2>5 DEF S
<1>5. HashSound(Grown(r, d)) /\ Covers(Grown(r, d), {1} \cup (count + 2 .. (n + 1) + 1))
  <2>1. /\ HashSound(Grown(r, d))
        /\ Covers(Grown(r, d), ({1} \cup (count + 2 .. n + 1)) \cup {n + 2})
    BY <1>1, GrownHash
  <2>2. ({1} \cup (count + 2 .. n + 1)) \cup {n + 2} = {1} \cup (count + 2 .. (n + 1) + 1)
    BY <1>1
  <2> QED BY <2>1, <2>2
<1>6. count \in 0 .. n + 1
  BY <1>1
<1> HIDE DEF n, S
<1> QED BY <1>1, <1>2, <1>3, <1>4, <1>5, <1>6 DEF Copying

LEMMA GrownCopied ==
    ASSUME NEW s \in Table, NEW r \in Table, NEW c \in Context, NEW d \in Context,
           d.name = c.name, Copied(s, r)
    PROVE  Copied(Grown(s, c), Grown(r, d))
<1>1. /\ r.convert = NULL /\ Len(r.entry) = Len(s.entry) /\ Len(s.entry) \in Nat
      /\ SameNames(s, r, 1 .. Len(s.entry)) /\ Hashed(r)
  BY DEF Copied, Table
<1>2. /\ Grown(r, d) \in Table /\ Grown(r, d).convert = NULL
      /\ Len(Grown(r, d).entry) = Len(Grown(s, c).entry)
      /\ Len(Grown(s, c).entry) = Len(s.entry) + 1
  <2>1. /\ Grown(r, d) \in Table /\ Grown(r, d).convert = r.convert
        /\ Len(Grown(r, d).entry) = Len(r.entry) + 1
    BY GrownFields
  <2>2. Len(Grown(s, c).entry) = Len(s.entry) + 1
    BY GrownFields
  <2> QED BY <1>1, <2>1, <2>2
<1>3. SameNames(Grown(s, c), Grown(r, d), 1 .. Len(s.entry) + 1)
  <2> DEFINE S == 1 .. Len(s.entry) + 1
  <2>1. S \cap (1 .. Len(s.entry)) = 1 .. Len(s.entry) /\ S \cap (1 .. Len(s.entry) + 1) = S
    BY <1>1
  <2> HIDE DEF S
  <2>2. SameNames(Grown(s, c), Grown(r, d), S \cap (1 .. Len(s.entry) + 1))
    BY <1>1, <2>1, GrownNames
  <2> QED BY <2>1, <2>2 DEF S
<1>4. Hashed(Grown(r, d)) /\ Grown(r, d) # NULL
  BY <1>1, <1>2, GrownHashed, ServerAssumption
<1> QED BY <1>2, <1>3, <1>4 DEF Copied

LEMMA GrownMeans ==
    ASSUME NEW s \in Table, NEW c \in Context
    PROVE  /\ SameNames(s, Grown(s, c), 1 .. Len(s.entry))
           /\ Means(Grown(s, c), <<Len(s.entry) + 2, c.name>>)
           /\ \A i : Means(s, i) => Means(Grown(s, c), i)
           /\ \A o : o \in Table /\ Succeeds(o, s) => Succeeds(o, Grown(s, c))
<1>1. /\ Len(Grown(s, c).entry) = Len(s.entry) + 1 /\ Len(s.entry) \in Nat
      /\ \A i \in 1 .. Len(s.entry) : Grown(s, c).entry[i] = s.entry[i]
      /\ Grown(s, c).entry[Len(s.entry) + 1] = c
  BY GrownFields
<1>2. SameNames(s, Grown(s, c), 1 .. Len(s.entry))
  BY <1>1 DEF SameNames
<1>3. Means(Grown(s, c), <<Len(s.entry) + 2, c.name>>)
  <2>1. Len(s.entry) + 2 \in 1 .. Len(Grown(s, c).entry) + 1
    BY <1>1
  <2>2. Len(s.entry) + 2 # 1 /\ (Len(s.entry) + 2) - 1 = Len(s.entry) + 1
    BY <1>1
  <2>3. ContextOf(Grown(s, c), Len(s.entry) + 2) = c
    BY <1>1, <2>2 DEF ContextOf, SECINITSID_UNLABELED, sid_to_index
  <2> QED BY <2>1, <2>3 DEF Means
<1>4. ASSUME NEW i, Means(s, i) PROVE Means(Grown(s, c), i)
  <2>1. Len(s.entry) <= Len(Grown(s, c).entry) /\ Len(Grown(s, c).entry) \in Nat
    BY <1>1
  <2> QED BY <1>1, <1>2, <1>4, <2>1, SameMeaning
<1>5. ASSUME NEW o \in Table, Succeeds(o, s) PROVE Succeeds(o, Grown(s, c))
  <2>1. Len(o.entry) \in Nat
    BY DEF Table
  <2>2. Len(o.entry) <= Len(Grown(s, c).entry)
    BY <1>1, <1>5, <2>1 DEF Succeeds
  <2>3. SameNames(o, Grown(s, c), 1 .. Len(o.entry))
    BY <1>1, <1>5, <2>1 DEF Succeeds, SameNames
  <2> QED BY <1>5, <2>2, <2>3 DEF Succeeds
<1> QED BY <1>2, <1>3, <1>4, <1>5

\* A new entry in the table in use, and in the one that is built from it.
LEMMA TabsInsert ==
    ASSUME TypeInv, TabsInv, NEW t \in Labellers, cur # 0, UNCHANGED <<pol, cur, mutex>>,
           \A u \in Tasks : u # t => task'[u] = task[u], task'[t].pc = "idle",
           NEW c \in Context,
           tabs' = sidtab_insert(tabs, pol[cur].tab, c,
                       IF CurTab.convert = NULL THEN NULL ELSE task[mutex].image, enforcing),
           issued' = issued \cup {<<index_to_sid(Len(CurTab.entry) + 1), c.name>>}
    PROVE  TabsInv'
<1> USE Kinds
<1> DEFINE g == pol[cur].tab
           s == CurTab
           S == Grown(s, c)
           image == IF s.convert = NULL THEN NULL ELSE task[mutex].image
           d == services_convert_context(image, c, enforcing)
           R == Grown(tabs[s.convert], d)
<1>1. /\ g \in Seqs /\ tabs[g] = s /\ s \in Table /\ Hashed(s) /\ g <= cur
      /\ Len(s.entry) \in Nat
  BY InUse DEF CurTab
<1>2. tabs \in [Seqs -> Table \cup {NULL}] /\ NULL \notin Seqs
  BY ServerAssumption DEF TabsInv, Seqs
<1>3. s.convert # NULL =>
         \E a \in Admins : Converting(a) /\ task[a].seq = s.convert /\ mutex = a
  BY Target DEF TabsInv
<1>4. /\ s.convert # g
      /\ s.convert # NULL => /\ tabs[s.convert] # NULL
                             /\ Len(tabs[s.convert].entry) = Len(s.entry)
  <2>1. CASE s.convert = NULL
    BY <1>1, <1>2, <2>1
  <2>2. CASE s.convert # NULL
    <3>1. PICK a \in Admins : Converting(a) /\ task[a].seq = s.convert
      BY <1>3, <2>2
    <3> QED BY <2>2, <3>1, Target
  <2> QED BY <2>1, <2>2
<1>5. d \in Context /\ d.name = c.name
  BY Converted
<1>6. tabs' = sidtab_insert(tabs, g, c, image, enforcing)
  OBVIOUS
<1> HIDE DEF g, s, image
<1>7. /\ tabs' = [x \in Seqs |-> tabs'[x]]
      /\ tabs'[g] = S
      /\ \A x \in Seqs : x # g /\ x # s.convert => tabs'[x] = tabs[x]
      /\ s.convert # NULL =>
           s.convert \in Seqs /\ tabs[s.convert] \in Table /\ tabs'[s.convert] = R
  <2>1. /\ tabs' = [x \in Seqs |-> tabs'[x]]
        /\ tabs'[g] = Grown(s, c)
        /\ \A x \in Seqs : x # g /\ x # s.convert => tabs'[x] = tabs[x]
        /\ s.convert # NULL =>
             /\ s.convert \in Seqs /\ tabs[s.convert] \in Table
             /\ tabs'[s.convert] = Grown(tabs[s.convert],
                                        services_convert_context(image, c, enforcing))
    <3> HIDE DEF S, R, d
    <3> QED BY ONLY <1>1, <1>2, <1>4, <1>6, Insertion
  <2> QED BY <2>1
<1> HIDE DEF d
<1>8. /\ S \in Table /\ S # NULL /\ S.convert = s.convert /\ S.frozen = s.frozen /\ Hashed(S)
      /\ Len(S.entry) \in Nat
  <2>1. S \in Table /\ S.convert = s.convert /\ S.frozen = s.frozen
    BY <1>1, GrownFields
  <2>2. Hashed(S)
    BY <1>1, GrownHashed
  <2>3. Len(S.entry) \in Nat
    BY <2>1 DEF Table
  <2> QED BY <2>1, <2>2, <2>3, ServerAssumption
<1>9. s.convert # NULL => R \in Table
  BY <1>5, <1>7, GrownFields
<1>10. tabs' \in [Seqs -> Table \cup {NULL}]
  <2>1. \A x \in Seqs : tabs'[x] \in Table \cup {NULL}
    BY <1>2, <1>7, <1>8, <1>9
  <2> QED BY <1>7, <2>1
<1>11. CurTab' = S
  BY <1>7 DEF CurTab, g
<1>12. \A i \in issued' : Means(S, i)
  <2>1. \A i \in issued : Means(S, i)
    BY <1>1, GrownMeans, InUse DEF s
  <2>2. index_to_sid(Len(s.entry) + 1) = Len(s.entry) + 2
    BY <1>1 DEF index_to_sid
  <2>3. Means(S, <<Len(s.entry) + 2, c.name>>)
    BY <1>1, GrownMeans
  <2>4. issued' = issued \cup {<<Len(s.entry) + 2, c.name>>}
    BY <2>2 DEF s
  <2> QED BY <2>1, <2>3, <2>4
<1>13. ASSUME NEW a \in Admins PROVE TabOf(a)'
  <2>1. task'[a] = task[a] /\ TabOf(a)
    BY DEF TabsInv
  <2>2. Converting(a) /\ cur # 0 => CurTab'.convert = task[a].seq
    BY <1>8, <1>11, <2>1 DEF TabOf, s
  <2>3. ASSUME Converting(a)
        PROVE  /\ s.convert = task[a].seq /\ s.convert # NULL
               /\ tabs'[task[a].seq] = Grown(tabs[task[a].seq], d)
               /\ tabs[task[a].seq] \in Table
    <3>1. s.convert = task[a].seq /\ task[a].seq \in Seqs
      BY <2>3, Target DEF s
    <3> QED BY <1>2, <1>7, <3>1
  <2>4. task[a].pc = "convert" =>
           Copying(S, tabs'[task[a].seq], task[a].pos, task[a].count)
    <3> SUFFICES ASSUME task[a].pc = "convert"
                 PROVE  Copying(S, tabs'[task[a].seq], task[a].pos, task[a].count)
      OBVIOUS
    <3>1. Copying(s, tabs[task[a].seq], task[a].pos, task[a].count)
      BY <2>1 DEF TabOf, s
    <3>2. Converting(a)
      BY DEF Converting
    <3> QED BY <1>1, <1>5, <2>3, <3>1, <3>2, GrownCopying
  <2>5. task[a].pc \in {"nodes", "commit"} => Copied(S, tabs'[task[a].seq])
    <3> SUFFICES ASSUME task[a].pc \in {"nodes", "commit"}
                 PROVE  Copied(S, tabs'[task[a].seq])
      OBVIOUS
    <3>1. Copied(s, tabs[task[a].seq])
      BY <2>1 DEF TabOf, s
    <3>2. Converting(a)
      BY DEF Converting
    <3> QED BY <1>1, <1>5, <2>3, <3>1, <3>2, GrownCopied
  <2>6. ASSUME task[a].pc = "sync", task[a].old # 0, ~task[a].keep
        PROVE  LET old == pol[task[a].old].tab IN
               old < pol[cur].tab /\ Succeeds(tabs'[old], S)
    <3> DEFINE old == pol[task[a].old].tab
    <3>1. old < g /\ Succeeds(tabs[old], s)
      BY <2>1, <2>6 DEF TabOf, g, s
    <3>2. mutex = a
      BY <2>6, AdminShape DEF Owning
    <3>3. s.convert = NULL
      BY <1>3, <2>6, <3>2 DEF Converting
    <3>4. old \in Seqs
      <4>1. task[a].old # 0 /\ pol[task[a].old] # NULL /\ task[a] \in SyncTask
            /\ task[a].old < cur
        BY <2>6, AdminShape DEF Progress
      <4>2. task[a].old \in Seqs
        <5>1. cur \in 1 .. MaxSeq /\ task[a].old \in Nat /\ MaxSeq \in Nat
          BY <4>1, InUse, ServerAssumption DEF SyncTask, Seqs
        <5> QED BY <4>1, <5>1 DEF Seqs
      <4>3. pol[task[a].old] \in Policy
        BY <4>1, <4>2 DEF TypeInv, VarsOK
      <4> QED BY <4>3 DEF Policy
    <3>5. old # g
      BY <1>1, <3>1, <3>4 DEF Seqs
    <3>6. tabs'[old] = tabs[old]
      BY <1>2, <1>7, <3>3, <3>4, <3>5
    <3>7. tabs[old] \in Table
      BY <1>2, <3>1, <3>4 DEF Succeeds
    <3>8. Succeeds(tabs[old], S)
      BY <1>1, <3>1, <3>7, GrownMeans
    <3> QED BY <3>1, <3>6, <3>8 DEF g
  <2>7. task[a].pc = "sync" /\ task[a].old # 0 /\ task[a].keep =>
           pol[task[a].old].tab = pol[cur].tab
    BY <2>1 DEF TabOf
  <2>8. task[a].pc = "load" => task[a].pos = 1
    BY <2>1 DEF TabOf
  <2> HIDE DEF S
  <2> QED BY <1>11, <2>1, <2>2, <2>4, <2>5, <2>6, <2>7, <2>8 DEF TabOf, Converting
<1>14. ASSUME NEW u \in Labellers, task'[u].pc = "locked"
       PROVE  task'[u].policy = cur' \/ Replaced(task[u].policy)'
  <2>1. u # t /\ task'[u] = task[u]
    BY <1>14
  <2>2. task[u].policy = cur \/ Replaced(task[u].policy)
    BY <1>14, <2>1 DEF TabsInv
  <2> QED BY <2>1, <2>2 DEF Replaced
<1>15. pol'[cur'].tab <= cur' /\ cur' # 0
  BY InUse
<1>16. CurTab'.convert # NULL => \E a \in Admins : Converting(a)'
  <2> SUFFICES ASSUME s.convert # NULL PROVE \E a \in Admins : Converting(a)'
    BY <1>8, <1>11
  <2>1. PICK a \in Admins : Converting(a)
    BY <1>3
  <2> QED BY <2>1 DEF Converting
<1> HIDE DEF S
<1> QED BY <1>8, <1>10, <1>11, <1>12, <1>13, <1>14, <1>15, <1>16 DEF TabsInv

LEMMA TabsLabel ==
    ASSUME TypeInv, TabsInv, NEW t \in Labellers, Label(t)
    PROVE  TabsInv'
<1> USE Kinds
<1>0. /\ task = [u \in Tasks |-> task[u]] /\ t \in Tasks
      /\ UNCHANGED <<pol, cur, mutex>> /\ \A u \in Tasks : u # t => task'[u] = task[u]
  BY Frames DEF TypeInv, TaskOK
<1>1. CASE security_context_to_sid_core(t)
  <2>1. PICK c \in Contexts, force \in BOOLEAN : cur # 0 /\ Resolve(t, c, force, FALSE)
    BY <1>1 DEF security_context_to_sid_core
  <2>2. UNCHANGED <<pol, cur, tabs>>
    BY <1>1 DEF security_context_to_sid_core, policyvars
  <2> QED BY <2>1, <2>2, TabsLookup
<1>2. CASE security_context_to_sid_retry(t)
  <2>1. cur # 0 /\ UNCHANGED <<pol, cur, tabs>>
    BY <1>2 DEF security_context_to_sid_retry, policyvars, At, TypeInv, Current
  <2>2. Resolve(t, task[t].ctx.name, task[t].force, TRUE)
    BY <1>2 DEF security_context_to_sid_retry
  <2> QED BY <2>1, <2>2, TabsLookup
<1>3. CASE sidtab_context_to_sid(t)
  <2> DEFINE l == task[t]
             g == pol[l.policy].tab
             s == tabs[g]
             sid == context_to_sid(s, l.ctx)
             target == IF s.convert = NULL THEN NULL ELSE task[mutex].image
  <2>1. /\ task[t].pc = "locked"
        /\ \/ /\ sid # SECSID_NULL
              /\ issued' = issued \cup {<<sid, l.ctx.name>>}
              /\ Return(t) /\ UNCHANGED tabs
           \/ /\ sid = SECSID_NULL /\ s.frozen
              /\ Goto(t, "retry") /\ UNCHANGED <<tabs, issued>>
           \/ /\ sid = SECSID_NULL /\ ~s.frozen /\ Len(s.entry) < SIDTAB_MAX
              /\ tabs' = sidtab_insert(tabs, g, l.ctx, target, enforcing)
              /\ issued' = issued \cup {<<index_to_sid(Len(s.entry) + 1), l.ctx.name>>}
              /\ Return(t)
           \/ /\ sid = SECSID_NULL /\ ~s.frozen
              /\ Return(t) /\ UNCHANGED <<tabs, issued>>
    BY <1>3 DEF sidtab_context_to_sid, At
  <2>2. /\ cur # 0 /\ g \in Seqs
        /\ g = pol[cur].tab \/ Succeeds(s, CurTab)
    BY <2>1, LockedTab
  <2>3. Return(t) => task'[t].pc = "idle"
    BY <1>0 DEF Return, idle
  <2>4. Goto(t, "retry") => task'[t].pc # "locked"
    <3>1. l \in LabelTask
      BY <2>1, Shapes DEF TypeInv
    <3>2. Goto(t, "retry") => task'[t] = [task[t] EXCEPT !.pc = "retry"]
      BY <1>0 DEF Goto
    <3> QED BY <3>1, <3>2 DEF LabelTask
  <2>5. l.ctx \in Context
    BY <2>1, Shapes DEF TypeInv, LabelTask
  <2> HIDE DEF sid, target
  <2>6. CASE UNCHANGED <<tabs, issued>> /\ (Return(t) \/ Goto(t, "retry"))
    <3>1. task'[t].pc # "locked" /\ \A i \in issued' : i \in issued
      BY <2>3, <2>4, <2>6
    <3> QED BY <1>0, <2>2, <2>6, <3>1, TabsResolve
  <2>7. CASE /\ sid # SECSID_NULL /\ Return(t) /\ UNCHANGED tabs
             /\ issued' = issued \cup {<<sid, l.ctx.name>>}
    <3>1. Means(CurTab, <<sid, l.ctx.name>>)
      <4>1. CASE g = pol[cur].tab
        <5>1. s = CurTab
          BY <4>1 DEF CurTab
        <5> QED BY <2>2, <2>7, <5>1, Found DEF sid
      <4>2. CASE Succeeds(s, CurTab)
        <5>1. s \in Table
          BY <2>2, <4>2 DEF TabsInv, Succeeds
        <5>2. Hashed(s) /\ Len(s.entry) <= Len(CurTab.entry)
              /\ SameNames(s, CurTab, 1 .. Len(s.entry))
          BY <4>2 DEF Succeeds
        <5>3. Means(s, <<sid, l.ctx.name>>)
          BY <2>7, <5>1, <5>2, Lookup DEF Means, sid
        <5>4. Len(s.entry) \in Nat /\ Len(CurTab.entry) \in Nat
          BY <2>2, <5>1, InUse DEF Table
        <5> QED BY <5>2, <5>3, <5>4, SameMeaning
      <4> QED BY <2>2, <4>1, <4>2
    <3>2. task'[t].pc # "locked" /\ \A i \in issued' : i \in issued \/ Means(CurTab, i)
      BY <2>3, <2>7, <3>1
    <3> QED BY <1>0, <2>2, <2>7, <3>2, TabsResolve
  <2>8. CASE /\ ~s.frozen /\ Return(t)
             /\ tabs' = sidtab_insert(tabs, g, l.ctx, target, enforcing)
             /\ issued' = issued \cup {<<index_to_sid(Len(s.entry) + 1), l.ctx.name>>}
    <3>1. g = pol[cur].tab /\ s = CurTab
      BY <2>2, <2>8 DEF Succeeds, CurTab
    <3>2. /\ tabs' = sidtab_insert(tabs, pol[cur].tab, l.ctx,
                         IF CurTab.convert = NULL THEN NULL ELSE task[mutex].image, enforcing)
          /\ issued' = issued \cup {<<index_to_sid(Len(CurTab.entry) + 1), l.ctx.name>>}
      BY <2>8, <3>1 DEF target
    <3> QED BY <1>0, <2>2, <2>3, <2>5, <2>8, <3>2, TabsInsert
  <2> QED BY <2>1, <2>6, <2>7, <2>8
<1> QED BY <1>1, <1>2, <1>3 DEF Label

\* The first table, and the one a conversion starts from.
LEMMA FirstTable ==
    /\ sidtab_init \in Table /\ sidtab_init.convert = NULL /\ Hashed(sidtab_init)
    /\ HashSound(sidtab_init) /\ Covers(sidtab_init, {1})
<1> DEFINE e == <<>>
           h == <<1>>
<1>1. e \in Seq(Context) /\ h \in Seq(Nat) /\ DOMAIN h = {1} /\ h[1] = 1 /\ Len(e) = 0
  OBVIOUS
<1>2. sidtab_init = [entry |-> e, hash |-> h, frozen |-> FALSE, convert |-> NULL]
  BY DEF sidtab_init, SECINITSID_UNLABELED
<1> HIDE DEF e, h
<1>3. /\ sidtab_init.entry = e /\ sidtab_init.hash = h /\ sidtab_init.convert = NULL
      /\ sidtab_init \in Table
  BY <1>1, <1>2 DEF Table
<1>4. 1 .. 0 + 1 = {1} /\ 1 \in {1}
  OBVIOUS
<1> QED BY <1>1, <1>3, <1>4 DEF Hashed, HashSound, Covers

LEMMA CopyStart ==
    ASSUME NEW s \in Table, NEW r,
           r = [sidtab_init EXCEPT !.entry = [i \in DOMAIN s.entry |-> mapped(NULL)]]
    PROVE  /\ r \in Table
           /\ \A S \in Table : S.entry = s.entry => Copying(S, r, 1, Len(s.entry))
<1> DEFINE e == [i \in DOMAIN s.entry |-> mapped(NULL)]
           n == Len(s.entry)
<1>1. n \in Nat /\ DOMAIN s.entry = 1 .. n
  BY DEF Table
<1>2. e \in Seq(Context) /\ Len(e) = n
  <2>1. mapped(NULL) \in Context
    BY DEF mapped, Context
  <2>2. e = [i \in 1 .. n |-> mapped(NULL)]
    BY <1>1
  <2> HIDE DEF n
  <2> QED BY <1>1, <2>1, <2>2
<1>3. r = [sidtab_init EXCEPT !.entry = e]
  OBVIOUS
<1> HIDE DEF e
<1>4. /\ r \in Table /\ r.entry = e /\ r.hash = sidtab_init.hash /\ r.convert = NULL
  BY <1>2, <1>3, FirstTable DEF Table
<1>5. HashSound(r) /\ Covers(r, {1})
  <2>1. \A i \in DOMAIN sidtab_init.hash : sidtab_init.hash[i] = 1
    BY DEF sidtab_init, SECINITSID_UNLABELED
  <2>2. 1 \in 1 .. Len(e) + 1
    BY <1>1, <1>2
  <2> QED BY <1>4, <2>1, <2>2, FirstTable DEF HashSound, Covers
<1>6. ASSUME NEW S \in Table, S.entry = s.entry PROVE Copying(S, r, 1, n)
  <2>1. r # NULL
    BY <1>4, ServerAssumption
  <2>2. n \in 0 .. n /\ 1 \in 1 .. n + 1
    BY <1>1
  <2>3. {i \in 1 .. n : i < 1 \/ i > n} = {}
    BY <1>1
  <2>4. SameNames(S, r, {i \in 1 .. n : i < 1 \/ i > n})
    BY <2>3 DEF SameNames
  <2>5. {1} \cup (n + 2 .. n + 1) = {1}
    BY <1>1
  <2>6. Covers(r, {1} \cup (n + 2 .. n + 1))
    BY <1>5, <2>5
  <2>7. Len(S.entry) = n /\ Len(r.entry) = n
    BY <1>2, <1>4, <1>6
  <2> HIDE DEF n
  <2> QED BY <1>4, <1>5, <2>1, <2>2, <2>4, <2>6, <2>7 DEF Copying
<1> QED BY <1>4, <1>6

\* A table that points to the one built from it, or no longer.
LEMMA Redirected ==
    ASSUME NEW s \in Table, NEW x \in Seqs \cup {NULL}, NEW g, g = [s EXCEPT !.convert = x]
    PROVE  /\ g \in Table /\ g # NULL /\ g.entry = s.entry /\ g.hash = s.hash
           /\ g.frozen = s.frozen /\ g.convert = x
           /\ Hashed(s) => Hashed(g)
           /\ \A i : Means(s, i) => Means(g, i)
<1>1. /\ g \in Table /\ g.entry = s.entry /\ g.hash = s.hash /\ g.frozen = s.frozen
      /\ g.convert = x
  BY DEF Table
<1>2. g # NULL
  BY <1>1, ServerAssumption
<1> QED BY <1>1, <1>2 DEF Hashed, HashSound, Covers, Means, ContextOf

\* The step of an administrator who owns policy_mutex and does not install a policy.
LEMMA TabsOwner ==
    ASSUME TypeInv, TabsInv, NEW a \in Admins, \A u \in Tasks : u # a => task'[u] = task[u],
           mutex = a, task[a].pc # "sync", UNCHANGED <<pol, cur, issued>>,
           tabs' \in [Seqs -> Table \cup {NULL}], TabOf(a)',
           cur # 0 => /\ CurTab' # NULL /\ Hashed(CurTab)'
                      /\ CurTab' \in Table
                      /\ CurTab'.entry = CurTab.entry
                      /\ CurTab'.convert # NULL =>
                           task'[a].pc \in {"convert", "nodes", "commit"}
    PROVE  TabsInv'
<1>1. \A t \in Labellers : task[t].pc = "locked" => task[t].policy = cur
  BY Alone DEF TabsInv
<1>2. cur # 0 => \A i \in issued : Means(CurTab', i)
  BY InUse DEF Means, ContextOf
<1>3. cur = 0 => issued = {}
  BY DEF TabsInv
<1>4. cur # 0 => pol[cur].tab <= cur
  BY InUse
<1>5. CurTab' = tabs'[pol'[cur'].tab]
  BY DEF CurTab
<1>6. cur # 0 => Hashed(CurTab')
  OBVIOUS
<1> QED BY <1>1, <1>2, <1>3, <1>4, <1>5, <1>6, TabsAdmin

\* The policy is read, and the table of the new one begun.
LEMMA TabsLoadPolicy ==
    ASSUME TypeInv, TabsInv, NEW a \in Admins, security_load_policy(a),
           \A u \in Tasks : u # a => task'[u] = task[u]
    PROVE  TabsInv'
<1> USE Kinds
<1>1. /\ task[a].pc = "load" /\ mutex = a /\ SameLoad(a) /\ task'[a].pos = task[a].pos
      /\ UNCHANGED <<pol, cur, issued>>
  BY LoadMoves DEF security_load_policy
<1>2. /\ task[a].seq = cur + 1 /\ task[a].seq \in Seqs /\ task[a].pos = 1
      /\ task'[a].seq = task[a].seq
  BY <1>1, AdminShape DEF Progress, Loading, LoadTask, SameLoad, TabsInv, TabOf
<1>3. tabs \in [Seqs -> Table \cup {NULL}]
  BY DEF TabsInv
<1>4. CASE cur = 0
  <2>1. task'[a].pc = "nodes" /\ tabs' = [tabs EXCEPT ![task[a].seq] = sidtab_init]
    BY <1>4, LoadMoves DEF security_load_policy
  <2>2. tabs' \in [Seqs -> Table \cup {NULL}] /\ tabs'[task[a].seq] = sidtab_init
    BY <1>2, <1>3, <2>1, FirstTable
  <2>3. sidtab_init # NULL
    BY FirstTable, ServerAssumption
  <2>4. TabOf(a)'
    BY <1>1, <1>2, <1>4, <2>1, <2>2, <2>3, FirstTable DEF TabOf
  <2> QED BY <1>1, <1>4, <2>2, <2>4, TabsOwner
<1>5. CASE cur # 0
  <2> DEFINE g == pol[cur].tab
             s == CurTab
             q == task[a].seq
             r == [sidtab_init EXCEPT !.entry = [i \in DOMAIN s.entry |-> mapped(NULL)]]
             S == [s EXCEPT !.convert = q]
  <2>1. /\ task'[a].pc = "convert" /\ task'[a].count = Len(s.entry)
        /\ tabs' = sidtab_convert(tabs, g, q)
    BY <1>5, LoadMoves DEF security_load_policy, CurTab
  <2>2. /\ g \in Seqs /\ s \in Table /\ Hashed(s) /\ tabs[g] = s /\ q \in Seqs
    BY <1>2, <1>5, InUse DEF CurTab
  <2>3. g # q
    BY <1>2, <1>5, InUse DEF Seqs
  <2>4. /\ tabs'[q] = r /\ tabs'[g] = S
        /\ \A x \in Seqs : x # g /\ x # q => tabs'[x] = tabs[x]
        /\ tabs' = [x \in Seqs |-> tabs'[x]]
    <3>1. tabs' = [[tabs EXCEPT ![q] = r] EXCEPT ![g].convert = q]
      BY <2>1, <2>2 DEF sidtab_convert
    <3> HIDE DEF r, q, g, s
    <3> DEFINE t1 == [tabs EXCEPT ![q] = r]
    <3>2. /\ t1 = [x \in Seqs |-> t1[x]] /\ t1[g] = s /\ t1[q] = r
          /\ \A x \in Seqs : x # q => t1[x] = tabs[x]
      BY <1>3, <2>2, <2>3
    <3> HIDE DEF t1
    <3>3. /\ tabs' = [x \in Seqs |-> tabs'[x]] /\ tabs'[g] = [t1[g] EXCEPT !.convert = q]
          /\ \A x \in Seqs : x # g => tabs'[x] = t1[x]
      BY <2>2, <3>1, <3>2 DEF t1
    <3> QED BY <2>2, <2>3, <3>2, <3>3
  <2> HIDE DEF g, s, q, r, S
  <2>5. r \in Table /\ \A T \in Table : T.entry = s.entry => Copying(T, r, 1, Len(s.entry))
    BY <2>2, CopyStart DEF r
  <2>6. /\ S \in Table /\ S # NULL /\ S.entry = s.entry /\ S.convert = q /\ Hashed(S)
    BY <2>2, Redirected DEF S
  <2>7. CurTab' = S
    BY <1>1, <2>4 DEF CurTab, g
  <2>8. \A x \in Seqs : tabs'[x] \in Table \cup {NULL}
    BY <1>3, <2>4, <2>5, <2>6
  <2>9. tabs' \in [Seqs -> Table \cup {NULL}]
    BY <2>4, <2>8
  <2>10. TabOf(a)'
    <3>1. Copying(S, r, 1, Len(s.entry))
      BY <2>5, <2>6
    <3>2. /\ task'[a].seq = q /\ tabs'[q] = r /\ task'[a].pos = 1
          /\ task'[a].count = Len(s.entry) /\ task'[a].pc = "convert"
      BY <1>1, <1>2, <2>1, <2>4 DEF q, s
    <3> QED BY <2>6, <2>7, <3>1, <3>2 DEF TabOf
  <2> QED BY <1>1, <2>1, <2>6, <2>7, <2>9, <2>10, TabsOwner DEF s
<1> QED BY <1>4, <1>5

LEMMA CopyEntry ==
    ASSUME NEW s \in Table, NEW r \in Table, NEW pos, NEW count, Copying(s, r, pos, count),
           pos <= count, NEW c \in Context, c.name = s.entry[pos].name,
           NEW R, R = [r EXCEPT !.entry = [r.entry EXCEPT ![pos] = c]]
    PROVE  R \in Table /\ Copying(s, R, pos + 1, count)
<1> DEFINE n == Len(s.entry)
           e == [r.entry EXCEPT ![pos] = c]
<1>1. /\ r.convert = NULL /\ Len(r.entry) = n /\ count \in 0 .. n /\ pos \in 1 .. count + 1
      /\ SameNames(s, r, {i \in 1 .. n : i < pos \/ i > count})
      /\ HashSound(r) /\ Covers(r, {1} \cup (count + 2 .. n + 1)) /\ n \in Nat
  BY DEF Copying, Table
<1>2. r.entry \in Seq(Context) /\ DOMAIN r.entry = 1 .. n /\ pos \in 1 .. n
  BY <1>1 DEF Table
<1>3. /\ e \in Seq(Context) /\ Len(e) = n /\ e[pos] = c
      /\ \A i \in 1 .. n : i # pos => e[i] = r.entry[i]
  BY <1>1, <1>2
<1> HIDE DEF e
<1>4. /\ R \in Table /\ R.entry = e /\ R.hash = r.hash /\ R.convert = NULL
  <2>1. R = [r EXCEPT !.entry = e]
    BY DEF e
  <2> QED BY <1>1, <1>3, <2>1 DEF Table
<1>5. R # NULL
  BY <1>4, ServerAssumption
<1>6. SameNames(s, R, {i \in 1 .. n : i < pos + 1 \/ i > count})
  <2> SUFFICES ASSUME NEW i \in 1 .. n, i < pos + 1 \/ i > count
               PROVE  R.entry[i].name = s.entry[i].name
    BY DEF SameNames
  <2>1. CASE i = pos
    BY <1>3, <1>4, <2>1
  <2>2. CASE i # pos
    <3>1. i < pos \/ i > count
      BY <1>1, <2>2
    <3>2. r.entry[i].name = s.entry[i].name
      BY <1>1, <3>1 DEF SameNames
    <3> QED BY <1>3, <1>4, <2>2, <3>2
  <2> QED BY <2>1, <2>2
<1>7. HashSound(R) /\ Covers(R, {1} \cup (count + 2 .. n + 1))
  BY <1>1, <1>3, <1>4 DEF HashSound, Covers
<1>8. pos + 1 \in 1 .. count + 1
  BY <1>1
<1>9. Len(R.entry) = n
  BY <1>3, <1>4
<1> HIDE DEF n
<1>10. Copying(s, R, pos + 1, count)
  BY <1>1, <1>4, <1>5, <1>6, <1>7, <1>8, <1>9 DEF Copying, n
<1> QED BY <1>4, <1>10

LEMMA CopyEnd ==
    ASSUME NEW s \in Table, NEW r \in Table, NEW pos, NEW count, Copying(s, r, pos, count),
           ~(pos <= count),
           NEW R, R = [r EXCEPT !.hash = [i \in 1 .. count |-> index_to_sid(count + 1 - i)] \o r.hash]
    PROVE  R \in Table /\ Copied(s, R)
<1> DEFINE n == Len(s.entry)
<1>1. /\ r.convert = NULL /\ Len(r.entry) = n /\ count \in 0 .. n /\ pos \in 1 .. count + 1
      /\ SameNames(s, r, {i \in 1 .. n : i < pos \/ i > count})
      /\ HashSound(r) /\ Covers(r, {1} \cup (count + 2 .. n + 1)) /\ n \in Nat
  BY DEF Copying, Table
<1>2. count \in Nat /\ count <= Len(r.entry)
  BY <1>1
<1>3. Covers(r, {1} \cup (count + 2 .. Len(r.entry) + 1))
  BY <1>1
<1>4. /\ R \in Table /\ R.entry = r.entry /\ R.convert = r.convert /\ Hashed(R)
  BY <1>1, <1>2, <1>3, ConvertedHash
<1>5. {i \in 1 .. n : i < pos \/ i > count} = 1 .. n
  BY <1>1
<1>6. SameNames(s, R, 1 .. n)
  BY <1>1, <1>4, <1>5 DEF SameNames
<1>7. R # NULL
  BY <1>4, ServerAssumption
<1> QED BY <1>1, <1>4, <1>6, <1>7 DEF Copied

\* The table in use stays as it is while another one is built.
LEMMA TabsBuild ==
    ASSUME TypeInv, TabsInv, NEW a \in Admins, \A u \in Tasks : u # a => task'[u] = task[u],
           Converting(a), cur # 0, UNCHANGED <<pol, cur, issued>>,
           NEW R \in Table, tabs' = [tabs EXCEPT ![task[a].seq] = R],
           task'[a].pc \in {"convert", "nodes"}, task'[a].seq = task[a].seq,
           IF task'[a].pc = "convert" THEN Copying(CurTab, R, task'[a].pos, task'[a].count)
           ELSE Copied(CurTab, R)
    PROVE  TabsInv'
<1>1. /\ mutex = a /\ CurTab.convert = task[a].seq /\ task[a].seq \in Seqs
      /\ task[a].seq # pol[cur].tab
  BY Target
<1>2. /\ tabs' \in [Seqs -> Table \cup {NULL}] /\ tabs'[task[a].seq] = R
      /\ tabs'[pol[cur].tab] = tabs[pol[cur].tab]
  BY <1>1 DEF TabsInv
<1>3. CurTab' = CurTab /\ CurTab \in Table /\ CurTab # NULL /\ Hashed(CurTab)
  BY <1>2, InUse DEF CurTab
<1>4. TabOf(a)'
  BY <1>1, <1>2, <1>3 DEF TabOf, Converting
<1>5. Hashed(CurTab)' /\ CurTab' # NULL
  BY <1>3
<1> QED BY <1>1, <1>2, <1>3, <1>4, <1>5, TabsOwner DEF Converting

LEMMA TabsConvert ==
    ASSUME TypeInv, TabsInv, NEW a \in Admins, convert_entry(a) \/ convert_done(a),
           \A u \in Tasks : u # a => task'[u] = task[u]
    PROVE  TabsInv'
<1> DEFINE q == task[a].seq
           s == CurTab
           r == tabs[q]
           pos == task[a].pos
           count == task[a].count
<1>1. task[a].pc = "convert" /\ Converting(a) /\ cur # 0
  BY LoadMoves, AdminShape DEF Converting, Progress
<1>2. /\ q \in Seqs /\ q # pol[cur].tab /\ r \in Table /\ s \in Table
      /\ tabs \in [Seqs -> Table \cup {NULL}]
  BY <1>1, Target, InUse DEF TabsInv
<1>3. Copying(s, r, pos, count)
  BY <1>1 DEF TabsInv, TabOf
<1>4. CASE convert_entry(a)
  <2> DEFINE c == services_convert_context(task[a].image, s.entry[pos], enforcing)
             e == [r.entry EXCEPT ![pos] = c]
             R == [r EXCEPT !.entry = e]
  <2>1. /\ task'[a].pc = "convert" /\ task'[a].pos = pos + 1 /\ task'[a].count = count
        /\ task'[a].seq = q /\ UNCHANGED <<pol, cur, issued>> /\ pos <= count
        /\ tabs' = sidtab_convert_tree(tabs, pol[cur].tab, q, pos, task[a].image, enforcing)
    BY <1>4, LoadMoves DEF convert_entry, SameLoad
  <2>2. s.entry[pos] \in Context
    <3>1. s.entry \in Seq(Context) /\ pos \in 1 .. Len(s.entry)
      BY <1>2, <1>3, <2>1 DEF Copying, Table
    <3> QED BY <3>1
  <2>3. c \in Context /\ c.name = s.entry[pos].name
    BY <2>2, Converted
  <2>4. tabs' = [tabs EXCEPT ![q] = R]
    <3>1. tabs' = [tabs EXCEPT ![q].entry[pos] = c]
      BY <2>1 DEF sidtab_convert_tree, CurTab
    <3> HIDE DEF c, q, r, pos
    <3>2. tabs' = [tabs EXCEPT ![q] = [tabs[q] EXCEPT !.entry = [tabs[q].entry EXCEPT ![pos] = c]]]
      BY <1>2, <3>1
    <3> QED BY <3>2 DEF r
  <2> HIDE DEF c
  <2>5. R \in Table /\ Copying(s, R, pos + 1, count)
    <3> HIDE DEF q, s, r, pos, count
    <3> QED BY <1>2, <1>3, <2>1, <2>3, CopyEntry
  <2> HIDE DEF R
  <2> QED BY <1>1, <2>1, <2>4, <2>5, TabsBuild
<1>5. CASE convert_done(a)
  <2> DEFINE h == [i \in 1 .. count |-> index_to_sid(count + 1 - i)]
             R == [r EXCEPT !.hash = h \o r.hash]
  <2>1. /\ task'[a].pc = "nodes" /\ task'[a].seq = q /\ UNCHANGED <<pol, cur, issued>>
        /\ tabs' = sidtab_convert_hashtable(tabs, q, count)
    BY <1>5, LoadMoves DEF convert_done, SameLoad
  <2>2. ~(pos <= count)
    <3>1. pos > count /\ pos \in Int /\ count \in Int
      BY <1>3, <1>5 DEF convert_done, Copying
    <3> QED BY <3>1
  <2>3. tabs' = [tabs EXCEPT ![q] = R]
    <3>1. tabs' = [tabs EXCEPT ![q].hash = h \o tabs[q].hash]
      BY <2>1 DEF sidtab_convert_hashtable
    <3> HIDE DEF h, q
    <3> QED BY <1>2, <3>1
  <2>4. R \in Table /\ Copied(s, R)
    <3> HIDE DEF q, s, r, pos, count
    <3> QED BY <1>2, <1>3, <2>2, CopyEnd
  <2> HIDE DEF R
  <2> QED BY <1>1, <2>1, <2>3, <2>4, TabsBuild
<1> QED BY <1>4, <1>5

\* The new table goes when something failed.
LEMMA TabsFails ==
    ASSUME TypeInv, TabsInv, NEW a \in Admins, load_fails(a),
           \A u \in Tasks : u # a => task'[u] = task[u]
    PROVE  TabsInv'
<1> USE Kinds
<1>0. /\ task[a].pc \in {"load", "convert", "nodes"} /\ mutex = a /\ LoadTask(task[a])
      /\ UNCHANGED <<pol, cur, issued>>
  BY LoadMoves DEF load_fails
<1>1. task[a].seq = cur + 1 /\ task[a].seq \in Seqs /\ cur \in Nat
  <2>1. cur \in Nat
    BY DEF TypeInv, VarsOK
  <2>2. task[a].seq = cur + 1
    BY <1>0, AdminShape DEF Progress
  <2> QED BY <1>0, <2>1, <2>2 DEF LoadTask
<1>2. CASE cur = 0 /\ task[a].pc = "nodes"
  <2>1. task'[a].pc = "oops" /\ UNCHANGED tabs
    <3>1. Goto(a, "oops") /\ UNCHANGED tabs
      BY <1>2 DEF load_fails
    <3> QED BY <1>0, <3>1, LoadGoto DEF Loading
  <2>2. TabOf(a)'
    BY <2>1 DEF TabOf, Converting
  <2> QED BY <1>0, <1>2, <2>1, <2>2, TabsQuiet
<1>3. CASE ~(cur = 0 /\ task[a].pc = "nodes")
  <2> DEFINE q == task[a].seq
             g == pol[cur].tab
             S == [tabs[g] EXCEPT !.convert = NULL]
  <2>1. /\ Return(a)
        /\ tabs' = [x \in Seqs |-> IF x = q THEN NULL
                          ELSE IF cur # 0 /\ x = g THEN sidtab_cancel_convert(tabs, x)[x]
                          ELSE tabs[x]]
    BY <1>3 DEF load_fails
  <2>2. task'[a].pc = "idle"
    BY <2>1, Kinds DEF Return, idle, TypeInv, TaskOK
  <2>3. TabOf(a)'
    BY <2>2 DEF TabOf, Converting
  <2>4. tabs \in [Seqs -> Table \cup {NULL}]
    BY DEF TabsInv
  <2>5. cur # 0 => g \in Seqs /\ tabs[g] \in Table /\ Hashed(tabs[g]) /\ g # q
    BY <1>1, InUse DEF CurTab, Seqs
  <2>6. cur # 0 => sidtab_cancel_convert(tabs, g)[g] = S
    BY <2>4, <2>5 DEF sidtab_cancel_convert
  <2>7. cur # 0 => /\ S \in Table /\ S # NULL /\ S.entry = tabs[g].entry /\ S.convert = NULL
                   /\ Hashed(S)
    BY <2>5, Redirected
  <2> HIDE DEF q, g, S
  <2>8. \A x \in Seqs : tabs'[x] \in Table \cup {NULL}
    BY <2>1, <2>4, <2>6, <2>7
  <2>9. tabs' \in [Seqs -> Table \cup {NULL}]
    BY <2>1, <2>8
  <2>10. cur # 0 => CurTab' = S
    BY <1>0, <2>1, <2>5, <2>6 DEF CurTab, g
  <2>11. cur # 0 => /\ CurTab' # NULL /\ Hashed(CurTab)' /\ CurTab' \in Table
                    /\ CurTab'.entry = CurTab.entry /\ CurTab'.convert = NULL
    BY <2>7, <2>10 DEF CurTab, g
  <2> QED BY <1>0, <2>3, <2>9, <2>11, TabsOwner
<1> QED BY <1>2, <1>3

\* The new table takes the place of the one it was built from.
LEMMA TabsCommit ==
    ASSUME TypeInv, TabsInv, NEW a \in Admins, selinux_policy_commit(a),
           \A u \in Tasks : u # a => task'[u] = task[u]
    PROVE  TabsInv'
<1> USE Kinds
<1> DEFINE q == task[a].seq
           g == pol[cur].tab
           r == tabs[q]
           S == [[tabs[g] EXCEPT !.frozen = TRUE] EXCEPT !.convert = NULL]
<1>0. /\ task[a].pc = "commit" /\ mutex = a /\ cur' = q /\ q = cur + 1 /\ q \in Seqs
      /\ cur \in Nat /\ UNCHANGED issued /\ cur' # 0
      /\ pol'[q] = [image |-> task[a].image, bools |-> task[a].bools, tab |-> q]
      /\ \A s \in Seqs : s # q => pol'[s] = pol[s]
  BY Commit
<1>1. task'[a] = [pc |-> "sync", mode |-> "policy", todo |-> NetKinds, old |-> cur,
                  keep |-> FALSE]
  BY LoadMoves
<1>2. tabs' = IF cur = 0 THEN tabs ELSE sidtab_freeze_begin(tabs, g)
  BY DEF selinux_policy_commit
<1>3. tabs \in [Seqs -> Table \cup {NULL}] /\ TabOf(a) /\ pol'[cur'].tab = q
  BY <1>0 DEF TabsInv
<1>4. /\ task'[a].pc = "sync" /\ task'[a].old = cur /\ ~task'[a].keep
  BY ONLY <1>1
<1>5. \A t \in Labellers : task[t].pc = "locked" => task[t].policy = cur
  BY <1>0, Alone DEF TabsInv
<1>6. CASE cur = 0
  <2>1. r # NULL /\ r.convert = NULL /\ Hashed(r) /\ issued = {}
    BY <1>0, <1>3, <1>6 DEF TabOf, TabsInv
  <2>2. UNCHANGED tabs
    BY <1>2, <1>6
  <2>3. tabs'[pol'[cur'].tab] = r
    BY <1>3, <2>2
  <2>4. TabOf(a)'
    BY <1>4, <1>6 DEF TabOf, Converting
  <2> HIDE DEF q, r
  <2>5. cur' <= cur'
    BY <1>0
  <2> QED BY <1>0, <1>3, <1>4, <1>5, <1>6, <2>1, <2>2, <2>3, <2>4, <2>5, TabsAdmin
<1>7. CASE cur # 0
  <2>1. /\ g \in Seqs /\ tabs[g] \in Table /\ Hashed(tabs[g]) /\ g <= cur /\ CurTab = tabs[g]
        /\ cur \in Seqs /\ \A i \in issued : Means(tabs[g], i)
    BY <1>7, InUse DEF CurTab
  <2>2. g # q /\ g < q /\ cur # q
    <3>1. g \in Nat
      BY <2>1 DEF Seqs
    <3> QED BY <1>0, <2>1, <3>1
  <2>3. Copied(tabs[g], r)
    BY <1>0, <1>3, <1>7, <2>1 DEF TabOf
  <2>4. r \in Table
    BY <1>0, <1>3, <2>3 DEF Copied
  <2>5. /\ tabs' = [x \in Seqs |-> tabs'[x]] /\ tabs'[g] = S
        /\ \A x \in Seqs : x # g => tabs'[x] = tabs[x]
    <3> DEFINE T == [tabs[g] EXCEPT !.frozen = TRUE]
    <3> DEFINE t1 == [tabs EXCEPT ![g] = T]
    <3>1. tabs' = [t1 EXCEPT ![g].convert = NULL]
      BY <1>2, <1>7 DEF sidtab_freeze_begin
    <3>2. /\ t1 = [x \in Seqs |-> t1[x]] /\ t1[g] = T
          /\ \A x \in Seqs : x # g => t1[x] = tabs[x]
      BY <1>3, <2>1
    <3> HIDE DEF t1, T, g
    <3>3. /\ tabs' = [x \in Seqs |-> tabs'[x]] /\ tabs'[g] = [t1[g] EXCEPT !.convert = NULL]
          /\ \A x \in Seqs : x # g => tabs'[x] = t1[x]
      BY <2>1, <3>1, <3>2
    <3> QED BY <3>2, <3>3 DEF T
  <2>6. /\ S \in Table /\ S # NULL /\ S.entry = tabs[g].entry /\ S.convert = NULL /\ S.frozen
        /\ Hashed(S)
    <3> DEFINE T == [tabs[g] EXCEPT !.frozen = TRUE]
    <3>1. /\ T \in Table /\ T.entry = tabs[g].entry /\ T.hash = tabs[g].hash /\ T.frozen
      BY <2>1 DEF Table
    <3>2. Hashed(T)
      BY <2>1, <3>1 DEF Hashed, HashSound, Covers
    <3>3. S = [T EXCEPT !.convert = NULL]
      OBVIOUS
    <3> HIDE DEF T, S
    <3>4. /\ S \in Table /\ S # NULL /\ S.entry = T.entry /\ S.frozen = T.frozen
          /\ S.convert = NULL /\ Hashed(S)
      <4>1. T \in Table /\ Hashed(T) /\ NULL \in Seqs \cup {NULL}
        BY <3>1, <3>2
      <4> QED BY ONLY <3>3, <4>1, Redirected
    <3> QED BY <3>1, <3>4
  <2>7. Len(tabs[g].entry) \in Nat /\ Len(r.entry) \in Nat
    BY <2>1, <2>4 DEF Table
  <2> HIDE DEF S
  <2>8. Succeeds(S, r)
    BY <2>3, <2>6, <2>7 DEF Succeeds, Copied, SameNames
  <2>9. \A i \in issued' : Means(r, i)
    <3>1. Len(tabs[g].entry) <= Len(r.entry) /\ SameNames(tabs[g], r, 1 .. Len(tabs[g].entry))
      BY <2>3, <2>7 DEF Copied
    <3> QED BY <1>0, <2>1, <2>7, <3>1, SameMeaning
  <2>10. tabs' \in [Seqs -> Table \cup {NULL}]
    <3>1. \A x \in Seqs : tabs'[x] \in Table \cup {NULL}
      BY <1>3, <2>5, <2>6
    <3> QED BY <2>5, <3>1
  <2>11. tabs'[pol'[cur'].tab] = r /\ CurTab' = r
    BY <1>0, <1>3, <2>2, <2>5 DEF CurTab
  <2>12. pol'[cur].tab = g
    <3>1. \A s \in Seqs : s # q => pol'[s] = pol[s]
      BY <1>0
    <3> HIDE DEF q
    <3> QED BY <2>1, <2>2, <3>1
  <2>13. TabOf(a)'
    <3>1. pol'[task'[a].old].tab = g /\ tabs'[g] = S
      BY <1>4, <2>5, <2>12
    <3> HIDE DEF g, q, r
    <3> QED BY <1>3, <1>4, <2>2, <2>8, <2>11, <3>1 DEF TabOf, Converting
  <2>14. r # NULL /\ Hashed(r) /\ r.convert = NULL
    BY <2>3 DEF Copied
  <2> HIDE DEF r, q
  <2>15. cur' <= cur'
    BY <1>0
  <2> QED BY <1>0, <1>3, <1>4, <1>5, <2>9, <2>10, <2>11, <2>13, <2>14, <2>15, TabsAdmin
<1> QED BY <1>6, <1>7

\* A commit of booleans keeps the table.
LEMMA TabsBools ==
    ASSUME TypeInv, TabsInv, NEW a \in Admins, security_set_bools(a),
           \A u \in Tasks : u # a => task'[u] = task[u]
    PROVE  TabsInv'
<1> USE Kinds
<1>0. /\ cur # 0 /\ mutex = NULL /\ cur' = cur + 1 /\ cur < who.changes
      /\ UNCHANGED <<tabs, issued>>
      /\ pol' = [pol EXCEPT ![cur + 1] = [pol[cur] EXCEPT !.bools =
                    [b \in DOMAIN pol[cur].bools |-> IF b \in DOMAIN pending THEN pending[b]
                                                    ELSE pol[cur].bools[b]]]]
  BY DEF security_set_bools
<1>1. /\ cur \in Seqs /\ pol[cur] \in Policy /\ pol[cur].tab <= cur /\ pol[cur].tab \in Seqs
      /\ CurTab # NULL /\ Hashed(CurTab) /\ \A i \in issued : Means(CurTab, i)
  BY <1>0, InUse
<1>2. cur + 1 \in Seqs /\ cur \in Nat /\ pol[cur].tab \in Nat
  BY <1>0, <1>1, NewSeq DEF Seqs
<1>3. pol'[cur + 1].tab = pol[cur].tab /\ pol'[cur] = pol[cur]
  <2>1. pol = [s \in Seqs |-> pol[s]] /\ cur # cur + 1
    BY <1>2 DEF TypeInv, VarsOK
  <2>2. \A x, h : h = [pol[cur] EXCEPT !.bools = x] => h.tab = pol[cur].tab
    BY <1>1 DEF Policy
  <2> QED BY <1>0, <1>1, <1>2, <2>1, <2>2
<1>4. /\ task'[a] = [pc |-> "sync", mode |-> "policy", todo |-> NetKinds, old |-> cur,
                     keep |-> TRUE]
  BY NotifyMoves
<1>5. task'[a].pc = "sync" /\ task'[a].old = cur /\ task'[a].keep
  BY ONLY <1>4
<1>6. CurTab.convert = NULL /\ \A t \in Labellers : task[t].pc = "locked" => task[t].policy = cur
  BY <1>0, Alone DEF TabsInv, Loading, Converting
<1>7. TabOf(a)'
  BY <1>0, <1>3, <1>5 DEF TabOf, Converting
<1>8. tabs'[pol'[cur'].tab] = CurTab /\ pol'[cur'].tab <= cur' /\ cur' # 0
  BY <1>0, <1>1, <1>2, <1>3 DEF CurTab
<1>9. tabs' \in [Seqs -> Table \cup {NULL}]
  BY <1>0 DEF TabsInv
<1>10. \A i \in issued' : Means(CurTab, i)
  BY <1>0, <1>1
<1> QED BY <1>0, <1>1, <1>5, <1>6, <1>7, <1>8, <1>9, <1>10, TabsAdmin

\* The old policy and its table are freed when no task uses them.
LEMMA TabsFree ==
    ASSUME TypeInv, TabsInv, NEW a \in Admins, policy_free(a),
           \A u \in Tasks : u # a => task'[u] = task[u]
    PROVE  TabsInv'
<1> USE Kinds
<1> DEFINE o == task[a].old
<1>0. /\ task[a].pc = "sync" /\ mutex = a /\ task[a] \in SyncTask /\ task'[a].pc = "flush"
  <2>1. /\ task[a].pc = "sync" /\ mutex = a /\ task[a] \in SyncTask
        /\ task'[a] = [pc |-> "flush", mode |-> "policy", value |-> cur, slot |-> 1,
                       todo |-> NetKinds]
    BY NotifyMoves
  <2> QED BY ONLY <2>1
<1>1. /\ UNCHANGED <<cur, issued>>
      /\ o # 0 => Readers(o) = {}
      /\ pol' = [s \in Seqs |-> IF s = o THEN NULL ELSE pol[s]]
      /\ tabs' = [s \in Seqs |-> IF o # 0 /\ ~task[a].keep /\ s = pol[o].tab THEN NULL
                                 ELSE tabs[s]]
  BY DEF policy_free, synchronize_rcu
<1>2. o < cur /\ cur \in Nat /\ cur # 0 /\ o \in Nat
  <2>1. cur \in Nat
    BY DEF TypeInv, VarsOK
  <2>2. o < cur /\ o \in Nat
    BY <1>0, AdminShape DEF Progress, SyncTask
  <2> QED BY <2>1, <2>2
<1>3. /\ cur \in Seqs /\ pol[cur].tab <= cur /\ pol[cur].tab \in Seqs
      /\ CurTab # NULL /\ Hashed(CurTab) /\ \A i \in issued : Means(CurTab, i)
  BY <1>2, InUse
<1>4. pol'[cur] = pol[cur]
  BY <1>1, <1>2, <1>3
<1>5. ~(o # 0 /\ ~task[a].keep /\ pol[cur].tab = pol[o].tab)
  <2>1. pol[cur].tab \in Nat
    BY <1>3 DEF Seqs
  <2> QED BY <1>0, <2>1 DEF TabsInv, TabOf
<1>6. tabs'[pol'[cur'].tab] = CurTab
  BY <1>1, <1>3, <1>4, <1>5 DEF CurTab
<1>7. tabs' \in [Seqs -> Table \cup {NULL}]
  BY <1>1 DEF TabsInv
<1>8. \A t \in Labellers : task[t].pc = "locked" => task[t].policy = cur
  <2> SUFFICES ASSUME NEW t \in Labellers, task[t].pc = "locked", task[t].policy # cur
               PROVE  FALSE
    OBVIOUS
  <2>1. Replaced(task[t].policy)
    BY DEF TabsInv
  <2>2. task[t].policy = o
    BY <1>0, <2>1, Alone DEF Replaced
  <2>3. o # 0
    <3>1. task[t].policy \in Seqs
      BY Shapes DEF TypeInv, LabelTask
    <3> QED BY <2>2, <3>1 DEF Seqs
  <2> QED BY <1>1, <2>2, <2>3 DEF Readers
<1>9. CurTab.convert = NULL
  BY <1>0, <1>2, Alone DEF TabsInv, Converting
<1>10. TabOf(a)'
  BY <1>0 DEF TabOf, Converting
<1> HIDE DEF o
<1>11. cur' = cur /\ cur' # 0 /\ pol'[cur'].tab <= cur'
  BY <1>1, <1>2, <1>3, <1>4
<1>12. \A i \in issued' : Means(CurTab, i)
  BY <1>1, <1>3
<1> QED BY <1>0, <1>3, <1>6, <1>7, <1>8, <1>9, <1>10, <1>11, <1>12, TabsAdmin

LEMMA TabsLoad ==
    ASSUME TypeInv, TabsInv, NEW a \in Admins, Load(a)
    PROVE  TabsInv'
<1> USE Kinds
<1>0. \A u \in Tasks : u # a => task'[u] = task[u]
  BY Frames
<1>1. CASE sel_write_load(a)
  <2>1. UNCHANGED <<pol, cur, tabs, issued>> /\ task[a].pc = "idle"
    BY <1>1, LoadMoves DEF sel_write_load
  <2>2. task'[a].pc = "load" /\ task'[a].pos = 1
    <3>1. PICK image : task'[a] = [pc |-> "load", image |-> image, bools |-> image.bools,
                                   seq |-> cur + 1, pos |-> 1, count |-> 0]
      BY <1>1 DEF sel_write_load, TypeInv, TaskOK
    <3> QED BY ONLY <3>1
  <2>3. TabOf(a)'
    BY <2>2 DEF TabOf, Converting
  <2> QED BY <1>0, <2>1, <2>3, TabsQuiet DEF Converting
<1>2. CASE sel_make_policy_nodes(a)
  <2>1. /\ UNCHANGED <<pol, cur, tabs, issued>> /\ task[a].pc = "nodes"
        /\ task'[a].pc = "commit" /\ task'[a].seq = task[a].seq
    BY <1>2, LoadMoves DEF sel_make_policy_nodes, SameLoad
  <2>2. TabOf(a)
    BY DEF TabsInv
  <2>3. TabOf(a)'
    BY <2>1, <2>2 DEF TabOf, Converting, CurTab
  <2> QED BY <1>0, <2>1, <2>3, TabsQuiet DEF Converting
<1> QED BY <1>0, <1>1, <1>2, TabsLoadPolicy, TabsConvert, TabsFails, TabsCommit DEF Load

LEMMA TabsNotify ==
    ASSUME TypeInv, TabsInv, NEW a \in Admins, Notify(a) \/ sel_write_enforce(a)
    PROVE  TabsInv'
<1> USE Kinds
<1>0. \A u \in Tasks : u # a => task'[u] = task[u]
  BY Frames
<1>1. CASE policy_free(a)
  BY <1>0, <1>1, TabsFree
<1>2. CASE ~policy_free(a)
  <2>1. UNCHANGED <<pol, cur, tabs, issued>>
    BY <1>2 DEF Notify, avc_flush, avc_callbacks, avc_latest_notif_update, status_update_begin,
       status_update_end, sel_write_enforce, policyvars
  <2>2. /\ task[a].pc \in {"idle"} \cup Notifying
        /\ task'[a].pc \in {"idle"} \cup Notifying
    BY <1>2, NotifyMoves DEF Notify, Notifying
  <2>3. TabOf(a)'
    BY <2>2 DEF TabOf, Converting, Notifying
  <2> QED BY <1>0, <2>1, <2>2, <2>3, TabsQuiet DEF Converting, Notifying
<1> QED BY <1>1, <1>2

LEMMA TabsStep == TypeInv /\ TabsInv /\ [Next]_vars => TabsInv'
<1> SUFFICES ASSUME TypeInv, TabsInv, [Next]_vars PROVE TabsInv'
  OBVIOUS
<1> USE Kinds
<1>1. CASE \/ \E t \in Netters : Net(t)
           \/ \E t \in Checkers : Check(t)
  <2>1. UNCHANGED <<pol, cur, tabs, issued>> /\ \A t \in Admins \cup Labellers : task'[t] = task[t]
    BY <1>1, Frames
  <2> QED BY <2>1, TabsFrame
<1>2. ASSUME NEW a \in Admins, security_set_bools(a) PROVE TabsInv'
  <2>1. \A u \in Tasks : u # a => task'[u] = task[u]
    BY <1>2, Frames
  <2> QED BY <1>2, <2>1, TabsBools
<1>3. ASSUME NEW a \in Admins, sel_write_bool(a) PROVE TabsInv'
  BY <1>3, TabsFrame DEF sel_write_bool
<1>4. CASE sel_netif_kill \/ selinux_kernel_status_page \/ UNCHANGED vars
  BY <1>4, TabsFrame DEF sel_netif_kill, selinux_kernel_status_page, vars, policyvars
<1> QED BY <1>1, <1>2, <1>3, <1>4, Steps, TabsLabel, TabsLoad, TabsNotify

LEMMA TabsInit == Init => TabsInv
BY IdleType, Kinds DEF Init, TabsInv, TabOf, Converting, idle

-----------------------------------------------------------------------------
(* What the invariant promises.                                            *)

LEMMA TabsSpec == Spec => [](TypeInv /\ TabsInv)
<1>1. Init => TypeInv /\ TabsInv
  BY TypeInit, TabsInit
<1>2. TypeInv /\ TabsInv /\ [Next]_vars => (TypeInv /\ TabsInv)'
  BY TypeStep, TabsStep
<1> QED BY <1>1, <1>2, PTL DEF Spec

\* The policy that a task found under RCU, and its table, live as long as the
\* task needs them, and so do those in use.
THEOREM PoliciesLive == Spec => []NoStalePolicy
<1>1. TypeInv /\ TabsInv => NoStalePolicy
  <2> SUFFICES ASSUME TypeInv, TabsInv PROVE NoStalePolicy
    OBVIOUS
  <2>1. cur # 0 => pol[cur] # NULL /\ tabs[pol[cur].tab] # NULL
    BY InUse DEF TypeInv, Current, CurTab
  <2>2. ASSUME NEW t \in Labellers, task[t].pc = "locked"
        PROVE  pol[task[t].policy] # NULL /\ tabs[pol[task[t].policy].tab] # NULL
    <3>1. pol[task[t].policy] # NULL
      BY <2>2, LockedTab, ServerAssumption
    <3>2. /\ cur # 0
          /\ \/ pol[task[t].policy].tab = pol[cur].tab
             \/ Succeeds(tabs[pol[task[t].policy].tab], CurTab)
      BY <2>2, LockedTab
    <3> QED BY <2>1, <3>1, <3>2 DEF Succeeds
  <2> QED BY <2>1, <2>2 DEF NoStalePolicy, At
<1> QED BY <1>1, TabsSpec, PTL

\* A SID that was given out keeps its meaning through loads, conversions, failed
\* loads and the changes of other tasks.
THEOREM SidsMeanTheSame == Spec => []SidsKept
<1>1. TypeInv /\ TabsInv => SidsKept
  <2> SUFFICES ASSUME TypeInv, TabsInv, NEW i \in issued, cur # 0
               PROVE  LET s == tabs[pol[cur].tab] IN
                      /\ sidtab_search_core(s, i[1], TRUE).name = i[2]
                      /\ context_to_sid(s, ContextOf(s, i[1])) # SECSID_NULL
    BY DEF SidsKept
  <2>1. /\ CurTab \in Table /\ Hashed(CurTab) /\ Means(CurTab, i)
        /\ Len(CurTab.entry) \in Nat
    BY InUse
  <2>2. i[1] \in 1 .. Len(CurTab.entry) + 1 /\ ContextOf(CurTab, i[1]).name = i[2]
    BY <2>1 DEF Means
  <2>3. context_to_sid(CurTab, ContextOf(CurTab, i[1])) # SECSID_NULL
    BY <2>1, <2>2, Lookup
  <2>4. sidtab_search_core(CurTab, i[1], TRUE) = ContextOf(CurTab, i[1])
    <3>1. i[1] # 0 /\ i[1] - 1 <= Len(CurTab.entry)
      BY <2>1, <2>2
    <3> QED BY <3>1 DEF sidtab_search_core, SECSID_NULL, sid_to_index
  <2> QED BY <2>2, <2>3, <2>4 DEF CurTab
<1> QED BY <1>1, TabsSpec, PTL
=============================================================================
