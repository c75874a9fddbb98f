---------------------------- MODULE SelinuxLabel ----------------------------
(***************************************************************************)
(* The label of an inode (hooks.c): where it comes from when the inode is  *)
(* first met, while the policy is not loaded yet, while another task       *)
(* relabels the file, or after a server declared it out of date; and how   *)
(* selinux_file_open() and selinux_file_permission() rely on it.  The      *)
(* superblock is one of SelinuxMount.  inode_doinit_with_dentry() drops    *)
(* isec->lock to read the label, so it is three steps here: Begin, Fetch   *)
(* and Install.                                                            *)
(***************************************************************************)
EXTENDS Naturals, SelinuxMount

CONSTANTS
    Tasks,
    Confined,   \* the tasks that no policy lets open the file
    Labels,     \* what a file can be relabelled to
    InitLabels, \* what the file has on the medium, NoSid for nothing
    OptsAsked,  \* the options that a mount is tried with
    SbTypes,    \* the file systems
    UsernsTypes,    \* those mounted in a user namespace too
    MaxSeqno    \* bound on the policies loaded

\* SECSID_NULL is nobody's label.
ASSUME LabelAssumption == NoSid \notin Labels /\ TaskSid # NoSid
\* Without mount options none is given; "kept" is not a label either.
ASSUME OptsAssumption ==
    \A o \in OptsAsked : (~o.given => Given(o) = {}) /\ o.root # "kept"

Root == "root"
File == "file_inode"
Inodes == {Root, File}
PathSid == "path"   \* what security_genfs_sid() says of a path
OtherSid == "other" \* the SID of the confined tasks

VARIABLES
    scene,      \* "boot": file systems mounted around the first load of a
                \* policy; "files": a mounted one, files opened across reloads
    loaded,     \* selinux_initialized()
    up,         \* the file system is mounted, its files can be reached
    sb,         \* the security blob of the superblock
    asked,      \* history: the options of the mount that succeeded
    isec,       \* the security blobs of the inodes; listed: on sbsec->isec_head
    xattr,      \* external: the labels on the medium or the server, NoSid if none
    named,      \* external: the inodes that have a dentry
    remote,     \* external: relabelled on the server, the client not told yet
    raced,      \* history: invalidated while a task held a label read or written
                \* before, or relabelled by a call older than the first load
    task,       \* what each task is doing
    file,       \* a struct file of File; checked: the label that open tested
    policy,     \* the labels that the policy lets TaskSid open
    cached,     \* those that the AVC still answers with
    seqno, notif,   \* the policy's number, and avc_policy_seqno()
    load        \* the step of a reload

mountVars == <<scene, up, sb, asked>>
fileVars == <<file, policy, cached, seqno, notif, load>>
vars == <<mountVars, loaded, isec, xattr, named, remote, raced, task, fileVars>>

\* rc: what a label is read with; ret: what labelling the root returned.
Idle == [pc |-> "idle", op |-> "none", ino |-> Root, dentry |-> FALSE, sid |-> NoSid,
         label |-> NoSid, rc |-> "ok", ret |-> "ok", early |-> FALSE]
Sid(t) == IF t \in Confined THEN OtherSid ELSE TaskSid
Closed == [state |-> "closed", by |-> NoSid, sid |-> NoSid, isid |-> NoSid, pseqno |-> 0,
           checked |-> NoSid]

inode_alloc_security == [sid |-> UNLABELED, init |-> "INVALID", listed |-> FALSE]

BootInit ==
    /\ scene = "boot" /\ loaded \in BOOLEAN /\ up = FALSE
    /\ \/ \E type \in SbTypes : sb = selinux_sb_alloc_security(type, FALSE)
       \/ \E type \in UsernsTypes : sb = selinux_sb_alloc_security(type, TRUE)
    /\ isec = [i \in Inodes |-> inode_alloc_security]
    /\ policy = {}
FilesInit ==
    /\ scene = "files" /\ loaded = TRUE /\ up = TRUE
    /\ sb = selinux_set_mnt_opts(TRUE, selinux_sb_alloc_security("ext4", FALSE), UNLABELED,
                                 NoOpts, TRUE).sb
    /\ isec = [i \in Inodes |-> inode_alloc_security]
    /\ policy \in SUBSET Labels
Init ==
    /\ BootInit \/ FilesInit
    /\ asked = NoOpts
    /\ \E l \in InitLabels : xattr = [i \in Inodes |-> IF i = Root THEN NoSid ELSE l]
    /\ named = IF scene = "files" THEN Inodes ELSE {Root}
    /\ remote = {} /\ raced = {}
    /\ task = [t \in Tasks |-> Idle]
    /\ file = Closed /\ cached = policy /\ seqno = 1 /\ notif = 1 /\ load = "idle"

-----------------------------------------------------------------------------
At(t, pc) == task[t].pc = pc
Goto(t, pc) == task' = [task EXCEPT ![t].pc = pc]
Ends(t) == task' = [task EXCEPT ![t] = Idle]
Call(t, op, i, dentry) == [task[t] EXCEPT !.pc = "begin", !.op = op, !.ino = i, !.dentry = dentry]
\* isec->lock is held across the queueing of an inode.
Unlocked(i) == \A u \in Tasks : ~(At(u, "queue") /\ task[u].ino = i)
\* A mount and selinux_complete_init() hold s_umount; attributes are set under
\* the inode's i_rwsem.
Mounting == \E t \in Tasks : task[t].op = "mount"
Setting(i) == \E t \in Tasks : task[t].ino = i /\ task[t].label # NoSid

\* Where the caller of inode_doinit_with_dentry() goes on, after it returned rc.
Continue(op) ==
    CASE op = "mount" -> "drain" [] op = "create" -> "create" [] op = "check" -> "write"
      [] op = "post" -> "set" [] op = "open" -> "save" [] OTHER -> "idle"
Returned(t, rc) ==
    LET next == Continue(task[t].op)
    IN IF next = "idle" THEN Idle
       ELSE [task[t] EXCEPT !.pc = next, !.sid = NoSid,
                            !.rc = "ok",
                            !.ret = IF next = "drain" /\ task[t].ino = Root THEN rc ELSE @]
Return(t, rc) == task' = [task EXCEPT ![t] = Returned(t, rc)]

-----------------------------------------------------------------------------
(* inode_doinit_with_dentry() *)

AlreadyLabelled(t) ==
    /\ At(t, "begin") /\ Unlocked(task[t].ino)
    /\ isec[task[t].ino].init = "INITIALIZED"
    /\ Return(t, "ok")
    /\ UNCHANGED <<mountVars, loaded, isec, xattr, named, remote, raced, fileVars>>

\* The superblock is not set up yet: the inode joins isec_head.  The flag is
\* read before isec_lock is taken.
Defer(t) ==
    /\ At(t, "begin") /\ Unlocked(task[t].ino)
    /\ isec[task[t].ino].init # "INITIALIZED" /\ "init" \notin sb.flags
    /\ Goto(t, "queue")
    /\ UNCHANGED <<mountVars, loaded, isec, xattr, named, remote, raced, fileVars>>
Queue(t) ==
    /\ At(t, "queue")
    /\ isec' = [isec EXCEPT ![task[t].ino].listed = TRUE]
    /\ Return(t, "ok")
    /\ UNCHANGED <<mountVars, loaded, xattr, named, remote, raced, fileVars>>

Begin(t) ==
    /\ At(t, "begin") /\ Unlocked(task[t].ino)
    /\ isec[task[t].ino].init # "INITIALIZED" /\ "init" \in sb.flags
    /\ isec' = [isec EXCEPT ![task[t].ino].init = "PENDING"]
    /\ task' = [task EXCEPT ![t].pc = "fetch", ![t].sid = isec[task[t].ino].sid]
    /\ UNCHANGED <<mountVars, loaded, xattr, named, remote, raced, fileVars>>

Got(rc, sid) == [rc |-> rc, sid |-> sid]
HasDentry(t) == task[t].dentry \/ task[t].ino \in named
\* __vfs_getxattr() may fail; no attribute means the default label.
inode_doinit_use_xattr(i, def) ==
    {Got("error", NoSid), Got("ok", IF xattr[i] = NoSid THEN def ELSE xattr[i])}
selinux_genfs_get_sid == {Got("error", NoSid), Got("ok", PathSid)}

\* The label by the superblock's behaviour: rc and sid; "nodentry" keeps the
\* label invalid.
LabelBy(t) ==
    LET i == task[t].ino
    IN CASE sb.behavior \in {"XATTR", "NATIVE"} ->
              IF ~HasXattr(sb.type) THEN {Got("ok", sb.def)}
              ELSE IF ~HasDentry(t) THEN {Got("nodentry", task[t].sid)}
              ELSE inode_doinit_use_xattr(i, sb.def)
         [] sb.behavior = "TASK" -> {Got("ok", TaskSid)}
         [] sb.behavior = "TRANS" -> {Got("ok", TaskSid), Got("error", NoSid)}
         [] sb.behavior = "MNTPOINT" -> {Got("ok", sb.mntpoint)}
         [] OTHER -> IF "genfs" \notin sb.flags THEN {Got("ok", sb.sid)}
                     ELSE IF ~HasDentry(t) THEN {Got("nodentry", sb.sid)}
                     ELSE selinux_genfs_get_sid
Fetch(t) ==
    /\ At(t, "fetch")
    /\ \E g \in LabelBy(t) :
         task' = [task EXCEPT ![t].pc = "install", ![t].sid = g.sid, ![t].rc = g.rc]
    /\ UNCHANGED <<mountVars, loaded, isec, xattr, named, remote, raced, fileVars>>

\* What the label becomes: rc and sid as fetched.
Labelled(old, rc, sid) ==
    [old EXCEPT !.init = IF rc = "ok" THEN "INITIALIZED" ELSE "INVALID",
                !.sid = IF rc = "error" THEN @ ELSE sid]

\* Mutant: the state is not tested again under the lock.
MutInstalled(t) ==
    [isec EXCEPT ![task[t].ino] = Labelled(@, task[t].rc, task[t].sid)]

\* Only if nobody set or invalidated the label while the lock was not held.
Installed(t) ==
    IF isec[task[t].ino].init # "PENDING" THEN isec
    ELSE [isec EXCEPT ![task[t].ino] = Labelled(@, task[t].rc, task[t].sid)]

Install(t) ==
    /\ At(t, "install") /\ Unlocked(task[t].ino)
    /\ isec' = Installed(t)
    /\ Return(t, IF task[t].rc = "error" THEN "error" ELSE "ok")
    /\ UNCHANGED <<mountVars, loaded, xattr, named, remote, raced, fileVars>>

-----------------------------------------------------------------------------
(* Mounts and the first load of a policy *)

\* The superblock of a mount that failed is destroyed, its inodes with it.
Discard ==
    /\ sb' = selinux_sb_alloc_security(sb.type, sb.userns)
    /\ isec' = [i \in Inodes |-> inode_alloc_security]
    /\ named' = {Root}

\* sb_finish_set_opts() labels the root, unless an option just did.
FinishOpts(t, r) ==
    /\ sb' = r.sb
    /\ isec' = IF r.root = "kept" THEN isec
               ELSE [isec EXCEPT ![Root].sid = r.root, ![Root].init = "INITIALIZED"]
    /\ task' = [task EXCEPT ![t] = Call(t, "mount", Root, TRUE)]

\* selinux_set_mnt_opts() on behalf of mount(2).
Mount(t, o, may) ==
    LET r == selinux_set_mnt_opts(loaded, sb, isec[Root].sid, o, may)
    IN /\ scene = "boot" /\ ~up /\ \A u \in Tasks : At(u, "idle")
       /\ IF r.rc # "ok" THEN Discard /\ UNCHANGED <<task, up, asked>>
          ELSE /\ asked' = o
               /\ IF loaded THEN FinishOpts(t, r) /\ UNCHANGED <<up, named>>
                  ELSE sb' = r.sb /\ up' = TRUE /\ UNCHANGED <<isec, named, task>>
       /\ UNCHANGED <<scene, loaded, xattr, remote, raced, fileVars>>

\* The loop of sb_finish_set_opts() over isec_head.
Drain(t, i) ==
    /\ At(t, "drain") /\ isec[i].listed
    /\ isec' = [isec EXCEPT ![i].listed = FALSE]
    /\ task' = [task EXCEPT ![t] = Call(t, "mount", i, FALSE)]
    /\ UNCHANGED <<mountVars, loaded, xattr, named, remote, raced, fileVars>>
Drained(t) ==
    /\ At(t, "drain") /\ \A i \in Inodes : ~isec[i].listed
    /\ IF ~up /\ task[t].ret # "ok" THEN Discard /\ up' = FALSE
       ELSE up' = TRUE /\ UNCHANGED <<sb, isec, named>>
    /\ Ends(t)
    /\ UNCHANGED <<scene, loaded, asked, xattr, remote, raced, fileVars>>

LoadFirst(t) ==
    /\ ~loaded /\ At(t, "idle")
    /\ loaded' = TRUE
    /\ Goto(t, "complete")
    /\ UNCHANGED <<mountVars, isec, xattr, named, remote, raced, fileVars>>
\* delayed_superblock_init() of the one superblock there may be.
selinux_complete_init(t) ==
    LET r == selinux_set_mnt_opts(TRUE, sb, isec[Root].sid, NoOpts, TRUE)
    IN /\ At(t, "complete") /\ ~Mounting
       /\ IF up /\ "init" \notin sb.flags THEN FinishOpts(t, r)
          ELSE Ends(t) /\ UNCHANGED <<sb, isec>>
       /\ UNCHANGED <<scene, up, asked, loaded, xattr, named, remote, raced, fileVars>>

-----------------------------------------------------------------------------
(* Inodes come and go *)

Reachable == up \/ \A u \in Tasks : At(u, "idle")
Quiet(i) == \A u \in Tasks : At(u, "idle") \/ At(u, "complete") \/ task[u].ino # i

selinux_d_instantiate(t) ==
    /\ At(t, "idle") /\ File \notin named /\ Reachable
    /\ named' = named \cup {File}
    /\ task' = [task EXCEPT ![t] = Call(t, "instantiate", File, TRUE)]
    /\ UNCHANGED <<mountVars, loaded, isec, xattr, remote, raced, fileVars>>
\* external: the dentry is pruned, the inode stays.
Prune ==
    /\ File \in named /\ file.state = "closed"
    /\ \A u \in Tasks : ~(task[u].ino = File /\ task[u].dentry)
    /\ named' = named \ {File}
    /\ UNCHANGED <<mountVars, loaded, isec, xattr, remote, raced, task, fileVars>>

\* inode_security(): __inode_security_revalidate() without a dentry.
inode_security(t, i) ==
    /\ At(t, "idle") /\ up /\ loaded /\ isec[i].init # "INITIALIZED"
    /\ task' = [task EXCEPT ![t] = Call(t, "access", i, FALSE)]
    /\ UNCHANGED <<mountVars, loaded, isec, xattr, named, remote, raced, fileVars>>

\* selinux_determine_inode_label(): c is the task's create_sid.
Determined(c) ==
    IF "init" \in sb.flags /\ sb.behavior = "MNTPOINT" THEN sb.mntpoint
    ELSE IF "label" \in sb.flags /\ c # NoSid THEN c ELSE TaskSid
\* A new file on disk or in memory, after the directory's label is read.
CreateStart(t) ==
    /\ At(t, "idle") /\ up /\ File \notin named /\ sb.type \in {"ext4", "tmpfs"}
    /\ isec[File] = inode_alloc_security /\ xattr[File] = NoSid /\ Quiet(File)
    /\ scene = "boot"
    /\ task' = [task EXCEPT ![t] = IF loaded THEN Call(t, "create", Root, FALSE)
                                   ELSE [@ EXCEPT !.pc = "create", !.op = "create"]]
    /\ UNCHANGED <<mountVars, loaded, isec, xattr, named, remote, raced, fileVars>>
selinux_inode_init_security(t, c) ==
    LET sid == Determined(c)
    IN /\ At(t, "create")
       /\ IF File \in named \/ isec[File] # inode_alloc_security \/ xattr[File] # NoSid
          THEN Ends(t) /\ UNCHANGED <<isec, xattr, named>>  \* lost the race to create it
          ELSE /\ isec' = IF "init" \in sb.flags
                          THEN [isec EXCEPT ![File].sid = sid, ![File].init = "INITIALIZED"]
                          ELSE isec
               /\ xattr' = IF loaded /\ "label" \in sb.flags /\ HasXattr(sb.type)
                           THEN [xattr EXCEPT ![File] = sid] ELSE xattr
               /\ named' = named \cup {File}
               /\ task' = [task EXCEPT ![t] = Call(t, "instantiate", File, TRUE)]
       /\ UNCHANGED <<mountVars, loaded, remote, raced, fileVars>>

\* /proc/pid: the label of the task.
selinux_task_to_inode(t) ==
    /\ At(t, "idle") /\ up /\ sb.type = "proc" /\ Unlocked(File)
    /\ isec' = [isec EXCEPT ![File].sid = TaskSid, ![File].init = "INITIALIZED"]
    /\ UNCHANGED <<mountVars, loaded, xattr, named, remote, raced, task, fileVars>>

-----------------------------------------------------------------------------
(* Relabelling *)

\* selinux_inode_setxattr(): before a policy is loaded only ownership counts;
\* afterwards the label is revalidated and the permissions are tested.
selinux_inode_setxattr(t, l) ==
    /\ At(t, "idle") /\ up /\ File \in named /\ ~Setting(File)
    /\ loaded => "label" \in sb.flags
    /\ task' = [task EXCEPT ![t] =
                  IF loaded THEN [Call(t, "check", File, TRUE) EXCEPT !.label = l]
                  ELSE [@ EXCEPT !.pc = "write", !.op = "check", !.ino = File, !.dentry = TRUE,
                                 !.label = l, !.early = TRUE]]
    /\ UNCHANGED <<mountVars, loaded, isec, xattr, named, remote, raced, fileVars>>
SetxattrDenied(t) ==
    /\ At(t, "write") /\ loaded
    /\ Ends(t)
    /\ UNCHANGED <<mountVars, loaded, isec, xattr, named, remote, raced, fileVars>>
\* external: the file system stores the attribute ...
StoreXattr(t) ==
    /\ At(t, "write") /\ HasXattr(sb.type)
    /\ xattr' = [xattr EXCEPT ![task[t].ino] = task[t].label]
    /\ Goto(t, "post")
    /\ UNCHANGED <<mountVars, loaded, isec, named, remote, raced, fileVars>>
\* ... or has no handler, and the hook keeps the label in memory.
selinux_inode_setsecurity(t) ==
    /\ At(t, "write") /\ ~HasXattr(sb.type) /\ Unlocked(task[t].ino)
    /\ isec' = IF "label" \notin sb.flags THEN isec
               ELSE [isec EXCEPT ![task[t].ino].sid = task[t].label,
                                 ![task[t].ino].init = "INITIALIZED"]
    /\ Ends(t)
    /\ UNCHANGED <<mountVars, loaded, xattr, named, remote, raced, fileVars>>

selinux_inode_post_setxattr(t) ==
    /\ At(t, "post")
    /\ IF ~loaded THEN Ends(t)
       ELSE task' = [task EXCEPT ![t] = Call(t, "post", task[t].ino, TRUE)]
    /\ UNCHANGED <<mountVars, loaded, isec, xattr, named, remote, raced, fileVars>>
PostSet(t) ==
    /\ At(t, "set") /\ Unlocked(task[t].ino)
    /\ isec' = [isec EXCEPT ![task[t].ino].sid = task[t].label,
                            ![task[t].ino].init = "INITIALIZED"]
    /\ raced' = IF task[t].early THEN raced \cup {task[t].ino} ELSE raced
    /\ Ends(t)
    /\ UNCHANGED <<mountVars, loaded, xattr, named, remote, fileVars>>

\* external: another client relabels the file; the server tells this one later,
\* by the new label or by declaring the old one out of date.
ServerRelabel(l) ==
    /\ sb.type = "nfs" /\ up /\ File \notin remote /\ xattr[File] # l
    /\ xattr' = [xattr EXCEPT ![File] = l]
    /\ remote' = remote \cup {File}
    /\ UNCHANGED <<mountVars, loaded, isec, named, raced, task, fileVars>>
HoldsLabel(u) == At(u, "install") \/ At(u, "post") \/ task[u].op = "post"
selinux_inode_notifysecctx(t) ==
    /\ File \in remote /\ "label" \in sb.flags /\ At(t, "idle") /\ ~Setting(File)
    /\ Unlocked(File)
    /\ isec' = [isec EXCEPT ![File].sid = xattr[File], ![File].init = "INITIALIZED"]
    /\ remote' = remote \ {File} /\ raced' = raced \ {File}
    /\ UNCHANGED <<mountVars, loaded, xattr, named, task, fileVars>>
selinux_inode_invalidate_secctx(t) ==
    /\ File \in remote /\ At(t, "idle") /\ Unlocked(File)
    /\ isec' = [isec EXCEPT ![File].init = "INVALID"]
    /\ remote' = remote \ {File}
    /\ raced' = IF \E u \in Tasks : task[u].ino = File /\ HoldsLabel(u)
                THEN raced \cup {File} ELSE raced \ {File}
    /\ UNCHANGED <<mountVars, loaded, xattr, named, task, fileVars>>

-----------------------------------------------------------------------------
(* Open files *)

\* selinux_file_alloc_security(), then selinux_file_open() reads the label ...
selinux_file_open(t) ==
    /\ scene = "files" /\ At(t, "idle") /\ File \in named /\ file.state = "closed"
    /\ file' = [Closed EXCEPT !.state = "opening", !.by = t, !.sid = Sid(t)]
    /\ task' = [task EXCEPT ![t] = Call(t, "open", File, FALSE)]
    /\ UNCHANGED <<mountVars, loaded, isec, xattr, named, remote, raced, policy, cached, seqno,
                   notif, load>>
SaveLabel(t) ==
    /\ At(t, "save")
    /\ file' = [file EXCEPT !.isid = isec[File].sid]
    /\ Goto(t, "seqno")
    /\ UNCHANGED <<mountVars, loaded, isec, xattr, named, remote, raced, policy, cached, seqno,
                   notif, load>>

\* Mutant: the number of the policy, which the AVC may not know of yet.
MutSaveSeqno(t) ==
    /\ At(t, "seqno")
    /\ file' = [file EXCEPT !.pseqno = seqno]
    /\ Goto(t, "recheck")
    /\ UNCHANGED <<mountVars, loaded, isec, xattr, named, remote, raced, policy, cached, seqno,
                   notif, load>>

SaveSeqno(t) ==
    /\ At(t, "seqno")
    /\ file' = [file EXCEPT !.pseqno = notif]
    /\ Goto(t, "recheck")
    /\ UNCHANGED <<mountVars, loaded, isec, xattr, named, remote, raced, policy, cached, seqno,
                   notif, load>>

\* ... and only then asks the AVC, whose answer may be one of the old policy
\* until it is flushed.
Allowed(sid, l, labels) == sid = TaskSid /\ l \in labels
Recheck(t) ==
    /\ At(t, "recheck")
    /\ \E labels \in {policy, cached} :
         file' = IF Allowed(file.sid, isec[File].sid, labels)
                 THEN [file EXCEPT !.state = "open", !.checked = isec[File].sid] ELSE Closed
    /\ Ends(t)
    /\ UNCHANGED <<mountVars, loaded, isec, xattr, named, remote, raced, policy, cached, seqno,
                   notif, load>>
Close ==
    /\ file.state = "open" /\ file' = Closed
    /\ UNCHANGED <<mountVars, loaded, isec, xattr, named, remote, raced, task, policy, cached,
                   seqno, notif, load>>

\* selinux_file_permission() trusts the test of open: task, label and policy are
\* the same.
NoChange(t) ==
    /\ file.state = "open" /\ Sid(t) = file.sid
    /\ file.isid = isec[File].sid /\ file.pseqno = notif

\* A reload: the policy, then the AVC, then the number that open compares.
LoadCommit(labels) ==
    /\ scene = "files" /\ load = "idle" /\ seqno < MaxSeqno
    /\ policy' = labels /\ seqno' = seqno + 1 /\ load' = "flush"
    /\ UNCHANGED <<mountVars, loaded, isec, xattr, named, remote, raced, task, file, cached, notif>>
LoadFlush ==
    /\ load = "flush"
    /\ cached' = policy /\ load' = "notify"
    /\ UNCHANGED <<mountVars, loaded, isec, xattr, named, remote, raced, task, file, policy, seqno,
                   notif>>
LoadNotify ==
    /\ load = "notify"
    /\ notif' = seqno /\ load' = "idle"
    /\ UNCHANGED <<mountVars, loaded, isec, xattr, named, remote, raced, task, file, policy, cached,
                   seqno>>

-----------------------------------------------------------------------------
Next ==
    \/ \E t \in Tasks : AlreadyLabelled(t)
    \/ \E t \in Tasks : Defer(t)
    \/ \E t \in Tasks : Queue(t)
    \/ \E t \in Tasks : Begin(t)
    \/ \E t \in Tasks : Fetch(t)
    \/ \E t \in Tasks : Install(t)
    \/ \E t \in Tasks, o \in OptsAsked, may \in BOOLEAN : Mount(t, o, may)
    \/ \E t \in Tasks, i \in Inodes : Drain(t, i)
    \/ \E t \in Tasks : Drained(t)
    \/ \E t \in Tasks : LoadFirst(t)
    \/ \E t \in Tasks : selinux_complete_init(t)
    \/ \E t \in Tasks : selinux_d_instantiate(t)
    \/ Prune
    \/ \E t \in Tasks, i \in Inodes : inode_security(t, i)
    \/ \E t \in Tasks : CreateStart(t)
    \/ \E t \in Tasks, c \in {NoSid} \cup Labels : selinux_inode_init_security(t, c)
    \/ \E t \in Tasks : selinux_task_to_inode(t)
    \/ \E t \in Tasks, l \in Labels : selinux_inode_setxattr(t, l)
    \/ \E t \in Tasks : SetxattrDenied(t)
    \/ \E t \in Tasks : StoreXattr(t)
    \/ \E t \in Tasks : selinux_inode_setsecurity(t)
    \/ \E t \in Tasks : selinux_inode_post_setxattr(t)
    \/ \E t \in Tasks : PostSet(t)
    \/ \E l \in Labels : ServerRelabel(l)
    \/ \E t \in Tasks : selinux_inode_notifysecctx(t)
    \/ \E t \in Tasks : selinux_inode_invalidate_secctx(t)
    \/ \E t \in Tasks : selinux_file_open(t)
    \/ \E t \in Tasks : SaveLabel(t)
    \/ \E t \in Tasks : SaveSeqno(t)
    \/ \E t \in Tasks : Recheck(t)
    \/ Close
    \/ \E labels \in SUBSET Labels : LoadCommit(labels)
    \/ LoadFlush
    \/ LoadNotify

Spec == Init /\ [][Next]_vars

-----------------------------------------------------------------------------
(* Properties *)

\* The options of the mount that labelled the root say so, not the medium.
RootByOption(i) == i = Root /\ "root" \in sb.flags

\* A label in use is the one on the medium: however the first labelling of an
\* inode, a relabelling, the first load of a policy and an invalidation by the
\* server interleave, an inode that is marked initialized (hooks.c,
\* inode_doinit_with_dentry()) has the label of its attribute, except while a
\* relabelling of it is under way, while the client does not know of the server's
\* change, and after an invalidation that overtook a reload or a
\* relabelling (raced).
LabelFresh ==
    sb.behavior \in {"XATTR", "NATIVE"} /\ HasXattr(sb.type) =>
        \A i \in Inodes :
            \/ isec[i].init # "INITIALIZED" \/ i \in remote \cup raced
            \/ Setting(i) \/ RootByOption(i)
            \/ isec[i].sid = IF xattr[i] = NoSid THEN sb.def ELSE xattr[i]

\* Every file of a context mount has the label of the mount: those met before
\* and after the superblock was set up, the new ones, and those that somebody
\* tried to relabel (SBLABEL_MNT is clear, hooks.c selinux_is_sblabel_mnt()).
\* (Not so for /proc, where selinux_task_to_inode() does not ask, and after a
\* setxattr() that was let through before the first load and ended after it.)
ContextMount ==
    sb.behavior = "MNTPOINT" /\ sb.type # "proc" =>
        \A i \in Inodes :
            \/ isec[i].init # "INITIALIZED" \/ RootByOption(i) \/ i \in raced
            \/ isec[i].sid = sb.mntpoint

\* When selinux_file_permission() skips the test because nothing changed since
\* open, the policy in force allows the access, however policy reloads
\* interleave with the open (hooks.c, selinux_file_open(): "this check is not
\* redundant").  A file relabelled and back between the two halves of open is
\* excepted: open tested another label then.
SkipSound ==
    \A t \in Tasks :
        load = "idle" /\ NoChange(t) /\ file.checked = file.isid
            => Allowed(Sid(t), isec[File].sid, policy)

\* One superblock, several mounts: what was asked for once is granted again by
\* selinux_set_mnt_opts(), by a remount and by the test for sharing the
\* superblock, which agree with each other for every set of options; a clone has
\* the options of the original, and a submount labels its files the same way.
\* (Excepted: an fscontext= that the fall back to labels by path overrode.)
MountAgain ==
    (up /\ "init" \in sb.flags /\ ~Mounting) =>
        LET root == isec[Root].sid
            again(o) == selinux_set_mnt_opts(TRUE, sb, root, o, TRUE).rc = "ok"
            clone == selinux_sb_clone_mnt_opts(sb, root, selinux_sb_alloc_security(sb.type, FALSE))
            sub == selinux_set_mnt_opts(TRUE, selinux_sb_alloc_security(sb.type, FALSE), UNLABELED,
                                        selinux_fs_context_submount(sb), TRUE)
        IN /\ \/ sb.behavior = "GENFS" /\ asked.fs # NoSid
              \/ again(asked) /\ selinux_sb_remount(sb, root, asked) = "ok"
                 /\ selinux_sb_mnt_opts_compat(sb, root, asked)
           /\ \A o \in OptsAsked :
                 ~BinaryMountData(sb.type) => selinux_sb_mnt_opts_compat(sb, root, o) = again(o)
           /\ selinux_cmp_sb_context(sb, root, clone.sb,
                                     IF clone.root = "kept" THEN root ELSE clone.root) = "ok"
           /\ ~sb.userns => sub.rc = "ok" /\ sub.sb.behavior = sb.behavior
                            /\ sub.sb.mntpoint = sb.mntpoint /\ sub.sb.def = sb.def
=============================================================================
