-------------------------- MODULE SelinuxLabelProofs --------------------------
(***************************************************************************)
(* Proofs about SelinuxLabel, for every set of tasks and labels, all mount *)
(* options and file systems, and any number of reloads: labels in use are  *)
(* those of the medium or of the mount, tests that are skipped would have  *)
(* succeeded, and mount options that were accepted are accepted again.     *)
(***************************************************************************)
EXTENDS SelinuxLabel, TLAPS

-----------------------------------------------------------------------------
(* Shapes of records and functions.                                        *)

TaskFields == {"pc", "op", "ino", "dentry", "sid", "label", "rc", "ret", "early"}
SbFields == {"type", "userns", "flags", "behavior", "sid", "def", "mntpoint"}
FileFields == {"state", "by", "sid", "isid", "pseqno", "checked"}

Shapes ==
    /\ DOMAIN task = Tasks /\ \A t \in Tasks : DOMAIN task[t] = TaskFields
    /\ DOMAIN isec = Inodes /\ \A i \in Inodes : DOMAIN isec[i] = {"sid", "init", "listed"}
    /\ DOMAIN xattr = Inodes
    /\ DOMAIN sb = SbFields /\ DOMAIN file = FileFields

\* What a task does, by where it is; only a task that relabels holds a label.
OpOf(pc) ==
    CASE pc = "drain" -> {"mount"} [] pc = "create" -> {"create"}
      [] pc \in {"write", "post"} -> {"check"} [] pc = "set" -> {"post"}
      [] pc \in {"save", "seqno", "recheck"} -> {"open"} [] pc \in {"idle", "complete"} -> {"none"}
      [] pc \in {"begin", "queue", "fetch", "install"} ->
            {"mount", "create", "check", "post", "open", "access", "instantiate"}
      [] OTHER -> {}
TaskOK(t) ==
    /\ task[t].op \in OpOf(task[t].pc)
    /\ task[t].ino \in Inodes
    /\ task[t].label # NoSid <=> task[t].op \in {"check", "post"}
Busy(t) == ~At(t, "idle") /\ ~At(t, "complete")

-----------------------------------------------------------------------------
(* Open files and reloads.                                                 *)

\* A file that is being opened is one task's; a reload is at one step of three;
\* and what open tested is in force until the next policy is.
OpenOK ==
    /\ \A t \in Tasks : task[t].op = "open" => file.state = "opening" /\ file.by = t
    /\ load \in {"idle", "flush", "notify"} /\ notif \in Nat
    /\ seqno = IF load = "idle" THEN notif ELSE notif + 1
    /\ load # "flush" => cached = policy
    /\ file.pseqno \in Nat /\ file.pseqno <= notif
    /\ file.state = "open" /\ load = "idle" /\ file.pseqno = notif =>
          Allowed(file.sid, file.checked, policy)

-----------------------------------------------------------------------------
(* The superblock and its mount.                                           *)

\* A superblock is set up once and not before the policy is loaded; until the
\* file system is mounted, at most one task is at work on it, the one that mounts it
\* or one that instantiates the file.
SbOK ==
    /\ "init" \notin sb.flags => sb.behavior = "unset" /\ sb.flags \subseteq {"native"}
    /\ ~loaded => "init" \notin sb.flags /\ \A t \in Tasks : ~At(t, "complete")
    /\ scene = "files" => up
    /\ loaded \in BOOLEAN /\ up \in BOOLEAN
    /\ "init" \in sb.flags => ("label" \in sb.flags <=> selinux_is_sblabel_mnt(sb))
    /\ ~up => /\ \A t, u \in Tasks : Busy(t) /\ Busy(u) => t = u
              /\ ~Mounting => "init" \notin sb.flags
    /\ up \/ Mounting \/ \A t \in Tasks : task[t].op \in {"none", "instantiate"}

\* Before the superblock is set up, no label is read or put to use, except by a
\* setxattr() from before the load.
EarlyOK ==
    "init" \notin sb.flags =>
       /\ \A t \in Tasks : /\ task[t].pc \notin {"fetch", "install"} /\ task[t].op # "mount"
                           /\ task[t].label # NoSid => task[t].early
       /\ \A i \in Inodes : isec[i].init = "INITIALIZED" /\ sb.type # "proc" => i \in raced

-----------------------------------------------------------------------------
(* Labels.                                                                 *)

Stores(t) == At(t, "post") \/ task[t].op = "post"
Stored(i) == \E t \in Tasks : task[t].ino = i /\ Stores(t)

\* A task that sets the label of the file has it to itself.
SetOK ==
    /\ \A t \in Tasks : task[t].label # NoSid =>
          /\ task[t].ino = File /\ task[t].dentry = TRUE /\ File \in named
          /\ task[t].early \/ "label" \in sb.flags
          /\ Stores(t) => xattr[File] = task[t].label \/ File \in remote \cup raced
    /\ \A t, u \in Tasks : task[t].label # NoSid /\ task[u].label # NoSid => t = u
    /\ remote \subseteq {File}
    /\ File \in remote => xattr[File] # NoSid

\* Labels on the medium, and the one that the medium gives an inode.  An inode is
\* excused while the server or a relabelling task is ahead of it.
Medium == sb.behavior \in {"XATTR", "NATIVE"} /\ HasXattr(sb.type)
Value(i) == IF xattr[i] = NoSid THEN sb.def ELSE xattr[i]
Excused(i) == i \in remote \cup raced \/ Stored(i) \/ RootByOption(i)

\* Labels in use, and labels about to be put to use.
FreshOK ==
    Medium =>
       /\ \A i \in Inodes : isec[i].init = "INITIALIZED" => Excused(i) \/ isec[i].sid = Value(i)
       /\ \A t \in Tasks :
             At(t, "install") /\ task[t].rc = "ok" /\ isec[task[t].ino].init # "INITIALIZED" =>
                Excused(task[t].ino) \/ task[t].sid = Value(task[t].ino)

\* Labels of a context mount, read and in use.
ContextOK ==
    sb.behavior = "MNTPOINT" =>
       /\ \A t \in Tasks : At(t, "install") /\ task[t].rc = "ok" => task[t].sid = sb.mntpoint
       /\ sb.type # "proc" => \A i \in Inodes :
             isec[i].init = "INITIALIZED" =>
                RootByOption(i) \/ i \in raced \/ isec[i].sid = sb.mntpoint

\* The inductive invariant.
LabelInv == Shapes /\ (\A t \in Tasks : TaskOK(t)) /\ OpenOK /\ SbOK /\ EarlyOK /\ SetOK
            /\ FreshOK /\ ContextOK

-----------------------------------------------------------------------------
(* What the options make of a superblock, and what a step makes of a task. *)

TaskShape == DOMAIN task = Tasks /\ \A t \in Tasks : DOMAIN task[t] = TaskFields

\* The parts of a result.
LEMMA ResultIs ==
    ASSUME NEW rc, NEW s, NEW root, NEW r, r = Result(rc, s, root)
    PROVE  r.rc = rc /\ r.sb = s /\ r.root = root
BY DEF Result

\* Superblock b is s set up with options, root what they say of the root: the
\* labels on the medium are used unless an option says otherwise, and files can
\* be relabelled unless all have one label.
SetUpTo(s, b, root) ==
    /\ DOMAIN b = SbFields /\ b.type = s.type /\ "init" \in b.flags
    /\ "label" \in b.flags <=> selinux_is_sblabel_mnt(b)
    /\ root # "kept" /\ b.behavior \in {"XATTR", "NATIVE"} => "root" \in b.flags
    /\ root # "kept" /\ b.behavior = "MNTPOINT" => "root" \in b.flags \/ root = b.mntpoint

\* A mount of a superblock that is not set up yet, by the options and without.
LEMMA SetOpts ==
    ASSUME NEW s, DOMAIN s = SbFields, "init" \notin s.flags, s.flags \subseteq {"native"},
           s.behavior = "unset", NEW root, NEW o, NEW may,
           selinux_set_mnt_opts(TRUE, s, root, o, may).rc = "ok"
    PROVE  LET r == selinux_set_mnt_opts(TRUE, s, root, o, may) IN SetUpTo(s, r.sb, r.root)
<1> DEFINE use == security_fs_use(s.type)
           typed == [s EXCEPT !.flags = @ \cup Given(o)
                                          \cup (IF s.type = "proc" THEN {"genfs"} ELSE {}),
                              !.behavior = use.behavior, !.sid = use.sid]
<1>1. ASSUME NEW q, DOMAIN q = SbFields, NEW f, f = sb_finish_set_opts(q)
      PROVE  /\ DOMAIN f = SbFields /\ f.type = q.type /\ f.userns = q.userns
             /\ "init" \in f.flags /\ q.mntpoint = f.mntpoint
             /\ "label" \in f.flags <=> selinux_is_sblabel_mnt(f)
             /\ f.behavior = q.behavior \/ (q.behavior = "XATTR" /\ f.behavior = "GENFS")
             /\ "root" \in q.flags => "root" \in f.flags
  <2>1. PICK c : c = sb_check_xattr_support(q)
    OBVIOUS
  <2>2. /\ DOMAIN c = SbFields /\ c.type = q.type /\ c.userns = q.userns /\ c.flags = q.flags
        /\ c.mntpoint = q.mntpoint
        /\ c.behavior = q.behavior \/ (q.behavior = "XATTR" /\ c.behavior = "GENFS")
    BY <1>1, <2>1 DEF sb_check_xattr_support, SbFields
  <2>3. f = [c EXCEPT !.flags = (c.flags \ {"label"}) \cup {"init"}
                           \cup (IF selinux_is_sblabel_mnt(c) THEN {"label"} ELSE {})]
    BY <1>1, <2>1, <2>2 DEF sb_finish_set_opts, SbFields
  <2>4. /\ DOMAIN f = SbFields /\ f.type = c.type /\ f.userns = c.userns
        /\ f.mntpoint = c.mntpoint /\ f.behavior = c.behavior
        /\ f.flags = (c.flags \ {"label"}) \cup {"init"}
                           \cup (IF selinux_is_sblabel_mnt(c) THEN {"label"} ELSE {})
    BY <2>2, <2>3 DEF SbFields
  <2> QED BY <2>2, <2>4 DEF selinux_is_sblabel_mnt
<1>7. PICK r : r = selinux_set_mnt_opts(TRUE, s, root, o, may) /\ r.rc = "ok"
  OBVIOUS
<1>9. r.rc = "ok"
  BY <1>7
<1>2. PICK y : y = typed
  OBVIOUS
<1>3. /\ DOMAIN y = SbFields /\ y.type = s.type /\ y.userns = s.userns
      /\ Given(o) \subseteq y.flags
  BY <1>2 DEF SbFields
<1>4. r = UsernsMount(y, o) \/ r = FirstMount(y, o, may)
  <2>1. ~Refused(s, root, o) \/ r = Result("EINVAL", s, "kept")
    BY <1>7 DEF selinux_set_mnt_opts
  <2>2. ~Refused(s, root, o)
    BY ONLY <1>9, <2>1, ResultIs
  <2> QED BY <1>2, <1>7, <2>2 DEF selinux_set_mnt_opts
<1>5. CASE r = UsernsMount(y, o)
  <2>1. Given(o) = {}
    <3>1. r = Result("EACCES", y, "kept") \/ Given(o) = {}
      BY ONLY <1>5 DEF UsernsMount
    <3> QED BY ONLY <1>9, <3>1, ResultIs
  <2>2. PICK q : q = IF y.behavior # "XATTR" THEN y
                     ELSE [y EXCEPT !.behavior = "MNTPOINT", !.mntpoint = TaskSid]
    OBVIOUS
  <2>3. DOMAIN q = SbFields /\ q.type = y.type /\ q.userns = y.userns
    BY <2>2, <1>3 DEF SbFields
  <2>4. r = Result("ok", sb_finish_set_opts(q), "kept")
    BY <1>5, <2>1, <2>2 DEF UsernsMount
  <2>5. r.sb = sb_finish_set_opts(q) /\ r.root = "kept"
    BY ONLY <2>4, ResultIs
  <2>6. /\ DOMAIN r.sb = SbFields /\ r.sb.type = q.type /\ r.sb.userns = q.userns
        /\ "init" \in r.sb.flags
        /\ "label" \in r.sb.flags <=> selinux_is_sblabel_mnt(r.sb)
    BY ONLY <1>1, <2>3, <2>5
  <2>7. SetUpTo(s, r.sb, r.root)
    BY ONLY <1>3, <2>3, <2>5, <2>6 DEF SetUpTo
  <2> QED BY <1>7, <2>7
<1>6. CASE r = FirstMount(y, o, may)
  <2> DEFINE native == "native" \in y.flags \/ (Native(y.type) /\ o.ctx = NoSid)
             top == IF o.root # NoSid THEN o.root ELSE o.ctx
  <2>1. PICK q : q = [y EXCEPT
                !.sid = IF o.fs # NoSid THEN o.fs ELSE IF o.ctx # NoSid THEN o.ctx ELSE @,
                !.mntpoint = IF o.ctx # NoSid THEN o.ctx ELSE @,
                !.behavior = IF o.ctx # NoSid THEN "MNTPOINT" ELSE IF native THEN "NATIVE" ELSE @,
                !.def = IF o.def # NoSid THEN o.def ELSE @]
    OBVIOUS
  <2>2. /\ DOMAIN q = SbFields /\ q.type = y.type /\ q.userns = y.userns /\ q.flags = y.flags
        /\ o.ctx # NoSid => q.behavior = "MNTPOINT" /\ q.mntpoint = o.ctx
    BY <2>1, <1>3 DEF SbFields
  <2>3. r = Result("EACCES", q, "kept") \/ r = Result("EINVAL", q, "kept")
        \/ r = Result("ok", sb_finish_set_opts(q), IF top = NoSid THEN "kept" ELSE top)
    BY <1>6, <2>1 DEF FirstMount
  <2>4. r.sb = sb_finish_set_opts(q) /\ r.root = IF top = NoSid THEN "kept" ELSE top
    BY ONLY <1>9, <2>3, ResultIs
  <2>5. o.root # NoSid => "root" \in y.flags
    BY <1>3 DEF Given, Options
  <2>6. /\ DOMAIN r.sb = SbFields /\ r.sb.type = q.type
        /\ "init" \in r.sb.flags
        /\ "label" \in r.sb.flags <=> selinux_is_sblabel_mnt(r.sb)
        /\ r.sb.behavior = q.behavior \/ (q.behavior = "XATTR" /\ r.sb.behavior = "GENFS")
        /\ "root" \in q.flags => "root" \in r.sb.flags
        /\ q.mntpoint = r.sb.mntpoint
    BY ONLY <1>1, <2>2, <2>4
  <2>7. SetUpTo(s, r.sb, r.root)
    BY ONLY <1>3, <2>2, <2>4, <2>5, <2>6 DEF SetUpTo
  <2> QED BY <1>7, <2>7
<1> QED BY <1>4, <1>5, <1>6

\* A superblock in use is set up without options when a policy is loaded; that
\* cannot fail.
LEMMA SetNone ==
    ASSUME NEW s, DOMAIN s = SbFields, "init" \notin s.flags, NEW root
    PROVE  selinux_set_mnt_opts(TRUE, s, root, NoOpts, TRUE).rc = "ok"
<1>1. NoOpts.given = FALSE /\ Given(NoOpts) = {} /\ NoOpts.def = NoSid
  BY DEF NoOpts, Opt, Given, Options
<1>2. ~Refused(s, root, NoOpts)
  BY <1>1 DEF Refused
<1> QED BY <1>1, <1>2 DEF selinux_set_mnt_opts, UsernsMount, FirstMount, Result

\* Superblock b is s mounted before there is a policy.
MountedFor(s, b) ==
    /\ DOMAIN b = SbFields /\ b.type = s.type /\ b.behavior = s.behavior
    /\ b.flags = s.flags \cup (IF Native(s.type) THEN {"native"} ELSE {})

\* Before the first load of a policy a mount takes no options and sets up nothing.
LEMMA SetEarly ==
    ASSUME NEW s, DOMAIN s = SbFields, NEW root, NEW o, NEW may,
           selinux_set_mnt_opts(FALSE, s, root, o, may).rc = "ok"
    PROVE  MountedFor(s, selinux_set_mnt_opts(FALSE, s, root, o, may).sb)
<1>1. PICK r : r = selinux_set_mnt_opts(FALSE, s, root, o, may) /\ r.rc = "ok"
  OBVIOUS
<1>2. MountedFor(s, r.sb)
  BY <1>1, ResultIs DEF selinux_set_mnt_opts, MountedFor, SbFields
<1> QED BY <1>1, <1>2

\* A superblock that was just allocated.
LEMMA NewSb ==
    ASSUME NEW type, NEW userns, NEW s, s = selinux_sb_alloc_security(type, userns)
    PROVE  /\ DOMAIN s = SbFields /\ s.type = type /\ s.behavior = "unset" /\ s.flags = {}
BY DEF selinux_sb_alloc_security, SbFields

-----------------------------------------------------------------------------
(* One part of the invariant after the other.                              *)

\* A step leaves the tasks of the shape they had.
LEMMA TaskShapeKept ==
    ASSUME Shapes, [Next]_vars
    PROVE  TaskShape'
<1> USE DEF Shapes, TaskShape, fileVars, Idle, At, Goto, Ends, Call, Return, Returned, Continue,
         TaskFields
<1>1. ASSUME NEW t \in Tasks, AlreadyLabelled(t) PROVE TaskShape'
  BY <1>1 DEF AlreadyLabelled
<1>2. ASSUME NEW t \in Tasks, Defer(t) PROVE TaskShape'
  BY <1>2 DEF Defer
<1>3. ASSUME NEW t \in Tasks, Queue(t) PROVE TaskShape'
  BY <1>3 DEF Queue
<1>4. ASSUME NEW t \in Tasks, Begin(t) PROVE TaskShape'
  BY <1>4 DEF Begin
<1>5. ASSUME NEW t \in Tasks, Fetch(t) PROVE TaskShape'
  BY <1>5 DEF Fetch
<1>6. ASSUME NEW t \in Tasks, Install(t) PROVE TaskShape'
  BY <1>6 DEF Install
<1>7. ASSUME NEW t \in Tasks, NEW o \in OptsAsked, NEW may \in BOOLEAN, Mount(t, o, may)
      PROVE  TaskShape'
  BY <1>7 DEF Mount, FinishOpts
<1>8. ASSUME NEW t \in Tasks, NEW i \in Inodes, Drain(t, i) PROVE TaskShape'
  BY <1>8 DEF Drain
<1>9. ASSUME NEW t \in Tasks, Drained(t) PROVE TaskShape'
  BY <1>9 DEF Drained
<1>10. ASSUME NEW t \in Tasks, LoadFirst(t) PROVE TaskShape'
  BY <1>10 DEF LoadFirst
<1>11. ASSUME NEW t \in Tasks, selinux_complete_init(t) PROVE TaskShape'
  BY <1>11 DEF selinux_complete_init, FinishOpts
<1>12. ASSUME NEW t \in Tasks, selinux_d_instantiate(t) PROVE TaskShape'
  BY <1>12 DEF selinux_d_instantiate
<1>13. CASE Prune
  BY <1>13 DEF Prune
<1>14. ASSUME NEW t \in Tasks, NEW i \in Inodes, inode_security(t, i) PROVE TaskShape'
  BY <1>14 DEF inode_security
<1>15. ASSUME NEW t \in Tasks, CreateStart(t) PROVE TaskShape'
  BY <1>15 DEF CreateStart
<1>16. ASSUME NEW t \in Tasks, NEW c \in {NoSid} \cup Labels, selinux_inode_init_security(t, c)
      PROVE  TaskShape'
  BY <1>16 DEF selinux_inode_init_security
<1>17. ASSUME NEW t \in Tasks, selinux_task_to_inode(t) PROVE TaskShape'
  BY <1>17 DEF selinux_task_to_inode
<1>18. ASSUME NEW t \in Tasks, NEW l \in Labels, selinux_inode_setxattr(t, l) PROVE TaskShape'
  BY <1>18 DEF selinux_inode_setxattr
<1>19. ASSUME NEW t \in Tasks, SetxattrDenied(t) PROVE TaskShape'
  BY <1>19 DEF SetxattrDenied
<1>20. ASSUME NEW t \in Tasks, StoreXattr(t) PROVE TaskShape'
  BY <1>20 DEF StoreXattr
<1>21. ASSUME NEW t \in Tasks, selinux_inode_setsecurity(t) PROVE TaskShape'
  BY <1>21 DEF selinux_inode_setsecurity
<1>22. ASSUME NEW t \in Tasks, selinux_inode_post_setxattr(t) PROVE TaskShape'
  BY <1>22 DEF selinux_inode_post_setxattr
<1>23. ASSUME NEW t \in Tasks, PostSet(t) PROVE TaskShape'
  BY <1>23 DEF PostSet
<1>24. ASSUME NEW l \in Labels, ServerRelabel(l) PROVE TaskShape'
  BY <1>24 DEF ServerRelabel
<1>25. ASSUME NEW t \in Tasks, selinux_inode_notifysecctx(t) PROVE TaskShape'
  BY <1>25 DEF selinux_inode_notifysecctx
<1>26. ASSUME NEW t \in Tasks, selinux_inode_invalidate_secctx(t) PROVE TaskShape'
  BY <1>26 DEF selinux_inode_invalidate_secctx
<1>27. ASSUME NEW t \in Tasks, selinux_file_open(t) PROVE TaskShape'
  BY <1>27 DEF selinux_file_open
<1>28. ASSUME NEW t \in Tasks, SaveLabel(t) PROVE TaskShape'
  BY <1>28 DEF SaveLabel
<1>29. ASSUME NEW t \in Tasks, SaveSeqno(t) PROVE TaskShape'
  BY <1>29 DEF SaveSeqno
<1>30. ASSUME NEW t \in Tasks, Recheck(t) PROVE TaskShape'
  BY <1>30 DEF Recheck
<1>31. CASE Close
  BY <1>31 DEF Close
<1>32. ASSUME NEW labels \in SUBSET Labels, LoadCommit(labels) PROVE TaskShape'
  BY <1>32 DEF LoadCommit
<1>33. CASE LoadFlush
  BY <1>33 DEF LoadFlush
<1>34. CASE LoadNotify
  BY <1>34 DEF LoadNotify
<1>35. CASE UNCHANGED vars
  BY <1>35 DEF vars
<1> QED
  BY <1>1, <1>2, <1>3, <1>4, <1>5, <1>6, <1>7, <1>8, <1>9, <1>10, <1>11, <1>12, <1>13, <1>14,
     <1>15, <1>16, <1>17, <1>18, <1>19, <1>20, <1>21, <1>22, <1>23, <1>24, <1>25, <1>26, <1>27,
     <1>28, <1>29, <1>30, <1>31, <1>32, <1>33, <1>34, <1>35 DEF Next

\* A step keeps what a task does in line with where it is.
LEMMA TaskKept ==
    ASSUME Shapes, NEW u \in Tasks, TaskOK(u), [Next]_vars
    PROVE  TaskOK(u)'
<1> USE DEF Shapes, TaskOK, OpOf, Inodes, fileVars, Idle, At, Goto, Ends, Call, Return,
         Returned, Continue, TaskFields
<1>1. ASSUME NEW t \in Tasks, AlreadyLabelled(t) PROVE TaskOK(u)'
  BY <1>1 DEF AlreadyLabelled
<1>2. ASSUME NEW t \in Tasks, Defer(t) PROVE TaskOK(u)'
  BY <1>2 DEF Defer
<1>3. ASSUME NEW t \in Tasks, Queue(t) PROVE TaskOK(u)'
  BY <1>3 DEF Queue
<1>4. ASSUME NEW t \in Tasks, Begin(t) PROVE TaskOK(u)'
  BY <1>4 DEF Begin
<1>5. ASSUME NEW t \in Tasks, Fetch(t) PROVE TaskOK(u)'
  BY <1>5 DEF Fetch
<1>6. ASSUME NEW t \in Tasks, Install(t) PROVE TaskOK(u)'
  BY <1>6 DEF Install
<1>7. ASSUME NEW t \in Tasks, NEW o \in OptsAsked, NEW may \in BOOLEAN, Mount(t, o, may)
      PROVE  TaskOK(u)'
  <2>1. CASE task' = task
    BY <2>1
  <2>2. CASE At(t, "idle") /\ task' = [task EXCEPT ![t] = Call(t, "mount", Root, TRUE)]
    BY <2>2
  <2> QED BY <1>7, <2>1, <2>2 DEF Mount, FinishOpts
<1>8. ASSUME NEW t \in Tasks, NEW i \in Inodes, Drain(t, i) PROVE TaskOK(u)'
  BY <1>8 DEF Drain
<1>9. ASSUME NEW t \in Tasks, Drained(t) PROVE TaskOK(u)'
  BY <1>9 DEF Drained
<1>10. ASSUME NEW t \in Tasks, LoadFirst(t) PROVE TaskOK(u)'
  BY <1>10 DEF LoadFirst
<1>11. ASSUME NEW t \in Tasks, selinux_complete_init(t) PROVE TaskOK(u)'
  <2>1. CASE At(t, "complete") /\ Ends(t)
    BY <2>1
  <2>2. CASE At(t, "complete") /\ task' = [task EXCEPT ![t] = Call(t, "mount", Root, TRUE)]
    BY <2>2
  <2> QED BY <1>11, <2>1, <2>2 DEF selinux_complete_init, FinishOpts
<1>12. ASSUME NEW t \in Tasks, selinux_d_instantiate(t) PROVE TaskOK(u)'
  BY <1>12 DEF selinux_d_instantiate
<1>13. CASE Prune
  BY <1>13 DEF Prune
<1>14. ASSUME NEW t \in Tasks, NEW i \in Inodes, inode_security(t, i) PROVE TaskOK(u)'
  BY <1>14 DEF inode_security
<1>15. ASSUME NEW t \in Tasks, CreateStart(t) PROVE TaskOK(u)'
  BY <1>15 DEF CreateStart
<1>16. ASSUME NEW t \in Tasks, NEW c \in {NoSid} \cup Labels, selinux_inode_init_security(t, c)
      PROVE  TaskOK(u)'
  <2>1. CASE At(t, "create") /\ Ends(t)
    BY <2>1
  <2>2. CASE At(t, "create") /\ task' = [task EXCEPT ![t] = Call(t, "instantiate", File, TRUE)]
    BY <2>2
  <2> QED BY <1>16, <2>1, <2>2 DEF selinux_inode_init_security
<1>17. ASSUME NEW t \in Tasks, selinux_task_to_inode(t) PROVE TaskOK(u)'
  BY <1>17 DEF selinux_task_to_inode
<1>18. ASSUME NEW t \in Tasks, NEW l \in Labels, selinux_inode_setxattr(t, l) PROVE TaskOK(u)'
  <2>1. PICK c : c = Call(t, "check", File, TRUE)
    OBVIOUS
  <2>2. PICK k : k = task[t]
    OBVIOUS
  <2>3. DOMAIN k = TaskFields /\ DOMAIN c = TaskFields /\ c.pc = "begin"
        /\ c.op = "check" /\ c.ino = File
    BY <2>1, <2>2
  <2>4. CASE At(t, "idle") /\ task' = [task EXCEPT ![t] = [c EXCEPT !.label = l]]
    BY <2>3, <2>4, LabelAssumption
  <2>5. CASE /\ At(t, "idle") 
             /\ task' = [task EXCEPT ![t] = [k EXCEPT !.pc = "write", !.op = "check", !.ino = File,
                                                  !.dentry = TRUE, !.label = l, !.early = TRUE]]
    BY <2>3, <2>5, LabelAssumption
  <2> QED BY <1>18, <2>1, <2>2, <2>4, <2>5 DEF selinux_inode_setxattr
<1>19. ASSUME NEW t \in Tasks, SetxattrDenied(t) PROVE TaskOK(u)'
  BY <1>19 DEF SetxattrDenied
<1>20. ASSUME NEW t \in Tasks, StoreXattr(t) PROVE TaskOK(u)'
  BY <1>20 DEF StoreXattr
<1>21. ASSUME NEW t \in Tasks, selinux_inode_setsecurity(t) PROVE TaskOK(u)'
  BY <1>21 DEF selinux_inode_setsecurity
<1>22. ASSUME NEW t \in Tasks, selinux_inode_post_setxattr(t) PROVE TaskOK(u)'
  <2>1. CASE At(t, "post") /\ Ends(t)
    BY <2>1
  <2>2. CASE At(t, "post") /\ task' = [task EXCEPT ![t] = Call(t, "post", task[t].ino, TRUE)]
    BY <2>2
  <2> QED BY <1>22, <2>1, <2>2 DEF selinux_inode_post_setxattr
<1>23. ASSUME NEW t \in Tasks, PostSet(t) PROVE TaskOK(u)'
  BY <1>23 DEF PostSet
<1>24. ASSUME NEW l \in Labels, ServerRelabel(l) PROVE TaskOK(u)'
  BY <1>24 DEF ServerRelabel
<1>25. ASSUME NEW t \in Tasks, selinux_inode_notifysecctx(t) PROVE TaskOK(u)'
  BY <1>25 DEF selinux_inode_notifysecctx
<1>26. ASSUME NEW t \in Tasks, selinux_inode_invalidate_secctx(t) PROVE TaskOK(u)'
  BY <1>26 DEF selinux_inode_invalidate_secctx
<1>27. ASSUME NEW t \in Tasks, selinux_file_open(t) PROVE TaskOK(u)'
  BY <1>27 DEF selinux_file_open
<1>28. ASSUME NEW t \in Tasks, SaveLabel(t) PROVE TaskOK(u)'
  BY <1>28 DEF SaveLabel
<1>29. ASSUME NEW t \in Tasks, SaveSeqno(t) PROVE TaskOK(u)'
  BY <1>29 DEF SaveSeqno
<1>30. ASSUME NEW t \in Tasks, Recheck(t) PROVE TaskOK(u)'
  BY <1>30 DEF Recheck
<1>31. CASE Close
  BY <1>31 DEF Close
<1>32. ASSUME NEW labels \in SUBSET Labels, LoadCommit(labels) PROVE TaskOK(u)'
  BY <1>32 DEF LoadCommit
<1>33. CASE LoadFlush
  BY <1>33 DEF LoadFlush
<1>34. CASE LoadNotify
  BY <1>34 DEF LoadNotify
<1>35. CASE UNCHANGED vars
  BY <1>35 DEF vars
<1> HIDE DEF TaskOK
<1> QED
  BY <1>1, <1>2, <1>3, <1>4, <1>5, <1>6, <1>7, <1>8, <1>9, <1>10, <1>11, <1>12, <1>13, <1>14,
     <1>15, <1>16, <1>17, <1>18, <1>19, <1>20, <1>21, <1>22, <1>23, <1>24, <1>25, <1>26, <1>27,
     <1>28, <1>29, <1>30, <1>31, <1>32, <1>33, <1>34, <1>35 DEF Next

\* A task opens the file from selinux_file_open() until the end of it.
LEMMA OpensFrom ==
    ASSUME Shapes, NEW u \in Tasks, TaskOK(u), [Next]_vars,
           task[u].op # "open", ~selinux_file_open(u)
    PROVE  task'[u].op # "open"
<1> USE LabelAssumption DEF Shapes, TaskOK, OpOf, fileVars, Idle, At, Goto, Ends, Call, Return,
         Returned, Continue, TaskFields
<1>1. ASSUME NEW t \in Tasks, AlreadyLabelled(t) PROVE task'[u].op # "open"
  BY <1>1 DEF AlreadyLabelled
<1>2. ASSUME NEW t \in Tasks, Defer(t) PROVE task'[u].op # "open"
  BY <1>2 DEF Defer
<1>3. ASSUME NEW t \in Tasks, Queue(t) PROVE task'[u].op # "open"
  BY <1>3 DEF Queue
<1>4. ASSUME NEW t \in Tasks, Begin(t) PROVE task'[u].op # "open"
  BY <1>4 DEF Begin
<1>5. ASSUME NEW t \in Tasks, Fetch(t) PROVE task'[u].op # "open"
  BY <1>5 DEF Fetch
<1>6. ASSUME NEW t \in Tasks, Install(t) PROVE task'[u].op # "open"
  BY <1>6 DEF Install
<1>7. ASSUME NEW t \in Tasks, NEW o \in OptsAsked, NEW may \in BOOLEAN, Mount(t, o, may)
      PROVE  task'[u].op # "open"
  <2>1. CASE task' = task
    BY <2>1
  <2>2. CASE task' = [task EXCEPT ![t] = Call(t, "mount", Root, TRUE)]
    BY <2>2
  <2> QED BY <1>7, <2>1, <2>2 DEF Mount, FinishOpts
<1>8. ASSUME NEW t \in Tasks, NEW i \in Inodes, Drain(t, i) PROVE task'[u].op # "open"
  BY <1>8 DEF Drain
<1>9. ASSUME NEW t \in Tasks, Drained(t) PROVE task'[u].op # "open"
  BY <1>9 DEF Drained
<1>10. ASSUME NEW t \in Tasks, LoadFirst(t) PROVE task'[u].op # "open"
  BY <1>10 DEF LoadFirst
<1>11. ASSUME NEW t \in Tasks, selinux_complete_init(t) PROVE task'[u].op # "open"
  <2>1. CASE Ends(t)
    BY <2>1
  <2>2. CASE task' = [task EXCEPT ![t] = Call(t, "mount", Root, TRUE)]
    BY <2>2
  <2> QED BY <1>11, <2>1, <2>2 DEF selinux_complete_init, FinishOpts
<1>12. ASSUME NEW t \in Tasks, selinux_d_instantiate(t) PROVE task'[u].op # "open"
  BY <1>12 DEF selinux_d_instantiate
<1>13. CASE Prune
  BY <1>13 DEF Prune
<1>14. ASSUME NEW t \in Tasks, NEW i \in Inodes, inode_security(t, i) PROVE task'[u].op # "open"
  BY <1>14 DEF inode_security
<1>15. ASSUME NEW t \in Tasks, CreateStart(t) PROVE task'[u].op # "open"
  BY <1>15 DEF CreateStart
<1>16. ASSUME NEW t \in Tasks, NEW c \in {NoSid} \cup Labels, selinux_inode_init_security(t, c)
      PROVE  task'[u].op # "open"
  <2>1. CASE Ends(t)
    BY <2>1
  <2>2. CASE task' = [task EXCEPT ![t] = Call(t, "instantiate", File, TRUE)]
    BY <2>2
  <2> QED BY <1>16, <2>1, <2>2 DEF selinux_inode_init_security
<1>17. ASSUME NEW t \in Tasks, selinux_task_to_inode(t) PROVE task'[u].op # "open"
  BY <1>17 DEF selinux_task_to_inode
<1>18. ASSUME NEW t \in Tasks, NEW l \in Labels, selinux_inode_setxattr(t, l)
      PROVE  task'[u].op # "open"
  BY <1>18 DEF selinux_inode_setxattr
<1>19. ASSUME NEW t \in Tasks, SetxattrDenied(t) PROVE task'[u].op # "open"
  BY <1>19 DEF SetxattrDenied
<1>20. ASSUME NEW t \in Tasks, StoreXattr(t) PROVE task'[u].op # "open"
  BY <1>20 DEF StoreXattr
<1>21. ASSUME NEW t \in Tasks, selinux_inode_setsecurity(t) PROVE task'[u].op # "open"
  BY <1>21 DEF selinux_inode_setsecurity
<1>22. ASSUME NEW t \in Tasks, selinux_inode_post_setxattr(t) PROVE task'[u].op # "open"
  <2>1. CASE Ends(t)
    BY <2>1
  <2>2. CASE task' = [task EXCEPT ![t] = Call(t, "post", task[t].ino, TRUE)]
    BY <2>2
  <2> QED BY <1>22, <2>1, <2>2 DEF selinux_inode_post_setxattr
<1>23. ASSUME NEW t \in Tasks, PostSet(t) PROVE task'[u].op # "open"
  BY <1>23 DEF PostSet
<1>24. ASSUME NEW l \in Labels, ServerRelabel(l) PROVE task'[u].op # "open"
  BY <1>24 DEF ServerRelabel
<1>25. ASSUME NEW t \in Tasks, selinux_inode_notifysecctx(t) PROVE task'[u].op # "open"
  BY <1>25 DEF selinux_inode_notifysecctx
<1>26. ASSUME NEW t \in Tasks, selinux_inode_invalidate_secctx(t) PROVE task'[u].op # "open"
  BY <1>26 DEF selinux_inode_invalidate_secctx
<1>27. ASSUME NEW t \in Tasks, selinux_file_open(t) PROVE task'[u].op # "open"
  BY <1>27 DEF selinux_file_open
<1>28. ASSUME NEW t \in Tasks, SaveLabel(t) PROVE task'[u].op # "open"
  BY <1>28 DEF SaveLabel
<1>29. ASSUME NEW t \in Tasks, SaveSeqno(t) PROVE task'[u].op # "open"
  BY <1>29 DEF SaveSeqno
<1>30. ASSUME NEW t \in Tasks, Recheck(t) PROVE task'[u].op # "open"
  BY <1>30 DEF Recheck
<1>31. CASE Close
  BY <1>31 DEF Close
<1>32. ASSUME NEW labels \in SUBSET Labels, LoadCommit(labels) PROVE task'[u].op # "open"
  BY <1>32 DEF LoadCommit
<1>33. CASE LoadFlush
  BY <1>33 DEF LoadFlush
<1>34. CASE LoadNotify
  BY <1>34 DEF LoadNotify
<1>35. CASE UNCHANGED vars
  BY <1>35 DEF vars
<1> QED
  BY <1>1, <1>2, <1>3, <1>4, <1>5, <1>6, <1>7, <1>8, <1>9, <1>10, <1>11, <1>12, <1>13, <1>14,
     <1>15, <1>16, <1>17, <1>18, <1>19, <1>20, <1>21, <1>22, <1>23, <1>24, <1>25, <1>26, <1>27,
     <1>28, <1>29, <1>30, <1>31, <1>32, <1>33, <1>34, <1>35 DEF Next

\* The steps that have to do with open files and reloads.
FileStep ==
    \/ \E t \in Tasks : selinux_file_open(t) \/ SaveLabel(t) \/ SaveSeqno(t) \/ Recheck(t)
    \/ Close \/ LoadFlush \/ LoadNotify \/ \E labels \in SUBSET Labels : LoadCommit(labels)

\* No other step touches them.
LEMMA FileFrame ==
    ASSUME [Next]_vars
    PROVE  UNCHANGED fileVars \/ FileStep
<1> USE DEF fileVars
<1>1. ASSUME NEW t \in Tasks, AlreadyLabelled(t) PROVE UNCHANGED fileVars \/ FileStep
  BY <1>1 DEF AlreadyLabelled
<1>2. ASSUME NEW t \in Tasks, Defer(t) PROVE UNCHANGED fileVars \/ FileStep
  BY <1>2 DEF Defer
<1>3. ASSUME NEW t \in Tasks, Queue(t) PROVE UNCHANGED fileVars \/ FileStep
  BY <1>3 DEF Queue
<1>4. ASSUME NEW t \in Tasks, Begin(t) PROVE UNCHANGED fileVars \/ FileStep
  BY <1>4 DEF Begin
<1>5. ASSUME NEW t \in Tasks, Fetch(t) PROVE UNCHANGED fileVars \/ FileStep
  BY <1>5 DEF Fetch
<1>6. ASSUME NEW t \in Tasks, Install(t) PROVE UNCHANGED fileVars \/ FileStep
  BY <1>6 DEF Install
<1>7. ASSUME NEW t \in Tasks, NEW o \in OptsAsked, NEW may \in BOOLEAN, Mount(t, o, may)
      PROVE  UNCHANGED fileVars \/ FileStep
  BY <1>7 DEF Mount
<1>8. ASSUME NEW t \in Tasks, NEW i \in Inodes, Drain(t, i) PROVE UNCHANGED fileVars \/ FileStep
  BY <1>8 DEF Drain
<1>9. ASSUME NEW t \in Tasks, Drained(t) PROVE UNCHANGED fileVars \/ FileStep
  BY <1>9 DEF Drained
<1>10. ASSUME NEW t \in Tasks, LoadFirst(t) PROVE UNCHANGED fileVars \/ FileStep
  BY <1>10 DEF LoadFirst
<1>11. ASSUME NEW t \in Tasks, selinux_complete_init(t) PROVE UNCHANGED fileVars \/ FileStep
  BY <1>11 DEF selinux_complete_init
<1>12. ASSUME NEW t \in Tasks, selinux_d_instantiate(t) PROVE UNCHANGED fileVars \/ FileStep
  BY <1>12 DEF selinux_d_instantiate
<1>13. CASE Prune
  BY <1>13 DEF Prune
<1>14. ASSUME NEW t \in Tasks, NEW i \in Inodes, inode_security(t, i)
      PROVE  UNCHANGED fileVars \/ FileStep
  BY <1>14 DEF inode_security
<1>15. ASSUME NEW t \in Tasks, CreateStart(t) PROVE UNCHANGED fileVars \/ FileStep
  BY <1>15 DEF CreateStart
<1>16. ASSUME NEW t \in Tasks, NEW c \in {NoSid} \cup Labels, selinux_inode_init_security(t, c)
      PROVE  UNCHANGED fileVars \/ FileStep
  BY <1>16 DEF selinux_inode_init_security
<1>17. ASSUME NEW t \in Tasks, selinux_task_to_inode(t) PROVE UNCHANGED fileVars \/ FileStep
  BY <1>17 DEF selinux_task_to_inode
<1>18. ASSUME NEW t \in Tasks, NEW l \in Labels, selinux_inode_setxattr(t, l)
      PROVE  UNCHANGED fileVars \/ FileStep
  BY <1>18 DEF selinux_inode_setxattr
<1>19. ASSUME NEW t \in Tasks, SetxattrDenied(t) PROVE UNCHANGED fileVars \/ FileStep
  BY <1>19 DEF SetxattrDenied
<1>20. ASSUME NEW t \in Tasks, StoreXattr(t) PROVE UNCHANGED fileVars \/ FileStep
  BY <1>20 DEF StoreXattr
<1>21. ASSUME NEW t \in Tasks, selinux_inode_setsecurity(t) PROVE UNCHANGED fileVars \/ FileStep
  BY <1>21 DEF selinux_inode_setsecurity
<1>22. ASSUME NEW t \in Tasks, selinux_inode_post_setxattr(t) PROVE UNCHANGED fileVars \/ FileStep
  BY <1>22 DEF selinux_inode_post_setxattr
<1>23. ASSUME NEW t \in Tasks, PostSet(t) PROVE UNCHANGED fileVars \/ FileStep
  BY <1>23 DEF PostSet
<1>24. ASSUME NEW l \in Labels, ServerRelabel(l) PROVE UNCHANGED fileVars \/ FileStep
  BY <1>24 DEF ServerRelabel
<1>25. ASSUME NEW t \in Tasks, selinux_inode_notifysecctx(t) PROVE UNCHANGED fileVars \/ FileStep
  BY <1>25 DEF selinux_inode_notifysecctx
<1>26. ASSUME NEW t \in Tasks, selinux_inode_invalidate_secctx(t)
      PROVE  UNCHANGED fileVars \/ FileStep
  BY <1>26 DEF selinux_inode_invalidate_secctx
<1>27. ASSUME NEW t \in Tasks, selinux_file_open(t) PROVE UNCHANGED fileVars \/ FileStep
  BY <1>27 DEF FileStep
<1>28. ASSUME NEW t \in Tasks, SaveLabel(t) PROVE UNCHANGED fileVars \/ FileStep
  BY <1>28 DEF FileStep
<1>29. ASSUME NEW t \in Tasks, SaveSeqno(t) PROVE UNCHANGED fileVars \/ FileStep
  BY <1>29 DEF FileStep
<1>30. ASSUME NEW t \in Tasks, Recheck(t) PROVE UNCHANGED fileVars \/ FileStep
  BY <1>30 DEF FileStep
<1>31. CASE Close
  BY <1>31 DEF FileStep
<1>32. ASSUME NEW labels \in SUBSET Labels, LoadCommit(labels) PROVE UNCHANGED fileVars \/ FileStep
  BY <1>32 DEF FileStep
<1>33. CASE LoadFlush
  BY <1>33 DEF FileStep
<1>34. CASE LoadNotify
  BY <1>34 DEF FileStep
<1>35. CASE UNCHANGED vars
  BY <1>35 DEF vars
<1> QED
  BY <1>1, <1>2, <1>3, <1>4, <1>5, <1>6, <1>7, <1>8, <1>9, <1>10, <1>11, <1>12, <1>13, <1>14,
     <1>15, <1>16, <1>17, <1>18, <1>19, <1>20, <1>21, <1>22, <1>23, <1>24, <1>25, <1>26, <1>27,
     <1>28, <1>29, <1>30, <1>31, <1>32, <1>33, <1>34, <1>35 DEF Next

\* A step keeps what is known of the open file.
LEMMA OpenKept ==
    ASSUME Shapes, \A t \in Tasks : TaskOK(t), OpenOK, [Next]_vars
    PROVE  OpenOK'
<1> USE DEF Shapes, FileFields, OpenOK, Closed, At
<1>1. CASE UNCHANGED fileVars
  <2>1. ASSUME NEW u \in Tasks, task'[u].op = "open" PROVE task[u].op = "open"
    <3>1. ~selinux_file_open(u)
      BY <1>1 DEF selinux_file_open, fileVars
    <3> QED BY <2>1, <3>1, OpensFrom
  <2> QED BY <1>1, <2>1 DEF fileVars, Allowed
<1>2. ASSUME NEW t \in Tasks, selinux_file_open(t) PROVE OpenOK'
  <2>1. ASSUME NEW u \in Tasks, task'[u].op = "open" PROVE u = t
    <3>1. task[u].op # "open" /\ (u # t => task'[u] = task[u])
      BY <1>2 DEF selinux_file_open
    <3> QED BY <2>1, <3>1
  <2>2. PICK c : c = Closed
    OBVIOUS
  <2>3. file' = [c EXCEPT !.state = "opening", !.by = t, !.sid = Sid(t)]
    BY <1>2, <2>2 DEF selinux_file_open
  <2>4. DOMAIN c = FileFields /\ c.pseqno = 0
    BY <2>2
  <2>5. file'.state = "opening" /\ file'.by = t /\ file'.pseqno = 0 /\ DOMAIN file' = FileFields
    BY <2>3, <2>4
  <2>6. UNCHANGED <<policy, cached, seqno, notif, load>>
    BY <1>2 DEF selinux_file_open
  <2>7. \A u \in Tasks : task'[u].op = "open" => file'.state = "opening" /\ file'.by = u
    BY <2>1, <2>5
  <2> QED BY <2>5, <2>6, <2>7
<1>3. ASSUME NEW t \in Tasks, SaveLabel(t) PROVE OpenOK'
  <2>1. \A u \in Tasks : task'[u].op = task[u].op
    BY <1>3 DEF SaveLabel, Goto, TaskFields
  <2>2. task[t].op = "open"
    BY <1>3 DEF SaveLabel, TaskOK, OpOf
  <2> QED BY <1>3, <2>1, <2>2 DEF SaveLabel
<1>4. ASSUME NEW t \in Tasks, SaveSeqno(t) PROVE OpenOK'
  <2>1. \A u \in Tasks : task'[u].op = task[u].op
    BY <1>4 DEF SaveSeqno, Goto, TaskFields
  <2>2. task[t].op = "open"
    BY <1>4 DEF SaveSeqno, TaskOK, OpOf
  <2> QED BY <1>4, <2>1, <2>2 DEF SaveSeqno
<1>5. ASSUME NEW t \in Tasks, Recheck(t) PROVE OpenOK'
  <2>1. task[t].op = "open"
    BY <1>5 DEF Recheck, TaskOK, OpOf
  <2>2. \A u \in Tasks : task'[u].op # "open"
    BY <1>5, <2>1 DEF Recheck, Ends, Idle
  <2>3. UNCHANGED <<policy, cached, seqno, notif, load>>
    BY <1>5 DEF Recheck
  <2>4. CASE file' = Closed
    BY <2>2, <2>3, <2>4
  <2>5. CASE /\ file' = [file EXCEPT !.state = "open", !.checked = isec[File].sid]
             /\ \E labels \in {policy, cached} : Allowed(file.sid, isec[File].sid, labels)
    BY <2>2, <2>3, <2>5 DEF Allowed
  <2> QED BY <1>5, <2>4, <2>5 DEF Recheck
<1>6. CASE Close
  BY <1>6 DEF Close
<1>7. ASSUME NEW labels \in SUBSET Labels, LoadCommit(labels) PROVE OpenOK'
  BY <1>7 DEF LoadCommit
<1>8. CASE LoadFlush
  BY <1>8 DEF LoadFlush
<1>9. CASE LoadNotify
  BY <1>9 DEF LoadNotify
<1> HIDE DEF OpenOK
<1> QED BY <1>1, <1>2, <1>3, <1>4, <1>5, <1>6, <1>7, <1>8, <1>9, FileFrame DEF FileStep

\* So that a test that is skipped is one that the policy in force passes.
LEMMA OpenSkips ==
    ASSUME OpenOK
    PROVE  SkipSound
BY DEF OpenOK, SkipSound, NoChange, Allowed

-----------------------------------------------------------------------------
(* How the superblock changes.                                             *)

\* The superblock of a mount that failed is a new one again.
Discarded ==
    /\ DOMAIN sb' = SbFields /\ sb'.type = sb.type /\ sb'.behavior = "unset" /\ sb'.flags = {}
    /\ DOMAIN isec' = Inodes /\ named' = {Root}
    /\ \A i \in Inodes : /\ DOMAIN isec'[i] = {"sid", "init", "listed"}
                         /\ isec'[i].init = "INVALID"

\* It is mounted before there is a policy.
MountedEarly ==
    /\ DOMAIN sb' = SbFields /\ sb'.type = sb.type /\ sb'.behavior = sb.behavior
    /\ sb'.flags \subseteq sb.flags \cup {"native"}
    /\ up' = TRUE /\ ~loaded /\ UNCHANGED <<isec, named, task>>

\* It is set up, and an option may have labelled the root.
SetUp(t) ==
    /\ loaded /\ "init" \notin sb.flags
    /\ DOMAIN sb' = SbFields /\ sb'.type = sb.type /\ "init" \in sb'.flags
    /\ "label" \in sb'.flags <=> selinux_is_sblabel_mnt(sb')
    /\ task[t].op = "none" /\ task[t].label = NoSid
    /\ task' = [task EXCEPT ![t] = Call(t, "mount", Root, TRUE)]
    /\ DOMAIN isec' = Inodes /\ \A i \in Inodes : DOMAIN isec'[i] = {"sid", "init", "listed"}
    /\ \A i \in Inodes : isec'[i] = isec[i] \/
          /\ i = Root
          /\ sb'.behavior \in {"XATTR", "NATIVE"} => "root" \in sb'.flags
          /\ sb'.behavior = "MNTPOINT" => "root" \in sb'.flags \/ isec'[i].sid = sb'.mntpoint
    /\ UNCHANGED <<up, named, raced>>

\* selinux_set_mnt_opts() of a loaded policy sets the superblock up.
LEMMA FinishMoves ==
    ASSUME Shapes, SbOK, loaded = TRUE, "init" \notin sb.flags, NEW t \in Tasks,
           task[t].op = "none", task[t].label = NoSid,
           NEW o, NEW may, NEW r, r = selinux_set_mnt_opts(TRUE, sb, isec[Root].sid, o, may),
           r.rc = "ok", FinishOpts(t, r), UNCHANGED <<up, named, raced>>
    PROVE  SetUp(t)
<1>1. DOMAIN sb = SbFields /\ sb.flags \subseteq {"native"} /\ sb.behavior = "unset"
  BY DEF Shapes, SbOK
<1>2. /\ DOMAIN r.sb = SbFields /\ r.sb.type = sb.type
      /\ "init" \in r.sb.flags
      /\ "label" \in r.sb.flags <=> selinux_is_sblabel_mnt(r.sb)
      /\ r.root # "kept" /\ r.sb.behavior \in {"XATTR", "NATIVE"} => "root" \in r.sb.flags
      /\ r.root # "kept" /\ r.sb.behavior = "MNTPOINT" =>
            "root" \in r.sb.flags \/ r.root = r.sb.mntpoint
  <2>1. r = selinux_set_mnt_opts(TRUE, sb, isec[Root].sid, o, may) /\ r.rc = "ok"
    OBVIOUS
  <2>2. "init" \notin sb.flags
    OBVIOUS
  <2>3. selinux_set_mnt_opts(TRUE, sb, isec[Root].sid, o, may).rc = "ok"
    BY ONLY <2>1
  <2>4. SetUpTo(sb, r.sb, r.root)
    BY ONLY <1>1, <2>1, <2>2, <2>3, SetOpts
  <2> QED BY ONLY <2>4 DEF SetUpTo
<1>3. /\ sb' = r.sb
      /\ isec' = IF r.root = "kept" THEN isec
                 ELSE [isec EXCEPT ![Root].sid = r.root, ![Root].init = "INITIALIZED"]
      /\ task' = [task EXCEPT ![t] = Call(t, "mount", Root, TRUE)]
  BY DEF FinishOpts
<1>4. /\ DOMAIN isec' = Inodes /\ \A i \in Inodes : DOMAIN isec'[i] = {"sid", "init", "listed"}
      /\ \A i \in Inodes : isec'[i] = isec[i] \/
            (i = Root /\ r.root # "kept" /\ isec'[i].sid = r.root)
  BY ONLY <1>3, Shapes DEF Shapes, Inodes
<1> QED BY <1>1, <1>2, <1>3, <1>4 DEF SetUp

\* A mount is refused, precedes the policy or sets the superblock up; nobody else is at
\* work then.
LEMMA MountMoves ==
    ASSUME Shapes, \A u \in Tasks : TaskOK(u), SbOK,
           NEW t \in Tasks, NEW o, NEW may, Mount(t, o, may)
    PROVE  /\ ~up /\ \A u \in Tasks : At(u, "idle")
           /\ \/ Discarded /\ UNCHANGED <<task, up>>
              \/ MountedEarly
              \/ SetUp(t)
<1> DEFINE r == selinux_set_mnt_opts(loaded, sb, isec[Root].sid, o, may)
<1>1. ~up /\ \A u \in Tasks : At(u, "idle")
  BY DEF Mount
<1>2. \A u \in Tasks : task[u].op = "none" /\ task[u].label = NoSid
  BY <1>1 DEF TaskOK, OpOf, At
<1>3. "init" \notin sb.flags
  BY <1>1, <1>2 DEF SbOK, Mounting
<1>4. CASE r.rc # "ok"
  <2>1. sb' = selinux_sb_alloc_security(sb.type, sb.userns)
        /\ isec' = [i \in Inodes |-> inode_alloc_security] /\ named' = {Root}
        /\ UNCHANGED <<task, up>>
    BY <1>4 DEF Mount, Discard
  <2> QED BY <1>1, <2>1, NewSb DEF Discarded, inode_alloc_security
<1>5. CASE r.rc = "ok" /\ loaded
  <2>1. FinishOpts(t, r) /\ UNCHANGED <<up, named, raced>>
    BY <1>5 DEF Mount
  <2>2. loaded = TRUE
    BY <1>5 DEF SbOK
  <2> QED BY <1>1, <1>2, <1>3, <1>5, <2>1, <2>2, FinishMoves
<1>6. CASE r.rc = "ok" /\ ~loaded
  <2>1. sb' = r.sb /\ up' = TRUE /\ UNCHANGED <<isec, named, task>>
    BY <1>6 DEF Mount
  <2>2. loaded = FALSE /\ DOMAIN sb = SbFields
    BY <1>6 DEF SbOK, Shapes
  <2>3. /\ DOMAIN r.sb = SbFields /\ r.sb.type = sb.type /\ r.sb.behavior = sb.behavior
        /\ r.sb.flags = sb.flags \cup (IF Native(sb.type) THEN {"native"} ELSE {})
    <3>1. r = selinux_set_mnt_opts(FALSE, sb, isec[Root].sid, o, may) /\ r.rc = "ok"
      BY <1>6, <2>2
    <3>2. selinux_set_mnt_opts(FALSE, sb, isec[Root].sid, o, may).rc = "ok"
      BY ONLY <3>1
    <3>3. MountedFor(sb, r.sb)
      BY ONLY <2>2, <3>1, <3>2, SetEarly
    <3> QED BY ONLY <3>3 DEF MountedFor
  <2> QED BY <1>1, <1>6, <2>1, <2>3 DEF MountedEarly
<1> QED BY <1>4, <1>5, <1>6

\* selinux_complete_init() sets the superblock up, if that is still to be done.
LEMMA CompleteMoves ==
    ASSUME Shapes, \A u \in Tasks : TaskOK(u), SbOK,
           NEW t \in Tasks, selinux_complete_init(t)
    PROVE  \/ up /\ ~Mounting /\ SetUp(t)
           \/ Ends(t) /\ At(t, "complete") /\ UNCHANGED <<sb, isec, up, named>>
<1> DEFINE r == selinux_set_mnt_opts(TRUE, sb, isec[Root].sid, NoOpts, TRUE)
<1>1. At(t, "complete") /\ ~Mounting /\ UNCHANGED <<up, named, raced>>
  BY DEF selinux_complete_init
<1>2. loaded = TRUE /\ task[t].op = "none" /\ task[t].label = NoSid /\ DOMAIN sb = SbFields
  BY <1>1 DEF SbOK, TaskOK, OpOf, At, Shapes
<1>3. CASE up /\ "init" \notin sb.flags
  <2>1. FinishOpts(t, r)
    BY <1>3 DEF selinux_complete_init
  <2>2. r.rc = "ok"
    BY <1>2, <1>3, SetNone
  <2>3. PICK z : z = r
    OBVIOUS
  <2>4. SetUp(t)
    BY <1>1, <1>2, <1>3, <2>1, <2>2, <2>3, FinishMoves
  <2> QED BY <1>1, <1>3, <2>4
<1>4. CASE ~(up /\ "init" \notin sb.flags)
  BY <1>1, <1>4 DEF selinux_complete_init
<1> QED BY <1>3, <1>4

\* A mount that could not label the root is given up.
LEMMA DrainedMoves ==
    ASSUME NEW t \in Tasks, Drained(t)
    PROVE  /\ At(t, "drain") /\ Ends(t) /\ UNCHANGED <<loaded, scene>>
           /\ \/ ~up /\ Discarded /\ up' = FALSE
              \/ up' = TRUE /\ UNCHANGED <<sb, isec, named>>
<1>1. CASE ~up /\ task[t].ret # "ok"
  <2>1. /\ At(t, "drain") /\ Ends(t) /\ up' = FALSE /\ UNCHANGED <<loaded, scene>>
        /\ sb' = selinux_sb_alloc_security(sb.type, sb.userns)
        /\ isec' = [i \in Inodes |-> inode_alloc_security] /\ named' = {Root}
    BY <1>1 DEF Drained, Discard
  <2> QED BY <1>1, <2>1, NewSb DEF Discarded, inode_alloc_security
<1>2. CASE ~(~up /\ task[t].ret # "ok")
  BY <1>2 DEF Drained
<1> QED BY <1>1, <1>2

InodeShape ==
    DOMAIN isec = Inodes /\ \A i \in Inodes : DOMAIN isec[i] = {"sid", "init", "listed"}
OtherShapes == DOMAIN sb = SbFields /\ DOMAIN xattr = Inodes /\ DOMAIN file = FileFields

\* A step leaves the inodes of the shape they had ...
LEMMA InodeShapeKept ==
    ASSUME Shapes, \A u \in Tasks : TaskOK(u), SbOK, [Next]_vars
    PROVE  InodeShape'
<1> USE DEF InodeShape, Shapes, Inodes, mountVars
<1>1. ASSUME NEW t \in Tasks, AlreadyLabelled(t) PROVE InodeShape'
  BY <1>1 DEF AlreadyLabelled
<1>2. ASSUME NEW t \in Tasks, Defer(t) PROVE InodeShape'
  BY <1>2 DEF Defer
<1>3. ASSUME NEW t \in Tasks, Queue(t) PROVE InodeShape'
  BY <1>3 DEF Queue
<1>4. ASSUME NEW t \in Tasks, Begin(t) PROVE InodeShape'
  BY <1>4 DEF Begin
<1>5. ASSUME NEW t \in Tasks, Fetch(t) PROVE InodeShape'
  BY <1>5 DEF Fetch
<1>6. ASSUME NEW t \in Tasks, Install(t) PROVE InodeShape'
  <2>1. PICK k : k = isec[task[t].ino]
    OBVIOUS
  <2>2. DOMAIN Labelled(k, task[t].rc, task[t].sid) = DOMAIN k
    BY DEF Labelled
  <2>3. isec' = isec \/ isec' = [isec EXCEPT ![task[t].ino] = Labelled(k, task[t].rc, task[t].sid)]
    BY <1>6, <2>1 DEF Install, Installed
  <2> QED BY <2>1, <2>2, <2>3 DEF TaskOK
<1>7. ASSUME NEW t \in Tasks, NEW o \in OptsAsked, NEW may \in BOOLEAN, Mount(t, o, may)
      PROVE  InodeShape'
  BY <1>7, MountMoves DEF Discarded, MountedEarly, SetUp
<1>8. ASSUME NEW t \in Tasks, NEW i \in Inodes, Drain(t, i) PROVE InodeShape'
  BY <1>8 DEF Drain
<1>9. ASSUME NEW t \in Tasks, Drained(t) PROVE InodeShape'
  BY <1>9, DrainedMoves DEF Discarded
<1>10. ASSUME NEW t \in Tasks, LoadFirst(t) PROVE InodeShape'
  BY <1>10 DEF LoadFirst
<1>11. ASSUME NEW t \in Tasks, selinux_complete_init(t) PROVE InodeShape'
  BY <1>11, CompleteMoves DEF SetUp
<1>12. ASSUME NEW t \in Tasks, selinux_d_instantiate(t) PROVE InodeShape'
  BY <1>12 DEF selinux_d_instantiate
<1>13. CASE Prune
  BY <1>13 DEF Prune
<1>14. ASSUME NEW t \in Tasks, NEW i \in Inodes, inode_security(t, i) PROVE InodeShape'
  BY <1>14 DEF inode_security
<1>15. ASSUME NEW t \in Tasks, CreateStart(t) PROVE InodeShape'
  BY <1>15 DEF CreateStart
<1>16. ASSUME NEW t \in Tasks, NEW c \in {NoSid} \cup Labels, selinux_inode_init_security(t, c)
      PROVE  InodeShape'
  BY <1>16 DEF selinux_inode_init_security
<1>17. ASSUME NEW t \in Tasks, selinux_task_to_inode(t) PROVE InodeShape'
  BY <1>17 DEF selinux_task_to_inode
<1>18. ASSUME NEW t \in Tasks, NEW l \in Labels, selinux_inode_setxattr(t, l) PROVE InodeShape'
  BY <1>18 DEF selinux_inode_setxattr
<1>19. ASSUME NEW t \in Tasks, SetxattrDenied(t) PROVE InodeShape'
  BY <1>19 DEF SetxattrDenied
<1>20. ASSUME NEW t \in Tasks, StoreXattr(t) PROVE InodeShape'
  BY <1>20 DEF StoreXattr
<1>21. ASSUME NEW t \in Tasks, selinux_inode_setsecurity(t) PROVE InodeShape'
  BY <1>21 DEF selinux_inode_setsecurity
<1>22. ASSUME NEW t \in Tasks, selinux_inode_post_setxattr(t) PROVE InodeShape'
  BY <1>22 DEF selinux_inode_post_setxattr
<1>23. ASSUME NEW t \in Tasks, PostSet(t) PROVE InodeShape'
  BY <1>23 DEF PostSet
<1>24. ASSUME NEW l \in Labels, ServerRelabel(l) PROVE InodeShape'
  BY <1>24 DEF ServerRelabel
<1>25. ASSUME NEW t \in Tasks, selinux_inode_notifysecctx(t) PROVE InodeShape'
  BY <1>25 DEF selinux_inode_notifysecctx
<1>26. ASSUME NEW t \in Tasks, selinux_inode_invalidate_secctx(t) PROVE InodeShape'
  BY <1>26 DEF selinux_inode_invalidate_secctx
<1>27. ASSUME NEW t \in Tasks, selinux_file_open(t) PROVE InodeShape'
  BY <1>27 DEF selinux_file_open
<1>28. ASSUME NEW t \in Tasks, SaveLabel(t) PROVE InodeShape'
  BY <1>28 DEF SaveLabel
<1>29. ASSUME NEW t \in Tasks, SaveSeqno(t) PROVE InodeShape'
  BY <1>29 DEF SaveSeqno
<1>30. ASSUME NEW t \in Tasks, Recheck(t) PROVE InodeShape'
  BY <1>30 DEF Recheck
<1>31. CASE Close
  BY <1>31 DEF Close
<1>32. ASSUME NEW labels \in SUBSET Labels, LoadCommit(labels) PROVE InodeShape'
  BY <1>32 DEF LoadCommit
<1>33. CASE LoadFlush
  BY <1>33 DEF LoadFlush
<1>34. CASE LoadNotify
  BY <1>34 DEF LoadNotify
<1>35. CASE UNCHANGED vars
  BY <1>35 DEF vars
<1> HIDE DEF InodeShape, Shapes
<1> QED
  BY <1>1, <1>2, <1>3, <1>4, <1>5, <1>6, <1>7, <1>8, <1>9, <1>10, <1>11, <1>12, <1>13, <1>14,
     <1>15, <1>16, <1>17, <1>18, <1>19, <1>20, <1>21, <1>22, <1>23, <1>24, <1>25, <1>26, <1>27,
     <1>28, <1>29, <1>30, <1>31, <1>32, <1>33, <1>34, <1>35 DEF Next

\* ... and the superblock, the medium and the open file too.
LEMMA OtherShapesKept ==
    ASSUME Shapes, \A u \in Tasks : TaskOK(u), SbOK, [Next]_vars
    PROVE  OtherShapes'
<1> USE DEF OtherShapes, Shapes, Inodes, mountVars, fileVars, Closed, FileFields
<1>1. ASSUME NEW t \in Tasks, AlreadyLabelled(t) PROVE OtherShapes'
  BY <1>1 DEF AlreadyLabelled
<1>2. ASSUME NEW t \in Tasks, Defer(t) PROVE OtherShapes'
  BY <1>2 DEF Defer
<1>3. ASSUME NEW t \in Tasks, Queue(t) PROVE OtherShapes'
  BY <1>3 DEF Queue
<1>4. ASSUME NEW t \in Tasks, Begin(t) PROVE OtherShapes'
  BY <1>4 DEF Begin
<1>5. ASSUME NEW t \in Tasks, Fetch(t) PROVE OtherShapes'
  BY <1>5 DEF Fetch
<1>6. ASSUME NEW t \in Tasks, Install(t) PROVE OtherShapes'
  BY <1>6 DEF Install
<1>7. ASSUME NEW t \in Tasks, NEW o \in OptsAsked, NEW may \in BOOLEAN, Mount(t, o, may)
      PROVE  OtherShapes'
  <2>1. UNCHANGED <<xattr, file>>
    BY <1>7 DEF Mount
  <2> QED BY <1>7, <2>1, MountMoves DEF Discarded, MountedEarly, SetUp
<1>8. ASSUME NEW t \in Tasks, NEW i \in Inodes, Drain(t, i) PROVE OtherShapes'
  BY <1>8 DEF Drain
<1>9. ASSUME NEW t \in Tasks, Drained(t) PROVE OtherShapes'
  <2>1. UNCHANGED <<xattr, file>>
    BY <1>9 DEF Drained
  <2> QED BY <1>9, <2>1, DrainedMoves DEF Discarded
<1>10. ASSUME NEW t \in Tasks, LoadFirst(t) PROVE OtherShapes'
  BY <1>10 DEF LoadFirst
<1>11. ASSUME NEW t \in Tasks, selinux_complete_init(t) PROVE OtherShapes'
  <2>1. UNCHANGED <<xattr, file>>
    BY <1>11 DEF selinux_complete_init
  <2> QED BY <1>11, <2>1, CompleteMoves DEF SetUp
<1>12. ASSUME NEW t \in Tasks, selinux_d_instantiate(t) PROVE OtherShapes'
  BY <1>12 DEF selinux_d_instantiate
<1>13. CASE Prune
  BY <1>13 DEF Prune
<1>14. ASSUME NEW t \in Tasks, NEW i \in Inodes, inode_security(t, i) PROVE OtherShapes'
  BY <1>14 DEF inode_security
<1>15. ASSUME NEW t \in Tasks, CreateStart(t) PROVE OtherShapes'
  BY <1>15 DEF CreateStart
<1>16. ASSUME NEW t \in Tasks, NEW c \in {NoSid} \cup Labels, selinux_inode_init_security(t, c)
      PROVE  OtherShapes'
  BY <1>16 DEF selinux_inode_init_security
<1>17. ASSUME NEW t \in Tasks, selinux_task_to_inode(t) PROVE OtherShapes'
  BY <1>17 DEF selinux_task_to_inode
<1>18. ASSUME NEW t \in Tasks, NEW l \in Labels, selinux_inode_setxattr(t, l) PROVE OtherShapes'
  BY <1>18 DEF selinux_inode_setxattr
<1>19. ASSUME NEW t \in Tasks, SetxattrDenied(t) PROVE OtherShapes'
  BY <1>19 DEF SetxattrDenied
<1>20. ASSUME NEW t \in Tasks, StoreXattr(t) PROVE OtherShapes'
  BY <1>20 DEF StoreXattr
<1>21. ASSUME NEW t \in Tasks, selinux_inode_setsecurity(t) PROVE OtherShapes'
  BY <1>21 DEF selinux_inode_setsecurity
<1>22. ASSUME NEW t \in Tasks, selinux_inode_post_setxattr(t) PROVE OtherShapes'
  BY <1>22 DEF selinux_inode_post_setxattr
<1>23. ASSUME NEW t \in Tasks, PostSet(t) PROVE OtherShapes'
  BY <1>23 DEF PostSet
<1>24. ASSUME NEW l \in Labels, ServerRelabel(l) PROVE OtherShapes'
  BY <1>24 DEF ServerRelabel
<1>25. ASSUME NEW t \in Tasks, selinux_inode_notifysecctx(t) PROVE OtherShapes'
  BY <1>25 DEF selinux_inode_notifysecctx
<1>26. ASSUME NEW t \in Tasks, selinux_inode_invalidate_secctx(t) PROVE OtherShapes'
  BY <1>26 DEF selinux_inode_invalidate_secctx
<1>27. ASSUME NEW t \in Tasks, selinux_file_open(t) PROVE OtherShapes'
  BY <1>27 DEF selinux_file_open
<1>28. ASSUME NEW t \in Tasks, SaveLabel(t) PROVE OtherShapes'
  BY <1>28 DEF SaveLabel
<1>29. ASSUME NEW t \in Tasks, SaveSeqno(t) PROVE OtherShapes'
  BY <1>29 DEF SaveSeqno
<1>30. ASSUME NEW t \in Tasks, Recheck(t) PROVE OtherShapes'
  BY <1>30 DEF Recheck
<1>31. CASE Close
  BY <1>31 DEF Close
<1>32. ASSUME NEW labels \in SUBSET Labels, LoadCommit(labels) PROVE OtherShapes'
  BY <1>32 DEF LoadCommit
<1>33. CASE LoadFlush
  BY <1>33 DEF LoadFlush
<1>34. CASE LoadNotify
  BY <1>34 DEF LoadNotify
<1>35. CASE UNCHANGED vars
  BY <1>35 DEF vars
<1> HIDE DEF OtherShapes, Shapes
<1> QED
  BY <1>1, <1>2, <1>3, <1>4, <1>5, <1>6, <1>7, <1>8, <1>9, <1>10, <1>11, <1>12, <1>13, <1>14,
     <1>15, <1>16, <1>17, <1>18, <1>19, <1>20, <1>21, <1>22, <1>23, <1>24, <1>25, <1>26, <1>27,
     <1>28, <1>29, <1>30, <1>31, <1>32, <1>33, <1>34, <1>35 DEF Next

\* The shapes of all variables.
LEMMA ShapesStay ==
    ASSUME Shapes, \A u \in Tasks : TaskOK(u), SbOK, [Next]_vars
    PROVE  Shapes'
BY TaskShapeKept, InodeShapeKept, OtherShapesKept DEF Shapes, TaskShape, InodeShape, OtherShapes

-----------------------------------------------------------------------------
(* Who is at work on the superblock.                                       *)

\* The steps of a mount.
MountStep(t) ==
    \/ \E o \in OptsAsked, may \in BOOLEAN : Mount(t, o, may)
    \/ Drained(t) \/ selinux_complete_init(t)

\* No other step changes the superblock.
LEMMA MountFrame ==
    ASSUME [Next]_vars
    PROVE  UNCHANGED mountVars \/ \E a \in Tasks : MountStep(a)
<1> USE DEF mountVars
<1>1. ASSUME NEW t \in Tasks, AlreadyLabelled(t)
      PROVE  UNCHANGED mountVars \/ \E a \in Tasks : MountStep(a)
  BY <1>1 DEF AlreadyLabelled
<1>2. ASSUME NEW t \in Tasks, Defer(t) PROVE UNCHANGED mountVars \/ \E a \in Tasks : MountStep(a)
  BY <1>2 DEF Defer
<1>3. ASSUME NEW t \in Tasks, Queue(t) PROVE UNCHANGED mountVars \/ \E a \in Tasks : MountStep(a)
  BY <1>3 DEF Queue
<1>4. ASSUME NEW t \in Tasks, Begin(t) PROVE UNCHANGED mountVars \/ \E a \in Tasks : MountStep(a)
  BY <1>4 DEF Begin
<1>5. ASSUME NEW t \in Tasks, Fetch(t) PROVE UNCHANGED mountVars \/ \E a \in Tasks : MountStep(a)
  BY <1>5 DEF Fetch
<1>6. ASSUME NEW t \in Tasks, Install(t) PROVE UNCHANGED mountVars \/ \E a \in Tasks : MountStep(a)
  BY <1>6 DEF Install
<1>7. ASSUME NEW t \in Tasks, NEW o \in OptsAsked, NEW may \in BOOLEAN, Mount(t, o, may)
      PROVE  UNCHANGED mountVars \/ \E a \in Tasks : MountStep(a)
  BY <1>7 DEF MountStep
<1>8. ASSUME NEW t \in Tasks, NEW i \in Inodes, Drain(t, i)
      PROVE  UNCHANGED mountVars \/ \E a \in Tasks : MountStep(a)
  BY <1>8 DEF Drain
<1>9. ASSUME NEW t \in Tasks, Drained(t) PROVE UNCHANGED mountVars \/ \E a \in Tasks : MountStep(a)
  BY <1>9 DEF MountStep
<1>10. ASSUME NEW t \in Tasks, LoadFirst(t)
      PROVE  UNCHANGED mountVars \/ \E a \in Tasks : MountStep(a)
  BY <1>10 DEF LoadFirst
<1>11. ASSUME NEW t \in Tasks, selinux_complete_init(t)
      PROVE  UNCHANGED mountVars \/ \E a \in Tasks : MountStep(a)
  BY <1>11 DEF MountStep
<1>12. ASSUME NEW t \in Tasks, selinux_d_instantiate(t)
      PROVE  UNCHANGED mountVars \/ \E a \in Tasks : MountStep(a)
  BY <1>12 DEF selinux_d_instantiate
<1>13. CASE Prune
  BY <1>13 DEF Prune
<1>14. ASSUME NEW t \in Tasks, NEW i \in Inodes, inode_security(t, i)
      PROVE  UNCHANGED mountVars \/ \E a \in Tasks : MountStep(a)
  BY <1>14 DEF inode_security
<1>15. ASSUME NEW t \in Tasks, CreateStart(t)
      PROVE  UNCHANGED mountVars \/ \E a \in Tasks : MountStep(a)
  BY <1>15 DEF CreateStart
<1>16. ASSUME NEW t \in Tasks, NEW c \in {NoSid} \cup Labels, selinux_inode_init_security(t, c)
      PROVE  UNCHANGED mountVars \/ \E a \in Tasks : MountStep(a)
  BY <1>16 DEF selinux_inode_init_security
<1>17. ASSUME NEW t \in Tasks, selinux_task_to_inode(t)
      PROVE  UNCHANGED mountVars \/ \E a \in Tasks : MountStep(a)
  BY <1>17 DEF selinux_task_to_inode
<1>18. ASSUME NEW t \in Tasks, NEW l \in Labels, selinux_inode_setxattr(t, l)
      PROVE  UNCHANGED mountVars \/ \E a \in Tasks : MountStep(a)
  BY <1>18 DEF selinux_inode_setxattr
<1>19. ASSUME NEW t \in Tasks, SetxattrDenied(t)
      PROVE  UNCHANGED mountVars \/ \E a \in Tasks : MountStep(a)
  BY <1>19 DEF SetxattrDenied
<1>20. ASSUME NEW t \in Tasks, StoreXattr(t)
      PROVE  UNCHANGED mountVars \/ \E a \in Tasks : MountStep(a)
  BY <1>20 DEF StoreXattr
<1>21. ASSUME NEW t \in Tasks, selinux_inode_setsecurity(t)
      PROVE  UNCHANGED mountVars \/ \E a \in Tasks : MountStep(a)
  BY <1>21 DEF selinux_inode_setsecurity
<1>22. ASSUME NEW t \in Tasks, selinux_inode_post_setxattr(t)
      PROVE  UNCHANGED mountVars \/ \E a \in Tasks : MountStep(a)
  BY <1>22 DEF selinux_inode_post_setxattr
<1>23. ASSUME NEW t \in Tasks, PostSet(t)
      PROVE  UNCHANGED mountVars \/ \E a \in Tasks : MountStep(a)
  BY <1>23 DEF PostSet
<1>24. ASSUME NEW l \in Labels, ServerRelabel(l)
      PROVE  UNCHANGED mountVars \/ \E a \in Tasks : MountStep(a)
  BY <1>24 DEF ServerRelabel
<1>25. ASSUME NEW t \in Tasks, selinux_inode_notifysecctx(t)
      PROVE  UNCHANGED mountVars \/ \E a \in Tasks : MountStep(a)
  BY <1>25 DEF selinux_inode_notifysecctx
<1>26. ASSUME NEW t \in Tasks, selinux_inode_invalidate_secctx(t)
      PROVE  UNCHANGED mountVars \/ \E a \in Tasks : MountStep(a)
  BY <1>26 DEF selinux_inode_invalidate_secctx
<1>27. ASSUME NEW t \in Tasks, selinux_file_open(t)
      PROVE  UNCHANGED mountVars \/ \E a \in Tasks : MountStep(a)
  BY <1>27 DEF selinux_file_open
<1>28. ASSUME NEW t \in Tasks, SaveLabel(t)
      PROVE  UNCHANGED mountVars \/ \E a \in Tasks : MountStep(a)
  BY <1>28 DEF SaveLabel
<1>29. ASSUME NEW t \in Tasks, SaveSeqno(t)
      PROVE  UNCHANGED mountVars \/ \E a \in Tasks : MountStep(a)
  BY <1>29 DEF SaveSeqno
<1>30. ASSUME NEW t \in Tasks, Recheck(t)
      PROVE  UNCHANGED mountVars \/ \E a \in Tasks : MountStep(a)
  BY <1>30 DEF Recheck
<1>31. CASE Close
  BY <1>31 DEF Close
<1>32. ASSUME NEW labels \in SUBSET Labels, LoadCommit(labels)
      PROVE  UNCHANGED mountVars \/ \E a \in Tasks : MountStep(a)
  BY <1>32 DEF LoadCommit
<1>33. CASE LoadFlush
  BY <1>33 DEF LoadFlush
<1>34. CASE LoadNotify
  BY <1>34 DEF LoadNotify
<1>35. CASE UNCHANGED vars
  BY <1>35 DEF vars
<1> QED
  BY <1>1, <1>2, <1>3, <1>4, <1>5, <1>6, <1>7, <1>8, <1>9, <1>10, <1>11, <1>12, <1>13, <1>14,
     <1>15, <1>16, <1>17, <1>18, <1>19, <1>20, <1>21, <1>22, <1>23, <1>24, <1>25, <1>26, <1>27,
     <1>28, <1>29, <1>30, <1>31, <1>32, <1>33, <1>34, <1>35 DEF Next

\* The policy is loaded once.
LEMMA LoadFrame ==
    ASSUME [Next]_vars
    PROVE  UNCHANGED loaded \/ (loaded' = TRUE /\ UNCHANGED mountVars)
<1> USE DEF mountVars
<1>1. ASSUME NEW t \in Tasks, AlreadyLabelled(t)
      PROVE  UNCHANGED loaded \/ (loaded' = TRUE /\ UNCHANGED mountVars)
  BY <1>1 DEF AlreadyLabelled
<1>2. ASSUME NEW t \in Tasks, Defer(t)
      PROVE  UNCHANGED loaded \/ (loaded' = TRUE /\ UNCHANGED mountVars)
  BY <1>2 DEF Defer
<1>3. ASSUME NEW t \in Tasks, Queue(t)
      PROVE  UNCHANGED loaded \/ (loaded' = TRUE /\ UNCHANGED mountVars)
  BY <1>3 DEF Queue
<1>4. ASSUME NEW t \in Tasks, Begin(t)
      PROVE  UNCHANGED loaded \/ (loaded' = TRUE /\ UNCHANGED mountVars)
  BY <1>4 DEF Begin
<1>5. ASSUME NEW t \in Tasks, Fetch(t)
      PROVE  UNCHANGED loaded \/ (loaded' = TRUE /\ UNCHANGED mountVars)
  BY <1>5 DEF Fetch
<1>6. ASSUME NEW t \in Tasks, Install(t)
      PROVE  UNCHANGED loaded \/ (loaded' = TRUE /\ UNCHANGED mountVars)
  BY <1>6 DEF Install
<1>7. ASSUME NEW t \in Tasks, NEW o \in OptsAsked, NEW may \in BOOLEAN, Mount(t, o, may)
      PROVE  UNCHANGED loaded \/ (loaded' = TRUE /\ UNCHANGED mountVars)
  BY <1>7 DEF Mount
<1>8. ASSUME NEW t \in Tasks, NEW i \in Inodes, Drain(t, i)
      PROVE  UNCHANGED loaded \/ (loaded' = TRUE /\ UNCHANGED mountVars)
  BY <1>8 DEF Drain
<1>9. ASSUME NEW t \in Tasks, Drained(t)
      PROVE  UNCHANGED loaded \/ (loaded' = TRUE /\ UNCHANGED mountVars)
  BY <1>9 DEF Drained
<1>10. ASSUME NEW t \in Tasks, LoadFirst(t)
      PROVE  UNCHANGED loaded \/ (loaded' = TRUE /\ UNCHANGED mountVars)
  BY <1>10 DEF LoadFirst
<1>11. ASSUME NEW t \in Tasks, selinux_complete_init(t)
      PROVE  UNCHANGED loaded \/ (loaded' = TRUE /\ UNCHANGED mountVars)
  BY <1>11 DEF selinux_complete_init
<1>12. ASSUME NEW t \in Tasks, selinux_d_instantiate(t)
      PROVE  UNCHANGED loaded \/ (loaded' = TRUE /\ UNCHANGED mountVars)
  BY <1>12 DEF selinux_d_instantiate
<1>13. CASE Prune
  BY <1>13 DEF Prune
<1>14. ASSUME NEW t \in Tasks, NEW i \in Inodes, inode_security(t, i)
      PROVE  UNCHANGED loaded \/ (loaded' = TRUE /\ UNCHANGED mountVars)
  BY <1>14 DEF inode_security
<1>15. ASSUME NEW t \in Tasks, CreateStart(t)
      PROVE  UNCHANGED loaded \/ (loaded' = TRUE /\ UNCHANGED mountVars)
  BY <1>15 DEF CreateStart
<1>16. ASSUME NEW t \in Tasks, NEW c \in {NoSid} \cup Labels, selinux_inode_init_security(t, c)
      PROVE  UNCHANGED loaded \/ (loaded' = TRUE /\ UNCHANGED mountVars)
  BY <1>16 DEF selinux_inode_init_security
<1>17. ASSUME NEW t \in Tasks, selinux_task_to_inode(t)
      PROVE  UNCHANGED loaded \/ (loaded' = TRUE /\ UNCHANGED mountVars)
  BY <1>17 DEF selinux_task_to_inode
<1>18. ASSUME NEW t \in Tasks, NEW l \in Labels, selinux_inode_setxattr(t, l)
      PROVE  UNCHANGED loaded \/ (loaded' = TRUE /\ UNCHANGED mountVars)
  BY <1>18 DEF selinux_inode_setxattr
<1>19. ASSUME NEW t \in Tasks, SetxattrDenied(t)
      PROVE  UNCHANGED loaded \/ (loaded' = TRUE /\ UNCHANGED mountVars)
  BY <1>19 DEF SetxattrDenied
<1>20. ASSUME NEW t \in Tasks, StoreXattr(t)
      PROVE  UNCHANGED loaded \/ (loaded' = TRUE /\ UNCHANGED mountVars)
  BY <1>20 DEF StoreXattr
<1>21. ASSUME NEW t \in Tasks, selinux_inode_setsecurity(t)
      PROVE  UNCHANGED loaded \/ (loaded' = TRUE /\ UNCHANGED mountVars)
  BY <1>21 DEF selinux_inode_setsecurity
<1>22. ASSUME NEW t \in Tasks, selinux_inode_post_setxattr(t)
      PROVE  UNCHANGED loaded \/ (loaded' = TRUE /\ UNCHANGED mountVars)
  BY <1>22 DEF selinux_inode_post_setxattr
<1>23. ASSUME NEW t \in Tasks, PostSet(t)
      PROVE  UNCHANGED loaded \/ (loaded' = TRUE /\ UNCHANGED mountVars)
  BY <1>23 DEF PostSet
<1>24. ASSUME NEW l \in Labels, ServerRelabel(l)
      PROVE  UNCHANGED loaded \/ (loaded' = TRUE /\ UNCHANGED mountVars)
  BY <1>24 DEF ServerRelabel
<1>25. ASSUME NEW t \in Tasks, selinux_inode_notifysecctx(t)
      PROVE  UNCHANGED loaded \/ (loaded' = TRUE /\ UNCHANGED mountVars)
  BY <1>25 DEF selinux_inode_notifysecctx
<1>26. ASSUME NEW t \in Tasks, selinux_inode_invalidate_secctx(t)
      PROVE  UNCHANGED loaded \/ (loaded' = TRUE /\ UNCHANGED mountVars)
  BY <1>26 DEF selinux_inode_invalidate_secctx
<1>27. ASSUME NEW t \in Tasks, selinux_file_open(t)
      PROVE  UNCHANGED loaded \/ (loaded' = TRUE /\ UNCHANGED mountVars)
  BY <1>27 DEF selinux_file_open
<1>28. ASSUME NEW t \in Tasks, SaveLabel(t)
      PROVE  UNCHANGED loaded \/ (loaded' = TRUE /\ UNCHANGED mountVars)
  BY <1>28 DEF SaveLabel
<1>29. ASSUME NEW t \in Tasks, SaveSeqno(t)
      PROVE  UNCHANGED loaded \/ (loaded' = TRUE /\ UNCHANGED mountVars)
  BY <1>29 DEF SaveSeqno
<1>30. ASSUME NEW t \in Tasks, Recheck(t)
      PROVE  UNCHANGED loaded \/ (loaded' = TRUE /\ UNCHANGED mountVars)
  BY <1>30 DEF Recheck
<1>31. CASE Close
  BY <1>31 DEF Close
<1>32. ASSUME NEW labels \in SUBSET Labels, LoadCommit(labels)
      PROVE  UNCHANGED loaded \/ (loaded' = TRUE /\ UNCHANGED mountVars)
  BY <1>32 DEF LoadCommit
<1>33. CASE LoadFlush
  BY <1>33 DEF LoadFlush
<1>34. CASE LoadNotify
  BY <1>34 DEF LoadNotify
<1>35. CASE UNCHANGED vars
  BY <1>35 DEF vars
<1> QED
  BY <1>1, <1>2, <1>3, <1>4, <1>5, <1>6, <1>7, <1>8, <1>9, <1>10, <1>11, <1>12, <1>13, <1>14,
     <1>15, <1>16, <1>17, <1>18, <1>19, <1>20, <1>21, <1>22, <1>23, <1>24, <1>25, <1>26, <1>27,
     <1>28, <1>29, <1>30, <1>31, <1>32, <1>33, <1>34, <1>35 DEF Next

\* While the file system is not mounted, a task begins only when no other is at work.
LEMMA BusyFrom ==
    ASSUME Shapes, \A u \in Tasks : TaskOK(u), SbOK, ~up, NEW u \in Tasks, ~Busy(u),
           [Next]_vars
    PROVE  ~Busy(u)' \/ \A v \in Tasks \ {u} : ~Busy(v)'
<1> USE DEF Busy, Shapes, mountVars, fileVars, Idle, At, Goto, Ends, Call, Return, Returned,
         Continue, TaskFields
<1>1. ASSUME NEW t \in Tasks, AlreadyLabelled(t)
      PROVE  ~Busy(u)' \/ \A v \in Tasks \ {u} : ~Busy(v)'
  BY <1>1 DEF AlreadyLabelled
<1>2. ASSUME NEW t \in Tasks, Defer(t) PROVE ~Busy(u)' \/ \A v \in Tasks \ {u} : ~Busy(v)'
  BY <1>2 DEF Defer
<1>3. ASSUME NEW t \in Tasks, Queue(t) PROVE ~Busy(u)' \/ \A v \in Tasks \ {u} : ~Busy(v)'
  BY <1>3 DEF Queue
<1>4. ASSUME NEW t \in Tasks, Begin(t) PROVE ~Busy(u)' \/ \A v \in Tasks \ {u} : ~Busy(v)'
  BY <1>4 DEF Begin
<1>5. ASSUME NEW t \in Tasks, Fetch(t) PROVE ~Busy(u)' \/ \A v \in Tasks \ {u} : ~Busy(v)'
  BY <1>5 DEF Fetch
<1>6. ASSUME NEW t \in Tasks, Install(t) PROVE ~Busy(u)' \/ \A v \in Tasks \ {u} : ~Busy(v)'
  BY <1>6 DEF Install
<1>7. ASSUME NEW t \in Tasks, NEW o \in OptsAsked, NEW may \in BOOLEAN, Mount(t, o, may)
      PROVE  ~Busy(u)' \/ \A v \in Tasks \ {u} : ~Busy(v)'
  <2>1. \A v \in Tasks : At(v, "idle")
    BY <1>7, MountMoves
  <2>2. \A v \in Tasks \ {t} : task'[v] = task[v]
    BY <1>7, MountMoves DEF Discarded, MountedEarly, SetUp
  <2> QED BY <2>1, <2>2
<1>8. ASSUME NEW t \in Tasks, NEW i \in Inodes, Drain(t, i)
      PROVE  ~Busy(u)' \/ \A v \in Tasks \ {u} : ~Busy(v)'
  BY <1>8 DEF Drain
<1>9. ASSUME NEW t \in Tasks, Drained(t) PROVE ~Busy(u)' \/ \A v \in Tasks \ {u} : ~Busy(v)'
  <2>1. At(t, "drain") /\ Ends(t)
    BY <1>9, DrainedMoves
  <2> QED BY <2>1
<1>10. ASSUME NEW t \in Tasks, LoadFirst(t) PROVE ~Busy(u)' \/ \A v \in Tasks \ {u} : ~Busy(v)'
  BY <1>10 DEF LoadFirst
<1>11. ASSUME NEW t \in Tasks, selinux_complete_init(t)
      PROVE  ~Busy(u)' \/ \A v \in Tasks \ {u} : ~Busy(v)'
  <2>1. CASE Ends(t) /\ At(t, "complete")
    BY <2>1
  <2>2. CASE up /\ task' = [task EXCEPT ![t] = Call(t, "mount", Root, TRUE)]
    BY <2>2
  <2> QED BY <1>11, <2>1, <2>2, CompleteMoves DEF SetUp
<1>12. ASSUME NEW t \in Tasks, selinux_d_instantiate(t)
      PROVE  ~Busy(u)' \/ \A v \in Tasks \ {u} : ~Busy(v)'
  <2>1. \A v \in Tasks : At(v, "idle")
    BY <1>12 DEF selinux_d_instantiate, Reachable
  <2> QED BY <1>12, <2>1 DEF selinux_d_instantiate
<1>13. CASE Prune
  BY <1>13 DEF Prune
<1>14. ASSUME NEW t \in Tasks, NEW i \in Inodes, inode_security(t, i)
      PROVE  ~Busy(u)' \/ \A v \in Tasks \ {u} : ~Busy(v)'
  BY <1>14 DEF inode_security
<1>15. ASSUME NEW t \in Tasks, CreateStart(t) PROVE ~Busy(u)' \/ \A v \in Tasks \ {u} : ~Busy(v)'
  BY <1>15 DEF CreateStart
<1>16. ASSUME NEW t \in Tasks, NEW c \in {NoSid} \cup Labels, selinux_inode_init_security(t, c)
      PROVE  ~Busy(u)' \/ \A v \in Tasks \ {u} : ~Busy(v)'
  <2>1. CASE At(t, "create") /\ Ends(t)
    BY <2>1
  <2>2. CASE At(t, "create") /\ task' = [task EXCEPT ![t] = Call(t, "instantiate", File, TRUE)]
    BY <2>2
  <2> QED BY <1>16, <2>1, <2>2 DEF selinux_inode_init_security
<1>17. ASSUME NEW t \in Tasks, selinux_task_to_inode(t)
      PROVE  ~Busy(u)' \/ \A v \in Tasks \ {u} : ~Busy(v)'
  BY <1>17 DEF selinux_task_to_inode
<1>18. ASSUME NEW t \in Tasks, NEW l \in Labels, selinux_inode_setxattr(t, l)
      PROVE  ~Busy(u)' \/ \A v \in Tasks \ {u} : ~Busy(v)'
  BY <1>18 DEF selinux_inode_setxattr
<1>19. ASSUME NEW t \in Tasks, SetxattrDenied(t)
      PROVE  ~Busy(u)' \/ \A v \in Tasks \ {u} : ~Busy(v)'
  BY <1>19 DEF SetxattrDenied
<1>20. ASSUME NEW t \in Tasks, StoreXattr(t) PROVE ~Busy(u)' \/ \A v \in Tasks \ {u} : ~Busy(v)'
  BY <1>20 DEF StoreXattr
<1>21. ASSUME NEW t \in Tasks, selinux_inode_setsecurity(t)
      PROVE  ~Busy(u)' \/ \A v \in Tasks \ {u} : ~Busy(v)'
  BY <1>21 DEF selinux_inode_setsecurity
<1>22. ASSUME NEW t \in Tasks, selinux_inode_post_setxattr(t)
      PROVE  ~Busy(u)' \/ \A v \in Tasks \ {u} : ~Busy(v)'
  <2>1. CASE At(t, "post") /\ Ends(t)
    BY <2>1
  <2>2. CASE At(t, "post") /\ task' = [task EXCEPT ![t] = Call(t, "post", task[t].ino, TRUE)]
    BY <2>2
  <2> QED BY <1>22, <2>1, <2>2 DEF selinux_inode_post_setxattr
<1>23. ASSUME NEW t \in Tasks, PostSet(t) PROVE ~Busy(u)' \/ \A v \in Tasks \ {u} : ~Busy(v)'
  BY <1>23 DEF PostSet
<1>24. ASSUME NEW l \in Labels, ServerRelabel(l)
      PROVE  ~Busy(u)' \/ \A v \in Tasks \ {u} : ~Busy(v)'
  BY <1>24 DEF ServerRelabel
<1>25. ASSUME NEW t \in Tasks, selinux_inode_notifysecctx(t)
      PROVE  ~Busy(u)' \/ \A v \in Tasks \ {u} : ~Busy(v)'
  BY <1>25 DEF selinux_inode_notifysecctx
<1>26. ASSUME NEW t \in Tasks, selinux_inode_invalidate_secctx(t)
      PROVE  ~Busy(u)' \/ \A v \in Tasks \ {u} : ~Busy(v)'
  BY <1>26 DEF selinux_inode_invalidate_secctx
<1>27. ASSUME NEW t \in Tasks, selinux_file_open(t)
      PROVE  ~Busy(u)' \/ \A v \in Tasks \ {u} : ~Busy(v)'
  <2>1. up
    BY <1>27 DEF selinux_file_open, SbOK
  <2> QED BY <2>1
<1>28. ASSUME NEW t \in Tasks, SaveLabel(t) PROVE ~Busy(u)' \/ \A v \in Tasks \ {u} : ~Busy(v)'
  BY <1>28 DEF SaveLabel
<1>29. ASSUME NEW t \in Tasks, SaveSeqno(t) PROVE ~Busy(u)' \/ \A v \in Tasks \ {u} : ~Busy(v)'
  BY <1>29 DEF SaveSeqno
<1>30. ASSUME NEW t \in Tasks, Recheck(t) PROVE ~Busy(u)' \/ \A v \in Tasks \ {u} : ~Busy(v)'
  BY <1>30 DEF Recheck
<1>31. CASE Close
  BY <1>31 DEF Close
<1>32. ASSUME NEW labels \in SUBSET Labels, LoadCommit(labels)
      PROVE  ~Busy(u)' \/ \A v \in Tasks \ {u} : ~Busy(v)'
  BY <1>32 DEF LoadCommit
<1>33. CASE LoadFlush
  BY <1>33 DEF LoadFlush
<1>34. CASE LoadNotify
  BY <1>34 DEF LoadNotify
<1>35. CASE UNCHANGED vars
  BY <1>35 DEF vars
<1> QED
  BY <1>1, <1>2, <1>3, <1>4, <1>5, <1>6, <1>7, <1>8, <1>9, <1>10, <1>11, <1>12, <1>13, <1>14,
     <1>15, <1>16, <1>17, <1>18, <1>19, <1>20, <1>21, <1>22, <1>23, <1>24, <1>25, <1>26, <1>27,
     <1>28, <1>29, <1>30, <1>31, <1>32, <1>33, <1>34, <1>35 DEF Next

\* Nor does it do more than instantiate the file.
LEMMA OpsFrom ==
    ASSUME Shapes, \A u \in Tasks : TaskOK(u), SbOK, ~up, NEW u \in Tasks,
           task[u].op \in {"none", "instantiate"}, [Next]_vars
    PROVE  task'[u].op \in {"none", "instantiate", "mount"}
<1> USE DEF Shapes, TaskOK, OpOf, mountVars, fileVars, Idle, At, Goto, Ends, Call, Return,
         Returned, Continue, TaskFields
<1>1. ASSUME NEW t \in Tasks, AlreadyLabelled(t)
      PROVE  task'[u].op \in {"none", "instantiate", "mount"}
  BY <1>1 DEF AlreadyLabelled
<1>2. ASSUME NEW t \in Tasks, Defer(t) PROVE task'[u].op \in {"none", "instantiate", "mount"}
  BY <1>2 DEF Defer
<1>3. ASSUME NEW t \in Tasks, Queue(t) PROVE task'[u].op \in {"none", "instantiate", "mount"}
  BY <1>3 DEF Queue
<1>4. ASSUME NEW t \in Tasks, Begin(t) PROVE task'[u].op \in {"none", "instantiate", "mount"}
  BY <1>4 DEF Begin
<1>5. ASSUME NEW t \in Tasks, Fetch(t) PROVE task'[u].op \in {"none", "instantiate", "mount"}
  BY <1>5 DEF Fetch
<1>6. ASSUME NEW t \in Tasks, Install(t) PROVE task'[u].op \in {"none", "instantiate", "mount"}
  BY <1>6 DEF Install
<1>7. ASSUME NEW t \in Tasks, NEW o \in OptsAsked, NEW may \in BOOLEAN, Mount(t, o, may)
      PROVE  task'[u].op \in {"none", "instantiate", "mount"}
  <2>1. CASE UNCHANGED task
    BY <2>1
  <2>2. CASE task' = [task EXCEPT ![t] = Call(t, "mount", Root, TRUE)]
    BY <1>7, <2>2, MountMoves
  <2> QED BY <1>7, <2>1, <2>2, MountMoves DEF Discarded, MountedEarly, SetUp
<1>8. ASSUME NEW t \in Tasks, NEW i \in Inodes, Drain(t, i)
      PROVE  task'[u].op \in {"none", "instantiate", "mount"}
  BY <1>8 DEF Drain
<1>9. ASSUME NEW t \in Tasks, Drained(t) PROVE task'[u].op \in {"none", "instantiate", "mount"}
  <2>1. At(t, "drain") /\ Ends(t)
    BY <1>9, DrainedMoves
  <2> QED BY <2>1
<1>10. ASSUME NEW t \in Tasks, LoadFirst(t) PROVE task'[u].op \in {"none", "instantiate", "mount"}
  BY <1>10 DEF LoadFirst
<1>11. ASSUME NEW t \in Tasks, selinux_complete_init(t)
      PROVE  task'[u].op \in {"none", "instantiate", "mount"}
  <2>1. CASE Ends(t) /\ At(t, "complete")
    BY <2>1
  <2>2. CASE up /\ task' = [task EXCEPT ![t] = Call(t, "mount", Root, TRUE)]
    BY <2>2
  <2> QED BY <1>11, <2>1, <2>2, CompleteMoves DEF SetUp
<1>12. ASSUME NEW t \in Tasks, selinux_d_instantiate(t)
      PROVE  task'[u].op \in {"none", "instantiate", "mount"}
  BY <1>12 DEF selinux_d_instantiate
<1>13. CASE Prune
  BY <1>13 DEF Prune
<1>14. ASSUME NEW t \in Tasks, NEW i \in Inodes, inode_security(t, i)
      PROVE  task'[u].op \in {"none", "instantiate", "mount"}
  BY <1>14 DEF inode_security
<1>15. ASSUME NEW t \in Tasks, CreateStart(t)
      PROVE  task'[u].op \in {"none", "instantiate", "mount"}
  BY <1>15 DEF CreateStart
<1>16. ASSUME NEW t \in Tasks, NEW c \in {NoSid} \cup Labels, selinux_inode_init_security(t, c)
      PROVE  task'[u].op \in {"none", "instantiate", "mount"}
  <2>1. CASE At(t, "create") /\ Ends(t)
    BY <2>1
  <2>2. CASE At(t, "create") /\ task' = [task EXCEPT ![t] = Call(t, "instantiate", File, TRUE)]
    BY <2>2
  <2> QED BY <1>16, <2>1, <2>2 DEF selinux_inode_init_security
<1>17. ASSUME NEW t \in Tasks, selinux_task_to_inode(t)
      PROVE  task'[u].op \in {"none", "instantiate", "mount"}
  BY <1>17 DEF selinux_task_to_inode
<1>18. ASSUME NEW t \in Tasks, NEW l \in Labels, selinux_inode_setxattr(t, l)
      PROVE  task'[u].op \in {"none", "instantiate", "mount"}
  BY <1>18 DEF selinux_inode_setxattr
<1>19. ASSUME NEW t \in Tasks, SetxattrDenied(t)
      PROVE  task'[u].op \in {"none", "instantiate", "mount"}
  BY <1>19 DEF SetxattrDenied
<1>20. ASSUME NEW t \in Tasks, StoreXattr(t) PROVE task'[u].op \in {"none", "instantiate", "mount"}
  BY <1>20 DEF StoreXattr
<1>21. ASSUME NEW t \in Tasks, selinux_inode_setsecurity(t)
      PROVE  task'[u].op \in {"none", "instantiate", "mount"}
  BY <1>21 DEF selinux_inode_setsecurity
<1>22. ASSUME NEW t \in Tasks, selinux_inode_post_setxattr(t)
      PROVE  task'[u].op \in {"none", "instantiate", "mount"}
  <2>1. CASE At(t, "post") /\ Ends(t)
    BY <2>1
  <2>2. CASE At(t, "post") /\ task' = [task EXCEPT ![t] = Call(t, "post", task[t].ino, TRUE)]
    BY <2>2
  <2> QED BY <1>22, <2>1, <2>2 DEF selinux_inode_post_setxattr
<1>23. ASSUME NEW t \in Tasks, PostSet(t) PROVE task'[u].op \in {"none", "instantiate", "mount"}
  BY <1>23 DEF PostSet
<1>24. ASSUME NEW l \in Labels, ServerRelabel(l)
      PROVE  task'[u].op \in {"none", "instantiate", "mount"}
  BY <1>24 DEF ServerRelabel
<1>25. ASSUME NEW t \in Tasks, selinux_inode_notifysecctx(t)
      PROVE  task'[u].op \in {"none", "instantiate", "mount"}
  BY <1>25 DEF selinux_inode_notifysecctx
<1>26. ASSUME NEW t \in Tasks, selinux_inode_invalidate_secctx(t)
      PROVE  task'[u].op \in {"none", "instantiate", "mount"}
  BY <1>26 DEF selinux_inode_invalidate_secctx
<1>27. ASSUME NEW t \in Tasks, selinux_file_open(t)
      PROVE  task'[u].op \in {"none", "instantiate", "mount"}
  <2>1. up
    BY <1>27 DEF selinux_file_open, SbOK
  <2> QED BY <2>1
<1>28. ASSUME NEW t \in Tasks, SaveLabel(t) PROVE task'[u].op \in {"none", "instantiate", "mount"}
  BY <1>28 DEF SaveLabel
<1>29. ASSUME NEW t \in Tasks, SaveSeqno(t) PROVE task'[u].op \in {"none", "instantiate", "mount"}
  BY <1>29 DEF SaveSeqno
<1>30. ASSUME NEW t \in Tasks, Recheck(t) PROVE task'[u].op \in {"none", "instantiate", "mount"}
  BY <1>30 DEF Recheck
<1>31. CASE Close
  BY <1>31 DEF Close
<1>32. ASSUME NEW labels \in SUBSET Labels, LoadCommit(labels)
      PROVE  task'[u].op \in {"none", "instantiate", "mount"}
  BY <1>32 DEF LoadCommit
<1>33. CASE LoadFlush
  BY <1>33 DEF LoadFlush
<1>34. CASE LoadNotify
  BY <1>34 DEF LoadNotify
<1>35. CASE UNCHANGED vars
  BY <1>35 DEF vars
<1> QED
  BY <1>1, <1>2, <1>3, <1>4, <1>5, <1>6, <1>7, <1>8, <1>9, <1>10, <1>11, <1>12, <1>13, <1>14,
     <1>15, <1>16, <1>17, <1>18, <1>19, <1>20, <1>21, <1>22, <1>23, <1>24, <1>25, <1>26, <1>27,
     <1>28, <1>29, <1>30, <1>31, <1>32, <1>33, <1>34, <1>35 DEF Next

\* A mount ends when all inodes are labelled.
LEMMA MountEnds ==
    ASSUME Shapes, \A u \in Tasks : TaskOK(u), SbOK, NEW u \in Tasks,
           task[u].op = "mount", [Next]_vars, ~Drained(u)
    PROVE  task'[u].op = "mount"
<1> USE DEF Shapes, TaskOK, OpOf, mountVars, fileVars, Idle, At, Goto, Ends, Call, Return,
         Returned, Continue, TaskFields
<1>1. ASSUME NEW t \in Tasks, AlreadyLabelled(t) PROVE task'[u].op = "mount"
  BY <1>1 DEF AlreadyLabelled
<1>2. ASSUME NEW t \in Tasks, Defer(t) PROVE task'[u].op = "mount"
  BY <1>2 DEF Defer
<1>3. ASSUME NEW t \in Tasks, Queue(t) PROVE task'[u].op = "mount"
  BY <1>3 DEF Queue
<1>4. ASSUME NEW t \in Tasks, Begin(t) PROVE task'[u].op = "mount"
  BY <1>4 DEF Begin
<1>5. ASSUME NEW t \in Tasks, Fetch(t) PROVE task'[u].op = "mount"
  BY <1>5 DEF Fetch
<1>6. ASSUME NEW t \in Tasks, Install(t) PROVE task'[u].op = "mount"
  BY <1>6 DEF Install
<1>7. ASSUME NEW t \in Tasks, NEW o \in OptsAsked, NEW may \in BOOLEAN, Mount(t, o, may)
      PROVE  task'[u].op = "mount"
  <2>1. CASE task' = task
    BY <2>1
  <2>2. CASE task' = [task EXCEPT ![t] = Call(t, "mount", Root, TRUE)]
    BY <1>7, <2>2, MountMoves
  <2> QED BY <1>7, <2>1, <2>2, MountMoves DEF Discarded, MountedEarly, SetUp
<1>8. ASSUME NEW t \in Tasks, NEW i \in Inodes, Drain(t, i) PROVE task'[u].op = "mount"
  BY <1>8 DEF Drain
<1>9. ASSUME NEW t \in Tasks, Drained(t) PROVE task'[u].op = "mount"
  <2>1. At(t, "drain") /\ Ends(t) /\ u # t
    BY <1>9, DrainedMoves
  <2> QED BY <2>1
<1>10. ASSUME NEW t \in Tasks, LoadFirst(t) PROVE task'[u].op = "mount"
  BY <1>10 DEF LoadFirst
<1>11. ASSUME NEW t \in Tasks, selinux_complete_init(t) PROVE task'[u].op = "mount"
  <2>1. CASE Ends(t) /\ At(t, "complete")
    BY <2>1
  <2>2. CASE up /\ task' = [task EXCEPT ![t] = Call(t, "mount", Root, TRUE)]
    BY <2>2
  <2> QED BY <1>11, <2>1, <2>2, CompleteMoves DEF SetUp
<1>12. ASSUME NEW t \in Tasks, selinux_d_instantiate(t) PROVE task'[u].op = "mount"
  BY <1>12 DEF selinux_d_instantiate
<1>13. CASE Prune
  BY <1>13 DEF Prune
<1>14. ASSUME NEW t \in Tasks, NEW i \in Inodes, inode_security(t, i) PROVE task'[u].op = "mount"
  BY <1>14 DEF inode_security
<1>15. ASSUME NEW t \in Tasks, CreateStart(t) PROVE task'[u].op = "mount"
  BY <1>15 DEF CreateStart
<1>16. ASSUME NEW t \in Tasks, NEW c \in {NoSid} \cup Labels, selinux_inode_init_security(t, c)
      PROVE  task'[u].op = "mount"
  <2>1. CASE At(t, "create") /\ Ends(t)
    BY <2>1
  <2>2. CASE At(t, "create") /\ task' = [task EXCEPT ![t] = Call(t, "instantiate", File, TRUE)]
    BY <2>2
  <2> QED BY <1>16, <2>1, <2>2 DEF selinux_inode_init_security
<1>17. ASSUME NEW t \in Tasks, selinux_task_to_inode(t) PROVE task'[u].op = "mount"
  BY <1>17 DEF selinux_task_to_inode
<1>18. ASSUME NEW t \in Tasks, NEW l \in Labels, selinux_inode_setxattr(t, l)
      PROVE  task'[u].op = "mount"
  <2>1. u # t /\ \A v \in Tasks \ {t} : task'[v] = task[v]
    BY <1>18 DEF selinux_inode_setxattr
  <2> QED BY <2>1
<1>19. ASSUME NEW t \in Tasks, SetxattrDenied(t) PROVE task'[u].op = "mount"
  BY <1>19 DEF SetxattrDenied
<1>20. ASSUME NEW t \in Tasks, StoreXattr(t) PROVE task'[u].op = "mount"
  BY <1>20 DEF StoreXattr
<1>21. ASSUME NEW t \in Tasks, selinux_inode_setsecurity(t) PROVE task'[u].op = "mount"
  BY <1>21 DEF selinux_inode_setsecurity
<1>22. ASSUME NEW t \in Tasks, selinux_inode_post_setxattr(t) PROVE task'[u].op = "mount"
  <2>1. CASE At(t, "post") /\ Ends(t)
    BY <2>1
  <2>2. CASE At(t, "post") /\ task' = [task EXCEPT ![t] = Call(t, "post", task[t].ino, TRUE)]
    BY <2>2
  <2> QED BY <1>22, <2>1, <2>2 DEF selinux_inode_post_setxattr
<1>23. ASSUME NEW t \in Tasks, PostSet(t) PROVE task'[u].op = "mount"
  BY <1>23 DEF PostSet
<1>24. ASSUME NEW l \in Labels, ServerRelabel(l) PROVE task'[u].op = "mount"
  BY <1>24 DEF ServerRelabel
<1>25. ASSUME NEW t \in Tasks, selinux_inode_notifysecctx(t) PROVE task'[u].op = "mount"
  BY <1>25 DEF selinux_inode_notifysecctx
<1>26. ASSUME NEW t \in Tasks, selinux_inode_invalidate_secctx(t) PROVE task'[u].op = "mount"
  BY <1>26 DEF selinux_inode_invalidate_secctx
<1>27. ASSUME NEW t \in Tasks, selinux_file_open(t) PROVE task'[u].op = "mount"
  BY <1>27 DEF selinux_file_open
<1>28. ASSUME NEW t \in Tasks, SaveLabel(t) PROVE task'[u].op = "mount"
  BY <1>28 DEF SaveLabel
<1>29. ASSUME NEW t \in Tasks, SaveSeqno(t) PROVE task'[u].op = "mount"
  BY <1>29 DEF SaveSeqno
<1>30. ASSUME NEW t \in Tasks, Recheck(t) PROVE task'[u].op = "mount"
  BY <1>30 DEF Recheck
<1>31. CASE Close
  BY <1>31 DEF Close
<1>32. ASSUME NEW labels \in SUBSET Labels, LoadCommit(labels) PROVE task'[u].op = "mount"
  BY <1>32 DEF LoadCommit
<1>33. CASE LoadFlush
  BY <1>33 DEF LoadFlush
<1>34. CASE LoadNotify
  BY <1>34 DEF LoadNotify
<1>35. CASE UNCHANGED vars
  BY <1>35 DEF vars
<1> QED
  BY <1>1, <1>2, <1>3, <1>4, <1>5, <1>6, <1>7, <1>8, <1>9, <1>10, <1>11, <1>12, <1>13, <1>14,
     <1>15, <1>16, <1>17, <1>18, <1>19, <1>20, <1>21, <1>22, <1>23, <1>24, <1>25, <1>26, <1>27,
     <1>28, <1>29, <1>30, <1>31, <1>32, <1>33, <1>34, <1>35 DEF Next

\* A task that is to set up the superblock has loaded the policy.
LEMMA CompleteFrom ==
    ASSUME Shapes, \A u \in Tasks : TaskOK(u), SbOK, NEW u \in Tasks,
           task[u].pc # "complete", [Next]_vars
    PROVE  task'[u].pc # "complete" \/ loaded'
<1> USE DEF Shapes, mountVars, fileVars, Idle, At, Goto, Ends, Call, Return, Returned, Continue,
         TaskFields
<1>1. ASSUME NEW t \in Tasks, AlreadyLabelled(t) PROVE task'[u].pc # "complete" \/ loaded'
  BY <1>1 DEF AlreadyLabelled
<1>2. ASSUME NEW t \in Tasks, Defer(t) PROVE task'[u].pc # "complete" \/ loaded'
  BY <1>2 DEF Defer
<1>3. ASSUME NEW t \in Tasks, Queue(t) PROVE task'[u].pc # "complete" \/ loaded'
  BY <1>3 DEF Queue
<1>4. ASSUME NEW t \in Tasks, Begin(t) PROVE task'[u].pc # "complete" \/ loaded'
  BY <1>4 DEF Begin
<1>5. ASSUME NEW t \in Tasks, Fetch(t) PROVE task'[u].pc # "complete" \/ loaded'
  BY <1>5 DEF Fetch
<1>6. ASSUME NEW t \in Tasks, Install(t) PROVE task'[u].pc # "complete" \/ loaded'
  BY <1>6 DEF Install
<1>7. ASSUME NEW t \in Tasks, NEW o \in OptsAsked, NEW may \in BOOLEAN, Mount(t, o, may)
      PROVE  task'[u].pc # "complete" \/ loaded'
  <2>1. CASE UNCHANGED task
    BY <2>1
  <2>2. CASE task' = [task EXCEPT ![t] = Call(t, "mount", Root, TRUE)]
    BY <2>2
  <2> QED BY <1>7, <2>1, <2>2, MountMoves DEF Discarded, MountedEarly, SetUp
<1>8. ASSUME NEW t \in Tasks, NEW i \in Inodes, Drain(t, i)
      PROVE  task'[u].pc # "complete" \/ loaded'
  BY <1>8 DEF Drain
<1>9. ASSUME NEW t \in Tasks, Drained(t) PROVE task'[u].pc # "complete" \/ loaded'
  <2>1. At(t, "drain") /\ Ends(t)
    BY <1>9, DrainedMoves
  <2> QED BY <2>1
<1>10. ASSUME NEW t \in Tasks, LoadFirst(t) PROVE task'[u].pc # "complete" \/ loaded'
  BY <1>10 DEF LoadFirst
<1>11. ASSUME NEW t \in Tasks, selinux_complete_init(t) PROVE task'[u].pc # "complete" \/ loaded'
  <2>1. CASE Ends(t) /\ At(t, "complete")
    BY <2>1
  <2>2. CASE up /\ task' = [task EXCEPT ![t] = Call(t, "mount", Root, TRUE)]
    BY <2>2
  <2> QED BY <1>11, <2>1, <2>2, CompleteMoves DEF SetUp
<1>12. ASSUME NEW t \in Tasks, selinux_d_instantiate(t) PROVE task'[u].pc # "complete" \/ loaded'
  BY <1>12 DEF selinux_d_instantiate
<1>13. CASE Prune
  BY <1>13 DEF Prune
<1>14. ASSUME NEW t \in Tasks, NEW i \in Inodes, inode_security(t, i)
      PROVE  task'[u].pc # "complete" \/ loaded'
  BY <1>14 DEF inode_security
<1>15. ASSUME NEW t \in Tasks, CreateStart(t) PROVE task'[u].pc # "complete" \/ loaded'
  BY <1>15 DEF CreateStart
<1>16. ASSUME NEW t \in Tasks, NEW c \in {NoSid} \cup Labels, selinux_inode_init_security(t, c)
      PROVE  task'[u].pc # "complete" \/ loaded'
  <2>1. CASE At(t, "create") /\ Ends(t)
    BY <2>1
  <2>2. CASE At(t, "create") /\ task' = [task EXCEPT ![t] = Call(t, "instantiate", File, TRUE)]
    BY <2>2
  <2> QED BY <1>16, <2>1, <2>2 DEF selinux_inode_init_security
<1>17. ASSUME NEW t \in Tasks, selinux_task_to_inode(t) PROVE task'[u].pc # "complete" \/ loaded'
  BY <1>17 DEF selinux_task_to_inode
<1>18. ASSUME NEW t \in Tasks, NEW l \in Labels, selinux_inode_setxattr(t, l)
      PROVE  task'[u].pc # "complete" \/ loaded'
  BY <1>18 DEF selinux_inode_setxattr
<1>19. ASSUME NEW t \in Tasks, SetxattrDenied(t) PROVE task'[u].pc # "complete" \/ loaded'
  BY <1>19 DEF SetxattrDenied
<1>20. ASSUME NEW t \in Tasks, StoreXattr(t) PROVE task'[u].pc # "complete" \/ loaded'
  BY <1>20 DEF StoreXattr
<1>21. ASSUME NEW t \in Tasks, selinux_inode_setsecurity(t)
      PROVE  task'[u].pc # "complete" \/ loaded'
  BY <1>21 DEF selinux_inode_setsecurity
<1>22. ASSUME NEW t \in Tasks, selinux_inode_post_setxattr(t)
      PROVE  task'[u].pc # "complete" \/ loaded'
  <2>1. CASE At(t, "post") /\ Ends(t)
    BY <2>1
  <2>2. CASE At(t, "post") /\ task' = [task EXCEPT ![t] = Call(t, "post", task[t].ino, TRUE)]
    BY <2>2
  <2> QED BY <1>22, <2>1, <2>2 DEF selinux_inode_post_setxattr
<1>23. ASSUME NEW t \in Tasks, PostSet(t) PROVE task'[u].pc # "complete" \/ loaded'
  BY <1>23 DEF PostSet
<1>24. ASSUME NEW l \in Labels, ServerRelabel(l) PROVE task'[u].pc # "complete" \/ loaded'
  BY <1>24 DEF ServerRelabel
<1>25. ASSUME NEW t \in Tasks, selinux_inode_notifysecctx(t)
      PROVE  task'[u].pc # "complete" \/ loaded'
  BY <1>25 DEF selinux_inode_notifysecctx
<1>26. ASSUME NEW t \in Tasks, selinux_inode_invalidate_secctx(t)
      PROVE  task'[u].pc # "complete" \/ loaded'
  BY <1>26 DEF selinux_inode_invalidate_secctx
<1>27. ASSUME NEW t \in Tasks, selinux_file_open(t) PROVE task'[u].pc # "complete" \/ loaded'
  BY <1>27 DEF selinux_file_open
<1>28. ASSUME NEW t \in Tasks, SaveLabel(t) PROVE task'[u].pc # "complete" \/ loaded'
  BY <1>28 DEF SaveLabel
<1>29. ASSUME NEW t \in Tasks, SaveSeqno(t) PROVE task'[u].pc # "complete" \/ loaded'
  BY <1>29 DEF SaveSeqno
<1>30. ASSUME NEW t \in Tasks, Recheck(t) PROVE task'[u].pc # "complete" \/ loaded'
  BY <1>30 DEF Recheck
<1>31. CASE Close
  BY <1>31 DEF Close
<1>32. ASSUME NEW labels \in SUBSET Labels, LoadCommit(labels)
      PROVE  task'[u].pc # "complete" \/ loaded'
  BY <1>32 DEF LoadCommit
<1>33. CASE LoadFlush
  BY <1>33 DEF LoadFlush
<1>34. CASE LoadNotify
  BY <1>34 DEF LoadNotify
<1>35. CASE UNCHANGED vars
  BY <1>35 DEF vars
<1> QED
  BY <1>1, <1>2, <1>3, <1>4, <1>5, <1>6, <1>7, <1>8, <1>9, <1>10, <1>11, <1>12, <1>13, <1>14,
     <1>15, <1>16, <1>17, <1>18, <1>19, <1>20, <1>21, <1>22, <1>23, <1>24, <1>25, <1>26, <1>27,
     <1>28, <1>29, <1>30, <1>31, <1>32, <1>33, <1>34, <1>35 DEF Next

\* All tasks are done with a superblock that is discarded.
Discards ==
    /\ Discarded /\ ~up /\ UNCHANGED up
    /\ \A u \in Tasks : task'[u].pc \in {"idle", "complete"} /\ task'[u].op = "none"
                        /\ task'[u].label = NoSid

\* Whoever gives a mount up is the only one at work.
LEMMA DiscardAlone ==
    ASSUME Shapes, \A u \in Tasks : TaskOK(u), SbOK, NEW t \in Tasks, Drained(t), ~up, Discarded,
           UNCHANGED up
    PROVE  Discards
<1>1. At(t, "drain") /\ Ends(t)
  BY DrainedMoves
<1>2. \A u \in Tasks \ {t} : ~Busy(u)
  BY <1>1 DEF SbOK, Busy, At
<1>3. \A u \in Tasks \ {t} : /\ task[u].pc \in {"idle", "complete"} /\ task[u].op = "none"
                             /\ task[u].label = NoSid
  BY <1>2 DEF Busy, At, TaskOK, OpOf
<1> QED BY <1>1, <1>3 DEF Discards, Ends, Idle, Shapes

\* A mount, by its outcome.
LEMMA MountDone ==
    ASSUME Shapes, \A u \in Tasks : TaskOK(u), SbOK, NEW t \in Tasks, NEW o, NEW may, Mount(t,
           o, may)
    PROVE  Discards \/ MountedEarly \/ SetUp(t)
<1>1. CASE Discarded /\ UNCHANGED <<task, up>>
  <2>1. ~up /\ \A u \in Tasks : At(u, "idle")
    BY MountMoves
  <2>2. \A u \in Tasks : task'[u].pc \in {"idle", "complete"} /\ task'[u].op = "none"
                         /\ task'[u].label = NoSid
    BY <1>1, <2>1 DEF At, TaskOK, OpOf
  <2> QED BY <1>1, <2>1, <2>2 DEF Discards
<1> QED BY <1>1, MountMoves

\* The last step of a mount, by its outcome.
LEMMA DrainedDone ==
    ASSUME Shapes, \A u \in Tasks : TaskOK(u), SbOK, NEW t \in Tasks, Drained(t)
    PROVE  Discards \/ (up' = TRUE /\ UNCHANGED <<sb, isec, named>>)
<1>1. CASE ~up /\ Discarded /\ up' = FALSE
  <2>1. UNCHANGED up
    BY <1>1 DEF SbOK
  <2> QED BY <1>1, <2>1, DiscardAlone
<1> QED BY <1>1, DrainedMoves

\* What a step does to the superblock.
LEMMA SbMoves ==
    ASSUME Shapes, \A u \in Tasks : TaskOK(u), SbOK, [Next]_vars
    PROVE  /\ UNCHANGED scene
           /\ \/ UNCHANGED <<sb, up>>
              \/ Discards
              \/ UNCHANGED sb /\ up' = TRUE
              \/ MountedEarly
              \/ \E t \in Tasks : SetUp(t)
<1> DEFINE Moves == /\ UNCHANGED scene
                    /\ \/ UNCHANGED <<sb, up>>
                       \/ Discards
                       \/ UNCHANGED sb /\ up' = TRUE
                       \/ MountedEarly
                       \/ \E t \in Tasks : SetUp(t)
<1>1. CASE UNCHANGED mountVars
  BY <1>1 DEF mountVars
<1>2. ASSUME NEW t \in Tasks, Drained(t) PROVE Moves
  <2>1. UNCHANGED scene
    BY <1>2, DrainedMoves
  <2> QED BY <1>2, <2>1, DrainedDone
<1>3. ASSUME NEW t \in Tasks, NEW o \in OptsAsked, NEW may \in BOOLEAN, Mount(t, o, may)
      PROVE  Moves
  <2>1. UNCHANGED scene
    BY <1>3 DEF Mount
  <2> QED BY <1>3, <2>1, MountDone
<1>4. ASSUME NEW t \in Tasks, selinux_complete_init(t) PROVE Moves
  <2>1. UNCHANGED scene
    BY <1>4 DEF selinux_complete_init
  <2> QED BY <1>4, <2>1, CompleteMoves
<1> QED BY <1>1, <1>2, <1>3, <1>4, MountFrame DEF MountStep

\* A step keeps the superblock consistent with its mount.
LEMMA SbKept ==
    ASSUME Shapes, \A u \in Tasks : TaskOK(u), SbOK, [Next]_vars
    PROVE  SbOK'
<1>2. /\ "init" \notin sb'.flags => sb'.behavior = "unset" /\ sb'.flags \subseteq {"native"}
      /\ "init" \in sb'.flags => ("label" \in sb'.flags <=> selinux_is_sblabel_mnt(sb'))
      /\ "init" \in sb'.flags => "init" \in sb.flags \/ loaded
      /\ up => up'
      /\ up' \in BOOLEAN
  BY SbMoves DEF SbOK, Discards, Discarded, MountedEarly, SetUp, selinux_is_sblabel_mnt
<1>3. loaded' \in BOOLEAN /\ (loaded => loaded')
  BY LoadFrame DEF SbOK
<1>4. ~loaded' => "init" \notin sb'.flags /\ \A u \in Tasks : task'[u].pc # "complete"
  BY <1>2, <1>3, CompleteFrom DEF SbOK, At
<1>5. scene' = "files" => up'
  BY <1>2, SbMoves DEF SbOK
<1>6. ASSUME ~up', NEW u \in Tasks, NEW v \in Tasks, Busy(u)', Busy(v)', u # v PROVE FALSE
  <2>1. ~up
    BY <1>2, <1>6
  <2>2. Busy(u) /\ Busy(v)
    BY <1>6, <2>1, BusyFrom
  <2> QED BY <1>6, <2>1, <2>2 DEF SbOK
<1>7. ASSUME ~up', "init" \in sb'.flags PROVE \E u \in Tasks : task'[u].op = "mount"
  <2>1. CASE UNCHANGED sb
    <3>1. PICK u \in Tasks : task[u].op = "mount"
      BY <1>2, <1>7, <2>1 DEF SbOK, Mounting
    <3>2. CASE Drained(u)
      BY <1>7, <2>1, <3>2, DrainedMoves DEF Discarded
    <3> QED BY <3>1, <3>2, MountEnds
  <2>2. ASSUME NEW t \in Tasks, SetUp(t) PROVE task'[t].op = "mount"
    BY <2>2 DEF SetUp, Call, Shapes, TaskFields
  <2>3. CASE Discards
    BY <1>7, <2>3 DEF Discards, Discarded
  <2>4. CASE MountedEarly
    BY <1>7, <2>4 DEF MountedEarly
  <2> QED BY <2>1, <2>2, <2>3, <2>4, SbMoves
<1>8. ASSUME ~up', \A u \in Tasks : task'[u].op # "mount"
      PROVE  \A u \in Tasks : task'[u].op \in {"none", "instantiate"}
  <2>1. ~up
    BY <1>2, <1>8
  <2>2. CASE \E u \in Tasks : task[u].op = "mount"
    <3>1. PICK u \in Tasks : task[u].op = "mount"
      BY <2>2
    <3>2. Drained(u)
      BY <1>8, <3>1, MountEnds
    <3>3. Discarded /\ up' = up
      BY <1>8, <2>1, <3>2, DrainedMoves DEF SbOK
    <3> QED BY <2>1, <3>2, <3>3, DiscardAlone DEF Discards
  <2>3. CASE \A u \in Tasks : task[u].op \in {"none", "instantiate"}
    BY <1>8, <2>1, <2>3, OpsFrom
  <2> QED BY <2>1, <2>2, <2>3 DEF SbOK, Mounting
<1>10. (\E u \in Tasks : task'[u].op = "mount") => Mounting'
  BY DEF Mounting
<1>11. selinux_is_sblabel_mnt(sb)' <=> selinux_is_sblabel_mnt(sb')
  BY DEF selinux_is_sblabel_mnt
<1>12. \A u, v \in Tasks : ~up' /\ Busy(u)' /\ Busy(v)' => u = v
  BY <1>6
<1>13. ~up' /\ ~Mounting' => "init" \notin sb'.flags
  BY <1>7, <1>10
<1>14. up' \/ Mounting' \/ \A u \in Tasks : task'[u].op \in {"none", "instantiate"}
  BY <1>8, <1>10
<1> QED BY <1>2, <1>3, <1>4, <1>5, <1>11, <1>12, <1>13, <1>14 DEF SbOK, At

-----------------------------------------------------------------------------
(* Before the superblock is set up.                                        *)

EarlyTask(u) == /\ task[u].pc \notin {"fetch", "install"} /\ task[u].op # "mount"
                /\ task[u].label # NoSid => task[u].early
EarlyInode(i) == isec[i].init = "INITIALIZED" /\ sb.type # "proc" => i \in raced

\* Nobody reads a label from the medium, and who sets one began before the policy
\* was loaded.
LEMMA EarlyTasks ==
    ASSUME Shapes, \A u \in Tasks : TaskOK(u), SbOK, "init" \notin sb.flags,
           "init" \notin sb'.flags,
           \A u \in Tasks : EarlyTask(u), NEW u \in Tasks, [Next]_vars
    PROVE  EarlyTask(u)'
<1> USE DEF EarlyTask, Shapes, TaskOK, OpOf, mountVars, fileVars, Idle, At, Goto, Ends, Call,
         Return, Returned, Continue, TaskFields
<1>1. ASSUME NEW t \in Tasks, AlreadyLabelled(t) PROVE EarlyTask(u)'
  BY <1>1 DEF AlreadyLabelled
<1>2. ASSUME NEW t \in Tasks, Defer(t) PROVE EarlyTask(u)'
  BY <1>2 DEF Defer
<1>3. ASSUME NEW t \in Tasks, Queue(t) PROVE EarlyTask(u)'
  BY <1>3 DEF Queue
<1>4. ASSUME NEW t \in Tasks, Begin(t) PROVE EarlyTask(u)'
  BY <1>4 DEF Begin
<1>5. ASSUME NEW t \in Tasks, Fetch(t) PROVE EarlyTask(u)'
  BY <1>5 DEF Fetch
<1>6. ASSUME NEW t \in Tasks, Install(t) PROVE EarlyTask(u)'
  BY <1>6 DEF Install
<1>7. ASSUME NEW t \in Tasks, NEW o \in OptsAsked, NEW may \in BOOLEAN, Mount(t, o, may)
      PROVE  EarlyTask(u)'
  <2>1. UNCHANGED task
    BY <1>7, MountMoves DEF Discarded, MountedEarly, SetUp
  <2> QED BY <2>1
<1>8. ASSUME NEW t \in Tasks, NEW i \in Inodes, Drain(t, i) PROVE EarlyTask(u)'
  BY <1>8 DEF Drain
<1>9. ASSUME NEW t \in Tasks, Drained(t) PROVE EarlyTask(u)'
  <2>1. At(t, "drain") /\ Ends(t)
    BY <1>9, DrainedMoves
  <2> QED BY <2>1
<1>10. ASSUME NEW t \in Tasks, LoadFirst(t) PROVE EarlyTask(u)'
  BY <1>10 DEF LoadFirst
<1>11. ASSUME NEW t \in Tasks, selinux_complete_init(t) PROVE EarlyTask(u)'
  <2>1. Ends(t)
    BY <1>11, CompleteMoves DEF SetUp
  <2> QED BY <2>1
<1>12. ASSUME NEW t \in Tasks, selinux_d_instantiate(t) PROVE EarlyTask(u)'
  BY <1>12 DEF selinux_d_instantiate
<1>13. CASE Prune
  BY <1>13 DEF Prune
<1>14. ASSUME NEW t \in Tasks, NEW i \in Inodes, inode_security(t, i) PROVE EarlyTask(u)'
  BY <1>14 DEF inode_security
<1>15. ASSUME NEW t \in Tasks, CreateStart(t) PROVE EarlyTask(u)'
  BY <1>15 DEF CreateStart
<1>16. ASSUME NEW t \in Tasks, NEW c \in {NoSid} \cup Labels, selinux_inode_init_security(t, c)
      PROVE  EarlyTask(u)'
  <2>1. CASE At(t, "create") /\ Ends(t)
    BY <2>1
  <2>2. CASE At(t, "create") /\ task' = [task EXCEPT ![t] = Call(t, "instantiate", File, TRUE)]
    BY <2>2
  <2> QED BY <1>16, <2>1, <2>2 DEF selinux_inode_init_security
<1>17. ASSUME NEW t \in Tasks, selinux_task_to_inode(t) PROVE EarlyTask(u)'
  BY <1>17 DEF selinux_task_to_inode
<1>18. ASSUME NEW t \in Tasks, NEW l \in Labels, selinux_inode_setxattr(t, l) PROVE EarlyTask(u)'
  <2>1. "label" \notin sb.flags
    BY DEF SbOK
  <2>2. PICK k : k = task[t]
    OBVIOUS
  <2>3. task' = [task EXCEPT ![t] = [k EXCEPT !.pc = "write", !.op = "check", !.ino = File,
                                           !.dentry = TRUE, !.label = l, !.early = TRUE]]
    BY <1>18, <2>1, <2>2 DEF selinux_inode_setxattr
  <2>4. DOMAIN k = TaskFields
    BY <2>2
  <2> QED BY <2>3, <2>4
<1>19. ASSUME NEW t \in Tasks, SetxattrDenied(t) PROVE EarlyTask(u)'
  BY <1>19 DEF SetxattrDenied
<1>20. ASSUME NEW t \in Tasks, StoreXattr(t) PROVE EarlyTask(u)'
  BY <1>20 DEF StoreXattr
<1>21. ASSUME NEW t \in Tasks, selinux_inode_setsecurity(t) PROVE EarlyTask(u)'
  BY <1>21 DEF selinux_inode_setsecurity
<1>22. ASSUME NEW t \in Tasks, selinux_inode_post_setxattr(t) PROVE EarlyTask(u)'
  <2>1. CASE At(t, "post") /\ Ends(t)
    BY <2>1
  <2>2. CASE At(t, "post") /\ task' = [task EXCEPT ![t] = Call(t, "post", task[t].ino, TRUE)]
    BY <2>2
  <2> QED BY <1>22, <2>1, <2>2 DEF selinux_inode_post_setxattr
<1>23. ASSUME NEW t \in Tasks, PostSet(t) PROVE EarlyTask(u)'
  BY <1>23 DEF PostSet
<1>24. ASSUME NEW l \in Labels, ServerRelabel(l) PROVE EarlyTask(u)'
  BY <1>24 DEF ServerRelabel
<1>25. ASSUME NEW t \in Tasks, selinux_inode_notifysecctx(t) PROVE EarlyTask(u)'
  BY <1>25 DEF selinux_inode_notifysecctx
<1>26. ASSUME NEW t \in Tasks, selinux_inode_invalidate_secctx(t) PROVE EarlyTask(u)'
  BY <1>26 DEF selinux_inode_invalidate_secctx
<1>27. ASSUME NEW t \in Tasks, selinux_file_open(t) PROVE EarlyTask(u)'
  BY <1>27 DEF selinux_file_open
<1>28. ASSUME NEW t \in Tasks, SaveLabel(t) PROVE EarlyTask(u)'
  BY <1>28 DEF SaveLabel
<1>29. ASSUME NEW t \in Tasks, SaveSeqno(t) PROVE EarlyTask(u)'
  BY <1>29 DEF SaveSeqno
<1>30. ASSUME NEW t \in Tasks, Recheck(t) PROVE EarlyTask(u)'
  BY <1>30 DEF Recheck
<1>31. CASE Close
  BY <1>31 DEF Close
<1>32. ASSUME NEW labels \in SUBSET Labels, LoadCommit(labels) PROVE EarlyTask(u)'
  BY <1>32 DEF LoadCommit
<1>33. CASE LoadFlush
  BY <1>33 DEF LoadFlush
<1>34. CASE LoadNotify
  BY <1>34 DEF LoadNotify
<1>35. CASE UNCHANGED vars
  BY <1>35 DEF vars
<1> HIDE DEF EarlyTask
<1> QED
  BY <1>1, <1>2, <1>3, <1>4, <1>5, <1>6, <1>7, <1>8, <1>9, <1>10, <1>11, <1>12, <1>13, <1>14,
     <1>15, <1>16, <1>17, <1>18, <1>19, <1>20, <1>21, <1>22, <1>23, <1>24, <1>25, <1>26, <1>27,
     <1>28, <1>29, <1>30, <1>31, <1>32, <1>33, <1>34, <1>35 DEF Next

\* Nor is a label put to use.
LEMMA EarlyInodes ==
    ASSUME Shapes, \A u \in Tasks : TaskOK(u), SbOK, "init" \notin sb.flags,
           "init" \notin sb'.flags,
           \A u \in Tasks : EarlyTask(u), NEW j \in Inodes, EarlyInode(j), [Next]_vars
    PROVE  EarlyInode(j)'
<1> USE DEF EarlyInode, Shapes, mountVars, fileVars
<1>1. ASSUME NEW t \in Tasks, AlreadyLabelled(t) PROVE EarlyInode(j)'
  BY <1>1 DEF AlreadyLabelled
<1>2. ASSUME NEW t \in Tasks, Defer(t) PROVE EarlyInode(j)'
  BY <1>2 DEF Defer
<1>3. ASSUME NEW t \in Tasks, Queue(t) PROVE EarlyInode(j)'
  BY <1>3 DEF Queue
<1>4. ASSUME NEW t \in Tasks, Begin(t) PROVE EarlyInode(j)'
  BY <1>4 DEF Begin
<1>5. ASSUME NEW t \in Tasks, Fetch(t) PROVE EarlyInode(j)'
  BY <1>5 DEF Fetch
<1>6. ASSUME NEW t \in Tasks, Install(t) PROVE EarlyInode(j)'
  BY <1>6 DEF Install, EarlyTask, At
<1>7. ASSUME NEW t \in Tasks, NEW o \in OptsAsked, NEW may \in BOOLEAN, Mount(t, o, may)
      PROVE  EarlyInode(j)'
  BY <1>7, MountMoves DEF Mount, Discarded, MountedEarly, SetUp
<1>8. ASSUME NEW t \in Tasks, NEW i \in Inodes, Drain(t, i) PROVE EarlyInode(j)'
  BY <1>8 DEF Drain
<1>9. ASSUME NEW t \in Tasks, Drained(t) PROVE EarlyInode(j)'
  <2>1. UNCHANGED raced
    BY <1>9 DEF Drained
  <2> QED BY <1>9, <2>1, DrainedMoves DEF Discarded
<1>10. ASSUME NEW t \in Tasks, LoadFirst(t) PROVE EarlyInode(j)'
  BY <1>10 DEF LoadFirst
<1>11. ASSUME NEW t \in Tasks, selinux_complete_init(t) PROVE EarlyInode(j)'
  <2>1. UNCHANGED raced
    BY <1>11 DEF selinux_complete_init
  <2> QED BY <1>11, <2>1, CompleteMoves DEF SetUp
<1>12. ASSUME NEW t \in Tasks, selinux_d_instantiate(t) PROVE EarlyInode(j)'
  BY <1>12 DEF selinux_d_instantiate
<1>13. CASE Prune
  BY <1>13 DEF Prune
<1>14. ASSUME NEW t \in Tasks, NEW i \in Inodes, inode_security(t, i) PROVE EarlyInode(j)'
  BY <1>14 DEF inode_security
<1>15. ASSUME NEW t \in Tasks, CreateStart(t) PROVE EarlyInode(j)'
  BY <1>15 DEF CreateStart
<1>16. ASSUME NEW t \in Tasks, NEW c \in {NoSid} \cup Labels, selinux_inode_init_security(t, c)
      PROVE  EarlyInode(j)'
  <2>1. UNCHANGED <<isec, sb, raced>>
    BY <1>16 DEF selinux_inode_init_security
  <2> QED BY <2>1
<1>17. ASSUME NEW t \in Tasks, selinux_task_to_inode(t) PROVE EarlyInode(j)'
  BY <1>17 DEF selinux_task_to_inode
<1>18. ASSUME NEW t \in Tasks, NEW l \in Labels, selinux_inode_setxattr(t, l) PROVE EarlyInode(j)'
  BY <1>18 DEF selinux_inode_setxattr
<1>19. ASSUME NEW t \in Tasks, SetxattrDenied(t) PROVE EarlyInode(j)'
  BY <1>19 DEF SetxattrDenied
<1>20. ASSUME NEW t \in Tasks, StoreXattr(t) PROVE EarlyInode(j)'
  BY <1>20 DEF StoreXattr
<1>21. ASSUME NEW t \in Tasks, selinux_inode_setsecurity(t) PROVE EarlyInode(j)'
  BY <1>21 DEF selinux_inode_setsecurity, SbOK
<1>22. ASSUME NEW t \in Tasks, selinux_inode_post_setxattr(t) PROVE EarlyInode(j)'
  BY <1>22 DEF selinux_inode_post_setxattr
<1>23. ASSUME NEW t \in Tasks, PostSet(t) PROVE EarlyInode(j)'
  <2>1. task[t].label # NoSid
    BY <1>23 DEF PostSet, At, TaskOK, OpOf
  <2> QED BY <1>23, <2>1 DEF PostSet, EarlyTask, TaskOK
<1>24. ASSUME NEW l \in Labels, ServerRelabel(l) PROVE EarlyInode(j)'
  BY <1>24 DEF ServerRelabel
<1>25. ASSUME NEW t \in Tasks, selinux_inode_notifysecctx(t) PROVE EarlyInode(j)'
  BY <1>25 DEF selinux_inode_notifysecctx, SbOK
<1>26. ASSUME NEW t \in Tasks, selinux_inode_invalidate_secctx(t) PROVE EarlyInode(j)'
  BY <1>26 DEF selinux_inode_invalidate_secctx
<1>27. ASSUME NEW t \in Tasks, selinux_file_open(t) PROVE EarlyInode(j)'
  BY <1>27 DEF selinux_file_open
<1>28. ASSUME NEW t \in Tasks, SaveLabel(t) PROVE EarlyInode(j)'
  BY <1>28 DEF SaveLabel
<1>29. ASSUME NEW t \in Tasks, SaveSeqno(t) PROVE EarlyInode(j)'
  BY <1>29 DEF SaveSeqno
<1>30. ASSUME NEW t \in Tasks, Recheck(t) PROVE EarlyInode(j)'
  BY <1>30 DEF Recheck
<1>31. CASE Close
  BY <1>31 DEF Close
<1>32. ASSUME NEW labels \in SUBSET Labels, LoadCommit(labels) PROVE EarlyInode(j)'
  BY <1>32 DEF LoadCommit
<1>33. CASE LoadFlush
  BY <1>33 DEF LoadFlush
<1>34. CASE LoadNotify
  BY <1>34 DEF LoadNotify
<1>35. CASE UNCHANGED vars
  BY <1>35 DEF vars
<1> HIDE DEF EarlyInode
<1> QED
  BY <1>1, <1>2, <1>3, <1>4, <1>5, <1>6, <1>7, <1>8, <1>9, <1>10, <1>11, <1>12, <1>13, <1>14,
     <1>15, <1>16, <1>17, <1>18, <1>19, <1>20, <1>21, <1>22, <1>23, <1>24, <1>25, <1>26, <1>27,
     <1>28, <1>29, <1>30, <1>31, <1>32, <1>33, <1>34, <1>35 DEF Next

\* A step of a file system that is not set up keeps it so.
LEMMA EarlyKept ==
    ASSUME Shapes, \A u \in Tasks : TaskOK(u), SbOK, EarlyOK, [Next]_vars
    PROVE  EarlyOK'
<1>1. CASE "init" \notin sb.flags /\ "init" \notin sb'.flags
  <2>1. \A u \in Tasks : EarlyTask(u)
    BY <1>1 DEF EarlyOK, EarlyTask
  <2>2. \A i \in Inodes : EarlyInode(i)
    BY <1>1 DEF EarlyOK, EarlyInode
  <2>3. \A u \in Tasks : EarlyTask(u)'
    BY <1>1, <2>1, EarlyTasks
  <2>4. \A i \in Inodes : EarlyInode(i)'
    BY <1>1, <2>1, <2>2, EarlyInodes
  <2> QED BY <2>3, <2>4 DEF EarlyOK, EarlyTask, EarlyInode
<1>2. CASE "init" \in sb.flags /\ "init" \notin sb'.flags
  <2>1. Discards
    BY <1>2, SbMoves DEF MountedEarly, SetUp, SbOK
  <2> QED BY <2>1 DEF Discards, Discarded, EarlyOK
<1>3. CASE "init" \in sb'.flags
  BY <1>3 DEF EarlyOK
<1> QED BY <1>1, <1>2, <1>3

-----------------------------------------------------------------------------
(* Who sets the label of the file.                                         *)

\* Nobody but selinux_inode_setxattr() begins to.
LEMMA SetterFrom ==
    ASSUME Shapes, \A u \in Tasks : TaskOK(u), SbOK, NEW u \in Tasks, task[u].label = NoSid,
           \A l \in Labels : ~selinux_inode_setxattr(u, l), [Next]_vars
    PROVE  task'[u].label = NoSid
<1> USE DEF Shapes, TaskOK, OpOf, mountVars, fileVars, Idle, At, Goto, Ends, Call, Return,
         Returned, Continue, TaskFields
<1>1. ASSUME NEW t \in Tasks, AlreadyLabelled(t) PROVE task'[u].label = NoSid
  BY <1>1 DEF AlreadyLabelled
<1>2. ASSUME NEW t \in Tasks, Defer(t) PROVE task'[u].label = NoSid
  BY <1>2 DEF Defer
<1>3. ASSUME NEW t \in Tasks, Queue(t) PROVE task'[u].label = NoSid
  BY <1>3 DEF Queue
<1>4. ASSUME NEW t \in Tasks, Begin(t) PROVE task'[u].label = NoSid
  BY <1>4 DEF Begin
<1>5. ASSUME NEW t \in Tasks, Fetch(t) PROVE task'[u].label = NoSid
  BY <1>5 DEF Fetch
<1>6. ASSUME NEW t \in Tasks, Install(t) PROVE task'[u].label = NoSid
  BY <1>6 DEF Install
<1>7. ASSUME NEW t \in Tasks, NEW o \in OptsAsked, NEW may \in BOOLEAN, Mount(t, o, may)
      PROVE  task'[u].label = NoSid
  <2>1. CASE UNCHANGED task
    BY <2>1
  <2>2. CASE SetUp(t)
    <3>1. task[t].label = NoSid /\ task' = [task EXCEPT ![t] = Call(t, "mount", Root, TRUE)]
      BY <2>2 DEF SetUp
    <3>2. task[t].op = "none"
      BY <2>2 DEF SetUp
    <3> QED BY <3>1, <3>2
  <2> QED BY <1>7, <2>1, <2>2, MountMoves DEF MountedEarly
<1>8. ASSUME NEW t \in Tasks, NEW i \in Inodes, Drain(t, i) PROVE task'[u].label = NoSid
  BY <1>8 DEF Drain
<1>9. ASSUME NEW t \in Tasks, Drained(t) PROVE task'[u].label = NoSid
  <2>1. At(t, "drain") /\ Ends(t)
    BY <1>9, DrainedMoves
  <2> QED BY <2>1
<1>10. ASSUME NEW t \in Tasks, LoadFirst(t) PROVE task'[u].label = NoSid
  BY <1>10 DEF LoadFirst
<1>11. ASSUME NEW t \in Tasks, selinux_complete_init(t) PROVE task'[u].label = NoSid
  <2>1. CASE At(t, "complete") /\ Ends(t)
    BY <2>1
  <2>2. CASE SetUp(t)
    <3>1. task[t].label = NoSid /\ task' = [task EXCEPT ![t] = Call(t, "mount", Root, TRUE)]
      BY <2>2 DEF SetUp
    <3>2. task[t].op = "none"
      BY <2>2 DEF SetUp
    <3> QED BY <3>1, <3>2
  <2> QED BY <1>11, <2>1, <2>2, CompleteMoves
<1>12. ASSUME NEW t \in Tasks, selinux_d_instantiate(t) PROVE task'[u].label = NoSid
  BY <1>12 DEF selinux_d_instantiate
<1>13. CASE Prune
  BY <1>13 DEF Prune
<1>14. ASSUME NEW t \in Tasks, NEW i \in Inodes, inode_security(t, i) PROVE task'[u].label = NoSid
  BY <1>14 DEF inode_security
<1>15. ASSUME NEW t \in Tasks, CreateStart(t) PROVE task'[u].label = NoSid
  BY <1>15 DEF CreateStart
<1>16. ASSUME NEW t \in Tasks, NEW c \in {NoSid} \cup Labels, selinux_inode_init_security(t, c)
      PROVE  task'[u].label = NoSid
  <2>1. CASE At(t, "create") /\ Ends(t)
    BY <2>1
  <2>2. CASE At(t, "create") /\ task' = [task EXCEPT ![t] = Call(t, "instantiate", File, TRUE)]
    BY <2>2
  <2> QED BY <1>16, <2>1, <2>2 DEF selinux_inode_init_security
<1>17. ASSUME NEW t \in Tasks, selinux_task_to_inode(t) PROVE task'[u].label = NoSid
  BY <1>17 DEF selinux_task_to_inode
<1>18. ASSUME NEW t \in Tasks, NEW l \in Labels, selinux_inode_setxattr(t, l)
      PROVE  task'[u].label = NoSid
  <2>1. t # u /\ \A v \in Tasks \ {t} : task'[v] = task[v]
    BY <1>18 DEF selinux_inode_setxattr
  <2> QED BY <2>1
<1>19. ASSUME NEW t \in Tasks, SetxattrDenied(t) PROVE task'[u].label = NoSid
  BY <1>19 DEF SetxattrDenied
<1>20. ASSUME NEW t \in Tasks, StoreXattr(t) PROVE task'[u].label = NoSid
  BY <1>20 DEF StoreXattr
<1>21. ASSUME NEW t \in Tasks, selinux_inode_setsecurity(t) PROVE task'[u].label = NoSid
  BY <1>21 DEF selinux_inode_setsecurity
<1>22. ASSUME NEW t \in Tasks, selinux_inode_post_setxattr(t) PROVE task'[u].label = NoSid
  <2>1. CASE At(t, "post") /\ Ends(t)
    BY <2>1
  <2>2. CASE At(t, "post") /\ task' = [task EXCEPT ![t] = Call(t, "post", task[t].ino, TRUE)]
    BY <2>2
  <2> QED BY <1>22, <2>1, <2>2 DEF selinux_inode_post_setxattr
<1>23. ASSUME NEW t \in Tasks, PostSet(t) PROVE task'[u].label = NoSid
  BY <1>23 DEF PostSet
<1>24. ASSUME NEW l \in Labels, ServerRelabel(l) PROVE task'[u].label = NoSid
  BY <1>24 DEF ServerRelabel
<1>25. ASSUME NEW t \in Tasks, selinux_inode_notifysecctx(t) PROVE task'[u].label = NoSid
  BY <1>25 DEF selinux_inode_notifysecctx
<1>26. ASSUME NEW t \in Tasks, selinux_inode_invalidate_secctx(t) PROVE task'[u].label = NoSid
  BY <1>26 DEF selinux_inode_invalidate_secctx
<1>27. ASSUME NEW t \in Tasks, selinux_file_open(t) PROVE task'[u].label = NoSid
  BY <1>27 DEF selinux_file_open
<1>28. ASSUME NEW t \in Tasks, SaveLabel(t) PROVE task'[u].label = NoSid
  BY <1>28 DEF SaveLabel
<1>29. ASSUME NEW t \in Tasks, SaveSeqno(t) PROVE task'[u].label = NoSid
  BY <1>29 DEF SaveSeqno
<1>30. ASSUME NEW t \in Tasks, Recheck(t) PROVE task'[u].label = NoSid
  BY <1>30 DEF Recheck
<1>31. CASE Close
  BY <1>31 DEF Close
<1>32. ASSUME NEW labels \in SUBSET Labels, LoadCommit(labels) PROVE task'[u].label = NoSid
  BY <1>32 DEF LoadCommit
<1>33. CASE LoadFlush
  BY <1>33 DEF LoadFlush
<1>34. CASE LoadNotify
  BY <1>34 DEF LoadNotify
<1>35. CASE UNCHANGED vars
  BY <1>35 DEF vars
<1> QED
  BY <1>1, <1>2, <1>3, <1>4, <1>5, <1>6, <1>7, <1>8, <1>9, <1>10, <1>11, <1>12, <1>13, <1>14,
     <1>15, <1>16, <1>17, <1>18, <1>19, <1>20, <1>21, <1>22, <1>23, <1>24, <1>25, <1>26, <1>27,
     <1>28, <1>29, <1>30, <1>31, <1>32, <1>33, <1>34, <1>35 DEF Next

\* A call is at an end, or goes on as it began.
Stays(u) ==
    \/ task'[u].label = NoSid
    \/ /\ task'[u].label = task[u].label /\ task'[u].ino = task[u].ino
       /\ task'[u].early = task[u].early /\ task'[u].dentry = TRUE

\* The label, the file and the time of the call stay the same until its end.
LEMMA SetterStays ==
    ASSUME Shapes, \A u \in Tasks : TaskOK(u), SbOK, NEW u \in Tasks, task[u].label # NoSid,
           task[u].dentry = TRUE, [Next]_vars
    PROVE  Stays(u)
<1> USE DEF Stays, Shapes, TaskOK, OpOf, mountVars, fileVars, Idle, At, Goto, Ends, Call,
         Return, Returned, Continue, TaskFields
<1>1. ASSUME NEW t \in Tasks, AlreadyLabelled(t) PROVE Stays(u)
  BY <1>1 DEF AlreadyLabelled
<1>2. ASSUME NEW t \in Tasks, Defer(t) PROVE Stays(u)
  BY <1>2 DEF Defer
<1>3. ASSUME NEW t \in Tasks, Queue(t) PROVE Stays(u)
  BY <1>3 DEF Queue
<1>4. ASSUME NEW t \in Tasks, Begin(t) PROVE Stays(u)
  BY <1>4 DEF Begin
<1>5. ASSUME NEW t \in Tasks, Fetch(t) PROVE Stays(u)
  BY <1>5 DEF Fetch
<1>6. ASSUME NEW t \in Tasks, Install(t) PROVE Stays(u)
  BY <1>6 DEF Install
<1>7. ASSUME NEW t \in Tasks, NEW o \in OptsAsked, NEW may \in BOOLEAN, Mount(t, o, may)
      PROVE  Stays(u)
  <2>1. CASE UNCHANGED task
    BY <2>1
  <2>2. CASE SetUp(t)
    <3>1. task[t].label = NoSid /\ task' = [task EXCEPT ![t] = Call(t, "mount", Root, TRUE)]
      BY <2>2 DEF SetUp
    <3>2. task[t].op = "none"
      BY <2>2 DEF SetUp
    <3> QED BY <3>1, <3>2
  <2> QED BY <1>7, <2>1, <2>2, MountMoves DEF MountedEarly
<1>8. ASSUME NEW t \in Tasks, NEW i \in Inodes, Drain(t, i) PROVE Stays(u)
  BY <1>8 DEF Drain
<1>9. ASSUME NEW t \in Tasks, Drained(t) PROVE Stays(u)
  <2>1. At(t, "drain") /\ Ends(t)
    BY <1>9, DrainedMoves
  <2> QED BY <2>1
<1>10. ASSUME NEW t \in Tasks, LoadFirst(t) PROVE Stays(u)
  BY <1>10 DEF LoadFirst
<1>11. ASSUME NEW t \in Tasks, selinux_complete_init(t) PROVE Stays(u)
  <2>1. CASE At(t, "complete") /\ Ends(t)
    BY <2>1
  <2>2. CASE SetUp(t)
    <3>1. task[t].label = NoSid /\ task' = [task EXCEPT ![t] = Call(t, "mount", Root, TRUE)]
      BY <2>2 DEF SetUp
    <3>2. task[t].op = "none"
      BY <2>2 DEF SetUp
    <3> QED BY <3>1, <3>2
  <2> QED BY <1>11, <2>1, <2>2, CompleteMoves
<1>12. ASSUME NEW t \in Tasks, selinux_d_instantiate(t) PROVE Stays(u)
  BY <1>12 DEF selinux_d_instantiate
<1>13. CASE Prune
  BY <1>13 DEF Prune
<1>14. ASSUME NEW t \in Tasks, NEW i \in Inodes, inode_security(t, i) PROVE Stays(u)
  BY <1>14 DEF inode_security
<1>15. ASSUME NEW t \in Tasks, CreateStart(t) PROVE Stays(u)
  BY <1>15 DEF CreateStart
<1>16. ASSUME NEW t \in Tasks, NEW c \in {NoSid} \cup Labels, selinux_inode_init_security(t, c)
      PROVE  Stays(u)
  <2>1. CASE At(t, "create") /\ Ends(t)
    BY <2>1
  <2>2. CASE At(t, "create") /\ task' = [task EXCEPT ![t] = Call(t, "instantiate", File, TRUE)]
    BY <2>2
  <2> QED BY <1>16, <2>1, <2>2 DEF selinux_inode_init_security
<1>17. ASSUME NEW t \in Tasks, selinux_task_to_inode(t) PROVE Stays(u)
  BY <1>17 DEF selinux_task_to_inode
<1>18. ASSUME NEW t \in Tasks, NEW l \in Labels, selinux_inode_setxattr(t, l) PROVE Stays(u)
  <2>1. At(t, "idle") /\ \A v \in Tasks \ {t} : task'[v] = task[v]
    BY <1>18 DEF selinux_inode_setxattr
  <2>2. t # u
    BY <2>1
  <2> QED BY <2>1, <2>2
<1>19. ASSUME NEW t \in Tasks, SetxattrDenied(t) PROVE Stays(u)
  BY <1>19 DEF SetxattrDenied
<1>20. ASSUME NEW t \in Tasks, StoreXattr(t) PROVE Stays(u)
  BY <1>20 DEF StoreXattr
<1>21. ASSUME NEW t \in Tasks, selinux_inode_setsecurity(t) PROVE Stays(u)
  BY <1>21 DEF selinux_inode_setsecurity
<1>22. ASSUME NEW t \in Tasks, selinux_inode_post_setxattr(t) PROVE Stays(u)
  <2>1. CASE At(t, "post") /\ Ends(t)
    BY <2>1
  <2>2. CASE At(t, "post") /\ task' = [task EXCEPT ![t] = Call(t, "post", task[t].ino, TRUE)]
    BY <2>2
  <2> QED BY <1>22, <2>1, <2>2 DEF selinux_inode_post_setxattr
<1>23. ASSUME NEW t \in Tasks, PostSet(t) PROVE Stays(u)
  BY <1>23 DEF PostSet
<1>24. ASSUME NEW l \in Labels, ServerRelabel(l) PROVE Stays(u)
  BY <1>24 DEF ServerRelabel
<1>25. ASSUME NEW t \in Tasks, selinux_inode_notifysecctx(t) PROVE Stays(u)
  BY <1>25 DEF selinux_inode_notifysecctx
<1>26. ASSUME NEW t \in Tasks, selinux_inode_invalidate_secctx(t) PROVE Stays(u)
  BY <1>26 DEF selinux_inode_invalidate_secctx
<1>27. ASSUME NEW t \in Tasks, selinux_file_open(t) PROVE Stays(u)
  BY <1>27 DEF selinux_file_open
<1>28. ASSUME NEW t \in Tasks, SaveLabel(t) PROVE Stays(u)
  BY <1>28 DEF SaveLabel
<1>29. ASSUME NEW t \in Tasks, SaveSeqno(t) PROVE Stays(u)
  BY <1>29 DEF SaveSeqno
<1>30. ASSUME NEW t \in Tasks, Recheck(t) PROVE Stays(u)
  BY <1>30 DEF Recheck
<1>31. CASE Close
  BY <1>31 DEF Close
<1>32. ASSUME NEW labels \in SUBSET Labels, LoadCommit(labels) PROVE Stays(u)
  BY <1>32 DEF LoadCommit
<1>33. CASE LoadFlush
  BY <1>33 DEF LoadFlush
<1>34. CASE LoadNotify
  BY <1>34 DEF LoadNotify
<1>35. CASE UNCHANGED vars
  BY <1>35 DEF vars
<1> HIDE DEF Stays
<1> QED
  BY <1>1, <1>2, <1>3, <1>4, <1>5, <1>6, <1>7, <1>8, <1>9, <1>10, <1>11, <1>12, <1>13, <1>14,
     <1>15, <1>16, <1>17, <1>18, <1>19, <1>20, <1>21, <1>22, <1>23, <1>24, <1>25, <1>26, <1>27,
     <1>28, <1>29, <1>30, <1>31, <1>32, <1>33, <1>34, <1>35 DEF Next

\* The label is on the medium when the file system says so.
LEMMA StoresFrom ==
    ASSUME Shapes, \A u \in Tasks : TaskOK(u), SbOK, NEW u \in Tasks, ~Stores(u),
           ~StoreXattr(u), [Next]_vars
    PROVE  ~Stores(u)'
<1> USE DEF Stores, Shapes, TaskOK, OpOf, mountVars, fileVars, Idle, At, Goto, Ends, Call,
         Return, Returned, Continue, TaskFields
<1>1. ASSUME NEW t \in Tasks, AlreadyLabelled(t) PROVE ~Stores(u)'
  BY <1>1 DEF AlreadyLabelled
<1>2. ASSUME NEW t \in Tasks, Defer(t) PROVE ~Stores(u)'
  BY <1>2 DEF Defer
<1>3. ASSUME NEW t \in Tasks, Queue(t) PROVE ~Stores(u)'
  BY <1>3 DEF Queue
<1>4. ASSUME NEW t \in Tasks, Begin(t) PROVE ~Stores(u)'
  BY <1>4 DEF Begin
<1>5. ASSUME NEW t \in Tasks, Fetch(t) PROVE ~Stores(u)'
  BY <1>5 DEF Fetch
<1>6. ASSUME NEW t \in Tasks, Install(t) PROVE ~Stores(u)'
  BY <1>6 DEF Install
<1>7. ASSUME NEW t \in Tasks, NEW o \in OptsAsked, NEW may \in BOOLEAN, Mount(t, o, may)
      PROVE  ~Stores(u)'
  <2>1. CASE UNCHANGED task
    BY <2>1
  <2>2. CASE SetUp(t)
    <3>1. task[t].label = NoSid /\ task' = [task EXCEPT ![t] = Call(t, "mount", Root, TRUE)]
      BY <2>2 DEF SetUp
    <3>2. task[t].op = "none"
      BY <2>2 DEF SetUp
    <3> QED BY <3>1, <3>2
  <2> QED BY <1>7, <2>1, <2>2, MountMoves DEF MountedEarly
<1>8. ASSUME NEW t \in Tasks, NEW i \in Inodes, Drain(t, i) PROVE ~Stores(u)'
  BY <1>8 DEF Drain
<1>9. ASSUME NEW t \in Tasks, Drained(t) PROVE ~Stores(u)'
  <2>1. At(t, "drain") /\ Ends(t)
    BY <1>9, DrainedMoves
  <2> QED BY <2>1
<1>10. ASSUME NEW t \in Tasks, LoadFirst(t) PROVE ~Stores(u)'
  BY <1>10 DEF LoadFirst
<1>11. ASSUME NEW t \in Tasks, selinux_complete_init(t) PROVE ~Stores(u)'
  <2>1. CASE At(t, "complete") /\ Ends(t)
    BY <2>1
  <2>2. CASE SetUp(t)
    <3>1. task[t].label = NoSid /\ task' = [task EXCEPT ![t] = Call(t, "mount", Root, TRUE)]
      BY <2>2 DEF SetUp
    <3>2. task[t].op = "none"
      BY <2>2 DEF SetUp
    <3> QED BY <3>1, <3>2
  <2> QED BY <1>11, <2>1, <2>2, CompleteMoves
<1>12. ASSUME NEW t \in Tasks, selinux_d_instantiate(t) PROVE ~Stores(u)'
  BY <1>12 DEF selinux_d_instantiate
<1>13. CASE Prune
  BY <1>13 DEF Prune
<1>14. ASSUME NEW t \in Tasks, NEW i \in Inodes, inode_security(t, i) PROVE ~Stores(u)'
  BY <1>14 DEF inode_security
<1>15. ASSUME NEW t \in Tasks, CreateStart(t) PROVE ~Stores(u)'
  BY <1>15 DEF CreateStart
<1>16. ASSUME NEW t \in Tasks, NEW c \in {NoSid} \cup Labels, selinux_inode_init_security(t, c)
      PROVE  ~Stores(u)'
  <2>1. CASE At(t, "create") /\ Ends(t)
    BY <2>1
  <2>2. CASE At(t, "create") /\ task' = [task EXCEPT ![t] = Call(t, "instantiate", File, TRUE)]
    BY <2>2
  <2> QED BY <1>16, <2>1, <2>2 DEF selinux_inode_init_security
<1>17. ASSUME NEW t \in Tasks, selinux_task_to_inode(t) PROVE ~Stores(u)'
  BY <1>17 DEF selinux_task_to_inode
<1>18. ASSUME NEW t \in Tasks, NEW l \in Labels, selinux_inode_setxattr(t, l) PROVE ~Stores(u)'
  <2>1. PICK c : c = Call(t, "check", File, TRUE)
    OBVIOUS
  <2>2. PICK k : k = task[t]
    OBVIOUS
  <2>3. DOMAIN k = TaskFields /\ DOMAIN c = TaskFields /\ c.pc = "begin" /\ c.op = "check"
    BY <2>1, <2>2
  <2>4. CASE task' = [task EXCEPT ![t] = [c EXCEPT !.label = l]]
    BY <2>3, <2>4
  <2>5. CASE task' = [task EXCEPT ![t] = [k EXCEPT !.pc = "write", !.op = "check", !.ino = File,
                                                !.dentry = TRUE, !.label = l, !.early = TRUE]]
    BY <2>3, <2>5
  <2> QED BY <1>18, <2>1, <2>2, <2>4, <2>5 DEF selinux_inode_setxattr
<1>19. ASSUME NEW t \in Tasks, SetxattrDenied(t) PROVE ~Stores(u)'
  BY <1>19 DEF SetxattrDenied
<1>20. ASSUME NEW t \in Tasks, StoreXattr(t) PROVE ~Stores(u)'
  <2>1. u # t /\ \A v \in Tasks \ {t} : task'[v] = task[v]
    BY <1>20 DEF StoreXattr
  <2> QED BY <2>1
<1>21. ASSUME NEW t \in Tasks, selinux_inode_setsecurity(t) PROVE ~Stores(u)'
  BY <1>21 DEF selinux_inode_setsecurity
<1>22. ASSUME NEW t \in Tasks, selinux_inode_post_setxattr(t) PROVE ~Stores(u)'
  <2>1. CASE At(t, "post") /\ Ends(t)
    BY <2>1
  <2>2. CASE At(t, "post") /\ task' = [task EXCEPT ![t] = Call(t, "post", task[t].ino, TRUE)]
    BY <2>2
  <2> QED BY <1>22, <2>1, <2>2 DEF selinux_inode_post_setxattr
<1>23. ASSUME NEW t \in Tasks, PostSet(t) PROVE ~Stores(u)'
  BY <1>23 DEF PostSet
<1>24. ASSUME NEW l \in Labels, ServerRelabel(l) PROVE ~Stores(u)'
  BY <1>24 DEF ServerRelabel
<1>25. ASSUME NEW t \in Tasks, selinux_inode_notifysecctx(t) PROVE ~Stores(u)'
  BY <1>25 DEF selinux_inode_notifysecctx
<1>26. ASSUME NEW t \in Tasks, selinux_inode_invalidate_secctx(t) PROVE ~Stores(u)'
  BY <1>26 DEF selinux_inode_invalidate_secctx
<1>27. ASSUME NEW t \in Tasks, selinux_file_open(t) PROVE ~Stores(u)'
  BY <1>27 DEF selinux_file_open
<1>28. ASSUME NEW t \in Tasks, SaveLabel(t) PROVE ~Stores(u)'
  BY <1>28 DEF SaveLabel
<1>29. ASSUME NEW t \in Tasks, SaveSeqno(t) PROVE ~Stores(u)'
  BY <1>29 DEF SaveSeqno
<1>30. ASSUME NEW t \in Tasks, Recheck(t) PROVE ~Stores(u)'
  BY <1>30 DEF Recheck
<1>31. CASE Close
  BY <1>31 DEF Close
<1>32. ASSUME NEW labels \in SUBSET Labels, LoadCommit(labels) PROVE ~Stores(u)'
  BY <1>32 DEF LoadCommit
<1>33. CASE LoadFlush
  BY <1>33 DEF LoadFlush
<1>34. CASE LoadNotify
  BY <1>34 DEF LoadNotify
<1>35. CASE UNCHANGED vars
  BY <1>35 DEF vars
<1> HIDE DEF Stores
<1> QED
  BY <1>1, <1>2, <1>3, <1>4, <1>5, <1>6, <1>7, <1>8, <1>9, <1>10, <1>11, <1>12, <1>13, <1>14,
     <1>15, <1>16, <1>17, <1>18, <1>19, <1>20, <1>21, <1>22, <1>23, <1>24, <1>25, <1>26, <1>27,
     <1>28, <1>29, <1>30, <1>31, <1>32, <1>33, <1>34, <1>35 DEF Next

\* The hook knows of it until selinux_inode_post_setxattr() is done.
LEMMA StoresUntil ==
    ASSUME Shapes, \A u \in Tasks : TaskOK(u), SbOK, loaded, NEW u \in Tasks, Stores(u),
           ~PostSet(u), [Next]_vars
    PROVE  Stores(u)' /\ task'[u].ino = task[u].ino
<1> USE DEF Stores, Shapes, TaskOK, OpOf, mountVars, fileVars, Idle, At, Goto, Ends, Call,
         Return, Returned, Continue, TaskFields
<1>1. ASSUME NEW t \in Tasks, AlreadyLabelled(t) PROVE Stores(u)' /\ task'[u].ino = task[u].ino
  BY <1>1 DEF AlreadyLabelled
<1>2. ASSUME NEW t \in Tasks, Defer(t) PROVE Stores(u)' /\ task'[u].ino = task[u].ino
  BY <1>2 DEF Defer
<1>3. ASSUME NEW t \in Tasks, Queue(t) PROVE Stores(u)' /\ task'[u].ino = task[u].ino
  BY <1>3 DEF Queue
<1>4. ASSUME NEW t \in Tasks, Begin(t) PROVE Stores(u)' /\ task'[u].ino = task[u].ino
  BY <1>4 DEF Begin
<1>5. ASSUME NEW t \in Tasks, Fetch(t) PROVE Stores(u)' /\ task'[u].ino = task[u].ino
  BY <1>5 DEF Fetch
<1>6. ASSUME NEW t \in Tasks, Install(t) PROVE Stores(u)' /\ task'[u].ino = task[u].ino
  BY <1>6 DEF Install
<1>7. ASSUME NEW t \in Tasks, NEW o \in OptsAsked, NEW may \in BOOLEAN, Mount(t, o, may)
      PROVE  Stores(u)' /\ task'[u].ino = task[u].ino
  <2>1. CASE UNCHANGED task
    BY <2>1
  <2>2. CASE SetUp(t)
    <3>1. task[t].label = NoSid /\ task' = [task EXCEPT ![t] = Call(t, "mount", Root, TRUE)]
      BY <2>2 DEF SetUp
    <3>2. task[t].op = "none"
      BY <2>2 DEF SetUp
    <3> QED BY <3>1, <3>2
  <2> QED BY <1>7, <2>1, <2>2, MountMoves DEF MountedEarly
<1>8. ASSUME NEW t \in Tasks, NEW i \in Inodes, Drain(t, i)
      PROVE  Stores(u)' /\ task'[u].ino = task[u].ino
  BY <1>8 DEF Drain
<1>9. ASSUME NEW t \in Tasks, Drained(t) PROVE Stores(u)' /\ task'[u].ino = task[u].ino
  <2>1. At(t, "drain") /\ Ends(t)
    BY <1>9, DrainedMoves
  <2> QED BY <2>1
<1>10. ASSUME NEW t \in Tasks, LoadFirst(t) PROVE Stores(u)' /\ task'[u].ino = task[u].ino
  BY <1>10 DEF LoadFirst
<1>11. ASSUME NEW t \in Tasks, selinux_complete_init(t)
      PROVE  Stores(u)' /\ task'[u].ino = task[u].ino
  <2>1. CASE At(t, "complete") /\ Ends(t)
    BY <2>1
  <2>2. CASE SetUp(t)
    <3>1. task[t].label = NoSid /\ task' = [task EXCEPT ![t] = Call(t, "mount", Root, TRUE)]
      BY <2>2 DEF SetUp
    <3>2. task[t].op = "none"
      BY <2>2 DEF SetUp
    <3> QED BY <3>1, <3>2
  <2> QED BY <1>11, <2>1, <2>2, CompleteMoves
<1>12. ASSUME NEW t \in Tasks, selinux_d_instantiate(t)
      PROVE  Stores(u)' /\ task'[u].ino = task[u].ino
  BY <1>12 DEF selinux_d_instantiate
<1>13. CASE Prune
  BY <1>13 DEF Prune
<1>14. ASSUME NEW t \in Tasks, NEW i \in Inodes, inode_security(t, i)
      PROVE  Stores(u)' /\ task'[u].ino = task[u].ino
  BY <1>14 DEF inode_security
<1>15. ASSUME NEW t \in Tasks, CreateStart(t) PROVE Stores(u)' /\ task'[u].ino = task[u].ino
  BY <1>15 DEF CreateStart
<1>16. ASSUME NEW t \in Tasks, NEW c \in {NoSid} \cup Labels, selinux_inode_init_security(t, c)
      PROVE  Stores(u)' /\ task'[u].ino = task[u].ino
  <2>1. CASE At(t, "create") /\ Ends(t)
    BY <2>1
  <2>2. CASE At(t, "create") /\ task' = [task EXCEPT ![t] = Call(t, "instantiate", File, TRUE)]
    BY <2>2
  <2> QED BY <1>16, <2>1, <2>2 DEF selinux_inode_init_security
<1>17. ASSUME NEW t \in Tasks, selinux_task_to_inode(t)
      PROVE  Stores(u)' /\ task'[u].ino = task[u].ino
  BY <1>17 DEF selinux_task_to_inode
<1>18. ASSUME NEW t \in Tasks, NEW l \in Labels, selinux_inode_setxattr(t, l)
      PROVE  Stores(u)' /\ task'[u].ino = task[u].ino
  <2>1. At(t, "idle") /\ \A v \in Tasks \ {t} : task'[v] = task[v]
    BY <1>18 DEF selinux_inode_setxattr
  <2>2. t # u
    BY <2>1
  <2> QED BY <2>1, <2>2
<1>19. ASSUME NEW t \in Tasks, SetxattrDenied(t) PROVE Stores(u)' /\ task'[u].ino = task[u].ino
  BY <1>19 DEF SetxattrDenied
<1>20. ASSUME NEW t \in Tasks, StoreXattr(t) PROVE Stores(u)' /\ task'[u].ino = task[u].ino
  BY <1>20 DEF StoreXattr
<1>21. ASSUME NEW t \in Tasks, selinux_inode_setsecurity(t)
      PROVE  Stores(u)' /\ task'[u].ino = task[u].ino
  BY <1>21 DEF selinux_inode_setsecurity
<1>22. ASSUME NEW t \in Tasks, selinux_inode_post_setxattr(t)
      PROVE  Stores(u)' /\ task'[u].ino = task[u].ino
  <2>1. task' = [task EXCEPT ![t] = Call(t, "post", task[t].ino, TRUE)]
    BY <1>22 DEF selinux_inode_post_setxattr
  <2> QED BY <2>1
<1>23. ASSUME NEW t \in Tasks, PostSet(t) PROVE Stores(u)' /\ task'[u].ino = task[u].ino
  <2>1. u # t /\ \A v \in Tasks \ {t} : task'[v] = task[v]
    BY <1>23 DEF PostSet, Ends
  <2> QED BY <2>1
<1>24. ASSUME NEW l \in Labels, ServerRelabel(l) PROVE Stores(u)' /\ task'[u].ino = task[u].ino
  BY <1>24 DEF ServerRelabel
<1>25. ASSUME NEW t \in Tasks, selinux_inode_notifysecctx(t)
      PROVE  Stores(u)' /\ task'[u].ino = task[u].ino
  BY <1>25 DEF selinux_inode_notifysecctx
<1>26. ASSUME NEW t \in Tasks, selinux_inode_invalidate_secctx(t)
      PROVE  Stores(u)' /\ task'[u].ino = task[u].ino
  BY <1>26 DEF selinux_inode_invalidate_secctx
<1>27. ASSUME NEW t \in Tasks, selinux_file_open(t) PROVE Stores(u)' /\ task'[u].ino = task[u].ino
  BY <1>27 DEF selinux_file_open
<1>28. ASSUME NEW t \in Tasks, SaveLabel(t) PROVE Stores(u)' /\ task'[u].ino = task[u].ino
  BY <1>28 DEF SaveLabel
<1>29. ASSUME NEW t \in Tasks, SaveSeqno(t) PROVE Stores(u)' /\ task'[u].ino = task[u].ino
  BY <1>29 DEF SaveSeqno
<1>30. ASSUME NEW t \in Tasks, Recheck(t) PROVE Stores(u)' /\ task'[u].ino = task[u].ino
  BY <1>30 DEF Recheck
<1>31. CASE Close
  BY <1>31 DEF Close
<1>32. ASSUME NEW labels \in SUBSET Labels, LoadCommit(labels)
      PROVE  Stores(u)' /\ task'[u].ino = task[u].ino
  BY <1>32 DEF LoadCommit
<1>33. CASE LoadFlush
  BY <1>33 DEF LoadFlush
<1>34. CASE LoadNotify
  BY <1>34 DEF LoadNotify
<1>35. CASE UNCHANGED vars
  BY <1>35 DEF vars
<1> HIDE DEF Stores
<1> QED
  BY <1>1, <1>2, <1>3, <1>4, <1>5, <1>6, <1>7, <1>8, <1>9, <1>10, <1>11, <1>12, <1>13, <1>14,
     <1>15, <1>16, <1>17, <1>18, <1>19, <1>20, <1>21, <1>22, <1>23, <1>24, <1>25, <1>26, <1>27,
     <1>28, <1>29, <1>30, <1>31, <1>32, <1>33, <1>34, <1>35 DEF Next

\* The steps that have to do with the label on the medium.
MediumStep(t) ==
    \/ StoreXattr(t) \/ PostSet(t)
    \/ \E c \in {NoSid} \cup Labels : selinux_inode_init_security(t, c)
    \/ selinux_inode_notifysecctx(t) \/ selinux_inode_invalidate_secctx(t)

MediumMoves ==
    UNCHANGED <<xattr, remote, raced>> \/ (\E t \in Tasks : MediumStep(t))
    \/ \E l \in Labels : ServerRelabel(l)

\* No other step changes it.
LEMMA MediumFrame ==
    ASSUME [Next]_vars
    PROVE  MediumMoves
<1> USE DEF MediumMoves
<1>1. ASSUME NEW t \in Tasks, AlreadyLabelled(t) PROVE MediumMoves
  BY <1>1 DEF AlreadyLabelled
<1>2. ASSUME NEW t \in Tasks, Defer(t) PROVE MediumMoves
  BY <1>2 DEF Defer
<1>3. ASSUME NEW t \in Tasks, Queue(t) PROVE MediumMoves
  BY <1>3 DEF Queue
<1>4. ASSUME NEW t \in Tasks, Begin(t) PROVE MediumMoves
  BY <1>4 DEF Begin
<1>5. ASSUME NEW t \in Tasks, Fetch(t) PROVE MediumMoves
  BY <1>5 DEF Fetch
<1>6. ASSUME NEW t \in Tasks, Install(t) PROVE MediumMoves
  BY <1>6 DEF Install
<1>7. ASSUME NEW t \in Tasks, NEW o \in OptsAsked, NEW may \in BOOLEAN, Mount(t, o, may)
      PROVE  MediumMoves
  BY <1>7 DEF Mount
<1>8. ASSUME NEW t \in Tasks, NEW i \in Inodes, Drain(t, i) PROVE MediumMoves
  BY <1>8 DEF Drain
<1>9. ASSUME NEW t \in Tasks, Drained(t) PROVE MediumMoves
  BY <1>9 DEF Drained
<1>10. ASSUME NEW t \in Tasks, LoadFirst(t) PROVE MediumMoves
  BY <1>10 DEF LoadFirst
<1>11. ASSUME NEW t \in Tasks, selinux_complete_init(t) PROVE MediumMoves
  BY <1>11 DEF selinux_complete_init
<1>12. ASSUME NEW t \in Tasks, selinux_d_instantiate(t) PROVE MediumMoves
  BY <1>12 DEF selinux_d_instantiate
<1>13. CASE Prune
  BY <1>13 DEF Prune
<1>14. ASSUME NEW t \in Tasks, NEW i \in Inodes, inode_security(t, i) PROVE MediumMoves
  BY <1>14 DEF inode_security
<1>15. ASSUME NEW t \in Tasks, CreateStart(t) PROVE MediumMoves
  BY <1>15 DEF CreateStart
<1>16. ASSUME NEW t \in Tasks, NEW c \in {NoSid} \cup Labels, selinux_inode_init_security(t, c)
      PROVE  MediumMoves
  BY <1>16 DEF MediumStep
<1>17. ASSUME NEW t \in Tasks, selinux_task_to_inode(t) PROVE MediumMoves
  BY <1>17 DEF selinux_task_to_inode
<1>18. ASSUME NEW t \in Tasks, NEW l \in Labels, selinux_inode_setxattr(t, l) PROVE MediumMoves
  BY <1>18 DEF selinux_inode_setxattr
<1>19. ASSUME NEW t \in Tasks, SetxattrDenied(t) PROVE MediumMoves
  BY <1>19 DEF SetxattrDenied
<1>20. ASSUME NEW t \in Tasks, StoreXattr(t) PROVE MediumMoves
  BY <1>20 DEF MediumStep
<1>21. ASSUME NEW t \in Tasks, selinux_inode_setsecurity(t) PROVE MediumMoves
  BY <1>21 DEF selinux_inode_setsecurity
<1>22. ASSUME NEW t \in Tasks, selinux_inode_post_setxattr(t) PROVE MediumMoves
  BY <1>22 DEF selinux_inode_post_setxattr
<1>23. ASSUME NEW t \in Tasks, PostSet(t) PROVE MediumMoves
  BY <1>23 DEF MediumStep
<1>24. ASSUME NEW l \in Labels, ServerRelabel(l) PROVE MediumMoves
  BY <1>24
<1>25. ASSUME NEW t \in Tasks, selinux_inode_notifysecctx(t) PROVE MediumMoves
  BY <1>25 DEF MediumStep
<1>26. ASSUME NEW t \in Tasks, selinux_inode_invalidate_secctx(t) PROVE MediumMoves
  BY <1>26 DEF MediumStep
<1>27. ASSUME NEW t \in Tasks, selinux_file_open(t) PROVE MediumMoves
  BY <1>27 DEF selinux_file_open
<1>28. ASSUME NEW t \in Tasks, SaveLabel(t) PROVE MediumMoves
  BY <1>28 DEF SaveLabel
<1>29. ASSUME NEW t \in Tasks, SaveSeqno(t) PROVE MediumMoves
  BY <1>29 DEF SaveSeqno
<1>30. ASSUME NEW t \in Tasks, Recheck(t) PROVE MediumMoves
  BY <1>30 DEF Recheck
<1>31. CASE Close
  BY <1>31 DEF Close
<1>32. ASSUME NEW labels \in SUBSET Labels, LoadCommit(labels) PROVE MediumMoves
  BY <1>32 DEF LoadCommit
<1>33. CASE LoadFlush
  BY <1>33 DEF LoadFlush
<1>34. CASE LoadNotify
  BY <1>34 DEF LoadNotify
<1>35. CASE UNCHANGED vars
  BY <1>35 DEF vars
<1> QED
  BY <1>1, <1>2, <1>3, <1>4, <1>5, <1>6, <1>7, <1>8, <1>9, <1>10, <1>11, <1>12, <1>13, <1>14,
     <1>15, <1>16, <1>17, <1>18, <1>19, <1>20, <1>21, <1>22, <1>23, <1>24, <1>25, <1>26, <1>27,
     <1>28, <1>29, <1>30, <1>31, <1>32, <1>33, <1>34, <1>35 DEF Next

\* A file has a name until it is pruned or its file system is discarded.
LEMMA NamedUntil ==
    ASSUME Shapes, \A u \in Tasks : TaskOK(u), SbOK, File \in named, ~Discards, ~Prune,
           [Next]_vars
    PROVE  File \in named'
<1> USE DEF mountVars, fileVars
<1>1. ASSUME NEW t \in Tasks, AlreadyLabelled(t) PROVE File \in named'
  BY <1>1 DEF AlreadyLabelled
<1>2. ASSUME NEW t \in Tasks, Defer(t) PROVE File \in named'
  BY <1>2 DEF Defer
<1>3. ASSUME NEW t \in Tasks, Queue(t) PROVE File \in named'
  BY <1>3 DEF Queue
<1>4. ASSUME NEW t \in Tasks, Begin(t) PROVE File \in named'
  BY <1>4 DEF Begin
<1>5. ASSUME NEW t \in Tasks, Fetch(t) PROVE File \in named'
  BY <1>5 DEF Fetch
<1>6. ASSUME NEW t \in Tasks, Install(t) PROVE File \in named'
  BY <1>6 DEF Install
<1>7. ASSUME NEW t \in Tasks, NEW o \in OptsAsked, NEW may \in BOOLEAN, Mount(t, o, may)
      PROVE  File \in named'
  BY <1>7, MountDone DEF MountedEarly, SetUp
<1>8. ASSUME NEW t \in Tasks, NEW i \in Inodes, Drain(t, i) PROVE File \in named'
  BY <1>8 DEF Drain
<1>9. ASSUME NEW t \in Tasks, Drained(t) PROVE File \in named'
  BY <1>9, DrainedDone
<1>10. ASSUME NEW t \in Tasks, LoadFirst(t) PROVE File \in named'
  BY <1>10 DEF LoadFirst
<1>11. ASSUME NEW t \in Tasks, selinux_complete_init(t) PROVE File \in named'
  BY <1>11, CompleteMoves DEF SetUp
<1>12. ASSUME NEW t \in Tasks, selinux_d_instantiate(t) PROVE File \in named'
  BY <1>12 DEF selinux_d_instantiate
<1>13. CASE Prune
  BY <1>13
<1>14. ASSUME NEW t \in Tasks, NEW i \in Inodes, inode_security(t, i) PROVE File \in named'
  BY <1>14 DEF inode_security
<1>15. ASSUME NEW t \in Tasks, CreateStart(t) PROVE File \in named'
  BY <1>15 DEF CreateStart
<1>16. ASSUME NEW t \in Tasks, NEW c \in {NoSid} \cup Labels, selinux_inode_init_security(t, c)
      PROVE  File \in named'
  BY <1>16 DEF selinux_inode_init_security
<1>17. ASSUME NEW t \in Tasks, selinux_task_to_inode(t) PROVE File \in named'
  BY <1>17 DEF selinux_task_to_inode
<1>18. ASSUME NEW t \in Tasks, NEW l \in Labels, selinux_inode_setxattr(t, l)
       PROVE  File \in named'
  BY <1>18 DEF selinux_inode_setxattr
<1>19. ASSUME NEW t \in Tasks, SetxattrDenied(t) PROVE File \in named'
  BY <1>19 DEF SetxattrDenied
<1>20. ASSUME NEW t \in Tasks, StoreXattr(t) PROVE File \in named'
  BY <1>20 DEF StoreXattr
<1>21. ASSUME NEW t \in Tasks, selinux_inode_setsecurity(t) PROVE File \in named'
  BY <1>21 DEF selinux_inode_setsecurity
<1>22. ASSUME NEW t \in Tasks, selinux_inode_post_setxattr(t) PROVE File \in named'
  BY <1>22 DEF selinux_inode_post_setxattr
<1>23. ASSUME NEW t \in Tasks, PostSet(t) PROVE File \in named'
  BY <1>23 DEF PostSet
<1>24. ASSUME NEW l \in Labels, ServerRelabel(l) PROVE File \in named'
  BY <1>24 DEF ServerRelabel
<1>25. ASSUME NEW t \in Tasks, selinux_inode_notifysecctx(t) PROVE File \in named'
  BY <1>25 DEF selinux_inode_notifysecctx
<1>26. ASSUME NEW t \in Tasks, selinux_inode_invalidate_secctx(t) PROVE File \in named'
  BY <1>26 DEF selinux_inode_invalidate_secctx
<1>27. ASSUME NEW t \in Tasks, selinux_file_open(t) PROVE File \in named'
  BY <1>27 DEF selinux_file_open
<1>28. ASSUME NEW t \in Tasks, SaveLabel(t) PROVE File \in named'
  BY <1>28 DEF SaveLabel
<1>29. ASSUME NEW t \in Tasks, SaveSeqno(t) PROVE File \in named'
  BY <1>29 DEF SaveSeqno
<1>30. ASSUME NEW t \in Tasks, Recheck(t) PROVE File \in named'
  BY <1>30 DEF Recheck
<1>31. CASE Close
  BY <1>31 DEF Close
<1>32. ASSUME NEW labels \in SUBSET Labels, LoadCommit(labels) PROVE File \in named'
  BY <1>32 DEF LoadCommit
<1>33. CASE LoadFlush
  BY <1>33 DEF LoadFlush
<1>34. CASE LoadNotify
  BY <1>34 DEF LoadNotify
<1>35. CASE UNCHANGED vars
  BY <1>35 DEF vars
<1> QED
  BY <1>1, <1>2, <1>3, <1>4, <1>5, <1>6, <1>7, <1>8, <1>9, <1>10, <1>11, <1>12, <1>13, <1>14,
     <1>15, <1>16, <1>17, <1>18, <1>19, <1>20, <1>21, <1>22, <1>23, <1>24, <1>25, <1>26, <1>27,
     <1>28, <1>29, <1>30, <1>31, <1>32, <1>33, <1>34, <1>35 DEF Next

\* The label of a call stays on the medium.
LEMMA StoredStays ==
    ASSUME Shapes, \A t \in Tasks : TaskOK(t), SbOK, SetOK, [Next]_vars,
           NEW u \in Tasks, Stores(u), task[u].label # NoSid, Stays(u), task'[u].label # NoSid
    PROVE  xattr'[File] = task'[u].label \/ File \in remote' \cup raced'
<1>1. /\ xattr[File] = task[u].label \/ File \in remote \cup raced
      /\ task[u].ino = File /\ File \in named /\ Setting(File)
      /\ task'[u].label = task[u].label
  BY DEF SetOK, Setting, Stays
<1>2. CASE UNCHANGED <<xattr, remote, raced>>
  BY <1>1, <1>2
<1>3. ASSUME NEW t \in Tasks, StoreXattr(t) PROVE FALSE
  <2>1. task[t].label # NoSid
    BY <1>3 DEF StoreXattr, At, TaskOK, OpOf
  <2>2. t = u /\ At(u, "write")
    BY <1>3, <2>1 DEF SetOK, StoreXattr
  <2> QED BY <2>2 DEF Stores, TaskOK, OpOf, At
<1>4. ASSUME NEW t \in Tasks, PostSet(t)
      PROVE  xattr' = xattr /\ remote' = remote /\ raced \subseteq raced'
  BY <1>4 DEF PostSet
<1>5. ASSUME NEW t \in Tasks, NEW c, selinux_inode_init_security(t, c)
      PROVE  UNCHANGED <<xattr, remote, raced>>
  BY <1>1, <1>5 DEF selinux_inode_init_security
<1>6. ASSUME NEW t \in Tasks, selinux_inode_notifysecctx(t) PROVE FALSE
  BY <1>1, <1>6 DEF selinux_inode_notifysecctx
<1>7. ASSUME NEW t \in Tasks, selinux_inode_invalidate_secctx(t) PROVE File \in raced'
  BY <1>1, <1>7 DEF selinux_inode_invalidate_secctx, HoldsLabel, Stores
<1>8. ASSUME NEW l \in Labels, ServerRelabel(l) PROVE File \in remote'
  BY <1>8 DEF ServerRelabel
<1> QED BY <1>1, <1>2, <1>3, <1>4, <1>5, <1>6, <1>7, <1>8, MediumFrame DEF MediumMoves, MediumStep

\* A step leaves the file to one setter.
LEMMA SetKept ==
    ASSUME Shapes, \A t \in Tasks : TaskOK(t), SbOK, EarlyOK, SetOK, [Next]_vars
    PROVE  SetOK'
<1>1. ASSUME NEW u \in Tasks, task[u].label = NoSid, task'[u].label # NoSid
      PROVE  \E l \in Labels : selinux_inode_setxattr(u, l)
  BY <1>1, SetterFrom
<1>2. ASSUME NEW u \in Tasks, task[u].label # NoSid PROVE Stays(u)
  BY <1>2, SetterStays DEF SetOK
<1>3. ASSUME NEW u \in Tasks, NEW l \in Labels, selinux_inode_setxattr(u, l)
      PROVE  /\ task'[u].ino = File /\ task'[u].dentry = TRUE /\ File \in named'
             /\ task'[u].early \/ "label" \in sb'.flags
             /\ ~Stores(u)' /\ \A v \in Tasks \ {u} : task'[v] = task[v] /\ task[v].label = NoSid
  <2>1. PICK c : c = Call(u, "check", File, TRUE)
    OBVIOUS
  <2>2. PICK k : k = task[u]
    OBVIOUS
  <2>3. DOMAIN k = TaskFields /\ DOMAIN c = TaskFields /\ c.pc = "begin" /\ c.op = "check"
        /\ c.ino = File /\ c.dentry = TRUE
    BY <2>1, <2>2 DEF Shapes, Call, TaskFields
  <2>4. /\ UNCHANGED sb /\ File \in named' /\ ~Setting(File)
        /\ \A v \in Tasks \ {u} : task'[v] = task[v]
    BY <1>3 DEF selinux_inode_setxattr, mountVars
  <2>5. \A v \in Tasks : task[v].label = NoSid
    BY <2>4 DEF SetOK, Setting
  <2>6. CASE loaded
    <3>1. task' = [task EXCEPT ![u] = [c EXCEPT !.label = l]] /\ "label" \in sb.flags
      BY <1>3, <2>1, <2>6 DEF selinux_inode_setxattr
    <3>2. task'[u] = [c EXCEPT !.label = l]
      BY <3>1 DEF Shapes
    <3>3. /\ task'[u].ino = File /\ task'[u].dentry = TRUE
          /\ task'[u].pc = "begin" /\ task'[u].op = "check"
      BY <2>3, <3>2 DEF TaskFields
    <3> QED BY <2>4, <2>5, <3>1, <3>3 DEF Stores, At
  <2>7. CASE ~loaded
    <3>1. task' = [task EXCEPT ![u] = [k EXCEPT !.pc = "write", !.op = "check", !.ino = File,
                                             !.dentry = TRUE, !.label = l, !.early = TRUE]]
      BY <1>3, <2>2, <2>7 DEF selinux_inode_setxattr
    <3>2. /\ task'[u].ino = File /\ task'[u].dentry = TRUE /\ task'[u].early
          /\ task'[u].pc = "write" /\ task'[u].op = "check"
      BY <2>3, <3>1 DEF Shapes, TaskFields
    <3> QED BY <2>4, <2>5, <3>2 DEF Stores, At
  <2> QED BY <2>6, <2>7
<1>4. ASSUME NEW u \in Tasks, task[u].label # NoSid, task'[u].label # NoSid
      PROVE  /\ task'[u].ino = File /\ task'[u].dentry = TRUE /\ File \in named'
             /\ task'[u].early \/ "label" \in sb'.flags
             /\ Stores(u)' => xattr'[File] = task'[u].label \/ File \in remote' \cup raced'
  <2>1. /\ task'[u].label = task[u].label /\ task'[u].ino = File /\ task'[u].early = task[u].early
        /\ task'[u].dentry = TRUE /\ task[u].ino = File /\ task[u].dentry = TRUE
        /\ File \in named
        /\ task[u].early \/ "label" \in sb.flags
    BY <1>2, <1>4 DEF Stays, SetOK
  <2>2. ~Discards
    BY <1>4 DEF Discards
  <2>3. ~Prune
    BY <2>1 DEF Prune
  <2>4. File \in named'
    BY <2>1, <2>2, <2>3, NamedUntil
  <2>5. task[u].early \/ "label" \in sb'.flags
    BY <1>4, <2>1, <2>2, SbMoves DEF EarlyOK, SbOK, MountedEarly, SetUp
  <2>6. Stores(u)' => xattr'[File] = task'[u].label \/ File \in remote' \cup raced'
    <3>1. CASE StoreXattr(u)
      BY <2>1, <3>1 DEF StoreXattr, Shapes, Inodes
    <3>2. CASE Stores(u)
      BY <1>2, <1>4, <3>2, StoredStays
    <3> QED BY <3>1, <3>2, StoresFrom
  <2> QED BY <2>1, <2>4, <2>5, <2>6
<1>5. ASSUME NEW t \in Tasks, NEW u \in Tasks, task'[t].label # NoSid, task'[u].label # NoSid
      PROVE  t = u
  <2>1. CASE task[t].label = NoSid
    BY <1>1, <1>3, <1>5, <2>1
  <2>2. CASE task[u].label = NoSid
    BY <1>1, <1>3, <1>5, <2>2
  <2> QED BY <2>1, <2>2 DEF SetOK
<1>6. remote' \subseteq {File} /\ (File \in remote' => xattr'[File] # NoSid)
  <2>1. ASSUME NEW t \in Tasks, StoreXattr(t)
        PROVE  remote' = remote /\ xattr'[File] # NoSid
    <3>1. task[t].label # NoSid
      BY <2>1 DEF StoreXattr, At, TaskOK, OpOf
    <3> QED BY <2>1, <3>1 DEF StoreXattr, SetOK, Shapes, Inodes
  <2>2. ASSUME NEW t \in Tasks, PostSet(t) PROVE UNCHANGED <<xattr, remote>>
    BY <2>2 DEF PostSet
  <2>3. ASSUME NEW t \in Tasks, NEW c, selinux_inode_init_security(t, c)
        PROVE  remote' = remote /\ (File \in remote => UNCHANGED xattr)
    BY <2>3 DEF selinux_inode_init_security, SetOK
  <2>4. ASSUME NEW t \in Tasks, selinux_inode_notifysecctx(t)
       PROVE  File \notin remote' /\ remote' \subseteq remote
    BY <2>4 DEF selinux_inode_notifysecctx
  <2>5. ASSUME NEW t \in Tasks, selinux_inode_invalidate_secctx(t)
        PROVE  File \notin remote' /\ remote' \subseteq remote
    BY <2>5 DEF selinux_inode_invalidate_secctx
  <2>6. ASSUME NEW l \in Labels, ServerRelabel(l)
        PROVE  remote' = remote \cup {File} /\ xattr'[File] # NoSid
    BY <2>6, LabelAssumption DEF ServerRelabel, Shapes, Inodes
  <2> QED BY <2>1, <2>2, <2>3, <2>4, <2>5, <2>6, MediumFrame DEF MediumMoves, MediumStep, SetOK
<1>7. \A u \in Tasks : task'[u].label # NoSid =>
        /\ task'[u].ino = File /\ task'[u].dentry = TRUE /\ File \in named'
        /\ task'[u].early \/ "label" \in sb'.flags
        /\ Stores(u)' => xattr'[File] = task'[u].label \/ File \in remote' \cup raced'
  BY <1>1, <1>3, <1>4
<1>8. \A t, u \in Tasks : task'[t].label # NoSid /\ task'[u].label # NoSid => t = u
  BY <1>5
<1> QED BY <1>6, <1>7, <1>8 DEF SetOK

-----------------------------------------------------------------------------
(* Labels in use.                                                          *)

\* A superblock that is set up is not set up again.
LEMMA MediumSteps ==
    ASSUME Shapes, \A u \in Tasks : TaskOK(u), SbOK, sb.behavior # "unset", UNCHANGED sb,
           NEW t \in Tasks
    PROVE  /\ \A o, may : ~Mount(t, o, may)
           /\ selinux_complete_init(t) => UNCHANGED isec /\ Ends(t)
           /\ Drained(t) => UNCHANGED isec
<1>1. "init" \in sb.flags /\ loaded
  BY DEF SbOK
<1>2. ~Discards /\ ~MountedEarly /\ ~SetUp(t)
  BY <1>1 DEF Discards, Discarded, MountedEarly, SetUp
<1> QED BY <1>2, MountDone, CompleteMoves, DrainedDone

\* The steps that have to do with labels.
LabelStep(t) ==
    \/ MountStep(t) \/ MediumStep(t)
    \/ Queue(t) \/ Begin(t) \/ Install(t) \/ \E i \in Inodes : Drain(t, i)
    \/ selinux_task_to_inode(t) \/ selinux_inode_setsecurity(t)
LabelMoves ==
    UNCHANGED <<isec, xattr, remote, raced>> \/ (\E t \in Tasks : LabelStep(t))
    \/ \E l \in Labels : ServerRelabel(l)

\* No other step changes them.
LEMMA LabelFrame ==
    ASSUME [Next]_vars
    PROVE  LabelMoves
<1> USE DEF LabelMoves
<1>1. ASSUME NEW t \in Tasks, AlreadyLabelled(t) PROVE LabelMoves
  BY <1>1 DEF AlreadyLabelled
<1>2. ASSUME NEW t \in Tasks, Defer(t) PROVE LabelMoves
  BY <1>2 DEF Defer
<1>3. ASSUME NEW t \in Tasks, Queue(t) PROVE LabelMoves
  BY <1>3 DEF LabelStep
<1>4. ASSUME NEW t \in Tasks, Begin(t) PROVE LabelMoves
  BY <1>4 DEF LabelStep
<1>5. ASSUME NEW t \in Tasks, Fetch(t) PROVE LabelMoves
  BY <1>5 DEF Fetch
<1>6. ASSUME NEW t \in Tasks, Install(t) PROVE LabelMoves
  BY <1>6 DEF LabelStep
<1>7. ASSUME NEW t \in Tasks, NEW o \in OptsAsked, NEW may \in BOOLEAN, Mount(t, o, may)
      PROVE  LabelMoves
  BY <1>7 DEF LabelStep, MountStep
<1>8. ASSUME NEW t \in Tasks, NEW i \in Inodes, Drain(t, i) PROVE LabelMoves
  BY <1>8 DEF LabelStep
<1>9. ASSUME NEW t \in Tasks, Drained(t) PROVE LabelMoves
  BY <1>9 DEF LabelStep, MountStep
<1>10. ASSUME NEW t \in Tasks, LoadFirst(t) PROVE LabelMoves
  BY <1>10 DEF LoadFirst
<1>11. ASSUME NEW t \in Tasks, selinux_complete_init(t) PROVE LabelMoves
  BY <1>11 DEF LabelStep, MountStep
<1>12. ASSUME NEW t \in Tasks, selinux_d_instantiate(t) PROVE LabelMoves
  BY <1>12 DEF selinux_d_instantiate
<1>13. CASE Prune
  BY <1>13 DEF Prune
<1>14. ASSUME NEW t \in Tasks, NEW i \in Inodes, inode_security(t, i) PROVE LabelMoves
  BY <1>14 DEF inode_security
<1>15. ASSUME NEW t \in Tasks, CreateStart(t) PROVE LabelMoves
  BY <1>15 DEF CreateStart
<1>16. ASSUME NEW t \in Tasks, NEW c \in {NoSid} \cup Labels, selinux_inode_init_security(t, c)
      PROVE  LabelMoves
  BY <1>16 DEF LabelStep, MediumStep
<1>17. ASSUME NEW t \in Tasks, selinux_task_to_inode(t) PROVE LabelMoves
  BY <1>17 DEF LabelStep
<1>18. ASSUME NEW t \in Tasks, NEW l \in Labels, selinux_inode_setxattr(t, l) PROVE LabelMoves
  BY <1>18 DEF selinux_inode_setxattr
<1>19. ASSUME NEW t \in Tasks, SetxattrDenied(t) PROVE LabelMoves
  BY <1>19 DEF SetxattrDenied
<1>20. ASSUME NEW t \in Tasks, StoreXattr(t) PROVE LabelMoves
  BY <1>20 DEF LabelStep, MediumStep
<1>21. ASSUME NEW t \in Tasks, selinux_inode_setsecurity(t) PROVE LabelMoves
  BY <1>21 DEF LabelStep
<1>22. ASSUME NEW t \in Tasks, selinux_inode_post_setxattr(t) PROVE LabelMoves
  BY <1>22 DEF selinux_inode_post_setxattr
<1>23. ASSUME NEW t \in Tasks, PostSet(t) PROVE LabelMoves
  BY <1>23 DEF LabelStep, MediumStep
<1>24. ASSUME NEW l \in Labels, ServerRelabel(l) PROVE LabelMoves
  BY <1>24
<1>25. ASSUME NEW t \in Tasks, selinux_inode_notifysecctx(t) PROVE LabelMoves
  BY <1>25 DEF LabelStep, MediumStep
<1>26. ASSUME NEW t \in Tasks, selinux_inode_invalidate_secctx(t) PROVE LabelMoves
  BY <1>26 DEF LabelStep, MediumStep
<1>27. ASSUME NEW t \in Tasks, selinux_file_open(t) PROVE LabelMoves
  BY <1>27 DEF selinux_file_open
<1>28. ASSUME NEW t \in Tasks, SaveLabel(t) PROVE LabelMoves
  BY <1>28 DEF SaveLabel
<1>29. ASSUME NEW t \in Tasks, SaveSeqno(t) PROVE LabelMoves
  BY <1>29 DEF SaveSeqno
<1>30. ASSUME NEW t \in Tasks, Recheck(t) PROVE LabelMoves
  BY <1>30 DEF Recheck
<1>31. CASE Close
  BY <1>31 DEF Close
<1>32. ASSUME NEW labels \in SUBSET Labels, LoadCommit(labels) PROVE LabelMoves
  BY <1>32 DEF LoadCommit
<1>33. CASE LoadFlush
  BY <1>33 DEF LoadFlush
<1>34. CASE LoadNotify
  BY <1>34 DEF LoadNotify
<1>35. CASE UNCHANGED vars
  BY <1>35 DEF vars
<1> QED
  BY <1>1, <1>2, <1>3, <1>4, <1>5, <1>6, <1>7, <1>8, <1>9, <1>10, <1>11, <1>12, <1>13, <1>14,
     <1>15, <1>16, <1>17, <1>18, <1>19, <1>20, <1>21, <1>22, <1>23, <1>24, <1>25, <1>26, <1>27,
     <1>28, <1>29, <1>30, <1>31, <1>32, <1>33, <1>34, <1>35 DEF Next

FreshInode(i) == isec[i].init = "INITIALIZED" => Excused(i) \/ isec[i].sid = Value(i)
FreshTask(u, i) ==
    At(u, "install") /\ task[u].rc = "ok" /\ task[u].ino = i /\ isec[i].init # "INITIALIZED" =>
       Excused(i) \/ task[u].sid = Value(i)

\* Of what use is said here, a step keeps at least this much.
Keeps(i) ==
    /\ xattr'[i] = xattr[i]
    /\ i \in remote \cup raced => i \in remote' \cup raced'
    /\ Stored(i) => Stored(i)'

\* An inode that is not touched has the label it had.
LEMMA SameFresh ==
    ASSUME NEW i, FreshInode(i), UNCHANGED sb, Keeps(i),
           isec'[i].init = "INITIALIZED"
             => isec[i].init = "INITIALIZED" /\ isec'[i].sid = isec[i].sid
    PROVE  FreshInode(i)'
<1>1. Excused(i) => Excused(i)'
  BY DEF Excused, RootByOption, Keeps
<1>2. Value(i)' = Value(i)
  BY DEF Value, Keeps
<1> QED BY <1>1, <1>2 DEF FreshInode

\* A relabelling that has reached the medium is over when the inode has the label.
LEMMA StoredUntil ==
    ASSUME Shapes, \A u \in Tasks : TaskOK(u), SbOK, loaded, [Next]_vars, NEW i,
           \A t \in Tasks : task[t].ino = i => ~PostSet(t)
    PROVE  Stored(i) => Stored(i)'
<1>1. SUFFICES ASSUME Stored(i) PROVE Stored(i)'
  OBVIOUS
<1>2. PICK u \in Tasks : task[u].ino = i /\ Stores(u)
  BY <1>1 DEF Stored
<1>3. Stores(u)' /\ task'[u].ino = i
  BY <1>2, StoresUntil
<1> QED BY <1>3 DEF Stored

\* A step that puts a label to use puts the one on the medium to use.
LEMMA FreshInodes ==
    ASSUME Shapes, \A u \in Tasks : TaskOK(u), SbOK, SetOK,
           UNCHANGED sb, Medium, [Next]_vars, NEW j \in Inodes, FreshInode(j),
           \A u \in Tasks : FreshTask(u, j)
    PROVE  FreshInode(j)'
<1>1. /\ "init" \in sb.flags /\ "label" \in sb.flags /\ HasXattr(sb.type)
      /\ sb.behavior \notin {"unset", "MNTPOINT"} /\ loaded
  BY DEF SbOK, Medium, selinux_is_sblabel_mnt
<1>2. DOMAIN isec = Inodes /\ DOMAIN xattr = Inodes
      /\ \A i \in Inodes : DOMAIN isec[i] = {"sid", "init", "listed"}
  BY DEF Shapes
<1>3. ASSUME NEW t \in Tasks, PostSet(t) PROVE FreshInode(j)'
  <2>1. /\ task[t].ino = File /\ task[t].label # NoSid
        /\ xattr[File] = task[t].label \/ File \in remote \cup raced
    BY <1>3 DEF PostSet, At, TaskOK, OpOf, SetOK, Stores
  <2>2. /\ isec' = [isec EXCEPT ![File].sid = task[t].label, ![File].init = "INITIALIZED"]
        /\ raced \subseteq raced' /\ UNCHANGED <<xattr, remote>>
    BY <1>3, <2>1 DEF PostSet
  <2>3. CASE j = File
    <3>1. isec'[j].sid = task[t].label
      BY <1>2, <2>2, <2>3
    <3> QED BY <2>1, <2>2, <2>3, <3>1 DEF FreshInode, Value, Excused
  <2>4. CASE j # File
    <3>1. isec'[j] = isec[j]
      BY <1>2, <2>2, <2>4
    <3>2. Stored(j) => FALSE
      <4>1. \A u \in Tasks : Stores(u) => task[u].label # NoSid
        BY DEF Stores, At, TaskOK, OpOf
      <4> QED BY <2>4, <4>1 DEF Stored, SetOK
    <3> QED BY <2>2, <3>1, <3>2, SameFresh DEF Keeps
  <2> QED BY <2>3, <2>4
<1>4. CASE \A t \in Tasks : ~PostSet(t)
  <2>1. Stored(j) => Stored(j)'
    BY <1>1, <1>4, StoredUntil
  <2>2. CASE UNCHANGED <<isec, xattr, remote, raced>>
    BY <2>1, <2>2, SameFresh DEF Keeps
  <2>3. ASSUME NEW t \in Tasks, MountStep(t) PROVE FreshInode(j)'
    <3>1. UNCHANGED <<isec, xattr, remote, raced>>
      BY <1>1, <2>3, MediumSteps DEF MountStep, Drained, selinux_complete_init
    <3> QED BY <2>2, <3>1
  <2>4. ASSUME NEW t \in Tasks, Queue(t) PROVE FreshInode(j)'
    <3>1. Keeps(j)
      BY <2>1, <2>4 DEF Queue, Keeps
    <3>2. isec'[j].init = isec[j].init /\ isec'[j].sid = isec[j].sid
      BY <1>2, <2>4 DEF Queue
    <3> QED BY <3>1, <3>2, SameFresh
  <2>5. ASSUME NEW t \in Tasks, Begin(t) PROVE FreshInode(j)'
    <3>1. Keeps(j)
      BY <2>1, <2>5 DEF Begin, Keeps
    <3>2. isec'[j] = isec[j] \/ isec'[j].init = "PENDING"
      BY <1>2, <2>5 DEF Begin
    <3> QED BY <3>1, <3>2, SameFresh
  <2>6. ASSUME NEW t \in Tasks, Install(t) PROVE FreshInode(j)'
    <3>1. Keeps(j) /\ At(t, "install")
      BY <2>1, <2>6 DEF Install, Keeps
    <3>2. PICK k : k = isec[task[t].ino]
      OBVIOUS
    <3>3. CASE isec'[j] = isec[j]
      BY <3>1, <3>3, SameFresh
    <3>4. CASE isec'[j] # isec[j]
      <4>1. /\ task[t].ino = j /\ k.init = "PENDING"
            /\ isec'[j] = Labelled(k, task[t].rc, task[t].sid)
        BY <1>2, <2>6, <3>2, <3>4 DEF Install, Installed
      <4>2. isec'[j] = [k EXCEPT !.init = IF task[t].rc = "ok" THEN "INITIALIZED" ELSE "INVALID",
                                !.sid = IF task[t].rc = "error" THEN k.sid ELSE task[t].sid]
        BY <4>1 DEF Labelled
      <4>3. isec'[j].init = "INITIALIZED" => task[t].rc = "ok" /\ isec'[j].sid = task[t].sid
        BY <1>2, <3>2, <4>1, <4>2
      <4>4. isec'[j].init = "INITIALIZED" => Excused(j) \/ isec'[j].sid = Value(j)
        BY <3>1, <3>2, <4>1, <4>3 DEF FreshTask
      <4>5. (Excused(j) => Excused(j)') /\ Value(j)' = Value(j)
        BY <3>1 DEF Excused, RootByOption, Keeps, Value
      <4> QED BY <4>4, <4>5 DEF FreshInode
    <3> QED BY <3>3, <3>4
  <2>7. ASSUME NEW t \in Tasks, NEW i \in Inodes, Drain(t, i) PROVE FreshInode(j)'
    <3>1. Keeps(j)
      BY <2>1, <2>7 DEF Drain, Keeps
    <3>2. isec'[j].init = isec[j].init /\ isec'[j].sid = isec[j].sid
      BY <1>2, <2>7 DEF Drain
    <3> QED BY <3>1, <3>2, SameFresh
  <2>8. ASSUME NEW t \in Tasks, selinux_task_to_inode(t) PROVE FALSE
    BY <1>1, <2>8 DEF selinux_task_to_inode, HasXattr
  <2>9. ASSUME NEW t \in Tasks, selinux_inode_setsecurity(t) PROVE FALSE
    BY <1>1, <2>9 DEF selinux_inode_setsecurity
  <2>10. ASSUME NEW t \in Tasks, StoreXattr(t) PROVE FreshInode(j)'
    <3>1. task[t].ino = File /\ At(t, "write")
      BY <2>10 DEF StoreXattr, At, TaskOK, OpOf, SetOK
    <3>2. UNCHANGED <<isec, remote, raced>> /\ xattr' = [xattr EXCEPT ![File] = task[t].label]
      BY <2>10, <3>1 DEF StoreXattr
    <3>3. CASE j = File
      <4>1. task'[t].ino = File /\ task'[t].pc = "post"
        BY <2>10, <3>1 DEF StoreXattr, Goto, Shapes, TaskFields
      <4>2. Stored(File)'
        BY <4>1 DEF Stored, Stores, At
      <4> QED BY <3>3, <4>2 DEF FreshInode, Excused
    <3>4. CASE j # File
      BY <1>2, <2>1, <3>2, <3>4, SameFresh DEF Keeps
    <3> QED BY <3>3, <3>4
  <2>11. ASSUME NEW t \in Tasks, NEW c \in {NoSid} \cup Labels, selinux_inode_init_security(t, c)
         PROVE  FreshInode(j)'
    <3>1. CASE UNCHANGED <<isec, xattr, remote, raced>>
      BY <2>2, <3>1
    <3>2. CASE ~UNCHANGED <<isec, xattr, remote, raced>>
      <4>1. PICK sid : sid = Determined(c)
        OBVIOUS
      <4>2. /\ isec' = [isec EXCEPT ![File].sid = sid, ![File].init = "INITIALIZED"]
            /\ xattr' = [xattr EXCEPT ![File] = sid]
            /\ UNCHANGED <<remote, raced>>
        BY <1>1, <2>11, <3>2, <4>1 DEF selinux_inode_init_security
      <4>3. sid # NoSid
        BY <1>1, <4>1, LabelAssumption DEF Determined
      <4>4. CASE j = File
        <5>1. isec'[j].sid = sid /\ xattr'[j] = sid
          BY <1>2, <4>2, <4>4
        <5> QED BY <4>3, <5>1 DEF FreshInode, Value
      <4>5. CASE j # File
        <5>1. isec'[j] = isec[j] /\ xattr'[j] = xattr[j]
          BY <1>2, <4>2, <4>5
        <5> QED BY <2>1, <4>2, <5>1, SameFresh DEF Keeps
      <4> QED BY <4>4, <4>5
    <3> QED BY <3>1, <3>2
  <2>12. ASSUME NEW t \in Tasks, selinux_inode_notifysecctx(t) PROVE FreshInode(j)'
    <3>1. /\ File \in remote /\ xattr[File] # NoSid /\ UNCHANGED xattr
          /\ isec' = [isec EXCEPT ![File].sid = xattr[File], ![File].init = "INITIALIZED"]
          /\ remote' = remote \ {File} /\ raced' = raced \ {File}
      BY <2>12 DEF selinux_inode_notifysecctx, SetOK
    <3>2. CASE j = File
      <4>1. isec'[j].sid = xattr'[j] /\ xattr'[j] # NoSid
        BY <1>2, <3>1, <3>2
      <4> QED BY <4>1 DEF FreshInode, Value
    <3>3. CASE j # File
      <4>1. isec'[j] = isec[j]
        BY <1>2, <3>1, <3>3
      <4> QED BY <2>1, <3>1, <3>3, <4>1, SameFresh DEF Keeps
    <3> QED BY <3>2, <3>3
  <2>13. ASSUME NEW t \in Tasks, selinux_inode_invalidate_secctx(t) PROVE FreshInode(j)'
    <3>1. /\ isec' = [isec EXCEPT ![File].init = "INVALID"] /\ UNCHANGED xattr
          /\ remote' = remote \ {File} /\ raced \ {File} \subseteq raced'
      BY <2>13 DEF selinux_inode_invalidate_secctx
    <3>2. CASE j = File
      <4>1. isec'[j].init = "INVALID"
        BY <1>2, <3>1, <3>2
      <4> QED BY <4>1 DEF FreshInode
    <3>3. CASE j # File
      <4>1. isec'[j] = isec[j]
        BY <1>2, <3>1, <3>3
      <4> QED BY <2>1, <3>1, <3>3, <4>1, SameFresh DEF Keeps
    <3> QED BY <3>2, <3>3
  <2>14. ASSUME NEW l \in Labels, ServerRelabel(l) PROVE FreshInode(j)'
    <3>1. /\ xattr' = [xattr EXCEPT ![File] = l] /\ remote' = remote \cup {File}
          /\ UNCHANGED <<isec, raced>>
      BY <2>14 DEF ServerRelabel
    <3>2. CASE j = File
      BY <3>1, <3>2 DEF FreshInode, Excused
    <3>3. CASE j # File
      BY <1>2, <2>1, <3>1, <3>3, SameFresh DEF Keeps
    <3> QED BY <3>2, <3>3
  <2> QED BY <1>4, <2>2, <2>3, <2>4, <2>5, <2>6, <2>7, <2>8, <2>9,
             <2>10, <2>11, <2>12, <2>13, <2>14,
             LabelFrame DEF LabelMoves, LabelStep, MediumStep
<1> QED BY <1>3, <1>4

-----------------------------------------------------------------------------
(* Labels that were read and are about to be put to use.                   *)

InstallStays(u) == task'[u].pc # "install" \/ (task[u].pc = "install" /\ task'[u] = task[u])

\* A label is put to use as it was fetched.
LEMMA InstallFrom ==
    ASSUME Shapes, \A u \in Tasks : TaskOK(u), SbOK, NEW u \in Tasks, ~Fetch(u), [Next]_vars
    PROVE  InstallStays(u)
<1> USE DEF InstallStays, Shapes, TaskOK, OpOf, mountVars, fileVars, Idle, At, Goto, Ends, Call,
         Return, Returned, Continue, TaskFields
<1>1. ASSUME NEW t \in Tasks, AlreadyLabelled(t) PROVE InstallStays(u)
  BY <1>1 DEF AlreadyLabelled
<1>2. ASSUME NEW t \in Tasks, Defer(t) PROVE InstallStays(u)
  BY <1>2 DEF Defer
<1>3. ASSUME NEW t \in Tasks, Queue(t) PROVE InstallStays(u)
  BY <1>3 DEF Queue
<1>4. ASSUME NEW t \in Tasks, Begin(t) PROVE InstallStays(u)
  BY <1>4 DEF Begin
<1>5. ASSUME NEW t \in Tasks, Fetch(t) PROVE InstallStays(u)
  BY <1>5 DEF Fetch
<1>6. ASSUME NEW t \in Tasks, Install(t) PROVE InstallStays(u)
  BY <1>6 DEF Install
<1>7. ASSUME NEW t \in Tasks, NEW o \in OptsAsked, NEW may \in BOOLEAN, Mount(t, o, may)
      PROVE  InstallStays(u)
  <2>1. CASE UNCHANGED task
    BY <2>1
  <2>2. CASE task' = [task EXCEPT ![t] = Call(t, "mount", Root, TRUE)]
    BY <2>2
  <2> QED BY <1>7, <2>1, <2>2, MountMoves DEF Discarded, MountedEarly, SetUp
<1>8. ASSUME NEW t \in Tasks, NEW i \in Inodes, Drain(t, i) PROVE InstallStays(u)
  BY <1>8 DEF Drain
<1>9. ASSUME NEW t \in Tasks, Drained(t) PROVE InstallStays(u)
  <2>1. At(t, "drain") /\ Ends(t)
    BY <1>9, DrainedMoves
  <2> QED BY <2>1
<1>10. ASSUME NEW t \in Tasks, LoadFirst(t) PROVE InstallStays(u)
  BY <1>10 DEF LoadFirst
<1>11. ASSUME NEW t \in Tasks, selinux_complete_init(t) PROVE InstallStays(u)
  <2>1. CASE Ends(t) /\ At(t, "complete")
    BY <2>1
  <2>2. CASE up /\ task' = [task EXCEPT ![t] = Call(t, "mount", Root, TRUE)]
    BY <2>2
  <2> QED BY <1>11, <2>1, <2>2, CompleteMoves DEF SetUp
<1>12. ASSUME NEW t \in Tasks, selinux_d_instantiate(t) PROVE InstallStays(u)
  BY <1>12 DEF selinux_d_instantiate
<1>13. CASE Prune
  BY <1>13 DEF Prune
<1>14. ASSUME NEW t \in Tasks, NEW i \in Inodes, inode_security(t, i) PROVE InstallStays(u)
  BY <1>14 DEF inode_security
<1>15. ASSUME NEW t \in Tasks, CreateStart(t) PROVE InstallStays(u)
  BY <1>15 DEF CreateStart
<1>16. ASSUME NEW t \in Tasks, NEW c \in {NoSid} \cup Labels, selinux_inode_init_security(t, c)
      PROVE  InstallStays(u)
  <2>1. CASE At(t, "create") /\ Ends(t)
    BY <2>1
  <2>2. CASE At(t, "create") /\ task' = [task EXCEPT ![t] = Call(t, "instantiate", File, TRUE)]
    BY <2>2
  <2> QED BY <1>16, <2>1, <2>2 DEF selinux_inode_init_security
<1>17. ASSUME NEW t \in Tasks, selinux_task_to_inode(t) PROVE InstallStays(u)
  BY <1>17 DEF selinux_task_to_inode
<1>18. ASSUME NEW t \in Tasks, NEW l \in Labels, selinux_inode_setxattr(t, l) PROVE InstallStays(u)
  <2>1. PICK c : c = Call(t, "check", File, TRUE)
    OBVIOUS
  <2>2. PICK k : k = task[t]
    OBVIOUS
  <2>3. DOMAIN k = TaskFields /\ DOMAIN c = TaskFields /\ c.pc = "begin"
    BY <2>1, <2>2
  <2>4. CASE task' = [task EXCEPT ![t] = [c EXCEPT !.label = l]]
    BY <2>3, <2>4
  <2>5. CASE task' = [task EXCEPT ![t] = [k EXCEPT !.pc = "write", !.op = "check", !.ino = File,
                                                !.dentry = TRUE, !.label = l, !.early = TRUE]]
    BY <2>3, <2>5
  <2> QED BY <1>18, <2>1, <2>2, <2>4, <2>5 DEF selinux_inode_setxattr
<1>19. ASSUME NEW t \in Tasks, SetxattrDenied(t) PROVE InstallStays(u)
  BY <1>19 DEF SetxattrDenied
<1>20. ASSUME NEW t \in Tasks, StoreXattr(t) PROVE InstallStays(u)
  BY <1>20 DEF StoreXattr
<1>21. ASSUME NEW t \in Tasks, selinux_inode_setsecurity(t) PROVE InstallStays(u)
  BY <1>21 DEF selinux_inode_setsecurity
<1>22. ASSUME NEW t \in Tasks, selinux_inode_post_setxattr(t) PROVE InstallStays(u)
  <2>1. CASE At(t, "post") /\ Ends(t)
    BY <2>1
  <2>2. CASE At(t, "post") /\ task' = [task EXCEPT ![t] = Call(t, "post", task[t].ino, TRUE)]
    BY <2>2
  <2> QED BY <1>22, <2>1, <2>2 DEF selinux_inode_post_setxattr
<1>23. ASSUME NEW t \in Tasks, PostSet(t) PROVE InstallStays(u)
  BY <1>23 DEF PostSet
<1>24. ASSUME NEW l \in Labels, ServerRelabel(l) PROVE InstallStays(u)
  BY <1>24 DEF ServerRelabel
<1>25. ASSUME NEW t \in Tasks, selinux_inode_notifysecctx(t) PROVE InstallStays(u)
  BY <1>25 DEF selinux_inode_notifysecctx
<1>26. ASSUME NEW t \in Tasks, selinux_inode_invalidate_secctx(t) PROVE InstallStays(u)
  BY <1>26 DEF selinux_inode_invalidate_secctx
<1>27. ASSUME NEW t \in Tasks, selinux_file_open(t) PROVE InstallStays(u)
  BY <1>27 DEF selinux_file_open
<1>28. ASSUME NEW t \in Tasks, SaveLabel(t) PROVE InstallStays(u)
  BY <1>28 DEF SaveLabel
<1>29. ASSUME NEW t \in Tasks, SaveSeqno(t) PROVE InstallStays(u)
  BY <1>29 DEF SaveSeqno
<1>30. ASSUME NEW t \in Tasks, Recheck(t) PROVE InstallStays(u)
  BY <1>30 DEF Recheck
<1>31. CASE Close
  BY <1>31 DEF Close
<1>32. ASSUME NEW labels \in SUBSET Labels, LoadCommit(labels) PROVE InstallStays(u)
  BY <1>32 DEF LoadCommit
<1>33. CASE LoadFlush
  BY <1>33 DEF LoadFlush
<1>34. CASE LoadNotify
  BY <1>34 DEF LoadNotify
<1>35. CASE UNCHANGED vars
  BY <1>35 DEF vars
<1> HIDE DEF InstallStays
<1> QED
  BY <1>1, <1>2, <1>3, <1>4, <1>5, <1>6, <1>7, <1>8, <1>9, <1>10, <1>11, <1>12, <1>13, <1>14,
     <1>15, <1>16, <1>17, <1>18, <1>19, <1>20, <1>21, <1>22, <1>23, <1>24, <1>25, <1>26, <1>27,
     <1>28, <1>29, <1>30, <1>31, <1>32, <1>33, <1>34, <1>35 DEF Next

\* While task u is about to put a label to use, the inode is left alone, or its
\* new label is excused or comes from elsewhere.
LEMMA InstallKeeps ==
    ASSUME Shapes, \A u \in Tasks : TaskOK(u), SbOK, SetOK,
           UNCHANGED sb, Medium, [Next]_vars, NEW j \in Inodes,
           NEW u \in Tasks, At(u, "install"), task[u].ino = j
    PROVE  \/ Keeps(j) /\ (isec[j].init = "INITIALIZED" => isec'[j].init = "INITIALIZED")
           \/ Excused(j)'
           \/ isec'[j].init = "INITIALIZED"
<1> DEFINE Goal == \/ Keeps(j) /\ (isec[j].init = "INITIALIZED" => isec'[j].init = "INITIALIZED")
                   \/ Excused(j)'
                   \/ isec'[j].init = "INITIALIZED"
<1>1. /\ "init" \in sb.flags /\ "label" \in sb.flags /\ HasXattr(sb.type)
      /\ sb.behavior \notin {"unset", "MNTPOINT"} /\ loaded
  BY DEF SbOK, Medium, selinux_is_sblabel_mnt
<1>2. DOMAIN isec = Inodes /\ DOMAIN xattr = Inodes
      /\ \A i \in Inodes : DOMAIN isec[i] = {"sid", "init", "listed"}
  BY DEF Shapes
<1>3. ASSUME NEW t \in Tasks, PostSet(t) PROVE Goal
  <2>1. task[t].ino = File /\ task[t].label # NoSid
    BY <1>3 DEF PostSet, At, TaskOK, OpOf, SetOK
  <2>2. /\ isec' = [isec EXCEPT ![File].sid = task[t].label, ![File].init = "INITIALIZED"]
        /\ raced \subseteq raced' /\ UNCHANGED <<xattr, remote>>
    BY <1>3, <2>1 DEF PostSet
  <2>3. CASE j = File
    BY <1>2, <2>2, <2>3
  <2>4. CASE j # File
    <3>1. isec'[j] = isec[j]
      BY <1>2, <2>2, <2>4
    <3>2. Stored(j) => FALSE
      <4>1. \A v \in Tasks : Stores(v) => task[v].label # NoSid
        BY DEF Stores, At, TaskOK, OpOf
      <4> QED BY <2>4, <4>1 DEF Stored, SetOK
    <3> QED BY <2>2, <3>1, <3>2 DEF Keeps
  <2> QED BY <2>3, <2>4
<1>4. CASE \A t \in Tasks : ~PostSet(t)
  <2>1. Stored(j) => Stored(j)'
    BY <1>1, <1>4, StoredUntil
  <2>2. CASE UNCHANGED <<isec, xattr, remote, raced>>
    BY <2>1, <2>2 DEF Keeps
  <2>3. ASSUME NEW t \in Tasks, MountStep(t) PROVE Goal
    <3>1. UNCHANGED <<isec, xattr, remote, raced>>
      BY <1>1, <2>3, MediumSteps DEF MountStep, Drained, selinux_complete_init
    <3> QED BY <2>2, <3>1
  <2>4. ASSUME NEW t \in Tasks, Queue(t) PROVE Goal
    <3>1. Keeps(j)
      BY <2>1, <2>4 DEF Queue, Keeps
    <3>2. isec'[j].init = isec[j].init
      BY <1>2, <2>4 DEF Queue
    <3> QED BY <3>1, <3>2
  <2>5. ASSUME NEW t \in Tasks, Begin(t) PROVE Goal
    <3>1. Keeps(j)
      BY <2>1, <2>5 DEF Begin, Keeps
    <3>2. isec'[j] = isec[j] \/ isec[j].init # "INITIALIZED"
      BY <1>2, <2>5 DEF Begin
    <3> QED BY <3>1, <3>2
  <2>6. ASSUME NEW t \in Tasks, Install(t) PROVE Goal
    <3>1. Keeps(j)
      BY <2>1, <2>6 DEF Install, Keeps
    <3>2. isec'[j] = isec[j] \/ isec[j].init # "INITIALIZED"
      BY <1>2, <2>6 DEF Install, Installed
    <3> QED BY <3>1, <3>2
  <2>7. ASSUME NEW t \in Tasks, NEW i \in Inodes, Drain(t, i) PROVE Goal
    <3>1. Keeps(j)
      BY <2>1, <2>7 DEF Drain, Keeps
    <3>2. isec'[j].init = isec[j].init
      BY <1>2, <2>7 DEF Drain
    <3> QED BY <3>1, <3>2
  <2>8. ASSUME NEW t \in Tasks, selinux_task_to_inode(t) PROVE FALSE
    BY <1>1, <2>8 DEF selinux_task_to_inode, HasXattr
  <2>9. ASSUME NEW t \in Tasks, selinux_inode_setsecurity(t) PROVE FALSE
    BY <1>1, <2>9 DEF selinux_inode_setsecurity
  <2>10. ASSUME NEW t \in Tasks, StoreXattr(t) PROVE Goal
    <3>1. task[t].ino = File /\ At(t, "write")
      BY <2>10 DEF StoreXattr, At, TaskOK, OpOf, SetOK
    <3>2. UNCHANGED <<isec, remote, raced>> /\ xattr' = [xattr EXCEPT ![File] = task[t].label]
      BY <2>10, <3>1 DEF StoreXattr
    <3>3. CASE j = File
      <4>1. task'[t].ino = File /\ task'[t].pc = "post"
        BY <2>10, <3>1 DEF StoreXattr, Goto, Shapes, TaskFields
      <4>2. Stored(File)'
        BY <4>1 DEF Stored, Stores, At
      <4> QED BY <3>3, <4>2 DEF Excused
    <3>4. CASE j # File
      BY <1>2, <2>1, <3>2, <3>4 DEF Keeps
    <3> QED BY <3>3, <3>4
  <2>11. ASSUME NEW t \in Tasks, NEW c \in {NoSid} \cup Labels, selinux_inode_init_security(t, c)
         PROVE  Goal
    <3>1. CASE UNCHANGED <<isec, xattr, remote, raced>>
      BY <2>2, <3>1
    <3>2. CASE ~UNCHANGED <<isec, xattr, remote, raced>>
      <4>1. PICK sid : sid = Determined(c)
        OBVIOUS
      <4>2. /\ isec' = [isec EXCEPT ![File].sid = sid, ![File].init = "INITIALIZED"]
            /\ xattr' = [xattr EXCEPT ![File] = sid]
            /\ UNCHANGED <<remote, raced>>
        BY <1>1, <2>11, <3>2, <4>1 DEF selinux_inode_init_security
      <4>3. CASE j = File
        BY <1>2, <4>2, <4>3
      <4>4. CASE j # File
        <5>1. isec'[j] = isec[j] /\ xattr'[j] = xattr[j]
          BY <1>2, <4>2, <4>4
        <5> QED BY <2>1, <4>2, <5>1 DEF Keeps
      <4> QED BY <4>3, <4>4
    <3> QED BY <3>1, <3>2
  <2>12. ASSUME NEW t \in Tasks, selinux_inode_notifysecctx(t) PROVE Goal
    <3>1. /\ isec' = [isec EXCEPT ![File].sid = xattr[File], ![File].init = "INITIALIZED"]
          /\ remote' = remote \ {File} /\ raced' = raced \ {File} /\ UNCHANGED xattr
      BY <2>12 DEF selinux_inode_notifysecctx
    <3>2. CASE j = File
      BY <1>2, <3>1, <3>2
    <3>3. CASE j # File
      <4>1. isec'[j] = isec[j]
        BY <1>2, <3>1, <3>3
      <4> QED BY <2>1, <3>1, <3>3, <4>1 DEF Keeps
    <3> QED BY <3>2, <3>3
  <2>13. ASSUME NEW t \in Tasks, selinux_inode_invalidate_secctx(t) PROVE Goal
    <3>1. /\ isec' = [isec EXCEPT ![File].init = "INVALID"] /\ UNCHANGED xattr
          /\ remote' = remote \ {File} /\ raced \ {File} \subseteq raced'
          /\ j = File => File \in raced'
      BY <2>13 DEF selinux_inode_invalidate_secctx, HoldsLabel
    <3>2. CASE j = File
      BY <3>1, <3>2 DEF Excused
    <3>3. CASE j # File
      <4>1. isec'[j] = isec[j]
        BY <1>2, <3>1, <3>3
      <4> QED BY <2>1, <3>1, <3>3, <4>1 DEF Keeps
    <3> QED BY <3>2, <3>3
  <2>14. ASSUME NEW l \in Labels, ServerRelabel(l) PROVE Goal
    <3>1. /\ xattr' = [xattr EXCEPT ![File] = l] /\ remote' = remote \cup {File}
          /\ UNCHANGED <<isec, raced>>
      BY <2>14 DEF ServerRelabel
    <3>2. CASE j = File
      BY <3>1, <3>2 DEF Excused
    <3>3. CASE j # File
      BY <1>2, <2>1, <3>1, <3>3 DEF Keeps
    <3> QED BY <3>2, <3>3
  <2> QED BY <1>4, <2>2, <2>3, <2>4, <2>5, <2>6, <2>7, <2>8, <2>9,
             <2>10, <2>11, <2>12, <2>13, <2>14,
             LabelFrame DEF LabelMoves, LabelStep, MediumStep
<1> QED BY <1>3, <1>4

\* A label that is about to be put to use is the one on the medium.
LEMMA FreshTasks ==
    ASSUME Shapes, \A v \in Tasks : TaskOK(v), SbOK, SetOK,
           UNCHANGED sb, Medium, [Next]_vars, NEW j \in Inodes, NEW u \in Tasks, FreshTask(u, j)
    PROVE  FreshTask(u, j)'
<1>1. SUFFICES ASSUME task'[u].pc = "install", task'[u].rc = "ok", task'[u].ino = j,
                      isec'[j].init # "INITIALIZED"
               PROVE  Excused(j)' \/ task'[u].sid = Value(j)'
  BY DEF FreshTask, At
<1>2. CASE Fetch(u)
  <2>1. PICK g \in LabelBy(u) :
           task' = [task EXCEPT ![u].pc = "install", ![u].sid = g.sid, ![u].rc = g.rc]
    BY <1>2 DEF Fetch
  <2>2. task'[u].ino = task[u].ino /\ task'[u].sid = g.sid /\ task'[u].rc = g.rc
    BY <2>1 DEF Shapes, TaskFields
  <2>3. g = Got("nodentry", task[u].sid) \/ g = Got("error", NoSid)
        \/ g = Got("ok", IF xattr[j] = NoSid THEN sb.def ELSE xattr[j])
    BY <1>1, <2>1, <2>2 DEF LabelBy, Medium, inode_doinit_use_xattr
  <2>4. g.sid = IF xattr[j] = NoSid THEN sb.def ELSE xattr[j]
    BY <1>1, <2>2, <2>3 DEF Got
  <2>5. UNCHANGED <<sb, xattr>>
    BY <1>2 DEF Fetch
  <2> QED BY <2>2, <2>4, <2>5 DEF Value
<1>3. CASE ~Fetch(u)
  <2>1. At(u, "install") /\ task'[u] = task[u] /\ task[u].ino = j /\ task[u].rc = "ok"
    BY <1>1, <1>3, InstallFrom DEF InstallStays, At
  <2>2. CASE Keeps(j) /\ (isec[j].init = "INITIALIZED" => isec'[j].init = "INITIALIZED")
    <3>1. Excused(j) \/ task[u].sid = Value(j)
      BY <1>1, <2>1, <2>2 DEF FreshTask
    <3>2. (Excused(j) => Excused(j)') /\ Value(j)' = Value(j)
      BY <2>2 DEF Excused, RootByOption, Keeps, Value
    <3> QED BY <2>1, <3>1, <3>2
  <2> QED BY <1>1, <2>1, <2>2, InstallKeeps
<1> QED BY <1>2, <1>3

\* A step keeps the labels in use and those about to be.
LEMMA FreshKept ==
    ASSUME Shapes, \A u \in Tasks : TaskOK(u), SbOK, EarlyOK, SetOK, FreshOK, [Next]_vars
    PROVE  FreshOK'
<1>1. CASE UNCHANGED sb /\ Medium
  <2>1. /\ \A i \in Inodes : FreshInode(i)
        /\ \A u \in Tasks, i \in Inodes : FreshTask(u, i)
    BY <1>1 DEF FreshOK, FreshInode, FreshTask, Excused, Value
  <2>2. \A i \in Inodes : FreshInode(i)'
    BY <1>1, <2>1, FreshInodes
  <2>3. \A u \in Tasks, i \in Inodes : FreshTask(u, i)'
    BY <1>1, <2>1, FreshTasks
  <2>4. \A u \in Tasks : TaskOK(u)'
    BY TaskKept
  <2> QED BY <2>2, <2>3, <2>4 DEF FreshOK, FreshInode, FreshTask, TaskOK
<1>2. CASE UNCHANGED sb /\ ~Medium
  BY <1>2 DEF FreshOK, Medium
<1>3. CASE Discards
  BY <1>3 DEF Discards, Discarded, FreshOK, Medium
<1>4. CASE MountedEarly
  BY <1>4 DEF MountedEarly, SbOK, FreshOK, Medium
<1>5. ASSUME NEW t \in Tasks, SetUp(t) PROVE FreshOK'
  <2>1. SUFFICES ASSUME Medium' PROVE FreshOK'
    BY DEF FreshOK
  <2>2. sb'.behavior \in {"XATTR", "NATIVE"} /\ sb.type # "proc" /\ "init" \notin sb.flags
    BY <1>5, <2>1 DEF Medium, SetUp, HasXattr
  <2>3. raced' = raced
    BY <1>5 DEF SetUp
  <2>4. \A i \in Inodes : isec'[i].init = "INITIALIZED" => Excused(i)'
    BY <1>5, <2>2, <2>3 DEF SetUp, EarlyOK, Excused, RootByOption
  <2>5. \A u \in Tasks : task'[u].pc # "install"
    BY <1>5, <2>2 DEF SetUp, EarlyOK, Call, Shapes, TaskFields
  <2> QED BY <2>4, <2>5 DEF FreshOK, At
<1> QED BY <1>1, <1>2, <1>3, <1>4, <1>5, SbMoves

-----------------------------------------------------------------------------
(* Context mounts.                                                         *)

ContextTask(u) == At(u, "install") /\ task[u].rc = "ok" => task[u].sid = sb.mntpoint
ContextInode(i) ==
    isec[i].init = "INITIALIZED" => RootByOption(i) \/ i \in raced \/ isec[i].sid = sb.mntpoint

\* What is read from a context mount is the label of the mount.
LEMMA ContextTasks ==
    ASSUME Shapes, \A v \in Tasks : TaskOK(v), SbOK, UNCHANGED sb, sb.behavior = "MNTPOINT",
           [Next]_vars, NEW u \in Tasks, ContextTask(u)
    PROVE  ContextTask(u)'
<1>1. CASE Fetch(u)
  <2>1. PICK g \in LabelBy(u) :
           task' = [task EXCEPT ![u].pc = "install", ![u].sid = g.sid, ![u].rc = g.rc]
    BY <1>1 DEF Fetch
  <2>2. g = Got("ok", sb.mntpoint)
    BY <2>1 DEF LabelBy
  <2>3. task'[u].sid = sb.mntpoint
    BY <2>1, <2>2 DEF Shapes, TaskFields, Got
  <2> QED BY <2>3 DEF ContextTask
<1>2. CASE ~Fetch(u)
  BY <1>2, InstallFrom DEF InstallStays, ContextTask, At
<1> QED BY <1>1, <1>2

\* An inode that is not touched has the label it had.
LEMMA SameContext ==
    ASSUME NEW i, ContextInode(i), UNCHANGED sb, i \in raced => i \in raced',
           isec'[i].init = "INITIALIZED"
             => isec[i].init = "INITIALIZED" /\ isec'[i].sid = isec[i].sid
    PROVE  ContextInode(i)'
BY DEF ContextInode, RootByOption

\* A step that labels a file of a context mount gives it the label of the mount.
LEMMA ContextInodes ==
    ASSUME Shapes, \A u \in Tasks : TaskOK(u), SbOK, SetOK,
           UNCHANGED sb, sb.behavior = "MNTPOINT", sb.type # "proc", [Next]_vars,
           NEW j \in Inodes, ContextInode(j), \A u \in Tasks : ContextTask(u)
    PROVE  ContextInode(j)'
<1>1. "init" \in sb.flags /\ "label" \notin sb.flags /\ loaded
  BY DEF SbOK, selinux_is_sblabel_mnt
<1>2. DOMAIN isec = Inodes /\ \A i \in Inodes : DOMAIN isec[i] = {"sid", "init", "listed"}
  BY DEF Shapes
<1>3. ASSUME NEW t \in Tasks, PostSet(t) PROVE ContextInode(j)'
  <2>1. task[t].ino = File /\ task[t].label # NoSid
    BY <1>3 DEF PostSet, At, TaskOK, OpOf, SetOK
  <2>2. task[t].early
    BY <1>1, <2>1 DEF SetOK
  <2>3. /\ isec' = [isec EXCEPT ![File].sid = task[t].label, ![File].init = "INITIALIZED"]
        /\ raced' = raced \cup {File}
    BY <1>3, <2>1, <2>2 DEF PostSet
  <2>4. CASE j = File
    BY <2>3, <2>4 DEF ContextInode
  <2>5. CASE j # File
    <3>1. isec'[j] = isec[j]
      BY <1>2, <2>3, <2>5
    <3> QED BY <2>3, <3>1, SameContext
  <2> QED BY <2>4, <2>5
<1>4. CASE \A t \in Tasks : ~PostSet(t)
  <2>2. CASE UNCHANGED <<isec, raced>>
    BY <2>2, SameContext
  <2>3. ASSUME NEW t \in Tasks, MountStep(t) PROVE ContextInode(j)'
    <3>1. UNCHANGED <<isec, raced>>
      BY <1>1, <2>3, MediumSteps DEF MountStep, Drained, selinux_complete_init
    <3> QED BY <2>2, <3>1
  <2>4. ASSUME NEW t \in Tasks, Queue(t) PROVE ContextInode(j)'
    <3>1. isec'[j].init = isec[j].init /\ isec'[j].sid = isec[j].sid /\ UNCHANGED raced
      BY <1>2, <2>4 DEF Queue
    <3> QED BY <3>1, SameContext
  <2>5. ASSUME NEW t \in Tasks, Begin(t) PROVE ContextInode(j)'
    <3>1. (isec'[j] = isec[j] \/ isec'[j].init = "PENDING") /\ UNCHANGED raced
      BY <1>2, <2>5 DEF Begin
    <3> QED BY <3>1, SameContext
  <2>6. ASSUME NEW t \in Tasks, Install(t) PROVE ContextInode(j)'
    <3>1. At(t, "install") /\ UNCHANGED raced
      BY <2>6 DEF Install
    <3>2. PICK k : k = isec[task[t].ino]
      OBVIOUS
    <3>3. CASE isec'[j] = isec[j]
      BY <3>1, <3>3, SameContext
    <3>4. CASE isec'[j] # isec[j]
      <4>1. task[t].ino = j /\ isec'[j] = Labelled(k, task[t].rc, task[t].sid)
        BY <1>2, <2>6, <3>2, <3>4 DEF Install, Installed
      <4>2. isec'[j] = [k EXCEPT !.init = IF task[t].rc = "ok" THEN "INITIALIZED" ELSE "INVALID",
                                !.sid = IF task[t].rc = "error" THEN k.sid ELSE task[t].sid]
        BY <4>1 DEF Labelled
      <4>3. isec'[j].init = "INITIALIZED" => task[t].rc = "ok" /\ isec'[j].sid = task[t].sid
        BY <1>2, <3>2, <4>1, <4>2
      <4>4. isec'[j].init = "INITIALIZED" => isec'[j].sid = sb.mntpoint
        BY <3>1, <4>3 DEF ContextTask
      <4> QED BY <4>4 DEF ContextInode
    <3> QED BY <3>3, <3>4
  <2>7. ASSUME NEW t \in Tasks, NEW i \in Inodes, Drain(t, i) PROVE ContextInode(j)'
    <3>1. isec'[j].init = isec[j].init /\ isec'[j].sid = isec[j].sid /\ UNCHANGED raced
      BY <1>2, <2>7 DEF Drain
    <3> QED BY <3>1, SameContext
  <2>8. ASSUME NEW t \in Tasks, selinux_task_to_inode(t) PROVE FALSE
    BY <2>8 DEF selinux_task_to_inode
  <2>9. ASSUME NEW t \in Tasks, selinux_inode_setsecurity(t) PROVE ContextInode(j)'
    <3>1. UNCHANGED <<isec, raced>>
      BY <1>1, <2>9 DEF selinux_inode_setsecurity
    <3> QED BY <2>2, <3>1
  <2>10. ASSUME NEW t \in Tasks, StoreXattr(t) PROVE ContextInode(j)'
    <3>1. UNCHANGED <<isec, raced>>
      BY <2>10 DEF StoreXattr
    <3> QED BY <2>2, <3>1
  <2>11. ASSUME NEW t \in Tasks, NEW c \in {NoSid} \cup Labels, selinux_inode_init_security(t, c)
         PROVE  ContextInode(j)'
    <3>1. CASE UNCHANGED <<isec, raced>>
      BY <2>2, <3>1
    <3>2. CASE ~UNCHANGED <<isec, raced>>
      <4>1. Determined(c) = sb.mntpoint
        BY <1>1 DEF Determined
      <4>2. /\ isec' = [isec EXCEPT ![File].sid = sb.mntpoint, ![File].init = "INITIALIZED"]
            /\ UNCHANGED raced
        BY <1>1, <2>11, <3>2, <4>1 DEF selinux_inode_init_security
      <4>3. isec'[j] = isec[j] \/ isec'[j].sid = sb.mntpoint
        BY <1>2, <4>2
      <4> QED BY <4>2, <4>3, SameContext DEF ContextInode
    <3> QED BY <3>1, <3>2
  <2>12. ASSUME NEW t \in Tasks, selinux_inode_notifysecctx(t) PROVE FALSE
    BY <1>1, <2>12 DEF selinux_inode_notifysecctx
  <2>13. ASSUME NEW t \in Tasks, selinux_inode_invalidate_secctx(t) PROVE ContextInode(j)'
    <3>1. /\ isec' = [isec EXCEPT ![File].init = "INVALID"] /\ raced \ {File} \subseteq raced'
      BY <2>13 DEF selinux_inode_invalidate_secctx
    <3>2. isec'[j].init = "INVALID" \/ (j # File /\ isec'[j] = isec[j])
      BY <1>2, <3>1
    <3> QED BY <3>1, <3>2, SameContext DEF ContextInode
  <2>14. ASSUME NEW l \in Labels, ServerRelabel(l) PROVE ContextInode(j)'
    <3>1. UNCHANGED <<isec, raced>>
      BY <2>14 DEF ServerRelabel
    <3> QED BY <2>2, <3>1
  <2> QED BY <1>4, <2>2, <2>3, <2>4, <2>5, <2>6, <2>7, <2>8, <2>9,
             <2>10, <2>11, <2>12, <2>13, <2>14,
             LabelFrame DEF LabelMoves, LabelStep, MediumStep
<1> QED BY <1>3, <1>4

\* A step keeps the labels of a context mount.
LEMMA ContextKept ==
    ASSUME Shapes, \A u \in Tasks : TaskOK(u), SbOK, EarlyOK, SetOK, ContextOK, [Next]_vars
    PROVE  ContextOK'
<1>1. CASE UNCHANGED sb /\ sb.behavior = "MNTPOINT"
  <2>1. \A u \in Tasks : ContextTask(u)
    BY <1>1 DEF ContextOK, ContextTask
  <2>2. sb.type # "proc" => \A i \in Inodes : ContextInode(i)
    BY <1>1 DEF ContextOK, ContextInode
  <2>3. \A u \in Tasks : ContextTask(u)'
    BY <1>1, <2>1, ContextTasks
  <2>4. sb.type # "proc" => \A i \in Inodes : ContextInode(i)'
    BY <1>1, <2>1, <2>2, ContextInodes
  <2> QED BY <1>1, <2>3, <2>4 DEF ContextOK, ContextTask, ContextInode
<1>2. CASE UNCHANGED sb /\ sb.behavior # "MNTPOINT"
  BY <1>2 DEF ContextOK
<1>3. CASE Discards
  BY <1>3 DEF Discards, Discarded, ContextOK
<1>4. CASE MountedEarly
  BY <1>4 DEF MountedEarly, SbOK, ContextOK
<1>5. ASSUME NEW t \in Tasks, SetUp(t) PROVE ContextOK'
  <2>1. SUFFICES ASSUME sb'.behavior = "MNTPOINT" PROVE ContextOK'
    BY DEF ContextOK
  <2>2. "init" \notin sb.flags /\ sb'.type = sb.type /\ raced' = raced
    BY <1>5 DEF SetUp
  <2>3. ASSUME sb.type # "proc", NEW i \in Inodes, isec'[i].init = "INITIALIZED"
        PROVE  RootByOption(i)' \/ i \in raced' \/ isec'[i].sid = sb'.mntpoint
    <3>1. CASE isec'[i] = isec[i]
      BY <2>2, <2>3, <3>1 DEF EarlyOK
    <3>2. CASE isec'[i] # isec[i]
      BY <1>5, <2>1, <3>2 DEF SetUp, RootByOption
    <3> QED BY <3>1, <3>2
  <2>4. \A u \in Tasks : task'[u].pc # "install"
    BY <1>5, <2>2 DEF SetUp, EarlyOK, Call, Shapes, TaskFields
  <2> QED BY <2>2, <2>3, <2>4 DEF ContextOK, At
<1> QED BY <1>1, <1>2, <1>3, <1>4, <1>5, SbMoves

-----------------------------------------------------------------------------
(* The invariant and what follows from it.                                 *)

\* The invariant holds at first, of a file system that is not mounted and of one
\* that is.
LEMMA LabelInit ==
    ASSUME Init
    PROVE  LabelInv
<1>1. /\ task = [t \in Tasks |-> Idle] /\ isec = [i \in Inodes |-> inode_alloc_security]
      /\ file = Closed /\ cached = policy /\ seqno = 1 /\ notif = 1 /\ load = "idle"
      /\ remote = {} /\ raced = {} /\ DOMAIN xattr = Inodes
  BY DEF Init, BootInit, FilesInit
<1>2. \/ /\ loaded \in BOOLEAN /\ up = FALSE /\ scene = "boot"
         /\ DOMAIN sb = SbFields /\ sb.behavior = "unset" /\ sb.flags = {}
      \/ /\ loaded = TRUE /\ up = TRUE
         /\ DOMAIN sb = SbFields /\ "init" \in sb.flags
         /\ "label" \in sb.flags <=> selinux_is_sblabel_mnt(sb)
  <2>1. CASE BootInit
    <3>1. PICK type, userns : sb = selinux_sb_alloc_security(type, userns)
      BY <2>1 DEF BootInit
    <3> QED BY <2>1, <3>1, NewSb DEF BootInit
  <2>2. CASE FilesInit
    <3>1. PICK s, userns : s = selinux_sb_alloc_security("ext4", userns) /\ userns = FALSE
      OBVIOUS
    <3>2. DOMAIN s = SbFields /\ s.behavior = "unset" /\ s.flags = {}
      BY <3>1, NewSb
    <3>3. selinux_set_mnt_opts(TRUE, s, UNLABELED, NoOpts, TRUE).rc = "ok"
      BY <3>2, SetNone
    <3>4. PICK r : r = selinux_set_mnt_opts(TRUE, s, UNLABELED, NoOpts, TRUE)
      OBVIOUS
    <3>5. SetUpTo(s, r.sb, r.root)
      BY <3>2, <3>3, <3>4, SetOpts
    <3>6. sb = r.sb /\ loaded = TRUE /\ up = TRUE
      BY <2>2, <3>1, <3>4 DEF FilesInit
    <3> QED BY <3>5, <3>6 DEF SetUpTo
  <2> QED BY <2>1, <2>2 DEF Init
<1>3. \A t \in Tasks : task[t] = Idle
  BY <1>1
<1>4. \A i \in Inodes : isec[i] = inode_alloc_security
  BY <1>1
<1>5. Shapes
  BY <1>1, <1>2 DEF Shapes, Idle, TaskFields, inode_alloc_security, Closed, FileFields
<1>6. \A t \in Tasks : TaskOK(t)
  BY <1>3 DEF TaskOK, OpOf, Idle, Inodes
<1>7. OpenOK
  BY <1>1, <1>3 DEF OpenOK, Idle, Closed
<1>8. SbOK
  <2>1. \A t \in Tasks : task[t].pc = "idle" /\ task[t].op = "none"
    BY <1>3 DEF Idle
  <2>2. ~Mounting /\ \A t \in Tasks : ~Busy(t) /\ ~At(t, "complete")
    BY <2>1 DEF Mounting, Busy, At
  <2>3. CASE up = FALSE /\ sb.flags = {}
    BY <1>2, <2>1, <2>2, <2>3 DEF SbOK
  <2>4. CASE up = TRUE /\ loaded = TRUE /\ "init" \in sb.flags
    BY <1>2, <2>1, <2>2, <2>4 DEF SbOK
  <2> QED BY <1>2, <2>3, <2>4
<1>9. EarlyOK
  BY <1>3, <1>4 DEF EarlyOK, Idle, inode_alloc_security
<1>10. SetOK
  BY <1>1, <1>3 DEF SetOK, Idle
<1>11. FreshOK
  BY <1>3, <1>4 DEF FreshOK, At, Idle, inode_alloc_security
<1>12. ContextOK
  BY <1>3, <1>4 DEF ContextOK, At, Idle, inode_alloc_security
<1> QED BY <1>5, <1>6, <1>7, <1>8, <1>9, <1>10, <1>11, <1>12 DEF LabelInv

\* Every step keeps it.
LEMMA LabelStepKept ==
    ASSUME LabelInv, [Next]_vars
    PROVE  LabelInv'
<1>1. /\ Shapes /\ (\A t \in Tasks : TaskOK(t)) /\ OpenOK /\ SbOK /\ EarlyOK /\ SetOK
      /\ FreshOK /\ ContextOK
  BY DEF LabelInv
<1>2. Shapes'
  BY <1>1, ShapesStay
<1>3. \A t \in Tasks : TaskOK(t)'
  BY <1>1, TaskKept
<1>4. OpenOK'
  BY <1>1, OpenKept
<1>5. SbOK'
  BY <1>1, SbKept
<1>6. EarlyOK'
  BY <1>1, EarlyKept
<1>7. SetOK'
  BY <1>1, SetKept
<1>8. FreshOK'
  BY <1>1, FreshKept
<1>9. ContextOK'
  BY <1>1, ContextKept
<1> QED BY <1>2, <1>3, <1>4, <1>5, <1>6, <1>7, <1>8, <1>9 DEF LabelInv, TaskOK

\* However mounts, the first load of a policy, relabellings, changes on a server,
\* opens and reloads interleave, the invariant holds.
THEOREM LabelInvariance == Spec => []LabelInv
<1>1. Init => LabelInv
  BY LabelInit
<1>2. LabelInv /\ [Next]_vars => LabelInv'
  BY LabelStepKept
<1> QED BY <1>1, <1>2, PTL DEF Spec

\* A test that selinux_file_permission() skips would have succeeded.
THEOREM SkipsAreSound == Spec => []SkipSound
<1>1. LabelInv => SkipSound
  BY OpenSkips DEF LabelInv
<1> QED BY <1>1, LabelInvariance, PTL

\* An inode that is marked initialized has the label of its attribute.
THEOREM LabelsFresh == Spec => []LabelFresh
<1>1. LabelInv => LabelFresh
  <2>1. SUFFICES ASSUME LabelInv, Medium, NEW i \in Inodes, isec[i].init = "INITIALIZED"
                 PROVE  i \in remote \cup raced \/ Setting(i) \/ RootByOption(i)
                        \/ isec[i].sid = Value(i)
    BY DEF LabelFresh, Medium, Value
  <2>2. Excused(i) \/ isec[i].sid = Value(i)
    BY <2>1 DEF LabelInv, FreshOK
  <2>3. Stored(i) => Setting(i)
    BY <2>1 DEF Stored, Stores, Setting, At, LabelInv, TaskOK, OpOf
  <2> QED BY <2>2, <2>3 DEF Excused
<1> QED BY <1>1, LabelInvariance, PTL

\* Every file of a context mount has the label of the mount.
THEOREM ContextMounts == Spec => []ContextMount
<1>1. LabelInv => ContextMount
  BY DEF LabelInv, ContextOK, ContextMount
<1> QED BY <1>1, LabelInvariance, PTL

-----------------------------------------------------------------------------
(* What was asked for.                                                     *)

\* Without options none is given; an option is a SID.
Wanted(o) == (~o.given => Given(o) = {}) /\ (o.root = NoSid \/ o.root # "kept")

\* The behaviour of a type of file system, under context= or not, and what is left
\* of it without a handler for the attribute.
Chosen(type, ctx) ==
    IF ctx THEN "MNTPOINT" ELSE IF Native(type) THEN "NATIVE" ELSE security_fs_use(type).behavior
Supported(type, behavior) == IF behavior = "XATTR" /\ ~HasXattr(type) THEN "GENFS" ELSE behavior

\* Superblock b is one that was set up with the options o.
Made(b, o) ==
    /\ b.flags \cap Options = Given(o)
    /\ o.fs # NoSid => b.sid = o.fs \/ b.behavior = "GENFS"
    /\ o.ctx # NoSid => b.mntpoint = o.ctx
    /\ o.def # NoSid => b.def = o.def /\ o.ctx = NoSid
                        /\ Chosen(b.type, FALSE) \in {"XATTR", "NATIVE"}
    /\ b.behavior = "XATTR" => HasXattr(b.type)
    /\ ~b.userns => /\ b.behavior = Supported(b.type, Chosen(b.type, o.ctx # NoSid))
                    /\ o.ctx = NoSid => b.mntpoint = UNLABELED
                    /\ o.def = NoSid => b.def = FILE

\* Superblock s is not set up yet.
Unset(s) ==
    /\ s.flags \subseteq (IF Native(s.type) THEN {"native"} ELSE {})
    /\ s.mntpoint = UNLABELED /\ s.def = FILE

\* Superblock b of a mount with the options o is the one that was asked for; its root
\* keeps the label of rootcontext=.
MountOK(b, o, root, mounted) ==
    /\ Wanted(o)
    /\ "init" \notin b.flags => Unset(b) /\ (mounted => Given(o) = {})
    /\ "init" \in b.flags =>
          /\ Made(b, o)
          /\ "root" \in b.flags => root.init = "INITIALIZED" /\ root.sid = o.root
AskedOK == MountOK(sb, asked, isec[Root], up)

\* An option is given if it has a value.
LEMMA GivenBy ==
    ASSUME NEW o
    PROVE  /\ "fs" \in Given(o) <=> o.fs # NoSid
           /\ "ctx" \in Given(o) <=> o.ctx # NoSid
           /\ "root" \in Given(o) <=> o.root # NoSid
           /\ "def" \in Given(o) <=> o.def # NoSid
           /\ Given(o) \subseteq Options
BY DEF Given, Options

\* sb_finish_set_opts() keeps what the options said, but for a file system without a
\* handler for the attribute.
LEMMA FinishSets ==
    ASSUME NEW q, DOMAIN q = SbFields, NEW f, f = sb_finish_set_opts(q)
    PROVE  /\ DOMAIN f = SbFields /\ f.type = q.type /\ f.userns = q.userns
           /\ f.mntpoint = q.mntpoint /\ f.def = q.def
           /\ f.behavior = Supported(q.type, q.behavior)
           /\ f.sid = q.sid \/ (q.behavior = "XATTR" /\ ~HasXattr(q.type))
           /\ f.flags \cap Options = q.flags \cap Options /\ "init" \in f.flags
<1>1. PICK c : c = sb_check_xattr_support(q)
  OBVIOUS
<1>2. /\ DOMAIN c = SbFields /\ c.type = q.type /\ c.userns = q.userns /\ c.flags = q.flags
      /\ c.mntpoint = q.mntpoint /\ c.def = q.def
      /\ c.behavior = Supported(q.type, q.behavior)
      /\ c.sid = q.sid \/ (q.behavior = "XATTR" /\ ~HasXattr(q.type))
  BY <1>1 DEF sb_check_xattr_support, SbFields, Supported
<1>3. f = [c EXCEPT !.flags = (c.flags \ {"label"}) \cup {"init"}
                         \cup (IF selinux_is_sblabel_mnt(c) THEN {"label"} ELSE {})]
  BY <1>1, <1>2 DEF sb_finish_set_opts, SbFields
<1>4. /\ DOMAIN f = SbFields /\ f.type = c.type /\ f.userns = c.userns /\ f.sid = c.sid
      /\ f.mntpoint = c.mntpoint /\ f.behavior = c.behavior /\ f.def = c.def
      /\ f.flags = (c.flags \ {"label"}) \cup {"init"}
                         \cup (IF selinux_is_sblabel_mnt(c) THEN {"label"} ELSE {})
  BY <1>2, <1>3 DEF SbFields
<1>5. f.flags \cap Options = c.flags \cap Options /\ "init" \in f.flags
  BY <1>4 DEF Options
<1> QED BY <1>2, <1>4, <1>5

\* Superblock b is s set up with the options o, root what they say of the root.
MadeFrom(s, o, b, root) ==
    /\ Made(b, o) /\ "init" \in b.flags /\ b.type = s.type /\ b.userns = s.userns
    /\ o.root # NoSid => root = o.root

\* A superblock that is set up with options is the one that they ask for.
LEMMA OptsMake ==
    ASSUME NEW s, DOMAIN s = SbFields, Unset(s), NEW root, NEW o, NEW may, NEW r,
           r = selinux_set_mnt_opts(TRUE, s, root, o, may), r.rc = "ok"
    PROVE  MadeFrom(s, o, r.sb, r.root)
<1> DEFINE use == security_fs_use(s.type)
           typed == [s EXCEPT !.flags = @ \cup Given(o)
                                          \cup (IF s.type = "proc" THEN {"genfs"} ELSE {}),
                              !.behavior = use.behavior, !.sid = use.sid]
<1>1. "init" \notin s.flags
  BY DEF Unset
<1>2. PICK y : y = typed
  OBVIOUS
<1>3. /\ DOMAIN y = SbFields /\ y.type = s.type /\ y.userns = s.userns
      /\ y.mntpoint = UNLABELED /\ y.def = FILE
      /\ y.behavior = security_fs_use(s.type).behavior
      /\ y.flags \cap Options = Given(o)
      /\ "native" \in y.flags => Native(s.type)
  BY <1>2, GivenBy DEF SbFields, Unset, Options
<1>4. (r = UsernsMount(y, o) /\ s.userns) \/ r = FirstMount(y, o, may)
  <2>1. ~Refused(s, root, o) \/ r = Result("EINVAL", s, "kept")
    BY <1>1 DEF selinux_set_mnt_opts
  <2>2. ~Refused(s, root, o)
    BY ONLY r.rc = "ok", <2>1, ResultIs
  <2> QED BY <1>1, <1>2, <2>2 DEF selinux_set_mnt_opts
<1>5. CASE r = UsernsMount(y, o) /\ s.userns
  <2>1. Given(o) = {}
    <3>1. r = Result("EACCES", y, "kept") \/ Given(o) = {}
      BY ONLY <1>5 DEF UsernsMount
    <3> QED BY ONLY r.rc = "ok", <3>1, ResultIs
  <2>2. PICK q : q = IF y.behavior # "XATTR" THEN y
                     ELSE [y EXCEPT !.behavior = "MNTPOINT", !.mntpoint = TaskSid]
    OBVIOUS
  <2>3. /\ DOMAIN q = SbFields /\ q.type = y.type /\ q.userns = y.userns /\ q.flags = y.flags
        /\ q.behavior # "XATTR"
    BY <2>2, <1>3 DEF SbFields
  <2>4. r = Result("ok", sb_finish_set_opts(q), "kept")
    BY <1>5, <2>1, <2>2 DEF UsernsMount
  <2>5. PICK f : f = sb_finish_set_opts(q)
    OBVIOUS
  <2>6. r.sb = f
    BY ONLY <2>4, <2>5, ResultIs
  <2>7. /\ f.type = s.type /\ f.userns = s.userns /\ f.behavior # "XATTR"
        /\ f.flags \cap Options = Given(o) /\ "init" \in f.flags
    BY <1>3, <2>3, <2>5, FinishSets DEF Supported
  <2>8. o.fs = NoSid /\ o.ctx = NoSid /\ o.def = NoSid /\ o.root = NoSid
    BY <2>1, GivenBy
  <2> QED BY <1>5, <2>6, <2>7, <2>8 DEF Made, MadeFrom
<1>6. CASE r = FirstMount(y, o, may)
  <2> DEFINE native == "native" \in y.flags \/ (Native(y.type) /\ o.ctx = NoSid)
             top == IF o.root # NoSid THEN o.root ELSE o.ctx
  <2>1. PICK q : q = [y EXCEPT
                !.sid = IF o.fs # NoSid THEN o.fs ELSE IF o.ctx # NoSid THEN o.ctx ELSE @,
                !.mntpoint = IF o.ctx # NoSid THEN o.ctx ELSE @,
                !.behavior = IF o.ctx # NoSid THEN "MNTPOINT" ELSE IF native THEN "NATIVE" ELSE @,
                !.def = IF o.def # NoSid THEN o.def ELSE @]
    OBVIOUS
  <2>2. /\ DOMAIN q = SbFields /\ q.type = y.type /\ q.userns = y.userns /\ q.flags = y.flags
        /\ o.fs # NoSid => q.sid = o.fs
        /\ q.mntpoint = IF o.ctx # NoSid THEN o.ctx ELSE UNLABELED
        /\ q.def = IF o.def # NoSid THEN o.def ELSE FILE
        /\ q.behavior = IF o.ctx # NoSid THEN "MNTPOINT" ELSE IF native THEN "NATIVE"
                        ELSE y.behavior
    BY <2>1, <1>3 DEF SbFields
  <2>3. q.behavior = Chosen(s.type, o.ctx # NoSid)
    BY <1>3, <2>2 DEF Chosen
  <2>4. \/ r = Result("EACCES", q, "kept") \/ r = Result("EINVAL", q, "kept")
        \/ /\ r = Result("ok", sb_finish_set_opts(q), IF top = NoSid THEN "kept" ELSE top)
           /\ o.def # NoSid => q.behavior \in {"XATTR", "NATIVE"}
    BY <1>6, <2>1 DEF FirstMount
  <2>5. /\ r.sb = sb_finish_set_opts(q) /\ r.root = IF top = NoSid THEN "kept" ELSE top
        /\ o.def # NoSid => q.behavior \in {"XATTR", "NATIVE"}
    BY ONLY r.rc = "ok", <2>4, ResultIs
  <2>6. PICK f : f = sb_finish_set_opts(q)
    OBVIOUS
  <2>7. /\ f.type = s.type /\ f.userns = s.userns /\ f.mntpoint = q.mntpoint /\ f.def = q.def
        /\ f.behavior = Supported(s.type, q.behavior)
        /\ f.sid = q.sid \/ f.behavior = "GENFS"
        /\ f.flags \cap Options = Given(o) /\ "init" \in f.flags
    BY <1>3, <2>2, <2>6, FinishSets DEF Supported
  <2>8. o.def # NoSid => o.ctx = NoSid /\ Chosen(s.type, FALSE) \in {"XATTR", "NATIVE"}
    BY <2>3, <2>5 DEF Chosen
  <2>9. Made(f, o)
    BY <2>2, <2>3, <2>7, <2>8 DEF Made, Supported
  <2> QED BY <2>5, <2>6, <2>7, <2>9 DEF MadeFrom
<1> QED BY <1>4, <1>5, <1>6

\* The options of a superblock that is set up are granted again.
LEMMA AskedAgain ==
    ASSUME NEW b, "init" \in b.flags, NEW o, Wanted(o), Made(b, o),
           NEW root, o.root # NoSid => root = o.root, b.behavior # "GENFS" \/ o.fs = NoSid
    PROVE  /\ selinux_set_mnt_opts(TRUE, b, root, o, TRUE).rc = "ok"
           /\ selinux_sb_remount(b, root, o) = "ok"
           /\ selinux_sb_mnt_opts_compat(b, root, o)
<1>1. \A k \in Given(o) : OldSid(b, root, k) = o[k] /\ k \in b.flags
  BY GivenBy DEF Made, OldSid, Options
<1>2. ~Refused(b, root, o)
  BY <1>1 DEF Refused, bad_option
<1>3. ~o.given => b.flags \cap Options = {}
  BY DEF Made, Wanted
<1> QED
  BY <1>2, <1>3
  DEF selinux_set_mnt_opts, selinux_sb_remount, selinux_sb_mnt_opts_compat, Result

\* A mount that may share a superblock is granted, and no other.
LEMMA CompatMeans ==
    ASSUME NEW b, "init" \in b.flags, ~BinaryMountData(b.type), NEW o, Wanted(o), NEW root
    PROVE  selinux_sb_mnt_opts_compat(b, root, o)
              = (selinux_set_mnt_opts(TRUE, b, root, o, TRUE).rc = "ok")
<1>1. ~o.given => ~Refused(b, root, o)
  BY DEF Wanted, Refused
<1>2. PICK r : r = selinux_set_mnt_opts(TRUE, b, root, o, TRUE)
  OBVIOUS
<1>3. CASE Refused(b, root, o)
  <2>1. r = Result("EINVAL", b, "kept")
    BY <1>2, <1>3 DEF selinux_set_mnt_opts
  <2>2. r.rc = "EINVAL"
    BY ONLY <2>1, ResultIs
  <2> QED BY <1>1, <1>2, <1>3, <2>2 DEF selinux_sb_mnt_opts_compat
<1>4. CASE ~Refused(b, root, o)
  <2>1. r = Result(IF b.flags \cap Options # {} /\ ~o.given THEN "EINVAL" ELSE "ok", b, "kept")
    BY <1>2, <1>4 DEF selinux_set_mnt_opts
  <2>2. r.rc = IF b.flags \cap Options # {} /\ ~o.given THEN "EINVAL" ELSE "ok"
    BY ONLY <2>1, ResultIs
  <2> QED BY <1>2, <1>4, <2>2 DEF selinux_sb_mnt_opts_compat
<1> QED BY <1>3, <1>4

\* A clone has the options of the original.
LEMMA CloneAlike ==
    ASSUME NEW b, DOMAIN b = SbFields, b.behavior = "XATTR" => HasXattr(b.type), NEW root, NEW n,
           n = selinux_sb_alloc_security(b.type, FALSE), NEW c,
           c = selinux_sb_clone_mnt_opts(b, root, n)
    PROVE  selinux_cmp_sb_context(b, root, c.sb, IF c.root = "kept" THEN root ELSE c.root) = "ok"
<1>1. DOMAIN n = SbFields /\ n.type = b.type
  BY DEF selinux_sb_alloc_security, SbFields
<1>2. PICK s : s = [n EXCEPT !.flags = b.flags, !.sid = b.sid, !.def = b.def,
                         !.behavior = IF Native(n.type) /\ "ctx" \notin b.flags
                                      THEN "NATIVE" ELSE b.behavior]
  OBVIOUS
<1>3. /\ DOMAIN s = SbFields /\ s.type = b.type /\ s.flags = b.flags /\ s.sid = b.sid
      /\ s.def = b.def /\ s.behavior \in {"NATIVE", b.behavior}
  BY <1>1, <1>2 DEF SbFields
<1>4. PICK q : q = IF "ctx" \in b.flags
                   THEN [s EXCEPT !.mntpoint = b.mntpoint,
                                  !.sid = IF "fs" \in b.flags THEN @ ELSE b.mntpoint] ELSE s
  OBVIOUS
<1>5. /\ DOMAIN q = SbFields /\ q.type = b.type /\ q.flags = b.flags /\ q.def = b.def
      /\ "fs" \in b.flags => q.sid = b.sid
      /\ "ctx" \in b.flags => q.mntpoint = b.mntpoint
      /\ q.behavior \in {"NATIVE", b.behavior}
  BY <1>3, <1>4 DEF SbFields
<1>6. c = Result("ok", sb_finish_set_opts(q), IF "root" \in b.flags THEN root
                                              ELSE IF "ctx" \in b.flags THEN b.mntpoint ELSE "kept")
  BY <1>2, <1>4 DEF selinux_sb_clone_mnt_opts
<1>7. PICK f : f = sb_finish_set_opts(q)
  OBVIOUS
<1>8. c.sb = f /\ ("root" \in b.flags => c.root = root)
  BY ONLY <1>6, <1>7, ResultIs
<1>9. /\ f.mntpoint = q.mntpoint /\ f.def = q.def /\ f.sid = q.sid
      /\ f.flags \cap Options = b.flags \cap Options
  BY <1>5, <1>7, FinishSets
<1>10. \A k \in b.flags \cap Options :
          OldSid(b, root, k) = OldSid(f, IF c.root = "kept" THEN root ELSE c.root, k)
  BY <1>5, <1>8, <1>9 DEF OldSid, Options
<1> QED BY <1>8, <1>9, <1>10 DEF selinux_cmp_sb_context

\* The options that a submount takes over.
LEMMA SubmountTakes ==
    ASSUME NEW b, NEW o, Made(b, o), NEW p, p = selinux_fs_context_submount(b)
    PROVE  p.ctx = o.ctx /\ p.def = o.def
<1>1. "ctx" \in b.flags <=> o.ctx # NoSid
  BY GivenBy DEF Made, Options
<1>2. "def" \in b.flags <=> o.def # NoSid
  BY GivenBy DEF Made, Options
<1>3. ("ctx" \in b.flags => b.mntpoint = o.ctx) /\ ("def" \in b.flags => b.def = o.def)
  BY <1>1, <1>2 DEF Made
<1>4. CASE b.flags \cap {"fs", "ctx", "def"} = {}
  BY <1>1, <1>2, <1>4 DEF selinux_fs_context_submount, NoOpts, Opt
<1>5. CASE b.flags \cap {"fs", "ctx", "def"} # {}
  BY <1>1, <1>2, <1>3, <1>5 DEF selinux_fs_context_submount, Opt, OldSid
<1> QED BY <1>4, <1>5

\* The result r of a mount is a superblock that labels its files as b does.
LabelsAs(b, r) ==
    /\ r.rc = "ok" /\ r.sb.behavior = b.behavior
    /\ r.sb.mntpoint = b.mntpoint /\ r.sb.def = b.def

\* A submount labels its files as its parent does.
LEMMA SubmountAlike ==
    ASSUME NEW b, NEW o, Made(b, o), ~b.userns, NEW n, n = selinux_sb_alloc_security(b.type, FALSE),
           NEW p, p = selinux_fs_context_submount(b),
           NEW r, r = selinux_set_mnt_opts(TRUE, n, UNLABELED, p, TRUE)
    PROVE  LabelsAs(b, r)
<1>1. /\ DOMAIN n = SbFields /\ n.type = b.type /\ n.userns = FALSE /\ n.flags = {}
      /\ n.mntpoint = UNLABELED /\ n.def = FILE
  BY DEF selinux_sb_alloc_security, SbFields
<1>2. p.ctx = o.ctx /\ p.def = o.def
  BY SubmountTakes
<1>3. PICK y : y = [n EXCEPT
          !.flags = @ \cup Given(p) \cup (IF n.type = "proc" THEN {"genfs"} ELSE {}),
          !.behavior = security_fs_use(n.type).behavior, !.sid = security_fs_use(n.type).sid]
  OBVIOUS
<1>4. /\ DOMAIN y = SbFields /\ y.type = b.type /\ "native" \notin y.flags
      /\ y.behavior = security_fs_use(b.type).behavior
  BY <1>1, <1>3 DEF SbFields, Given, Options
<1>5. ~Refused(n, UNLABELED, p)
  BY <1>1 DEF Refused, bad_option
<1>6. r = FirstMount(y, p, TRUE)
  BY <1>1, <1>3, <1>5 DEF selinux_set_mnt_opts
<1>7. PICK q : q = [y EXCEPT
          !.sid = IF p.fs # NoSid THEN p.fs ELSE IF p.ctx # NoSid THEN p.ctx ELSE @,
          !.mntpoint = IF p.ctx # NoSid THEN p.ctx ELSE @,
          !.behavior = IF p.ctx # NoSid THEN "MNTPOINT"
                       ELSE IF "native" \in y.flags \/ (Native(y.type) /\ p.ctx = NoSid)
                            THEN "NATIVE" ELSE @,
          !.def = IF p.def # NoSid THEN p.def ELSE @]
  OBVIOUS
<1>8. q.behavior = Chosen(b.type, p.ctx # NoSid)
  BY <1>4, <1>7 DEF SbFields, Chosen
<1>9. p.def = NoSid \/ q.behavior \in {"XATTR", "NATIVE"}
  BY <1>2, <1>8 DEF Made, Chosen
<1>10. PICK top : r = Result("ok", sb_finish_set_opts(q), top)
  BY <1>6, <1>7, <1>9 DEF FirstMount
<1>11. r.rc = "ok"
  BY ONLY <1>10, ResultIs
<1>12. Unset(n)
  BY <1>1 DEF Unset
<1>13. Made(r.sb, p) /\ r.sb.type = b.type /\ r.sb.userns = FALSE
  <2>1. MadeFrom(n, p, r.sb, r.root)
    BY <1>1, <1>11, <1>12, OptsMake
  <2> QED BY <1>1, <2>1 DEF MadeFrom
<1> QED BY <1>2, <1>11, <1>13 DEF Made, LabelsAs

\* Superblocks without options are alike, whatever asked for none.
LEMMA MadeByNone ==
    ASSUME NEW b, NEW o, NEW p, Given(o) = {}, Given(p) = {}, Made(b, o)
    PROVE  Made(b, p)
<1>1. /\ o.fs = NoSid /\ o.ctx = NoSid /\ o.def = NoSid
      /\ p.fs = NoSid /\ p.ctx = NoSid /\ p.def = NoSid
  BY GivenBy
<1> QED BY <1>1 DEF Made

\* Nobody labels the root of a superblock that is set up, once it has a label.
LEMMA RootKept ==
    ASSUME Shapes, \A u \in Tasks : TaskOK(u), SbOK, SetOK, [Next]_vars,
           UNCHANGED sb, "init" \in sb.flags, isec[Root].init = "INITIALIZED"
    PROVE  isec'[Root].init = "INITIALIZED" /\ isec'[Root].sid = isec[Root].sid
<1> DEFINE Same == isec'[Root].init = "INITIALIZED" /\ isec'[Root].sid = isec[Root].sid
<1>1. DOMAIN isec = Inodes /\ \A i \in Inodes : DOMAIN isec[i] = {"sid", "init", "listed"}
  BY DEF Shapes
<1>2. Root # File /\ Root \in Inodes
  BY DEF Root, File, Inodes
<1>3. \A u \in Tasks : task[u].label # NoSid => task[u].ino = File
  BY DEF SetOK
<1>4. ASSUME NEW t \in Tasks, MountStep(t) PROVE Same
  <2>1. ~Discards /\ ~MountedEarly /\ ~SetUp(t)
    BY DEF Discards, Discarded, MountedEarly, SetUp, SbOK
  <2>2. ASSUME NEW o \in OptsAsked, NEW may \in BOOLEAN, Mount(t, o, may) PROVE FALSE
    BY <2>1, <2>2, MountDone
  <2>3. CASE Drained(t)
    BY <2>1, <2>3, DrainedDone
  <2>4. CASE selinux_complete_init(t)
    BY <2>1, <2>4, CompleteMoves
  <2> QED BY <1>4, <2>2, <2>3, <2>4 DEF MountStep
<1>5. ASSUME NEW t \in Tasks, Queue(t) PROVE Same
  BY <1>1, <1>2, <1>5 DEF Queue
<1>6. ASSUME NEW t \in Tasks, Begin(t) PROVE Same
  BY <1>1, <1>2, <1>6 DEF Begin
<1>7. ASSUME NEW t \in Tasks, Install(t) PROVE Same
  BY <1>1, <1>2, <1>7 DEF Install, Installed
<1>8. ASSUME NEW t \in Tasks, NEW i \in Inodes, Drain(t, i) PROVE Same
  BY <1>1, <1>2, <1>8 DEF Drain
<1>9. ASSUME NEW t \in Tasks, selinux_task_to_inode(t) PROVE Same
  BY <1>1, <1>2, <1>9 DEF selinux_task_to_inode
<1>10. ASSUME NEW t \in Tasks, selinux_inode_setsecurity(t) PROVE Same
  <2>1. task[t].ino = File
    BY <1>3, <1>10 DEF selinux_inode_setsecurity, At, TaskOK, OpOf
  <2> QED BY <1>1, <1>2, <1>10, <2>1 DEF selinux_inode_setsecurity
<1>11. ASSUME NEW t \in Tasks, MediumStep(t) PROVE Same
  <2>1. ASSUME NEW c \in {NoSid} \cup Labels, selinux_inode_init_security(t, c) PROVE Same
    BY <1>1, <1>2, <2>1 DEF selinux_inode_init_security
  <2>2. CASE StoreXattr(t)
    BY <2>2 DEF StoreXattr
  <2>3. CASE PostSet(t)
    <3>1. task[t].ino = File
      BY <1>3, <2>3 DEF PostSet, At, TaskOK, OpOf
    <3> QED BY <1>1, <1>2, <2>3, <3>1 DEF PostSet
  <2>4. CASE selinux_inode_notifysecctx(t)
    BY <1>1, <1>2, <2>4 DEF selinux_inode_notifysecctx
  <2>5. CASE selinux_inode_invalidate_secctx(t)
    BY <1>1, <1>2, <2>5 DEF selinux_inode_invalidate_secctx
  <2> QED BY <1>11, <2>1, <2>2, <2>3, <2>4, <2>5 DEF MediumStep
<1>12. ASSUME NEW l \in Labels, ServerRelabel(l) PROVE Same
  BY <1>12 DEF ServerRelabel
<1> QED BY <1>4, <1>5, <1>6, <1>7, <1>8, <1>9, <1>10, <1>11, <1>12, LabelFrame
        DEF LabelMoves, LabelStep

\* What selinux_set_mnt_opts() of a loaded policy makes is what was asked for.
LEMMA FinishAsked ==
    ASSUME Shapes, Unset(sb), NEW t, NEW o, Wanted(o), NEW may, NEW r,
           r = selinux_set_mnt_opts(TRUE, sb, isec[Root].sid, o, may), r.rc = "ok",
           FinishOpts(t, r)
    PROVE  /\ Made(sb', o) /\ "init" \in sb'.flags
           /\ "root" \in sb'.flags => isec'[Root].init = "INITIALIZED" /\ isec'[Root].sid = o.root
<1>1. DOMAIN sb = SbFields /\ DOMAIN isec = Inodes /\ Root \in Inodes
      /\ DOMAIN isec[Root] = {"sid", "init", "listed"}
  BY DEF Shapes, Inodes
<1>2. Made(r.sb, o) /\ "init" \in r.sb.flags /\ (o.root # NoSid => r.root = o.root)
  <2>1. MadeFrom(sb, o, r.sb, r.root)
    BY <1>1, OptsMake
  <2> QED BY <2>1 DEF MadeFrom
<1>3. sb' = r.sb
      /\ isec' = IF r.root = "kept" THEN isec
                 ELSE [isec EXCEPT ![Root].sid = r.root, ![Root].init = "INITIALIZED"]
  BY DEF FinishOpts
<1>4. "root" \in r.sb.flags => o.root # NoSid
  BY <1>2, GivenBy DEF Made, Options
<1> QED BY <1>1, <1>2, <1>3, <1>4 DEF Wanted

\* It is the same after a step.
LEMMA AskedIs ==
    AskedOK' <=> MountOK(sb', asked', isec'[Root], up')
BY DEF AskedOK, MountOK, Wanted, Unset, Made, Given, Supported, Chosen, Native, HasXattr,
       security_fs_use, Options

\* A mount that fails leaves a new superblock, one that ends the superblock as it is.
LEMMA DrainedAsked ==
    ASSUME LabelInv, AskedOK, NEW t \in Tasks, Drained(t)
    PROVE  AskedOK'
<1>1. /\ Shapes /\ (\A u \in Tasks : TaskOK(u)) /\ SbOK /\ EarlyOK
  BY DEF LabelInv
<1>2. asked' = asked /\ MountOK(sb, asked, isec[Root], up)
  BY DEF AskedOK, Drained
<1>3. task[t].op = "mount"
  BY <1>1 DEF Drained, At, TaskOK, OpOf
<1>4. "init" \in sb.flags
  BY <1>1, <1>3 DEF EarlyOK
<1>5. CASE ~up /\ task[t].ret # "ok"
  <2>1. sb' = selinux_sb_alloc_security(sb.type, sb.userns) /\ up' = FALSE
    BY <1>5 DEF Drained, Discard
  <2>2. Unset(sb') /\ sb'.flags = {}
    BY <2>1 DEF selinux_sb_alloc_security, Unset
  <2> QED BY <1>2, <2>1, <2>2, AskedIs DEF MountOK
<1>6. CASE ~(~up /\ task[t].ret # "ok")
  <2>1. UNCHANGED <<sb, isec>>
    BY <1>6 DEF Drained
  <2> QED BY <1>2, <1>4, <2>1, AskedIs DEF MountOK
<1> QED BY <1>5, <1>6

\* selinux_complete_init() sets a superblock up that was mounted without options.
LEMMA CompleteAsked ==
    ASSUME LabelInv, AskedOK, NEW t \in Tasks, selinux_complete_init(t)
    PROVE  AskedOK'
<1> DEFINE r == selinux_set_mnt_opts(TRUE, sb, isec[Root].sid, NoOpts, TRUE)
<1>1. Shapes
  BY DEF LabelInv
<1>2. asked' = asked /\ up' = up /\ MountOK(sb, asked, isec[Root], up)
  BY DEF AskedOK, selinux_complete_init
<1>3. CASE up /\ "init" \notin sb.flags
  <2>1. FinishOpts(t, r)
    BY <1>3 DEF selinux_complete_init
  <2>2. DOMAIN sb = SbFields
    BY <1>1 DEF Shapes
  <2>3. r.rc = "ok"
    BY <1>3, <2>2, SetNone
  <2>4. PICK z : z = r
    OBVIOUS
  <2>5. Given(NoOpts) = {} /\ NoOpts.root = NoSid /\ NoOpts.given = FALSE
    BY DEF Given, NoOpts, Opt, Options
  <2>6. Wanted(NoOpts) /\ Unset(sb) /\ Given(asked) = {}
    BY <1>2, <1>3, <2>5 DEF Wanted, MountOK
  <2>7. /\ Made(sb', NoOpts) /\ "init" \in sb'.flags
        /\ "root" \in sb'.flags => isec'[Root].init = "INITIALIZED" /\ isec'[Root].sid = NoOpts.root
    BY <1>1, <2>1, <2>3, <2>4, <2>6, FinishAsked
  <2>8. Made(sb', asked)
    BY <2>5, <2>6, <2>7, MadeByNone
  <2>9. asked.root = NoSid
    BY <2>6, GivenBy
  <2> QED BY <1>2, <2>5, <2>6, <2>7, <2>8, <2>9, AskedIs DEF MountOK
<1>4. CASE ~(up /\ "init" \notin sb.flags)
  <2>1. UNCHANGED <<sb, isec>>
    BY <1>4 DEF selinux_complete_init
  <2> QED BY <1>2, <2>1, AskedIs DEF MountOK
<1> QED BY <1>3, <1>4

\* A mount(2) that succeeds gets what it asked for.
LEMMA MountAsked ==
    ASSUME LabelInv, AskedOK, NEW t \in Tasks, NEW o \in OptsAsked, NEW may \in BOOLEAN,
           Mount(t, o, may)
    PROVE  AskedOK'
<1> DEFINE r == selinux_set_mnt_opts(loaded, sb, isec[Root].sid, o, may)
<1>1. Shapes /\ (\A u \in Tasks : TaskOK(u)) /\ SbOK
  BY DEF LabelInv
<1>2. ~up /\ "init" \notin sb.flags
  <2>1. ~up /\ \A u \in Tasks : At(u, "idle")
    BY DEF Mount
  <2> QED BY <1>1, <2>1 DEF SbOK, Mounting, TaskOK, OpOf, At
<1>3. MountOK(sb, asked, isec[Root], up) /\ Unset(sb)
  BY <1>2 DEF AskedOK, MountOK
<1>4. Wanted(o)
  BY OptsAssumption DEF Wanted
<1>5. CASE r.rc # "ok"
  <2>1. sb' = selinux_sb_alloc_security(sb.type, sb.userns) /\ UNCHANGED <<up, asked>>
    BY <1>5 DEF Mount, Discard
  <2>2. Unset(sb') /\ sb'.flags = {}
    BY <2>1 DEF selinux_sb_alloc_security, Unset
  <2> QED BY <1>2, <1>3, <2>1, <2>2, AskedIs DEF MountOK
<1>6. CASE r.rc = "ok" /\ loaded
  <2>1. FinishOpts(t, r) /\ asked' = o
    BY <1>6 DEF Mount
  <2>2. loaded = TRUE
    BY <1>1, <1>6 DEF SbOK
  <2>3. PICK z : z = selinux_set_mnt_opts(TRUE, sb, isec[Root].sid, o, may)
    OBVIOUS
  <2>4. z.rc = "ok" /\ FinishOpts(t, z)
    BY <1>6, <2>1, <2>2, <2>3
  <2>5. /\ Made(sb', o) /\ "init" \in sb'.flags
        /\ "root" \in sb'.flags => isec'[Root].init = "INITIALIZED" /\ isec'[Root].sid = o.root
    BY ONLY <1>1, <1>3, <1>4, <2>3, <2>4, FinishAsked
  <2> QED BY <1>4, <2>1, <2>5, AskedIs DEF MountOK
<1>7. CASE r.rc = "ok" /\ ~loaded
  <2>1. sb' = r.sb /\ asked' = o
    BY <1>7 DEF Mount
  <2>2. loaded = FALSE /\ DOMAIN sb = SbFields
    BY <1>1, <1>7 DEF SbOK, Shapes
  <2>3. PICK z : z = selinux_set_mnt_opts(FALSE, sb, isec[Root].sid, o, may)
    OBVIOUS
  <2>4. z.rc = "ok" /\ sb' = z.sb
    BY <1>7, <2>1, <2>2, <2>3
  <2>5. /\ o.given => z = Result("EINVAL", sb, "kept")
        /\ ~o.given => z = Result("ok", [sb EXCEPT !.flags = @ \cup
                                 (IF Native(sb.type) THEN {"native"} ELSE {})], "kept")
    BY ONLY <2>3 DEF selinux_set_mnt_opts
  <2>6. ~o.given
    BY ONLY <2>4, <2>5, ResultIs
  <2>7. PICK q : q = [sb EXCEPT !.flags = @ \cup (IF Native(sb.type) THEN {"native"} ELSE {})]
    OBVIOUS
  <2>8. sb' = q
    BY ONLY <2>4, <2>5, <2>6, <2>7, ResultIs
  <2>9. Unset(sb') /\ "init" \notin sb'.flags
    BY <1>2, <1>3, <2>2, <2>7, <2>8 DEF Unset, SbFields
  <2>10. Given(o) = {}
    BY <1>4, <2>6 DEF Wanted
  <2> QED BY <1>4, <2>1, <2>9, <2>10, AskedIs DEF MountOK
<1> QED BY <1>5, <1>6, <1>7

\* A step keeps the superblock as it was asked for.
LEMMA AskedKept ==
    ASSUME LabelInv, AskedOK, [Next]_vars
    PROVE  AskedOK'
<1>1. /\ Shapes /\ (\A u \in Tasks : TaskOK(u)) /\ SbOK /\ SetOK
  BY DEF LabelInv
<1>2. CASE UNCHANGED <<sb, up, asked>>
  <2>1. MountOK(sb, asked, isec[Root], up)
    BY DEF AskedOK
  <2>2. "init" \in sb.flags /\ isec[Root].init = "INITIALIZED" =>
           isec'[Root].init = "INITIALIZED" /\ isec'[Root].sid = isec[Root].sid
    BY <1>1, <1>2, RootKept
  <2> QED BY <1>2, <2>1, <2>2, AskedIs DEF MountOK
<1>3. CASE UNCHANGED mountVars
  BY <1>2, <1>3 DEF mountVars
<1>4. ASSUME NEW t \in Tasks, MountStep(t) PROVE AskedOK'
  BY <1>4, MountAsked, DrainedAsked, CompleteAsked DEF MountStep
<1> QED BY <1>3, <1>4, MountFrame

\* A superblock is as it was asked for from the start.
LEMMA AskedInit ==
    ASSUME Init
    PROVE  AskedOK
<1>1. asked = NoOpts /\ Given(NoOpts) = {} /\ NoOpts.root = NoSid /\ NoOpts.given = FALSE
  BY DEF Init, Given, NoOpts, Opt, Options
<1>2. CASE BootInit
  <2>1. PICK type, userns : sb = selinux_sb_alloc_security(type, userns)
    BY <1>2 DEF BootInit
  <2>2. Unset(sb) /\ sb.flags = {}
    BY <2>1 DEF selinux_sb_alloc_security, Unset
  <2> QED BY <1>1, <1>2, <2>2 DEF AskedOK, MountOK, Wanted, BootInit
<1>3. CASE FilesInit
  <2>1. PICK n : n = selinux_sb_alloc_security("ext4", FALSE)
    OBVIOUS
  <2>2. DOMAIN n = SbFields /\ n.flags = {} /\ Unset(n)
    BY <2>1 DEF selinux_sb_alloc_security, SbFields, Unset
  <2>3. PICK r : r = selinux_set_mnt_opts(TRUE, n, UNLABELED, NoOpts, TRUE)
    OBVIOUS
  <2>4. r.rc = "ok"
    BY <2>2, <2>3, SetNone
  <2>5. sb = r.sb
    BY <1>3, <2>1, <2>3 DEF FilesInit
  <2>6. Made(sb, NoOpts) /\ "init" \in sb.flags
    <3>1. MadeFrom(n, NoOpts, r.sb, r.root)
      BY <2>2, <2>3, <2>4, OptsMake
    <3> QED BY <2>5, <3>1 DEF MadeFrom
  <2>7. "root" \notin sb.flags
    BY <1>1, <2>6 DEF Made, Options
  <2> QED BY <1>1, <2>6, <2>7 DEF AskedOK, MountOK, Wanted
<1> QED BY <1>2, <1>3 DEF Init

-----------------------------------------------------------------------------
(* Theorem.                                                                *)

\* What was asked for once is granted again, by a mount, a remount and the test for
\* sharing the superblock; a clone has the options of the original, and a submount
\* labels its files the same way.
THEOREM MountsAgain == Spec => []MountAgain
<1>1. Init => LabelInv /\ AskedOK
  BY LabelInit, AskedInit
<1>2. (LabelInv /\ AskedOK) /\ [Next]_vars => (LabelInv /\ AskedOK)'
  BY LabelStepKept, AskedKept
<1>3. LabelInv /\ AskedOK => MountAgain
  <2>1. SUFFICES ASSUME LabelInv, AskedOK, "init" \in sb.flags PROVE MountAgain
    BY DEF MountAgain
  <2> DEFINE root == isec[Root].sid
             n == selinux_sb_alloc_security(sb.type, FALSE)
  <2>2. /\ DOMAIN sb = SbFields /\ Made(sb, asked) /\ Wanted(asked)
        /\ asked.root # NoSid => root = asked.root
    BY <2>1, GivenBy DEF LabelInv, Shapes, AskedOK, MountOK, Made, Options
  <2>3. sb.behavior # "GENFS" \/ asked.fs = NoSid =>
           /\ selinux_set_mnt_opts(TRUE, sb, root, asked, TRUE).rc = "ok"
           /\ selinux_sb_remount(sb, root, asked) = "ok"
           /\ selinux_sb_mnt_opts_compat(sb, root, asked)
    BY <2>1, <2>2, AskedAgain
  <2>4. ASSUME NEW o \in OptsAsked, ~BinaryMountData(sb.type)
        PROVE  selinux_sb_mnt_opts_compat(sb, root, o)
                  = (selinux_set_mnt_opts(TRUE, sb, root, o, TRUE).rc = "ok")
    <3>1. Wanted(o)
      BY OptsAssumption DEF Wanted
    <3> QED BY <2>1, <2>4, <3>1, CompatMeans
  <2>5. LET clone == selinux_sb_clone_mnt_opts(sb, root, n)
        IN selinux_cmp_sb_context(sb, root, clone.sb,
                                  IF clone.root = "kept" THEN root ELSE clone.root) = "ok"
    BY <2>2, CloneAlike DEF Made
  <2>6. ASSUME ~sb.userns
        PROVE  LabelsAs(sb, selinux_set_mnt_opts(TRUE, n, UNLABELED,
                                                 selinux_fs_context_submount(sb), TRUE))
    BY <2>2, <2>6, SubmountAlike
  <2> QED BY <2>3, <2>4, <2>5, <2>6 DEF MountAgain, LabelsAs
<1> QED BY <1>1, <1>2, <1>3, PTL DEF Spec
=============================================================================
