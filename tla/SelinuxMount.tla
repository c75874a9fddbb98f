---------------------------- MODULE SelinuxMount ----------------------------
(***************************************************************************)
(* The security options of a superblock (hooks.c): context=, fscontext=,   *)
(* rootcontext= and defcontext= of mount(2), how a file system is labelled *)
(* as a result, and what a second mount, a remount or a submount of the    *)
(* same superblock may ask for.  Pure: a superblock is a record, an        *)
(* operation returns its code and the new record.                          *)
(***************************************************************************)
CONSTANTS
    NoSid,      \* SECSID_NULL
    TaskSid     \* what files of the mounting task get (security_transition_sid())

\* Labelling behaviours, SECURITY_FS_USE_*; "unset" until one is chosen.
\* XATTR: labels on the medium; TRANS, TASK: from the creating task; GENFS: by
\* path; NATIVE: labels of a server; MNTPOINT: one label for all files.
Types == {"ext4", "fuse", "nfs", "tmpfs", "proc", "pipefs", "exfat"}
UNLABELED == "unlabeled"
FILE == "file"

\* The options of a mount; given: any were passed at all.
Options == {"fs", "ctx", "root", "def"}
Opt(fs, ctx, root, def) ==
    [given |-> TRUE, fs |-> fs, ctx |-> ctx, root |-> root, def |-> def]
NoOpts == [Opt(NoSid, NoSid, NoSid, NoSid) EXCEPT !.given = FALSE]
Given(o) == {k \in Options : o[k] # NoSid}

\* flags: the options in force, and SE_SBINITIALIZED ("init"), SBLABEL_MNT
\* ("label"), SE_SBGENFS ("genfs") and SE_SBNATIVE ("native").
selinux_sb_alloc_security(type, userns) ==
    [type |-> type, userns |-> userns, flags |-> {}, behavior |-> "unset", sid |-> UNLABELED,
     def |-> FILE, mntpoint |-> UNLABELED]

\* security_fs_use(): what the policy says of a type; fuse has labels by path
\* to fall back to, exfat is unknown to the policy.
security_fs_use(type) ==
    CASE type \in {"ext4", "fuse"} -> [behavior |-> "XATTR", sid |-> "fs"]
      [] type = "tmpfs" -> [behavior |-> "TRANS", sid |-> "fs"]
      [] type = "pipefs" -> [behavior |-> "TASK", sid |-> "fs"]
      [] type \in {"nfs", "proc"} -> [behavior |-> "GENFS", sid |-> "genfs"]
      [] OTHER -> [behavior |-> "NONE", sid |-> UNLABELED]
HasXattr(type) == type \in {"ext4", "nfs"}          \* external: IOP_XATTR
Native(type) == type = "nfs"            \* external: SECURITY_LSM_NATIVE_LABELS
BinaryMountData(type) == type = "nfs"   \* external: FS_BINARY_MOUNTDATA

-----------------------------------------------------------------------------
bad_option(sb, flag, old, new) ==
    IF "init" \in sb.flags THEN flag \notin sb.flags \/ old # new ELSE flag \in sb.flags
OldSid(sb, root, k) ==
    CASE k = "fs" -> sb.sid [] k = "ctx" -> sb.mntpoint [] k = "root" -> root [] k = "def" -> sb.def
Refused(sb, root, o) == \E k \in Given(o) : bad_option(sb, k, OldSid(sb, root, k), o[k])

\* Mutant: files of a context mount may be relabelled.
Mutselinux_is_sblabel_mnt(sb) == sb.behavior \notin {"GENFS", "NONE", "unset"}

\* The genfs types with a handler of their own (sysfs and others) are not here.
selinux_is_sblabel_mnt(sb) == sb.behavior \in {"XATTR", "TRANS", "TASK", "NATIVE"}

\* A file system without a handler for the attribute falls back to labels by
\* path, if the policy has any for it.
sb_check_xattr_support(sb) ==
    IF sb.behavior # "XATTR" \/ HasXattr(sb.type) THEN sb
    ELSE [sb EXCEPT !.behavior = "GENFS", !.sid = "genfs"]
\* sb_finish_set_opts() up to the labelling of inodes.
sb_finish_set_opts(sb) ==
    LET s == sb_check_xattr_support(sb)
    IN [s EXCEPT !.flags = (@ \ {"label"}) \cup {"init"}
                           \cup (IF selinux_is_sblabel_mnt(s) THEN {"label"} ELSE {})]

\* root: the SID of the root inode, before and after ("kept" if it is left alone).
Result(rc, sb, root) == [rc |-> rc, sb |-> sb, root |-> root]

\* A mount in a user namespace takes no options, and no labels of the medium.
UsernsMount(sb, o) ==
    LET s == IF sb.behavior # "XATTR" THEN sb
             ELSE [sb EXCEPT !.behavior = "MNTPOINT", !.mntpoint = TaskSid]
    IN IF Given(o) # {} THEN Result("EACCES", sb, "kept")
       ELSE Result("ok", sb_finish_set_opts(s), "kept")

\* may: the relabelling permissions that the options need.
FirstMount(sb, o, may) ==
    LET native == "native" \in sb.flags \/ (Native(sb.type) /\ o.ctx = NoSid)
        root == IF o.root # NoSid THEN o.root ELSE o.ctx
        s == [sb EXCEPT
                !.sid = IF o.fs # NoSid THEN o.fs ELSE IF o.ctx # NoSid THEN o.ctx ELSE @,
                !.mntpoint = IF o.ctx # NoSid THEN o.ctx ELSE @,
                !.behavior = IF o.ctx # NoSid THEN "MNTPOINT" ELSE IF native THEN "NATIVE" ELSE @,
                !.def = IF o.def # NoSid THEN o.def ELSE @]
    IN IF Given(o) # {} /\ ~may THEN Result("EACCES", s, "kept")
       ELSE IF o.def # NoSid /\ s.behavior \notin {"XATTR", "NATIVE"}
            THEN Result("EINVAL", s, "kept")
       ELSE Result("ok", sb_finish_set_opts(s), IF root = NoSid THEN "kept" ELSE root)

selinux_set_mnt_opts(loaded, sb, root, o, may) ==
    LET use == security_fs_use(sb.type)
        typed == [sb EXCEPT !.flags = @ \cup Given(o)
                                        \cup (IF sb.type = "proc" THEN {"genfs"} ELSE {}),
                            !.behavior = use.behavior, !.sid = use.sid]
    IN IF ~loaded
       THEN IF o.given THEN Result("EINVAL", sb, "kept")
            ELSE Result("ok", [sb EXCEPT !.flags = @ \cup
                                 (IF Native(sb.type) THEN {"native"} ELSE {})], "kept")
       ELSE IF "init" \in sb.flags /\ BinaryMountData(sb.type) /\ ~o.given
            THEN Result("ok", sb, "kept")
       ELSE IF Refused(sb, root, o) THEN Result("EINVAL", sb, "kept")
       ELSE IF "init" \in sb.flags
            THEN Result(IF sb.flags \cap Options # {} /\ ~o.given THEN "EINVAL" ELSE "ok", sb,
                        "kept")
       ELSE IF sb.userns /\ sb.type # "tmpfs" THEN UsernsMount(typed, o)
       ELSE FirstMount(typed, o, may)

\* selinux_cmp_sb_context() and selinux_sb_clone_mnt_opts(), to a superblock
\* that is already set up and to a new one.
selinux_cmp_sb_context(old, oldroot, new, newroot) ==
    LET flags == old.flags \cap Options
    IN IF flags = new.flags \cap Options
          /\ \A k \in flags : OldSid(old, oldroot, k) = OldSid(new, newroot, k)
       THEN "ok" ELSE "EBUSY"
selinux_sb_clone_mnt_opts(old, oldroot, new) ==
    LET s == [new EXCEPT !.flags = old.flags, !.sid = old.sid, !.def = old.def,
                         !.behavior = IF Native(new.type) /\ "ctx" \notin old.flags
                                      THEN "NATIVE" ELSE old.behavior]
        ctx == "ctx" \in old.flags
        c == IF ctx THEN [s EXCEPT !.mntpoint = old.mntpoint,
                                   !.sid = IF "fs" \in old.flags THEN @ ELSE old.mntpoint] ELSE s
    IN Result("ok", sb_finish_set_opts(c),
              IF "root" \in old.flags THEN oldroot ELSE IF ctx THEN old.mntpoint ELSE "kept")

\* Mutant: the default label is not compared.
Mutselinux_sb_mnt_opts_compat(sb, root, o) ==
    IF "init" \notin sb.flags THEN ~o.given
    ELSE IF ~o.given THEN sb.flags \cap Options = {}
    ELSE \A k \in Given(o) \ {"def"} : ~bad_option(sb, k, OldSid(sb, root, k), o[k])

\* May a new mount share this superblock?
selinux_sb_mnt_opts_compat(sb, root, o) ==
    IF "init" \notin sb.flags THEN ~o.given
    ELSE IF ~o.given THEN sb.flags \cap Options = {}
    ELSE ~Refused(sb, root, o)

selinux_sb_remount(sb, root, o) ==
    IF "init" \notin sb.flags \/ ~o.given \/ ~Refused(sb, root, o) THEN "ok" ELSE "EINVAL"

\* The options a submount takes over; rootcontext= is not one of them.
selinux_fs_context_submount(sb) ==
    LET take(k) == IF k \in sb.flags THEN OldSid(sb, NoSid, k) ELSE NoSid
    IN IF sb.flags \cap {"fs", "ctx", "def"} = {} THEN NoOpts
       ELSE Opt(take("fs"), take("ctx"), NoSid, take("def"))
=============================================================================
