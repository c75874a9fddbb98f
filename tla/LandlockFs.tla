----------------------------- MODULE LandlockFs -----------------------------
(***************************************************************************)
(* Filesystem access control: the path walks and the hooks of fs.c.        *)
(*                                                                         *)
(* Tasks restrict themselves, create, open, remove, link, rename and       *)
(* exchange files, and tasks without a domain change the mounts.  An       *)
(* operation is one action: the VFS holds the locks of the directories it  *)
(* changes around the hook and the change.                                 *)
(***************************************************************************)
EXTENDS LandlockAccess

CONSTANTS
    Tasks,
    RootMount,    \* the mount at the root of the mount namespace
    Worlds,       \* the instances by name: records of the fields below
    NULL

VARIABLES
    world,     \* the instance of this behaviour
    dparent,   \* dentry->d_parent, itself for the root of a filesystem, or NULL
    dinode,    \* dentry->d_inode, NULL if negative
    mpoint,    \* where a mount is attached: <<mount, dentry>>, or NULL
    dom,       \* the domain of a task, or NULL
    file,      \* open files: what hook_file_open() decided, or NULL
    dirfd      \* a directory that a task holds open: <<mount, dentry>>, or NULL

vars == <<world, dparent, dinode, mpoint, dom, file, dirfd>>

Dentries == world.dentries
Inodes == world.inodes
Files == world.files        \* struct file of open files
Mounts == world.mounts      \* struct vfsmount
MRoot == world.mroot        \* MRoot[m]: mnt->mnt_root
Internal == world.internal  \* mounts with MNT_INTERNAL
NoUser == world.nouser      \* dentries of SB_NOUSER filesystems or of private inodes
MagicLinks == world.links   \* where links of /proc lead: <<mount, dentry>>
OpenFlags == world.flags    \* ways to open a file: sets of "r", "w" and "x"
NewInodes == world.new      \* inodes that may be created
IType == world.itype        \* IType[k]: the type of inode k
Layers == world.layers      \* rulesets that tasks may enforce on themselves
MaxLayers == world.maxlayers \* LANDLOCK_MAX_NUM_LAYERS
Ops == world.ops            \* operations that the tasks use
Actors == world.actors      \* the tasks that do anything

ASSUME FsAssumption ==
    \A n \in DOMAIN Worlds :
        LET w == Worlds[n]
        IN  /\ RootMount \in w.mounts /\ w.mroot \in [w.mounts -> w.dentries]
            /\ w.internal \subseteq w.mounts /\ w.nouser \subseteq w.dentries
            /\ w.flags \subseteq SUBSET {"r", "w", "x"} /\ w.actors \subseteq Tasks
            /\ w.new \subseteq w.inodes /\ w.itype \in [w.inodes -> FileTypes]
            /\ NULL \notin w.dentries \cup w.inodes \cup Tasks
            /\ w.maxlayers \in Nat
            /\ \A l \in w.layers :
                  l.handled \subseteq Access /\ l.allowed \in [w.inodes -> SUBSET l.handled]

\* struct path
Positions == Mounts \X Dentries

NoLayer == [masks |-> <<>>, tree |-> [k \in Inodes |-> <<>>]]

Init ==
    /\ \E n \in DOMAIN Worlds : world = Worlds[n]
    /\ dparent = world.parent
    /\ dinode = world.inode
    /\ mpoint = world.point
    /\ dom = [t \in Tasks |-> NULL]
    /\ file = [f \in Files |-> NULL]
    /\ dirfd = [t \in Tasks |-> NULL]

-----------------------------------------------------------------------------
(* Paths                                                                   *)

Positive(d) == dinode[d] # NULL
ModeOf(d) == IType[dinode[d]]
IsDir(d) == ModeOf(d) = "dir"
IsRoot(d) == dparent[d] = d

\* follow_up() as often as the position is the root of its mount; NULL above
\* the root of the mount namespace.
FollowUp(pos) ==
    LET up[p \in Positions \cup {NULL}] ==
            IF p # NULL /\ p[2] = MRoot[p[1]] THEN up[mpoint[p[1]]] ELSE p
    IN  up[pos]

\* find_rule()
FindRule(domain, d) == IF Positive(d) THEN domain.tree[dinode[d]] ELSE <<>>

-----------------------------------------------------------------------------
(* What a domain grants, by definition.                                    *)

\* The positions of a path up to the root of the mount namespace, or to the
\* root of a filesystem that is not attached there.
OnPath(pos) ==
    LET above(p) == IF p[2] = MRoot[p[1]] THEN mpoint[p[1]]
                    ELSE IF IsRoot(p[2]) THEN NULL ELSE <<p[1], dparent[p[2]]>>
        path[p \in Positions] ==
            {p} \cup (IF above(p) = NULL THEN {} ELSE path[above(p)])
    IN  path[pos]

\* The dentries of a path, but for those that it only crosses because a
\* mount covers them.
Visible(pos) ==
    LET path == OnPath(pos)
        crossed == {mpoint[m] : m \in {n \in Mounts : <<n, MRoot[n]>> \in path}}
    IN  {p[2] : p \in path \ crossed}

\* Where a path ends if it does not lead to a root of a mount.
Disconnection(pos) == {p \in OnPath(pos) : IsRoot(p[2]) /\ p[2] # MRoot[p[1]]}

Connected(pos) == Disconnection(pos) = {}

\* The layers that deny a right: they handle it, and no rule of theirs on the
\* path grants it.
Denying(domain, pos) ==
    LET visible == Visible(pos) IN
    [a \in Access |->
        {i \in 1..NumLayers(domain) : a \in domain.masks[i] \cup ACCESS_INITIALLY_DENIED}
        \ UNION {Granting(FindRule(domain, d), a) : d \in visible}]

\* The rights that a path gives.
GrantedAccess(domain, pos) ==
    IF \/ domain = NULL
       \/ pos[2] \in NoUser
       \/ \E p \in Disconnection(pos) : p[1] \in Internal
    THEN Access
    ELSE LET denying == Denying(domain, pos) IN {a \in Access : denying[a] = {}}

-----------------------------------------------------------------------------
(* is_access_to_paths_allowed().  One iteration of its loop turns the walk  *)
(* w into the next: the position, is_dom_check, the two matrices, and the  *)
(* result once the walk is done.                                           *)

\* What the rule of a renamed or linked child leaves denied.
ChildMasks(domain, child) ==
    IF child = NULL THEN NoDenial
    ELSE UnmaskLayers(FindRule(domain, child), HandledRequest(domain, Access),
                      InitLayerMasks(domain, Access))

ChildIsDir(child) == child = NULL \/ IsDir(child)

Walk(domain) ==
    [mnt : Mounts, dentry : Dentries, is_dom_check : BOOLEAN,
     masks1 : Matrix(domain), masks2 : Matrix(domain), done : BOOLEAN, allowed : BOOLEAN]

\* Mutant: access to disconnected directories is allowed.
MutDisconnectedWalkUp(w) ==
    LET pos == FollowUp(<<w.mnt, w.dentry>>) IN
    IF pos = NULL THEN [w EXCEPT !.done = TRUE]
    ELSE IF IsRoot(pos[2]) THEN [w EXCEPT !.done = TRUE, !.allowed = TRUE]
    ELSE [w EXCEPT !.mnt = pos[1], !.dentry = dparent[pos[2]]]

\* The label jump_up.
WalkUp(w) ==
    LET pos == FollowUp(<<w.mnt, w.dentry>>) IN
    IF pos = NULL THEN [w EXCEPT !.done = TRUE]
    ELSE IF IsRoot(pos[2])
    THEN [w EXCEPT !.done = TRUE, !.allowed = pos[1] \in Internal]
    ELSE [w EXCEPT !.mnt = pos[1], !.dentry = dparent[pos[2]]]

Iterate(domain, request1, child1, request2, child2, w) ==
    LET no_more == /\ w.is_dom_check
                   /\ NoMoreAccess(w.masks1, ChildMasks(domain, child1), ChildIsDir(child1),
                                   w.masks2, ChildMasks(domain, child2), ChildIsDir(child2))
        scoped1 == IF no_more THEN ScopeToRequest(request1, w.masks1) ELSE w.masks1
        scoped2 == IF no_more THEN ScopeToRequest(request2, w.masks2) ELSE w.masks2
        dom_check == w.is_dom_check /\ ~no_more
        masked1 == IF dom_check THEN GetHandledAccesses(domain) ELSE request1
        masked2 == IF dom_check THEN GetHandledAccesses(domain) ELSE request2
        rule == FindRule(domain, w.dentry)
        next == [w EXCEPT !.is_dom_check = dom_check,
                          !.masks1 = UnmaskLayers(rule, masked1, scoped1),
                          !.masks2 = UnmaskLayers(rule, masked2, scoped2)]
    IN  IF no_more /\ scoped1 = NoDenial /\ scoped2 = NoDenial
        THEN [w EXCEPT !.masks1 = scoped1, !.masks2 = scoped2,
                       !.done = TRUE, !.allowed = TRUE]
        ELSE IF UnmaskAllows(rule, masked1, scoped1) /\ UnmaskAllows(rule, masked2, scoped2)
        THEN [next EXCEPT !.done = TRUE, !.allowed = TRUE]
        ELSE WalkUp(next)

\* The last state of the walk.  child1 is NULL for a simple request, child2
\* unless two files are exchanged.
IsAccessToPathsAllowed(domain, pos, request1, masks1, child1, request2, masks2, child2) ==
    LET w0 == [mnt |-> pos[1], dentry |-> pos[2], is_dom_check |-> child1 # NULL,
               masks1 |-> masks1, masks2 |-> masks2, done |-> FALSE, allowed |-> FALSE]
        walk[w \in Walk(domain)] ==
            IF w.done THEN w
            ELSE walk[Iterate(domain, request1, child1, request2, child2, w)]
    IN  IF request1 \cup request2 = {} \/ pos[2] \in NoUser
        THEN [w0 EXCEPT !.done = TRUE, !.allowed = TRUE]
        ELSE walk[w0]

\* A simple request, as the callers of check_access_path() make it.
SimpleWalk(domain, pos, request) ==
    IsAccessToPathsAllowed(domain, pos, HandledRequest(domain, request),
                           InitLayerMasks(domain, request), NULL, {}, NoDenial, NULL)

\* current_check_access_path()
CheckAccessPath(t, pos, request) ==
    IF dom[t] = NULL THEN TRUE ELSE SimpleWalk(dom[t], pos, request).allowed

-----------------------------------------------------------------------------
(* Renames and links                                                       *)

\* collect_domain_accesses(): the walk from a directory to the root of the
\* mount.
CollectDomainAccesses(domain, mnt_root, dir) ==
    LET access_dom == HandledRequest(domain, Access)
        c0 == [dir |-> dir, masks |-> InitLayerMasks(domain, Access),
               done |-> FALSE, ret |-> FALSE]
        step(c) ==
            LET rule == FindRule(domain, c.dir)
                next == [c EXCEPT !.masks = UnmaskLayers(rule, access_dom, @)]
            IN  IF UnmaskAllows(rule, access_dom, c.masks)
                THEN [next EXCEPT !.done = TRUE, !.ret = TRUE]
                ELSE IF c.dir = mnt_root \/ IsRoot(c.dir)
                THEN [next EXCEPT !.done = TRUE]
                ELSE [next EXCEPT !.dir = dparent[c.dir]]
        walk[c \in [dir : Dentries, masks : Matrix(domain), done : BOOLEAN, ret : BOOLEAN]] ==
            IF c.done THEN c ELSE walk[step(c)]
    IN  IF dir \in NoUser THEN [c0 EXCEPT !.masks = NoDenial, !.ret = TRUE]
        ELSE walk[c0]

\* maybe_remove()
MaybeRemove(d) == IF Positive(d) THEN RemoveAccess(ModeOf(d)) ELSE {}

\* The rights that a rename or a link requests on the parent of old_dentry
\* and on new_dir, but for REFER.
Request1(old, new, removable, exchange) ==
    (IF exchange THEN GetModeAccess(ModeOf(new)) ELSE {})
    \cup (IF removable THEN MaybeRemove(old) ELSE {})

Request2(old, new, removable) ==
    GetModeAccess(ModeOf(old)) \cup (IF removable THEN MaybeRemove(new) ELSE {})

\* current_check_refer_path(): "ok", "EACCES" or "EXDEV".
CheckReferPath(t, mnt, old, new_dir, new, removable, exchange) ==
    LET domain == dom[t]
        same_dir == dparent[old] = new_dir
        request1 == Request1(old, new, removable, exchange) \cup {"REFER"}
        request2 == Request2(old, new, removable) \cup {"REFER"}
        old_parent == IF old = MRoot[mnt] THEN old ELSE dparent[old]
        parent1 == CollectDomainAccesses(domain, MRoot[mnt], old_parent)
        parent2 == CollectDomainAccesses(domain, MRoot[mnt], new_dir)
        w == IsAccessToPathsAllowed(domain, <<mnt, MRoot[mnt]>>, request1, parent1.masks,
                 old, request2, parent2.masks, IF exchange THEN new ELSE NULL)
    IN  IF domain = NULL THEN "ok"
        ELSE IF same_dir
        THEN IF CheckAccessPath(t, <<mnt, new_dir>>, (request1 \cup request2) \ {"REFER"})
             THEN "ok" ELSE "EACCES"
        ELSE IF (parent1.ret /\ parent2.ret) \/ w.allowed THEN "ok"
        ELSE IF IsEacces(w.masks1, request1) \/ IsEacces(w.masks2, request2)
        THEN "EACCES" ELSE "EXDEV"

-----------------------------------------------------------------------------
(* Names.  A task reaches a dentry through an attached mount or from the   *)
(* directory that it holds open, wherever that directory was moved since.  *)

Ancestors(d) ==
    LET up[e \in Dentries] == {e} \cup (IF IsRoot(e) THEN {} ELSE up[dparent[e]])
    IN  up[d]

LookupRoots(t) ==
    {<<m, MRoot[m]>> : m \in {n \in Mounts : n = RootMount \/ mpoint[n] # NULL}}
    \cup MagicLinks \cup ({dirfd[t]} \ {NULL})

Nameable(t, mnt, d) ==
    Positive(d) /\ ({mnt} \X Ancestors(d)) \cap LookupRoots(t) # {}

IsMountPoint(d) == \E m \in Mounts : mpoint[m] # NULL /\ mpoint[m][2] = d

\* In use by someone: the VFS keeps such a dentry after its removal, which
\* this model leaves out.
Pinned(d) ==
    \/ \E m \in Mounts : MRoot[m] = d
    \/ \E t \in Tasks : dirfd[t] # NULL /\ dirfd[t][2] = d

Children(d) == {e \in Dentries : Positive(e) /\ dparent[e] = d /\ e # d}

\* A name that does not exist yet.
Unused(d) == dparent[d] = NULL

Target(new, new_dir) == Positive(new) /\ dparent[new] = new_dir /\ ~IsRoot(new)

-----------------------------------------------------------------------------
(* Operations                                                              *)

\* sys_landlock_restrict_self() with the rules of a ruleset, each of which
\* get_path_from_fd() and landlock_append_fs_rule() accepted.
Restrict(t, layer) ==
    LET domain == IF dom[t] = NULL THEN NoLayer ELSE dom[t] IN
    /\ NumLayers(domain) < MaxLayers
    /\ \A k \in Inodes : layer.allowed[k] # {} =>
          /\ IType[k] # "dir" => layer.allowed[k] \subseteq ACCESS_FILE
          /\ \E m \in Mounts, d \in Dentries :
                Nameable(t, m, d) /\ dinode[d] = k /\ m \notin Internal /\ d \notin NoUser
    /\ dom' = [dom EXCEPT ![t] = StackLayer(domain, layer)]
    /\ UNCHANGED <<world, dparent, dinode, mpoint, file, dirfd>>

\* hook_path_mkdir(), hook_path_mknod(), hook_path_symlink(); a new inode is
\* not one that some rule is tied to.
Create(t, mnt, dir, new, k) ==
    /\ Nameable(t, mnt, dir) /\ IsDir(dir)
    /\ Unused(new) /\ \A d \in Dentries : dinode[d] # k
    /\ \A u \in Tasks : dom[u] # NULL => dom[u].tree[k] = <<>>
    /\ CheckAccessPath(t, <<mnt, dir>>, GetModeAccess(IType[k]))
    /\ dparent' = [dparent EXCEPT ![new] = dir]
    /\ dinode' = [dinode EXCEPT ![new] = k]
    /\ UNCHANGED <<world, mpoint, dom, file, dirfd>>

Removable(d) ==
    ~IsRoot(d) /\ ~IsMountPoint(d) /\ ~Pinned(d) /\ Children(d) = {}

\* hook_path_unlink(), hook_path_rmdir()
Remove(t, mnt, d) ==
    /\ Nameable(t, mnt, d) /\ Removable(d) /\ d # MRoot[mnt]
    /\ CheckAccessPath(t, <<mnt, dparent[d]>>, RemoveAccess(ModeOf(d)))
    /\ dparent' = [dparent EXCEPT ![d] = NULL]
    /\ dinode' = [dinode EXCEPT ![d] = NULL]
    /\ UNCHANGED <<world, mpoint, dom, file, dirfd>>

\* What the VFS requires of a source and a destination directory.
MayMove(t, mnt, old, new_dir) ==
    /\ Nameable(t, mnt, old) /\ ~IsRoot(old) /\ old # MRoot[mnt]
    /\ Nameable(t, mnt, dparent[old])
    /\ Nameable(t, mnt, new_dir) /\ IsDir(new_dir)
    /\ old \notin Ancestors(new_dir) /\ ~IsMountPoint(old)

\* hook_path_link()
Link(t, mnt, old, new_dir, new) ==
    /\ Unused(new) /\ ~IsDir(old) /\ MayMove(t, mnt, old, new_dir)
    /\ CheckReferPath(t, mnt, old, new_dir, new, FALSE, FALSE) = "ok"
    /\ dparent' = [dparent EXCEPT ![new] = new_dir]
    /\ dinode' = [dinode EXCEPT ![new] = dinode[old]]
    /\ UNCHANGED <<world, mpoint, dom, file, dirfd>>

\* Names that a rename may give: unused, or replaced.
MayRename(t, mnt, old, new_dir, new) ==
    /\ \/ Unused(new)
       \/ /\ Target(new, new_dir) /\ new # old /\ new \notin Ancestors(old)
          /\ IsDir(new) = IsDir(old) /\ Removable(new)
    /\ MayMove(t, mnt, old, new_dir)

\* hook_path_rename()
Rename(t, mnt, old, new_dir, new) ==
    /\ MayRename(t, mnt, old, new_dir, new)
    /\ CheckReferPath(t, mnt, old, new_dir, new, TRUE, FALSE) = "ok"
    /\ dparent' = [dparent EXCEPT ![old] = new_dir, ![new] = NULL]
    /\ dinode' = [dinode EXCEPT ![new] = NULL]
    /\ UNCHANGED <<world, mpoint, dom, file, dirfd>>

MayExchange(t, mnt, old, new_dir, new) ==
    /\ Target(new, new_dir) /\ new # old /\ ~IsMountPoint(new)
    /\ new # MRoot[mnt] /\ new \notin Ancestors(old)
    /\ MayMove(t, mnt, old, new_dir)

\* hook_path_rename() with RENAME_EXCHANGE
Exchange(t, mnt, old, new_dir, new) ==
    /\ MayExchange(t, mnt, old, new_dir, new)
    /\ CheckReferPath(t, mnt, old, new_dir, new, TRUE, TRUE) = "ok"
    /\ dparent' = [dparent EXCEPT ![old] = new_dir, ![new] = dparent[old]]
    /\ UNCHANGED <<world, dinode, mpoint, dom, file, dirfd>>

-----------------------------------------------------------------------------
(* Open files                                                              *)

\* Mutant: the rights of the whole request are recorded.
MutAllowedAtOpen(t, pos, flags) ==
    IF dom[t] = NULL THEN Access
    ELSE RequiredOpenAccess(ModeOf(pos[2]), flags) \cup {"TRUNCATE"}

\* The rights that hook_file_alloc_security() and hook_file_open() record.
AllowedAtOpen(t, pos, flags) ==
    LET full == RequiredOpenAccess(ModeOf(pos[2]), flags) \cup {"TRUNCATE"}
        w == SimpleWalk(dom[t], pos, full)
    IN  IF dom[t] = NULL THEN Access
        ELSE IF w.allowed THEN full ELSE {a \in full : w.masks1[a] = {}}

\* granted is history: the rights that the path gave to the opener.
Open(t, mnt, d, f, flags) ==
    /\ Nameable(t, mnt, d) /\ file[f] = NULL
    /\ IsDir(d) => flags = {"r"}
    /\ LET allowed == AllowedAtOpen(t, <<mnt, d>>, flags) IN
       /\ RequiredOpenAccess(ModeOf(d), flags) \subseteq allowed
       /\ file' = [file EXCEPT ![f] = [allowed_access |-> allowed,
                     granted |-> GrantedAccess(dom[t], <<mnt, d>>)]]
    /\ UNCHANGED <<world, dparent, dinode, mpoint, dom, dirfd>>

Close(f) ==
    /\ file[f] # NULL
    /\ file' = [file EXCEPT ![f] = NULL]
    /\ UNCHANGED <<world, dparent, dinode, mpoint, dom, dirfd>>

\* hook_file_truncate()
MayFtruncate(f) == "TRUNCATE" \in file[f].allowed_access

\* open(2) of a directory with O_PATH: nothing is requested.
HoldDir(t, mnt, d) ==
    /\ Nameable(t, mnt, d) /\ IsDir(d) /\ dirfd[t] = NULL
    /\ dirfd' = [dirfd EXCEPT ![t] = <<mnt, d>>]
    /\ UNCHANGED <<world, dparent, dinode, mpoint, dom, file>>

\* hook_sb_mount(), hook_move_mount(): only tasks without a domain.
Mount(t, m, mnt, d) ==
    /\ dom[t] = NULL
    /\ m \notin Internal \cup {RootMount, mnt} /\ mpoint[m] = NULL
    /\ mnt = RootMount \/ mpoint[mnt] # NULL
    /\ Positive(d) /\ IsDir(d) /\ MRoot[mnt] \in Ancestors(d)
    /\ mpoint' = [mpoint EXCEPT ![m] = <<mnt, d>>]
    /\ UNCHANGED <<world, dparent, dinode, dom, file, dirfd>>

\* hook_sb_umount()
Umount(t, m) ==
    /\ dom[t] = NULL
    /\ mpoint[m] # NULL
    /\ \A n \in Mounts : mpoint[n] # NULL => mpoint[n][1] # m
    /\ \A u \in Tasks : dirfd[u] # NULL => dirfd[u][1] # m
    /\ mpoint' = [mpoint EXCEPT ![m] = NULL]
    /\ UNCHANGED <<world, dparent, dinode, dom, file, dirfd>>

FsStep(t, mnt) ==
    LET names == {d \in Dentries : Nameable(t, mnt, d)}
        dirs == {d \in names : IsDir(d)}
    IN  \/ \E dir \in dirs, new \in Dentries, k \in NewInodes : Create(t, mnt, dir, new, k)
        \/ \E d \in names : Remove(t, mnt, d)
        \/ \E old \in names, dir \in dirs, new \in Dentries : Link(t, mnt, old, dir, new)
        \/ \E old \in names, dir \in dirs, new \in Dentries : Rename(t, mnt, old, dir, new)
        \/ \E old \in names, dir \in dirs, new \in names : Exchange(t, mnt, old, dir, new)

Next ==
    \E t \in Actors :
       \/ \E layer \in Layers : Restrict(t, layer)
       \/ "name" \in Ops /\ \E mnt \in Mounts : FsStep(t, mnt)
       \/ "open" \in Ops /\ \E mnt \in Mounts, d \in Dentries, f \in Files :
             \E flags \in OpenFlags : Open(t, mnt, d, f, flags)
       \/ "open" \in Ops /\ \E f \in Files : Close(f)
       \/ "hold" \in Ops /\ \E mnt \in Mounts, d \in Dentries : HoldDir(t, mnt, d)
       \/ "mount" \in Ops /\ \E m, mnt \in Mounts, d \in Dentries : Mount(t, m, mnt, d)
       \/ "mount" \in Ops /\ \E m \in Mounts : Umount(t, m)

Spec == Init /\ [][Next]_vars

-----------------------------------------------------------------------------
(* Properties                                                              *)

\* A simple path walk finds for every right exactly the layers that deny it by
\* definition, and grants a request exactly if no layer denies it, across
\* mounts, hidden mount points and disconnected directories:
\* is_access_to_paths_allowed() and unmask_layers().
WalkExact ==
    \A t \in Tasks, pos \in Positions :
        dom[t] # NULL /\ Nameable(t, pos[1], pos[2]) =>
            /\ pos[2] \notin NoUser =>
                  SimpleWalk(dom[t], pos, Access).masks1 = Denying(dom[t], pos)
            /\ LET handled == GetHandledAccesses(dom[t])
                   granted == GrantedAccess(dom[t], pos)
               IN  /\ \A a \in handled : CheckAccessPath(t, pos, {a}) <=> a \in granted
                   /\ Access \ handled \subseteq granted
                   /\ CheckAccessPath(t, pos, Access \ handled)

\* The renames, links and exchanges of a task that the VFS asks about, on
\* paths that lead to the root.
Refers(t) ==
    LET moves == {m \in [mnt : Mounts, old : Dentries, dir : Dentries] :
                     /\ MayMove(t, m.mnt, m.old, m.dir)
                     /\ Connected(<<m.mnt, m.old>>) /\ Connected(<<m.mnt, m.dir>>)}
        refer(m, new, kind) == [mnt |-> m.mnt, old |-> m.old, dir |-> m.dir, new |-> new,
                                removable |-> kind # "link", exchange |-> kind = "exchange"]
    IN  UNION {
          {refer(m, new, "link") : new \in {n \in Dentries : ~IsDir(m.old) /\ Unused(n)}}
          \cup {refer(m, new, "rename") :
                  new \in {n \in Dentries : MayRename(t, m.mnt, m.old, m.dir, n)}}
          \cup {refer(m, new, "exchange") :
                  new \in {n \in Dentries : MayExchange(t, m.mnt, m.old, m.dir, n)}}
          : m \in moves}

Answer(t, r) == CheckReferPath(t, r.mnt, r.old, r.dir, r.new, r.removable, r.exchange)

Reparents(r) == dparent[r.old] # r.dir

\* The paths of both directories give the rights to create and to remove, and
\* a set of others.
GrantedOnBoth(t, r, others) ==
    /\ others \cup Request1(r.old, r.new, r.removable, r.exchange)
          \subseteq GrantedAccess(dom[t], <<r.mnt, dparent[r.old]>>)
    /\ others \cup Request2(r.old, r.new, r.removable)
          \subseteq GrantedAccess(dom[t], <<r.mnt, r.dir>>)

\* Some right that a layer denies on a file is not denied below a directory.
Inherits(t, mnt, child, dir) ==
    \E a \in Meaningful(IsDir(child)) :
        ~(Denying(dom[t], <<mnt, child>>)[a] \subseteq Denying(dom[t], <<mnt, dir>>)[a])

Gains(t, r) ==
    \/ Inherits(t, r.mnt, r.old, r.dir)
    \/ r.exchange /\ Inherits(t, r.mnt, r.new, dparent[r.old])

Sandboxed == {t \in Tasks : dom[t] # NULL}

\* A rename, link or exchange is only allowed if the paths of both directories
\* give all rights that it needs, and if neither file inherits from its new
\* place a right that some layer denied at its old one: the comment of
\* current_check_refer_path().
ReferSound(t, r, answer) ==
    answer = "ok" =>
        /\ GrantedOnBoth(t, r, IF Reparents(r) THEN {"REFER"} ELSE {})
        /\ Reparents(r) => ~Gains(t, r)

\* A refused rename, link or exchange reports EACCES exactly if a right to
\* create or to remove is missing on one of the paths, so that EXDEV lets the
\* caller fall back to copying: is_eacces().
EaccesFirst(t, r, answer) ==
    answer # "ok" => (answer = "EXDEV") = GrantedOnBoth(t, r, {})

\* What current_check_refer_path() answers, allowed or refused.
ReferExact ==
    Ops = {} => \A t \in Sandboxed : \A r \in Refers(t) :
        \E answer \in {Answer(t, r)} : ReferSound(t, r, answer) /\ EaccesFirst(t, r, answer)

\* What ftruncate(2) may do with an open file, whoever holds it, is what the
\* path gave to the opener at that time, whatever became of the path, of the
\* mounts and of the opener's domain since: hook_file_open() and
\* hook_file_truncate().
OpenExact ==
    \A f \in Files : file[f] # NULL =>
        /\ file[f].allowed_access \subseteq file[f].granted
        /\ MayFtruncate(f) = ("TRUNCATE" \in file[f].granted)

NamesOf(mnt, k) == {d \in Dentries : dinode[d] = k /\ MRoot[mnt] \in Ancestors(d)}

\* The rights that the names in a mount give on an inode.
RightsOn(t, mnt, k) ==
    UNION {GrantedAccess(dom[t], <<mnt, d>>) : d \in NamesOf(mnt, k)}

\* No change of names by a task in a domain gives the task a right on an existing
\* file that it did not have, whatever it creates, removes, links, renames or
\* exchanges, and in whichever mount: current_check_refer_path().
NoGain ==
    [][Ops = {"name"} /\ Actors = Sandboxed /\ <<dom, mpoint>>' = <<dom, mpoint>> =>
          \A t \in Sandboxed, mnt \in Mounts, k \in Inodes : NamesOf(mnt, k) # {} =>
              (RightsOn(t, mnt, k)' \ RightsOn(t, mnt, k)) \cap Meaningful(IType[k] = "dir")
                 = {}]_vars
=============================================================================
