---------------------------- MODULE MCLandlockFs ----------------------------
(***************************************************************************)
(* Instances of LandlockFs for TLC.                                        *)
(***************************************************************************)
EXTENDS LandlockFs, TLC

\* A ruleset with rules on some inodes.
Ruleset(inodes, handled, rules) ==
    [handled |-> handled,
     allowed |-> [k \in inodes |-> IF k \in DOMAIN rules THEN rules[k] ELSE {}]]

Use == {"READ_FILE", "EXECUTE"}
Name == {"MAKE_REG", "REMOVE_FILE", "MAKE_DIR", "REMOVE_DIR", "REFER"}

Types(inodes) ==
    [k \in inodes |-> CASE k = "pipe" -> "fifo" [] k \in {"f", "g", "ns"} -> "reg"
                        [] OTHER -> "dir"]

FilesOf(parent) == DOMAIN parent \ {"new"}
InodesOf(parent) == [d \in DOMAIN parent |-> IF d = "new" THEN NULL ELSE d]

CONSTANTS t1, t2
Symmetry == Permutations(Tasks)

\* A world without links and open files, where nothing is created.
World(parent, inodes, mounts, mroot, point, layers) ==
    [dentries |-> DOMAIN parent, inodes |-> inodes, files |-> {}, mounts |-> mounts,
     mroot |-> mroot, internal |-> {}, nouser |-> {}, links |-> {}, flags |-> {}, new |-> {},
     itype |-> Types(inodes), parent |-> parent, inode |-> InodesOf(parent), point |-> point,
     layers |-> layers, maxlayers |-> 1, ops |-> {}, actors |-> {t1, t2}]

-----------------------------------------------------------------------------
(* Two filesystems: root/mp, and on mp the mount disk with the root s and  *)
(* a/f and b/g below it.                                                   *)

DiskParent ==
    "root" :> "root" @@ "mp" :> "root" @@ "s" :> "s" @@ "a" :> "s" @@ "b" :> "s"
    @@ "f" :> "a" @@ "g" :> "b" @@ "new" :> NULL
DiskMRoot == "/" :> "root" @@ "disk" :> "s"
DiskPoint == "/" :> NULL @@ "disk" :> <<"/", "mp">>

\* Rulesets with rules on the root, on the hidden mp, on the root of the
\* mount, on both directories and on a file.
DiskLayers(inodes) ==
    {Ruleset(inodes, Use \cup Name, "root" :> r @@ "mp" :> {"EXECUTE"} @@ "s" :> Name
                            @@ "a" :> a @@ "b" :> b @@ "f" :> f) :
        r \in {{}, {"READ_FILE", "REFER"}}, a \in {{}, {"READ_FILE"}, Use},
        b \in {{}, {"EXECUTE"}}, f \in {{}, {"EXECUTE"}}}
    \cup
    {Ruleset(inodes, Use \cup Name, "s" :> {"READ_FILE"} @@ "a" :> a @@ "b" :> b) :
        a \in {Name, Name \ {"REFER"}}, b \in {Name, Name \ {"MAKE_REG"}}}
    \cup
    {Ruleset(inodes, {"READ_FILE"}, "a" :> {"READ_FILE"})}

Disk == [World(DiskParent, FilesOf(DiskParent), {"/", "disk"}, DiskMRoot, DiskPoint,
               DiskLayers(FilesOf(DiskParent))) EXCEPT !.maxlayers = 2, !.actors = {t1}]

-----------------------------------------------------------------------------
(* Names that change: root/a/mp with the mount disk, and root/b/f.         *)

NamesParent ==
    "root" :> "root" @@ "a" :> "root" @@ "b" :> "root" @@ "mp" :> "a" @@ "s" :> "s"
    @@ "f" :> "b" @@ "new" :> NULL
NamesPoint == "/" :> NULL @@ "disk" :> <<"/", "mp">>

\* Under these rulesets some, but not all, names may change.
NamesLayers(inodes) ==
    {Ruleset(inodes, Use \cup Name, "root" :> Name @@ "a" :> Use @@ "b" :> {"READ_FILE"}),
     Ruleset(inodes, Use \cup {"REFER"}, "root" :> {"EXECUTE", "REFER"} @@ "f" :> {"READ_FILE"})}

Names == [World(NamesParent, FilesOf(NamesParent) \cup {"g"}, {"/", "disk"}, DiskMRoot, NamesPoint,
                NamesLayers(FilesOf(NamesParent) \cup {"g"}))
          EXCEPT !.actors = {t1}, !.new = {"g"}, !.ops = {"name"}]

-----------------------------------------------------------------------------
(* Mounts that change: root/{a/f, b}, a mount bind of a, and the files     *)
(* pipe and ns that links of /proc lead to.                                *)

BindParent ==
    "root" :> "root" @@ "a" :> "root" @@ "b" :> "root" @@ "f" :> "a"
    @@ "pipe" :> "pipe" @@ "ns" :> "ns" @@ "new" :> NULL
BindMounts == {"/", "bind", "pipefs", "nsfs"}
BindMRoot == "/" :> "root" @@ "bind" :> "a" @@ "pipefs" :> "pipe" @@ "nsfs" :> "pipe"
BindPoint == [m \in BindMounts |-> NULL]
BindLinks == {<<"pipefs", "pipe">>, <<"nsfs", "ns">>}

\* Truncation is allowed below one of the directories only.
BindLayers(inodes) ==
    {Ruleset(inodes, {"READ_FILE", "WRITE_FILE", "TRUNCATE"},
             "a" :> {"WRITE_FILE", "TRUNCATE"} @@ "b" :> {"READ_FILE", "WRITE_FILE"})}

Bind == [World(BindParent, FilesOf(BindParent), BindMounts, BindMRoot, BindPoint,
               BindLayers(FilesOf(BindParent)))
         EXCEPT !.files = {"f1"}, !.internal = {"pipefs", "nsfs"}, !.nouser = {"pipe"},
                !.links = BindLinks, !.flags = {{"w"}},
                !.ops = {"open", "mount", "name"}]

-----------------------------------------------------------------------------
(* Directories that leave a mount while they are open: root/{a/c, b}, with *)
(* a mounted on b too, for two tasks; and root/{a/c/d, b} for one.         *)

HoldParent == "root" :> "root" @@ "a" :> "root" @@ "b" :> "root" @@ "c" :> "a" @@ "new" :> NULL
DeepParent == "d" :> "c" @@ HoldParent
HoldMRoot == "/" :> "root" @@ "bind" :> "a"
HoldPoint == "/" :> NULL @@ "bind" :> <<"/", "b">>

HoldLayers(inodes) ==
    {Ruleset(inodes, {"READ_DIR", "EXECUTE", "REFER"}, "a" :> {"READ_DIR"} @@ "c" :> {"REFER"})}

HoldWorld(parent, actors) ==
    [World(parent, FilesOf(parent), {"/", "bind"}, HoldMRoot, HoldPoint,
           HoldLayers(FilesOf(parent))) EXCEPT !.ops = {"hold", "name"}, !.actors = actors]

Hold == HoldWorld(HoldParent, {t1, t2})
Deep == HoldWorld(DeepParent, {t1})

-----------------------------------------------------------------------------
AllWorlds == "disk" :> Disk @@ "names" :> Names @@ "bind" :> Bind @@ "hold" :> Hold @@ "deep" :> Deep
=============================================================================
