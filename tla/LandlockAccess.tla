--------------------------- MODULE LandlockAccess ---------------------------
(***************************************************************************)
(* Access rights and layer masks: the pure functions of fs.c.              *)
(*                                                                         *)
(* A domain is a record: masks[i] are the rights that layer i handles      *)
(* (fs_access_masks[]), tree[k] the layers of the rule of inode k, <<>> if *)
(* there is none.  A matrix of layer masks maps every right to the layers  *)
(* that still deny it (layer_mask_t[LANDLOCK_NUM_ACCESS_FS]).              *)
(***************************************************************************)
EXTENDS Naturals, Sequences

ACCESS_FILE == {"EXECUTE", "WRITE_FILE", "READ_FILE", "TRUNCATE"}

ACCESS_INITIALLY_DENIED == {"REFER"}

\* LANDLOCK_MASK_ACCESS_FS
Access ==
    ACCESS_FILE \cup ACCESS_INITIALLY_DENIED \cup
    {"READ_DIR", "REMOVE_DIR", "REMOVE_FILE", "MAKE_CHAR", "MAKE_DIR", "MAKE_REG",
     "MAKE_SOCK", "MAKE_FIFO", "MAKE_BLOCK", "MAKE_SYM"}

NumLayers(dom) == Len(dom.masks)

Matrix(dom) == [Access -> SUBSET (1..NumLayers(dom))]

NoDenial == [a \in Access |-> {}]

\* init_layer_masks(): the matrix...
InitLayerMasks(dom, request) ==
    [a \in Access |-> {i \in 1..NumLayers(dom) :
        a \in request /\ a \in dom.masks[i] \cup ACCESS_INITIALLY_DENIED}]

\* ...and the returned rights, those of the request that some layer handles.
HandledRequest(dom, request) ==
    {a \in Access : InitLayerMasks(dom, request)[a] # {}}

\* get_handled_accesses()
GetHandledAccesses(dom) ==
    ACCESS_INITIALLY_DENIED \cup UNION {dom.masks[i] : i \in 1..NumLayers(dom)}

\* The layers of a rule that grant a right.
Granting(rule, a) ==
    {rule[k].level : k \in {j \in 1..Len(rule) : a \in rule[j].access}}

\* unmask_layers(): the matrix afterwards...
UnmaskLayers(rule, request, masks) ==
    [a \in Access |->
        IF a \in request THEN masks[a] \ Granting(rule, a) ELSE masks[a]]

\* ...and the returned value.  Without a rule a request is not granted.
UnmaskAllows(rule, request, masks) ==
    \/ request = {}
    \/ /\ rule # <<>>
       /\ \A a \in request : UnmaskLayers(rule, request, masks)[a] = {}

\* The rights of a child that no_more_access() compares.
Meaningful(is_directory) == IF is_directory THEN Access ELSE ACCESS_FILE

\* Mutant: an exchange is checked in one direction only.
MutNoMoreAccess(parent1, child1, is_dir1, parent2, child2, is_dir2) ==
    \A a \in Meaningful(is_dir1) : parent1[a] \cap child1[a] \subseteq parent2[a]

\* no_more_access(); child2 is NoDenial unless two files are exchanged.
NoMoreAccess(parent1, child1, is_dir1, parent2, child2, is_dir2) ==
    /\ \A a \in Meaningful(is_dir1) : parent1[a] \cap child1[a] \subseteq parent2[a]
    /\ \A a \in Meaningful(is_dir2) : parent2[a] \cap child2[a] \subseteq parent1[a]

\* scope_to_request(): the matrix; the request is allowed if it is NoDenial.
ScopeToRequest(request, masks) ==
    [a \in Access |-> IF a \in request THEN masks[a] ELSE {}]

\* Mutant: a missing right to refer is reported like any other.
MutIsEacces(masks, request) == \E a \in request : masks[a] # {}

\* is_eacces()
IsEacces(masks, request) == \E a \in request \ {"REFER"} : masks[a] # {}

-----------------------------------------------------------------------------
(* Which rights an operation requests, by type of file.                    *)

FileTypes == {"lnk", "dir", "chr", "blk", "fifo", "sock", "reg"}

GetModeAccess(mode) ==
    CASE mode = "lnk"  -> {"MAKE_SYM"}   [] mode = "dir"  -> {"MAKE_DIR"}
      [] mode = "chr"  -> {"MAKE_CHAR"}  [] mode = "blk"  -> {"MAKE_BLOCK"}
      [] mode = "fifo" -> {"MAKE_FIFO"}  [] mode = "sock" -> {"MAKE_SOCK"}
      [] OTHER -> {"MAKE_REG"}

RemoveAccess(mode) == IF mode = "dir" THEN {"REMOVE_DIR"} ELSE {"REMOVE_FILE"}

\* get_required_file_open_access(); flags is a subset of {"r", "w", "x"}.
RequiredOpenAccess(mode, flags) ==
    IF "r" \in flags /\ mode = "dir" THEN {"READ_DIR"}
    ELSE {a \in {"READ_FILE", "WRITE_FILE", "EXECUTE"} :
             \/ a = "READ_FILE" /\ "r" \in flags
             \/ a = "WRITE_FILE" /\ "w" \in flags
             \/ a = "EXECUTE" /\ "x" \in flags}

-----------------------------------------------------------------------------
(* How a domain grows: landlock_append_fs_rule() and merge_ruleset(), as   *)
(* LandlockRuleset models them in detail.                                  *)

\* The rights of a rule, with those that its ruleset does not handle.
AbsoluteAccess(handled, allowed) ==
    allowed \cup (Access \ (handled \cup ACCESS_INITIALLY_DENIED))

\* A layer is a set of handled rights and the rights that rules allow; {} for
\* an inode without a rule.
StackLayer(dom, layer) ==
    LET n == NumLayers(dom) + 1 IN
    [masks |-> Append(dom.masks, layer.handled),
     tree |-> [k \in DOMAIN dom.tree |->
         IF layer.allowed[k] = {} THEN dom.tree[k]
         ELSE Append(dom.tree[k], [level |-> n, access |->
                  AbsoluteAccess(layer.handled, layer.allowed[k])])]]
=============================================================================
