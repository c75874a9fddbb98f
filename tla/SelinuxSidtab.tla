--------------------------- MODULE SelinuxSidtab ---------------------------
(***************************************************************************)
(* The SID table of SELinux (ss/sidtab.c) and the conversion of contexts   *)
(* between policies (ss/services.c), as operators on the value of a table. *)
(* SelinuxServer has the tasks that call them and the locks they take.     *)
(*                                                                         *)
(* A context is the name user space gives it and `len', TRUE where the     *)
(* policy could not interpret the name and the table keeps the string.     *)
(* SID 0 is SECSID_NULL, SID 1 the initial SID of unlabelled objects, and  *)
(* the other SIDs number the entries of the table.                         *)
(***************************************************************************)
EXTENDS Integers, Sequences, FiniteSets

CONSTANTS
    Contexts,    \* names of contexts
    Unlabeled,   \* the context of the initial SID, valid in every policy
    SIDTAB_MAX,  \* entries a table can have
    NULL

SECSID_NULL == 0
SECINITSID_UNLABELED == 1
index_to_sid(index) == index + 1     \* entries are numbered from 1 here
sid_to_index(sid) == sid - 1

mapped(c) == [name |-> c, len |-> FALSE]
unmapped(c) == [name |-> c, len |-> TRUE]

\* A table after policydb_load_isids(): the hash lists SIDs, latest first.
sidtab_init ==
    [entry |-> <<>>, hash |-> <<SECINITSID_UNLABELED>>, frozen |-> FALSE, convert |-> NULL]

ContextOf(s, sid) ==
    IF sid = SECINITSID_UNLABELED THEN mapped(Unlabeled) ELSE s.entry[sid_to_index(sid)]

\* The first entry of the hash chain with an equal context, or SECSID_NULL.
context_to_sid(s, context) ==
    LET at == {i \in DOMAIN s.hash : ContextOf(s, s.hash[i]) = context} IN
    IF at = {} THEN SECSID_NULL
    ELSE s.hash[CHOOSE i \in at : \A j \in at : i <= j]

\* An unknown SID, and without `force' an uninterpreted one, is unlabelled.
sidtab_search_core(s, sid, force) ==
    IF /\ sid # SECSID_NULL
       /\ sid_to_index(sid) <= Len(s.entry)
       /\ force \/ ~ContextOf(s, sid).len
    THEN ContextOf(s, sid) ELSE mapped(Unlabeled)

-----------------------------------------------------------------------------
(* A policy image has the contexts whose user, role and type it knows, and *)
(* those of them it accepts as valid.                                      *)

Accepts(image, c) == c = Unlabeled \/ c \in image.known \cap image.valid

\* Parsing overwrites the colons of the string, so that a string that was
\* parsed before has no role any more: -EINVAL.
string_to_context_struct(image, c, garbled) == ~garbled /\ Accepts(image, c)

services_convert_context(image, ctx, enforcing) ==
    IF ctx.len
    THEN IF string_to_context_struct(image, ctx.name, FALSE)
         THEN mapped(ctx.name) ELSE ctx
    ELSE IF \/ ctx.name # Unlabeled /\ ctx.name \notin image.known
            \/ enforcing /\ ~Accepts(image, ctx.name)
         THEN unmapped(ctx.name) ELSE ctx

-----------------------------------------------------------------------------
(* Filling, converting and freezing a table.  `tabs' are all the tables.   *)

\* Mutant: an insertion forgets the table being built.
Mutsidtab_insert(tabs, g, ctx, image, enforcing) ==
    [tabs EXCEPT ![g].entry = Append(@, ctx),
                 ![g].hash = <<index_to_sid(Len(tabs[g].entry) + 1)>> \o @]

\* The locked part of sidtab_context_to_sid(): a new entry, in the target of a
\* conversion under way as well.
sidtab_insert(tabs, g, ctx, image, enforcing) ==
    LET s == tabs[g]
        sid == index_to_sid(Len(s.entry) + 1)
        grown(tab, c) == [tab EXCEPT !.entry = Append(@, c), !.hash = <<sid>> \o @]
    IN [x \in DOMAIN tabs |->
          IF x = g THEN grown(s, ctx)
          ELSE IF x = s.convert
               THEN grown(tabs[x], services_convert_context(image, ctx, enforcing))
          ELSE tabs[x]]

\* Under the lock: the target takes the count, and new entries go to both.
sidtab_convert(tabs, g, target) ==
    [tabs EXCEPT ![target] = [sidtab_init EXCEPT !.entry =
                              [i \in DOMAIN tabs[g].entry |-> mapped(NULL)]],
                 ![g].convert = target]

\* Outside the lock, one entry after the other.
sidtab_convert_tree(tabs, g, target, pos, image, enforcing) ==
    [tabs EXCEPT ![target].entry[pos] =
        services_convert_context(image, tabs[g].entry[pos], enforcing)]

sidtab_convert_hashtable(tabs, target, count) ==
    [tabs EXCEPT ![target].hash =
        [i \in 1 .. count |-> index_to_sid(count + 1 - i)] \o @]

sidtab_cancel_convert(tabs, g) == [tabs EXCEPT ![g].convert = NULL]

sidtab_freeze_begin(tabs, g) ==
    [tabs EXCEPT ![g].frozen = TRUE, ![g].convert = NULL]
=============================================================================
