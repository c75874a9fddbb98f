--------------------------- MODULE SelinuxPolicydb ---------------------------
(***************************************************************************)
(* The binary policy (ss/policydb.c, and the reading and writing parts of  *)
(* ss/avtab.c and ss/conditional.c).  For each kind of entry, x_write()    *)
(* gives the fields written and x_read() the fields the reader takes, for  *)
(* an entry of that shape in a policy of version v; the two are separate   *)
(* code that must agree for every version.  The reader's checks, on which  *)
(* the rest of the server relies, are the operators after them.            *)
(*                                                                         *)
(* An entry is reduced to what decides its layout: a range to the number   *)
(* of its levels (one when they are equal), a class to its common, its     *)
(* permissions and constraints, a rule to whether it has extended          *)
(* permissions, and so on.                                                 *)
(***************************************************************************)
EXTENDS Integers, FiniteSetsExt, SequencesExt

CONSTANTS CEXPR_MAXDEPTH, POLICYDB_BOUNDS_MAXDEPTH

VALIDATETRANS == 19
MLS == 19
AVTAB == 20
RANGETRANS == 21
POLCAP == 22
PERMISSIVE == 23
BOUNDARY == 24
FILENAME_TRANS == 25
ROLETRANS == 26
NEW_OBJECT_DEFAULTS == 27
DEFAULT_TYPE == 28
CONSTRAINT_NAMES == 29
XPERMS_IOCTL == 30
INFINIBAND == 31
COMP_FTRANS == 33
WritableVersions == AVTAB..COMP_FTRANS

Since(v, version, fields) == IF v >= version THEN fields ELSE <<>>
Each(list, Layout(_)) == FlattenSeq([i \in DOMAIN list |-> Layout(list[i])])
Times(n, fields) == FlattenSeq([i \in 1..n |-> fields])

-----------------------------------------------------------------------------
(* Levels, ranges and contexts.                                            *)

mls_read_level == <<"sens", "ebitmap">>
mls_write_level == <<"sens", "ebitmap">>
mls_read_range_helper(items) ==
    <<"items", "sens">> \o (IF items > 1 THEN <<"sens">> ELSE <<>>)
    \o <<"ebitmap">> \o (IF items > 1 THEN <<"ebitmap">> ELSE <<>>)
mls_write_range_helper(items) ==
    IF items = 1 THEN <<"items", "sens", "ebitmap">>
    ELSE <<"items", "sens", "sens", "ebitmap", "ebitmap">>
context_read(v, range) ==
    <<"user", "role", "type">> \o Since(v, MLS, mls_read_range_helper(range))
context_write(v, range) == <<"user", "role", "type">> \o mls_write_range_helper(range)

-----------------------------------------------------------------------------
(* Symbols.                                                                *)

perm_read == <<"len", "value", "key">>
perm_write == <<"len", "value", "key">>
common_read(c) == <<"len", "value", "nprim", "nel", "key">> \o Times(c.perms, perm_read)
common_write(c) == <<"len", "value", "nprim", "nel", "key">> \o Times(c.perms, perm_write)

\* A constraint is the sequence of the kinds of its expression's elements.
type_set == <<"ebitmap", "ebitmap", "flags">>
read_cons_helper(v, cons) ==
    Each(cons, LAMBDA c : <<"permissions", "nexpr">> \o
        Each(c, LAMBDA e : <<"expr_type", "attr", "op">> \o
            (IF e = "names" THEN <<"ebitmap">> \o Since(v, CONSTRAINT_NAMES, type_set) ELSE <<>>)))
write_cons_helper(v, cons) ==
    Each(cons, LAMBDA c : <<"permissions", "nexpr">> \o
        Each(c, LAMBDA e : <<"expr_type", "attr", "op">> \o
            (CASE e = "names" /\ v >= CONSTRAINT_NAMES -> <<"ebitmap">> \o type_set
               [] e = "names" -> <<"ebitmap">>
               [] OTHER -> <<>>)))
class_read(v, c) ==
    <<"len", "len2", "value", "nprim", "nel", "ncons", "key">>
    \o (IF c.comkey THEN <<"comkey">> ELSE <<>>)
    \o Times(c.perms, perm_read) \o read_cons_helper(v, c.constraints)
    \o Since(v, VALIDATETRANS, <<"ncons">> \o read_cons_helper(v, c.validatetrans))
    \o Since(v, NEW_OBJECT_DEFAULTS, <<"default_user", "default_role", "default_range">>)
    \o Since(v, DEFAULT_TYPE, <<"default_type">>)
class_write(v, c) ==
    <<"len", "len2", "value", "nprim", "nel", "ncons", "key">>
    \o (IF c.comkey THEN <<"comkey">> ELSE <<>>)
    \o Times(c.perms, perm_write) \o write_cons_helper(v, c.constraints)
    \o <<"ncons">> \o write_cons_helper(v, c.validatetrans)
    \o Since(v, NEW_OBJECT_DEFAULTS, <<"default_user", "default_role", "default_range">>)
    \o Since(v, DEFAULT_TYPE, <<"default_type">>)

role_read(v) ==
    <<"len", "value">> \o Since(v, BOUNDARY, <<"bounds">>) \o <<"key", "ebitmap", "ebitmap">>
role_write(v) ==
    <<"len", "value">> \o Since(v, BOUNDARY, <<"bounds">>) \o <<"key", "ebitmap", "ebitmap">>
type_read(v) ==
    IF v >= BOUNDARY THEN <<"len", "value", "properties", "bounds", "key">>
    ELSE <<"len", "value", "primary", "key">>
type_write(v) ==
    <<"len", "value">> \o (IF v >= BOUNDARY THEN <<"properties", "bounds">> ELSE <<"primary">>)
    \o <<"key">>
user_read(v, range) ==
    <<"len", "value">> \o Since(v, BOUNDARY, <<"bounds">>) \o <<"key", "ebitmap">>
    \o Since(v, MLS, mls_read_range_helper(range) \o mls_read_level)
user_write(v, range) ==
    <<"len", "value">> \o Since(v, BOUNDARY, <<"bounds">>) \o <<"key", "ebitmap">>
    \o mls_write_range_helper(range) \o mls_write_level
cond_read_bool == <<"value", "state", "len", "key">>
cond_write_bool == <<"value", "state", "len", "key">>
sens_read == <<"len", "isalias", "key">> \o mls_read_level
sens_write == <<"len", "isalias", "key">> \o mls_write_level
cat_read == <<"len", "value", "isalias", "key">>
cat_write == <<"len", "value", "isalias", "key">>

\* read_f and write_f: the eight symbol tables, each after its two counts.
SymtabsRead(p) ==
    LET v == p.v
        Table(fields) == <<"nprim", "nel">> \o fields
    IN Table(Each(p.commons, common_read)) \o Table(Each(p.classes, LAMBDA c : class_read(v, c)))
       \o Table(Times(p.nroles, role_read(v))) \o Table(Times(p.ntypes, type_read(v)))
       \o Table(Each(p.users, LAMBDA r : user_read(v, r))) \o Table(Times(p.nbools, cond_read_bool))
       \o Table(Times(p.nlevels, sens_read)) \o Table(Times(p.ncats, cat_read))
SymtabsWrite(p) ==
    LET v == p.v
        Table(fields) == <<"nprim", "nel">> \o fields
    IN Table(Each(p.commons, common_write)) \o Table(Each(p.classes, LAMBDA c : class_write(v, c)))
       \o Table(Times(p.nroles, role_write(v))) \o Table(Times(p.ntypes, type_write(v)))
       \o Table(Each(p.users, LAMBDA r : user_write(v, r)))
       \o Table(Times(p.nbools, cond_write_bool))
       \o Table(Times(p.nlevels, sens_write)) \o Table(Times(p.ncats, cat_write))

-----------------------------------------------------------------------------
(* Rules.                                                                  *)

\* Versions before AVTAB, which pack several rules in one item, are never
\* written.  An item with extended permissions is refused before XPERMS_IOCTL.
avtab_read_item(v, xperms) ==
    <<"source", "target", "class", "specified">>
    \o (CASE xperms /\ v < XPERMS_IOCTL -> <<"refused">>
          [] xperms -> <<"xspecified", "driver", "perms">>
          [] OTHER -> <<"data">>)
avtab_write_item(xperms) ==
    <<"source", "target", "class", "specified">>
    \o (IF xperms THEN <<"xspecified", "driver", "perms">> ELSE <<"data">>)
avtab_read(v, te) == <<"nel">> \o Each(te, LAMBDA x : avtab_read_item(v, x))
avtab_write(te) == <<"nel">> \o Each(te, avtab_write_item)

cond_read_list(v, conds) ==
    <<"len">> \o Each(conds, LAMBDA c :
        <<"cur_state", "len">> \o Times(c.expr, <<"expr_type", "boolean">>)
        \o <<"len">> \o Each(c.true_list, LAMBDA x : avtab_read_item(v, x))
        \o <<"len">> \o Each(c.false_list, LAMBDA x : avtab_read_item(v, x)))
cond_write_node(c) ==
    <<"cur_state", "len">> \o Times(c.expr, <<"expr_type", "boolean">>)
    \o <<"len">> \o Each(c.true_list, avtab_write_item)
    \o <<"len">> \o Each(c.false_list, avtab_write_item)
cond_write_list(conds) == <<"len">> \o Each(conds, cond_write_node)

role_trans_read(v, n) ==
    <<"nel">> \o Times(n, <<"role", "type", "new_role">> \o Since(v, ROLETRANS, <<"tclass">>))
role_trans_write(v, n) ==
    <<"nel">> \o Times(n, <<"role", "type", "new_role">> \o Since(v, ROLETRANS, <<"tclass">>))
role_allow_read(n) == <<"nel">> \o Times(n, <<"role", "new_role">>)
role_allow_write(n) == <<"nel">> \o Times(n, <<"role", "new_role">>)

range_read(v, ranges) ==
    Since(v, MLS, <<"nel">> \o Each(ranges, LAMBDA r :
        <<"source", "target">> \o Since(v, RANGETRANS, <<"class">>) \o mls_read_range_helper(r)))

\* Mutant: the class is written whatever the version.
Mutrange_write_helper(v, r) == <<"source", "target", "class">> \o mls_write_range_helper(r)

range_write_helper(v, r) ==
    <<"source", "target">> \o Since(v, RANGETRANS, <<"class">>) \o mls_write_range_helper(r)

range_write(v, ranges) == <<"nel">> \o Each(ranges, LAMBDA r : range_write_helper(v, r))

-----------------------------------------------------------------------------
(* File name transitions.  A rule is a name (with the target type and      *)
(* class, which go with it), a source type and the new type; the table has *)
(* for each name a list of new types with the source types they are for.   *)

\* One rule of the old format: joined to the source types of its new type, and
\* left out when its source type is there already.
filename_trans_read_helper_compat(table, rule) ==
    LET list == IF rule.name \in DOMAIN table THEN table[rule.name] ELSE <<>>
        same == {i \in DOMAIN list : list[i].otype = rule.otype}
        new == IF same # {} THEN [list EXCEPT ![Min(same)].stypes = @ \cup {rule.stype}]
               ELSE Append(list, [stypes |-> {rule.stype}, otype |-> rule.otype])
    IN IF \E i \in DOMAIN list : rule.stype \in list[i].stypes THEN table
       ELSE [name \in DOMAIN table \cup {rule.name} |->
                IF name = rule.name THEN new ELSE table[name]]
filename_trans_table(rules) ==
    FoldLeft(filename_trans_read_helper_compat, [name \in {} |-> <<>>], rules)
Names(table) == SetToSeq(DOMAIN table)

CompatFields == <<"len", "name", "stype", "ttype", "tclass", "otype">>
\* filename_write_helper_compat(): a rule for every source type.
CompatEntries(table) ==
    Each(Names(table), LAMBDA n : Each(table[n], LAMBDA d : Times(Cardinality(d.stypes), CompatFields)))
filename_write_helper(list) ==
    <<"len", "name", "ttype", "tclass", "ndatum">> \o Each(list, LAMBDA d : <<"ebitmap", "otype">>)
\* p.compat_count: the number of rules the file that was read had.
filename_trans_write(v, table, compat_count) ==
    CASE v < FILENAME_TRANS -> <<>>
      [] v < COMP_FTRANS -> <<"nel">> \o CompatEntries(table)
      [] OTHER -> <<"nel">> \o Each(Names(table), LAMBDA n : filename_write_helper(table[n]))
\* The reader takes as many rules as the count that was written says.
filename_trans_read(v, table, compat_count) ==
    CASE v < FILENAME_TRANS -> <<>>
      [] v < COMP_FTRANS -> <<"nel">> \o Times(compat_count, CompatFields)
      [] OTHER -> <<"nel">> \o Each(Names(table), LAMBDA n :
                     <<"len", "name", "ttype", "tclass", "ndatum">>
                     \o Times(Len(table[n]), <<"ebitmap", "otype">>))

-----------------------------------------------------------------------------
(* Objects of the system and their contexts.                               *)

ocon_num(v) == IF v >= INFINIBAND THEN 9 ELSE 7
\* In the order of the file; c: the ranges of the contexts of a kind of object.
OCON == <<"isid", "fs", "port", "netif", "node", "fsuse", "node6", "ibpkey", "ibendport">>
ocontext_read(v, c) ==
    LET Context(r) == context_read(v, r)
        Entry(kind, r) ==
            CASE kind = "isid" -> <<"sid">> \o Context(r)
              [] kind \in {"fs", "netif"} -> <<"len", "name">> \o Context(r) \o Context(r)
              [] kind = "port" -> <<"protocol", "low_port", "high_port">> \o Context(r)
              [] kind = "node" -> <<"addr", "mask">> \o Context(r)
              [] kind = "fsuse" -> <<"behavior", "len", "name">> \o Context(r)
              [] kind = "node6" -> Times(4, <<"addr">>) \o Times(4, <<"mask">>) \o Context(r)
              [] kind = "ibpkey" -> <<"prefix", "low_pkey", "high_pkey">> \o Context(r)
              [] kind = "ibendport" -> <<"len", "port", "name">> \o Context(r)
    IN FlattenSeq([i \in 1..ocon_num(v) |->
                      <<"nel">> \o Each(c, LAMBDA r : Entry(OCON[i], r))])
ocontext_write(v, c) ==
    LET Context(r) == context_write(v, r)
        Entry(kind, r) ==
            CASE kind = "isid" -> <<"sid">> \o Context(r)
              [] kind \in {"fs", "netif"} -> <<"len", "name">> \o Context(r) \o Context(r)
              [] kind = "port" -> <<"protocol", "low_port", "high_port">> \o Context(r)
              [] kind = "node" -> <<"addr", "mask">> \o Context(r)
              [] kind = "fsuse" -> <<"behavior", "len", "name">> \o Context(r)
              [] kind = "node6" -> Times(4, <<"addr">>) \o Times(4, <<"mask">>) \o Context(r)
              [] kind = "ibpkey" -> <<"prefix", "low_pkey", "high_pkey">> \o Context(r)
              [] kind = "ibendport" -> <<"len", "port", "name">> \o Context(r)
    IN FlattenSeq([i \in 1..ocon_num(v) |->
                      <<"nel">> \o Each(c, LAMBDA r : Entry(OCON[i], r))])
genfs_read(v, genfs) ==
    <<"nel">> \o Each(genfs, LAMBDA g :
        <<"len", "fstype", "nel">>
        \o Each(g, LAMBDA r : <<"len", "name", "sclass">> \o context_read(v, r)))
genfs_write(v, genfs) ==
    <<"nel">> \o Each(genfs, LAMBDA g :
        <<"len", "fstype", "nel">>
        \o Each(g, LAMBDA r : <<"len", "name", "sclass">> \o context_write(v, r)))

-----------------------------------------------------------------------------
(* The whole file.                                                         *)

Header(v) ==
    <<"magic", "len", "string", "policyvers", "config", "sym_num", "ocon_num">>
    \o Since(v, POLCAP, <<"ebitmap">>) \o Since(v, PERMISSIVE, <<"ebitmap">>)
policydb_read(p) ==
    Header(p.v) \o SymtabsRead(p) \o avtab_read(p.v, p.te) \o cond_read_list(p.v, p.conds)
    \o role_trans_read(p.v, p.nrole_tr) \o role_allow_read(p.nrole_allow)
    \o filename_trans_read(p.v, p.filename_trans, p.compat_count)
    \o ocontext_read(p.v, p.contexts) \o genfs_read(p.v, p.genfs)
    \o range_read(p.v, p.range_tr) \o Times(p.ntypes, <<"ebitmap">>)
policydb_write(p) ==
    Header(p.v) \o SymtabsWrite(p) \o avtab_write(p.te) \o cond_write_list(p.conds)
    \o role_trans_write(p.v, p.nrole_tr) \o role_allow_write(p.nrole_allow)
    \o filename_trans_write(p.v, p.filename_trans, p.compat_count)
    \o ocontext_write(p.v, p.contexts) \o genfs_write(p.v, p.genfs)
    \o range_write(p.v, p.range_tr) \o Times(p.ntypes, <<"ebitmap">>)

-----------------------------------------------------------------------------
(* What the reader refuses.                                                *)

\* The stack of a constraint, as read_cons_helper() follows it: -2 once refused.
ConsDepth(depth, e, allowxtarget) ==
    CASE depth = -2 -> -2
      [] e.kind = "not" -> IF depth < 0 THEN -2 ELSE depth
      [] e.kind \in {"and", "or"} -> IF depth < 1 THEN -2 ELSE depth - 1
      [] e.kind = "names" /\ e.of = "xtarget" /\ ~allowxtarget -> -2
      [] depth = CEXPR_MAXDEPTH - 1 -> -2
      [] OTHER -> depth + 1

\* Mutant: an expression may leave more than its value on the stack.
MutConstraintAccepted(expr, allowxtarget) ==
    FoldLeft(LAMBDA d, e : ConsDepth(d, e, allowxtarget), -1, expr) >= 0

ConstraintAccepted(expr, allowxtarget) ==
    FoldLeft(LAMBDA d, e : ConsDepth(d, e, allowxtarget), -1, expr) = 0

\* user_index(), role_index() and type_index(): values and bounds exist.
IndexAccepted(bounds, nprim) == \A x \in DOMAIN bounds : x \in 1..nprim /\ bounds[x] \in 0..nprim
\* The symbols that bound one, nearest first, as far as the check walks.
Uppers(bounds, x) ==
    LET Up[n \in 0..POLICYDB_BOUNDS_MAXDEPTH] ==
            IF n = 0 THEN x ELSE IF Up[n - 1] = 0 THEN 0 ELSE bounds[Up[n - 1]]
    IN [n \in 1..POLICYDB_BOUNDS_MAXDEPTH |-> Up[n]]
\* user_bounds_sanity_check() and role_bounds_sanity_check(): has gives the roles
\* of a user, or the types of a role.
bounds_sanity_check(bounds, has, x) ==
    /\ Uppers(bounds, x)[POLICYDB_BOUNDS_MAXDEPTH] = 0
    /\ \A n \in 1..POLICYDB_BOUNDS_MAXDEPTH :
           Uppers(bounds, x)[n] # 0 => has[x] \subseteq has[Uppers(bounds, x)[n]]
type_bounds_sanity_check(bounds, attributes, x) ==
    /\ Uppers(bounds, x)[POLICYDB_BOUNDS_MAXDEPTH] = 0
    /\ \A n \in 1..POLICYDB_BOUNDS_MAXDEPTH : Uppers(bounds, x)[n] \notin attributes
policydb_bounds_sanity_check(v, bounds, has, attributes) ==
    v >= BOUNDARY => \A x \in DOMAIN bounds : bounds_sanity_check(bounds, has, x)
                                              /\ type_bounds_sanity_check(bounds, attributes, x)
=============================================================================
