------------------------------ MODULE SelinuxSs ------------------------------
(***************************************************************************)
(* The decisions of the SELinux security server (ss/services.c) and what   *)
(* the access vector cache makes of extended permissions (avc.c).  A       *)
(* policy p is a record: mls, levels, ncats, users, roles, ntypes, bounds, *)
(* attrs, permissive, te (rules s, t, c, spec, data, and enabled for those *)
(* of the conditional table), classes, role_allow, role_tr, range_tr,      *)
(* filename_trans, trans_perms, map, allow_unknown.  Contexts stand for    *)
(* SIDs, and access vectors are sets of permission names.                  *)
(***************************************************************************)
EXTENDS SelinuxMls

PROCESS == "process"
\* No context: a null pointer, or SECSID_NULL.
NoContext == [user |-> 0, role |-> 0, type |-> 0, range |-> Invalid]

-----------------------------------------------------------------------------
(* Constraints, in postfix.                                                *)

CONSTANT CEXPR_MAXDEPTH
Levels(which, sc, tc) ==
    CASE which = "l1l2" -> <<sc.range[1], tc.range[1]>>
      [] which = "l1h2" -> <<sc.range[1], tc.range[2]>>
      [] which = "h1l2" -> <<sc.range[2], tc.range[1]>>
      [] which = "h1h2" -> <<sc.range[2], tc.range[2]>>
      [] which = "l1h1" -> <<sc.range[1], sc.range[2]>>
      [] which = "l2h2" -> <<tc.range[1], tc.range[2]>>
LevelOp(op, l) ==
    CASE op = "eq" -> mls_level_eq(l[1], l[2]) [] op = "neq" -> ~mls_level_eq(l[1], l[2])
      [] op = "dom" -> mls_level_dom(l[1], l[2]) [] op = "domby" -> mls_level_dom(l[2], l[1])
      [] op = "incomp" -> mls_level_incomp(l[2], l[1])
RoleOp(p, op, r1, r2) ==
    CASE op = "dom" -> r2 \in p.roles[r1].dominates
      [] op = "domby" -> r1 \in p.roles[r2].dominates
      [] op = "incomp" -> r2 \notin p.roles[r1].dominates /\ r1 \notin p.roles[r2].dominates
      [] op = "eq" -> r1 = r2 [] op = "neq" -> r1 # r2
\* The value of a leaf: an attribute compared, or a name looked up.
Leaf(p, sc, tc, xc, e) ==
    CASE e.kind = "names" ->
            LET c == CASE e.of = "target" -> tc [] e.of = "xtarget" -> xc [] OTHER -> sc
            IN (c[e.attr] \in e.names) = (e.op = "eq")
      [] e.attr = "role" -> RoleOp(p, e.op, sc.role, tc.role)
      [] e.attr \in {"user", "type"} -> (sc[e.attr] = tc[e.attr]) = (e.op = "eq")
      [] OTHER -> LevelOp(e.op, Levels(e.attr, sc, tc))
\* The stack machine: the expression is false when the stack is full, and a bug
\* is a BUG_ON() of the code.
ConstraintStep(p, sc, tc, xc, m, e) ==
    LET n == Len(m.stack)
        Bug == [m EXCEPT !.bug = TRUE]
        Two(value) == [m EXCEPT !.stack = Append(SubSeq(@, 1, n - 2), value)]
    IN CASE m.bug \/ m.full -> m
         [] e.kind = "not" -> IF n < 1 THEN Bug ELSE [m EXCEPT !.stack[n] = ~@]
         [] e.kind = "and" -> IF n < 2 THEN Bug ELSE Two(m.stack[n - 1] /\ m.stack[n])
         [] e.kind = "or" -> IF n < 2 THEN Bug ELSE Two(m.stack[n - 1] \/ m.stack[n])
         [] n = CEXPR_MAXDEPTH -> [m EXCEPT !.full = TRUE]
         [] e.kind = "names" /\ e.of = "xtarget" /\ xc = NoContext -> Bug
         [] OTHER -> [m EXCEPT !.stack = Append(@, Leaf(p, sc, tc, xc, e))]
ConstraintRun(p, sc, tc, xc, expr) ==
    LET m == FoldLeft(LAMBDA st, e : ConstraintStep(p, sc, tc, xc, st, e),
                      [stack |-> <<>>, bug |-> FALSE, full |-> FALSE], expr)
    IN [m EXCEPT !.bug = @ \/ (~m.full /\ Len(m.stack) # 1)]
constraint_expr_eval(p, sc, tc, xc, expr) ==
    LET m == ConstraintRun(p, sc, tc, xc, expr) IN ~m.full /\ m.stack[1]

-----------------------------------------------------------------------------
(* Access vectors.                                                         *)

\* The rules that speak of two types, through the attributes they have, in a
\* class; a rule of the conditional table counts while it is enabled.
Rules(p, sc, tc, class) ==
    {r \in p.te : /\ r.s \in p.attrs[sc.type] /\ r.t \in p.attrs[tc.type]
                  /\ r.c = class /\ r.enabled}
Data(rules, spec) == UNION {r.data : r \in {q \in rules : q.spec = spec}}

\* Mutant: the permissions of a failed constraint are all that is left.
MutConstrain(p, sc, tc, av, c) ==
    IF c.perms \cap av # {} /\ ~constraint_expr_eval(p, sc, tc, NoContext, c.expr)
    THEN av \cap c.perms ELSE av

\* One constraint: evaluated only for permissions that are still granted.
Constrain(p, sc, tc, av, c) ==
    IF c.perms \cap av # {} /\ ~constraint_expr_eval(p, sc, tc, NoContext, c.expr)
    THEN av \ c.perms ELSE av

RoleAllowed(p, sc, tc, class, av) ==
    IF class = PROCESS /\ sc.role # tc.role /\ <<sc.role, tc.role>> \notin p.role_allow
    THEN av \ p.trans_perms ELSE av

ALL_DRIVERS == "all"
\* services_compute_xperms_drivers(): the drivers that some rule, of any of the
\* three kinds, speaks of.
xperms_drivers(rules) ==
    UNION {IF r.driver = ALL_DRIVERS THEN r.data ELSE {r.driver}
           : r \in {q \in rules : q.spec \in {"xallowed", "xauditallow", "xdontaudit"}}}

RECURSIVE context_struct_compute_av(_, _, _, _)
\* type_attribute_bounds_av(): what the bounding types have between them.
type_attribute_bounds_av(p, sc, tc, class, av) ==
    IF p.bounds[sc.type] = 0 THEN av
    ELSE LET lo_s == [sc EXCEPT !.type = p.bounds[@]]
             lo_t == IF p.bounds[tc.type] = 0 THEN tc ELSE [tc EXCEPT !.type = p.bounds[@]]
         IN av \cap context_struct_compute_av(p, lo_s, lo_t, class).allowed
context_struct_compute_av(p, sc, tc, class) ==
    IF class \notin DOMAIN p.classes
    THEN [allowed |-> {}, auditallow |-> {}, silent |-> {}, drivers |-> {}]
    ELSE LET rules == Rules(p, sc, tc, class)
             te == Data(rules, "allowed")
             mls == FoldLeft(LAMBDA av, c : Constrain(p, sc, tc, av, c), te,
                             p.classes[class].constraints)
             rbac == RoleAllowed(p, sc, tc, class, mls)
         IN [allowed |-> type_attribute_bounds_av(p, sc, tc, class, rbac),
             auditallow |-> Data(rules, "auditallow"),
             \* the complement of auditdeny
             silent |-> Data(rules, "dontaudit"),
             drivers |-> xperms_drivers(rules)]

\* selinux_set_mapping() and map_decision(): the kernel's permissions of a class,
\* each the policy's permission of that name where the policy has one.
string_to_av_perm(p, class, perm) == perm \in p.classes[class].perms
map_decision(p, class, kernel_perms, av) ==
    {k \in kernel_perms : k \in av \/ (p.allow_unknown /\ ~string_to_av_perm(p, class, k))}
security_compute_av(p, sc, tc, class, kernel_perms) ==
    IF class \notin DOMAIN p.classes
    THEN IF p.allow_unknown THEN kernel_perms ELSE {}
    ELSE map_decision(p, class, kernel_perms, context_struct_compute_av(p, sc, tc, class).allowed)

-----------------------------------------------------------------------------
(* Extended permissions of ioctl: a command is a driver and a function.    *)

\* A rule names functions of one driver, or whole drivers (ALL_DRIVERS).
Covers(r, driver) == IF r.driver = ALL_DRIVERS THEN driver \in r.data ELSE r.driver = driver
Functions == {"f0", "f1"}
xperms_of(rules, spec, driver) ==
    UNION {IF r.driver = ALL_DRIVERS THEN Functions ELSE r.data
           : r \in {q \in rules : q.spec = spec /\ Covers(q, driver)}}
\* The decision for a driver.  A rule of the conditional table carries
\* AVTAB_ENABLED in its key, equals none of the kinds compared with, and adds
\* nothing.
security_compute_xperms_decision(p, sc, tc, class, driver) ==
    LET rules == {r \in Rules(p, sc, tc, class) : ~r.cond /\ Covers(r, driver)}
    IN [used |-> {r.spec : r \in rules},
        allowed |-> xperms_of(rules, "xallowed", driver),
        auditallow |-> xperms_of(rules, "xauditallow", driver),
        dontaudit |-> xperms_of(rules, "xdontaudit", driver)]
avc_xperms_has_perm(xpd, perm) == "xallowed" \in xpd.used /\ perm \in xpd.allowed

\* avc_has_extended_perms(), without its cache.
avc_has_extended_perms(p, sc, tc, class, driver, perm) ==
    LET avd == context_struct_compute_av(p, sc, tc, class)
    IN /\ "ioctl" \in avd.allowed
       /\ avd.drivers # {} =>
              /\ driver \in avd.drivers
              /\ avc_xperms_has_perm(security_compute_xperms_decision(p, sc, tc, class, driver), perm)

\* What is written to the audit log: an access denied and not silenced, or granted
\* and wished for.
avc_xperms_audit_required(avd, xpd, perm, granted) ==
    IF ~granted THEN "ioctl" \notin avd.silent
                     /\ ~("xdontaudit" \in xpd.used /\ perm \in xpd.dontaudit)
    ELSE "ioctl" \in avd.auditallow /\ "xauditallow" \in xpd.used /\ perm \in xpd.auditallow

-----------------------------------------------------------------------------
(* Contexts.                                                               *)

policydb_context_isvalid(p, c) ==
    /\ c.role \in DOMAIN p.roles \cup {OBJECT_R_VAL}
    /\ c.user \in DOMAIN p.users
    /\ c.type \in 1..p.ntypes
    /\ c.role # OBJECT_R_VAL => /\ c.type \in p.roles[c.role].types
                                /\ c.role \in p.users[c.user].roles
    /\ mls_context_isvalid(p, c)

\* context_struct_to_string() and string_to_context_struct(): three names and
\* the range.
context_struct_to_string(p, c) == <<c.user, c.role, c.type>> \o mls_sid_to_context(p, c.range)
string_to_context_struct(p, text, def) ==
    LET range == mls_context_to_sid(p, Len(text) > 3, SubSeq(text, 5, Len(text)), def)
        c == [user |-> text[1], role |-> text[2], type |-> text[3], range |-> range]
    IN [valid |-> range # Invalid /\ policydb_context_isvalid(p, c), context |-> c]

IsSocketClass(class) == class = "socket"
filename_compute_type(p, s, t, class, name, type) ==
    LET hits == {f \in p.filename_trans : f.t = t.type /\ f.c = class /\ f.name = name
                                          /\ s.type \in f.stypes}
    IN IF hits = {} THEN type ELSE (CHOOSE f \in hits : TRUE).otype
DefaultOf(p, class, field) == IF class \in DOMAIN p.classes THEN p.classes[class][field] ELSE "none"

\* Mutant: a context the policy refuses is given a SID anyway.
Mutcompute_sid_handle_invalid_context(enforcing) == TRUE

\* Whether a computed context that is not valid is used nevertheless.
compute_sid_handle_invalid_context(enforcing) == ~enforcing

security_compute_sid(p, s, t, class, specified, name, enforcing) ==
    LET inherits == class = PROCESS \/ IsSocketClass(class)
        user == IF specified = "member" \/ DefaultOf(p, class, "default_user") = "target"
                THEN t.user ELSE s.user
        role == CASE DefaultOf(p, class, "default_role") = "source" -> s.role
                  [] DefaultOf(p, class, "default_role") = "target" -> t.role
                  [] OTHER -> IF inherits THEN s.role ELSE OBJECT_R_VAL
        type == CASE DefaultOf(p, class, "default_type") = "source" -> s.type
                  [] DefaultOf(p, class, "default_type") = "target" -> t.type
                  [] OTHER -> IF inherits THEN s.type ELSE t.type
        rules == {r \in p.te : r.s = s.type /\ r.t = t.type /\ r.c = class
                               /\ r.spec = specified /\ r.enabled}
        ruled == IF rules = {} THEN type ELSE (CHOOSE r \in rules : TRUE).otype
        named == IF name = "none" THEN ruled
                 ELSE filename_compute_type(p, s, t, class, name, ruled)
        roles == {r \in p.role_tr : r.role = s.role /\ r.type = t.type /\ r.c = class}
        newrole == IF specified = "transition" /\ roles # {}
                   THEN (CHOOSE r \in roles : TRUE).new_role ELSE role
        ranges == {r \in p.range_tr : r.s = s.type /\ r.t = t.type /\ r.c = class}
        range == mls_compute_sid(p, s.range, t.range,
                    IF ranges = {} THEN Invalid ELSE (CHOOSE r \in ranges : TRUE).range,
                    DefaultOf(p, class, "default_range"), specified, inherits)
        new == [user |-> user, role |-> newrole, type |-> named, range |-> range]
    IN CASE range = Invalid -> NoContext
         [] policydb_context_isvalid(p, new) -> new
         [] compute_sid_handle_invalid_context(enforcing) -> new
         [] OTHER -> NoContext

security_compute_validatetrans(p, o, n, t, class) ==
    \A i \in DOMAIN p.classes[class].validatetrans :
        constraint_expr_eval(p, o, n, t, p.classes[class].validatetrans[i].expr)

\* The types that bound a type, nearest first, lead to the old one.
RECURSIVE BoundedBy(_, _, _)
BoundedBy(p, old, new) ==
    p.bounds[new] # 0 /\ (p.bounds[new] = old \/ BoundedBy(p, old, p.bounds[new]))
security_bounded_transition(p, old, new) ==
    old.type = new.type \/ BoundedBy(p, old.type, new.type)

\* The contexts of a user that a context may enter.
security_get_user_sids(p, from, user) ==
    LET range == IF p.mls THEN mls_setup_user_range(p, from.range, p.users[user]) ELSE <<>>
        all == {[user |-> user, role |-> r, type |-> t, range |-> range]
                    : r \in p.users[user].roles, t \in 1..p.ntypes}
    IN IF range = Invalid THEN {}
       ELSE {c \in all : /\ c.type \in p.roles[c.role].types
                         /\ "transition" \in context_struct_compute_av(p, from, c, PROCESS).allowed}
security_sid_mls_copy(p, c, m, enforcing) ==
    IF ~p.mls THEN c
    ELSE LET new == [c EXCEPT !.range = m.range]
         IN IF policydb_context_isvalid(p, new) \/ ~enforcing THEN new ELSE NoContext

-----------------------------------------------------------------------------
(* Labels of network peers and of objects the policy lists.                *)

\* The peer of a packet with a NetLabel label, an IPsec label, both or none.
\* Without MLS nothing is compared: success, and no label.
security_net_peersid_resolve(p, nlbl, unlabelled, xfrm) ==
    CASE xfrm = NoContext -> [rc |-> 0, peer |-> nlbl]
      [] nlbl = NoContext \/ unlabelled -> [rc |-> 0, peer |-> xfrm]
      [] ~p.mls -> [rc |-> 0, peer |-> NoContext]
      [] nlbl.range = xfrm.range -> [rc |-> 0, peer |-> xfrm]
      [] OTHER -> [rc |-> -13, peer |-> NoContext]
security_netlbl_sid_to_secattr(p, c) == mls_export_netlbl(p, c.range)
security_netlbl_secattr_to_sid(p, attr, netmsg) ==
    LET new == [netmsg EXCEPT !.range = mls_import_netlbl(p, attr)]
    IN IF mls_context_isvalid(p, new) THEN new ELSE NoContext

\* The first entry of a list that a lookup matches, 0 for none: ports and
\* InfiniBand keys.
FirstMatch(list, Test(_)) ==
    LET hits == {i \in DOMAIN list : Test(list[i])} IN IF hits = {} THEN 0 ELSE Min(hits)
security_port_sid(list, protocol, port) ==
    FirstMatch(list, LAMBDA c : c.protocol = protocol /\ c.low <= port /\ port <= c.high)
security_ib_pkey_sid(list, subnet, pkey) ==
    FirstMatch(list, LAMBDA c : c.low <= pkey /\ pkey <= c.high /\ c.subnet = subnet)

\* Mutant: an entry goes before those of its own length or longer.
Mutgenfs_insert(list, c) == <<c>> \o list

\* genfs_read(): the entries of a file system, the longer names first.  Two of
\* one name whose classes meet refuse the policy.
genfs_insert(list, c) ==
    LET shorter == {i \in DOMAIN list : Len(c.name) > Len(list[i].name)}
    IN InsertAt(list, IF shorter = {} THEN Len(list) + 1 ELSE Min(shorter), c)

genfs_conflict(c, d) == c.name = d.name /\ (c.class = "any" \/ d.class = "any" \/ c.class = d.class)
genfs_read(entries) ==
    FoldLeft(LAMBDA g, c : IF ~g.ok \/ \E i \in DOMAIN g.list : genfs_conflict(g.list[i], c)
                           THEN [g EXCEPT !.ok = FALSE]
                           ELSE [g EXCEPT !.list = genfs_insert(@, c)],
             [ok |-> TRUE, list |-> <<>>], entries)
\* Slashes at the start of the path count as one; names are compared as prefixes.
security_genfs_sid(list, path, class) ==
    LET slashes == {i \in DOMAIN path : \A j \in 1..i : path[j] = "/"}
        from == IF slashes = {} THEN path ELSE SubSeq(path, Max(slashes), Len(path))
    IN FirstMatch(list, LAMBDA c : c.class \in {"any", class} /\ IsPrefix(c.name, from))

-----------------------------------------------------------------------------
(* Audit rules on the fields of a context.                                 *)

AuditLevel(c, field) == IF field \in {"subj_sen", "obj_lev_low"} THEN c.range[1] ELSE c.range[2]
selinux_audit_rule_init(field, op) ==
    field \in {"user", "role", "type"} => op \in {"eq", "neq"}
selinux_audit_rule_match(c, field, op, rule) ==
    CASE field \in {"user", "role", "type"} -> (c[field] = rule[field]) = (op = "eq")
      [] OTHER ->
            LET l == AuditLevel(c, field)
                r == rule.range[1]
            IN CASE op = "eq" -> mls_level_eq(r, l) [] op = "neq" -> ~mls_level_eq(r, l)
                 [] op = "lt" -> mls_level_dom(r, l) /\ ~mls_level_eq(r, l)
                 [] op = "le" -> mls_level_dom(r, l)
                 [] op = "gt" -> mls_level_dom(l, r) /\ ~mls_level_eq(l, r)
                 [] op = "ge" -> mls_level_dom(l, r)
=============================================================================
