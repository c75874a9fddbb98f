----------------------------- MODULE Algorithms -----------------------------
(***************************************************************************)
(* The sequential algorithms of the Lua LSM and of SELinux, each evaluated *)
(* on every input of a bounded domain.  A step picks the input of one      *)
(* algorithm; the properties compare what the algorithm answers with what  *)
(* it is for.                                                              *)
(***************************************************************************)
EXTENDS Integers, FiniteSetsExt, SequencesExt

LH == INSTANCE LuaHooks
SH == INSTANCE SelinuxHooks
EB == INSTANCE SelinuxEbitmap WITH EBITMAP_UNIT_SIZE <- 2, EBITMAP_UNIT_NUMS <- 2
AT == INSTANCE SelinuxAvtab WITH COND_EXPR_MAXDEPTH <- 2
SS == INSTANCE SelinuxSs WITH CEXPR_MAXDEPTH <- 3
PD == INSTANCE SelinuxPolicydb WITH CEXPR_MAXDEPTH <- 3, POLICYDB_BOUNDS_MAXDEPTH <- 4

VARIABLE input
NoInput == [algorithm |-> "none"]

-----------------------------------------------------------------------------
(* Inputs.                                                                 *)

LuaInputs == [algorithm: {"lua"}, r1: LH!LuaResults, r2: LH!LuaResults]
FileInputs == [algorithm: {"file"}, file: SH!Files]
SocketInputs == [algorithm: {"socket"}, family: SH!Families, type: SH!SocketTypes,
                 proto: SH!Protocols, ext: BOOLEAN, cap: SH!PacketCaps]

\* Bits of three nodes, of both units of one, and sets that leave nodes out.
Bits == {0, 1, 3, 4, 6, 8}
EbitmapInputs == [algorithm: {"ebitmap"}, a: SUBSET Bits, b: SUBSET Bits]

AvtabRules == [key: 1..2, spec: {"allowed", "transition", "xperms_allowed"}]
AvtabInputs == [algorithm: {"avtab"}, rules: BoundedSeq(AvtabRules, 4)]

\* An expression and, for the reader, what it means; "deep" needs more stack than
\* there is.
Postfix == [a |-> <<"a">>, na |-> <<"a", "not">>, ab |-> <<"a", "b", "and">>,
            axb |-> <<"a", "b", "not", "xor">>, deep |-> <<"a", "a", "b", "or", "or">>]
Value(e, a, b) ==
    CASE e = "a" -> a [] e = "na" -> ~a [] e = "ab" -> a /\ b [] e = "axb" -> a # ~b
Lists == {<<>>, <<[key |-> 1, spec |-> "transition"]>>,
          <<[key |-> 1, spec |-> "allowed"], [key |-> 1, spec |-> "transition"]>>}
Conditionals(exprs) == [expr: exprs, true_list: Lists, false_list: Lists]
CondInputs == [algorithm: {"cond"}, te: {<<>>, <<"transition">>},
               c1: Conditionals(DOMAIN Postfix), c2: Conditionals({"na", "ab"}),
               old: BOOLEAN \X BOOLEAN, new: BOOLEAN \X BOOLEAN]

MlsPolicy(n) == [mls |-> TRUE, ncats |-> n, levels |-> [s \in 1..2 |-> 0..(n - 1)]]
Ranges(n) ==
    LET levels == [sens: 1..2, cat: SUBSET (0..(n - 1))]
    IN {r \in levels \X levels : SS!mls_level_dom(r[2], r[1])}
MlsInputs == [algorithm: {"mls"}, range: Ranges(5)]
UserInputs ==
    {i \in [algorithm: {"user"}, from: Ranges(2),
            user: [range: Ranges(2), dflt: [sens: 1..2, cat: SUBSET (0..1)]]] :
        SS!mls_level_between(i.user.dflt, i.user.range[1], i.user.range[2])}

\* Three types, an attribute (4) of the first two, and a constraint of each kind.
Constraints ==
    [level |-> [perms |-> {"read"},
                expr |-> <<[kind |-> "attr", attr |-> "h1l2", op |-> "dom"]>>],
     role |-> [perms |-> {"read", "transition"},
               expr |-> <<[kind |-> "attr", attr |-> "role", op |-> "eq"],
                          [kind |-> "names", attr |-> "type", of |-> "source", op |-> "eq",
                           names |-> {1}],
                          [kind |-> "or"]>>]]
AllowRules == {<<1, 1, "read">>, <<1, 3, "read">>, <<4, 3, "transition">>,
               <<2, 3, "read">>, <<3, 4, "read">>, <<2, 2, "read">>}
Level(sens) == [sens |-> sens, cat |-> {}]
\* The level goes with the role.
Contexts == {[user |-> 1, role |-> r, type |-> t, range |-> <<Level(r), Level(r)>>]
                : r \in 1..2, t \in 1..3}
Policy(i) ==
    [mls |-> TRUE, bounds |-> i.bounds, attrs |-> <<{1, 4}, {2, 4}, {3}>>,
     te |-> {[s |-> r[1], t |-> r[2], c |-> "process", spec |-> "allowed",
              data |-> {r[3]}, enabled |-> TRUE] : r \in i.rules},
     classes |-> [c \in {"process"} |->
                     [perms |-> {"read", "transition"},
                      constraints |-> [k \in DOMAIN i.constraints |->
                                          Constraints[i.constraints[k]]],
                      validatetrans |-> [k \in DOMAIN i.constraints |->
                                            Constraints[i.constraints[k]]]]],
     roles |-> [r \in 1..2 |-> [dominates |-> {r}]],
     role_allow |-> i.role_allow, trans_perms |-> {"transition"},
     allow_unknown |-> i.allow_unknown]
AvInputs == [algorithm: {"av"}, bounds: {<<0, 0, 0>>, <<0, 1, 0>>, <<0, 1, 2>>, <<0, 1, 1>>},
             rules: SUBSET AllowRules, constraints: {<<>>, <<"level", "role">>, <<"role">>},
             role_allow: {{}, {<<1, 2>>}}, allow_unknown: BOOLEAN]

GenfsNames == {<<"/">>, <<"/", "a">>, <<"/", "a", "b">>}
GenfsInputs == [algorithm: {"genfs"},
                entries: BoundedSeq([name: GenfsNames, class: {"any", "file"}], 3),
                path: {<<"/", "a">>, <<"/", "/", "a", "b", "b">>, <<"/", "b">>},
                class: {"file", "dir"}]

\* A policy in which rules, defaults and users can disagree: user 1 has role 2
\* and both levels, user 2 both roles and the low level.
ContextInputs ==
    [algorithm: {"context"}, otype: 0..2, new_role: {0, 2, 3},
     range_tr: {0, 1, 2}, filename: BOOLEAN,
     default: {"none", "glblub"},
     specified: {"transition", "member", "change"}, class: {"process", "file"}]
ContextPolicy(i) ==
    [mls |-> TRUE, ncats |-> 1, levels |-> [s \in 1..2 |-> {0}], ntypes |-> 2,
     bounds |-> <<0, 0>>, attrs |-> <<{1}, {2}>>, role_allow |-> {},
     trans_perms |-> {"transition"},
     roles |-> [r \in 1..3 |-> [types |-> IF r = 3 THEN {2} ELSE {1, 2}, dominates |-> {r}]],
     users |-> <<[roles |-> {2}, range |-> <<Level(1), Level(2)>>, dflt |-> Level(1)],
                 [roles |-> {2, 3}, range |-> <<Level(1), Level(1)>>, dflt |-> Level(1)]>>,
     te |-> {[s |-> 1, t |-> t, c |-> "process", spec |-> "allowed", enabled |-> TRUE,
              data |-> {"transition"}] : t \in 1..2}
            \cup (IF i.otype = 0 THEN {}
                  ELSE {[s |-> 1, t |-> 2, c |-> i.class, spec |-> i.specified,
                         enabled |-> TRUE, data |-> {}, otype |-> i.otype]}),
     classes |-> [c \in {"process", "file"} |->
                     [perms |-> {"transition"}, constraints |-> <<>>, default_user |-> "none",
                      default_role |-> "none", default_type |-> "none",
                      default_range |-> i.default]],
     filename_trans |-> IF i.filename THEN {[t |-> 2, c |-> i.class, name |-> "n",
                                             stypes |-> {1}, otype |-> 1]} ELSE {},
     role_tr |-> IF i.new_role = 0 THEN {}
                 ELSE {[role |-> 2, type |-> 2, c |-> i.class, new_role |-> i.new_role]},
     range_tr |-> IF i.range_tr = 0 THEN {}
                  ELSE {[s |-> 1, t |-> 2, c |-> i.class,
                         range |-> <<Level(i.range_tr), Level(i.range_tr)>>]}]

\* Extended permissions: of one driver, of a whole driver, through an attribute.
XRules == {<<1, "xallowed", "d1", {"f0"}>>, <<4, "xallowed", "d1", {"f1"}>>,
           <<1, "xallowed", SS!ALL_DRIVERS, {"d2"}>>,
           <<1, "xauditallow", "d1", {"f1"}>>, <<1, "xdontaudit", "d3", {"f0"}>>}
XpermInputs == [algorithm: {"xperm"}, rules: SUBSET XRules, ioctl: BOOLEAN]

\* Policies of every version that is written, with the shapes that decide the
\* layout: equal and unequal levels, a class with and without a common, leaves of
\* constraints with and without names, plain and extended rules, and file name
\* rules that share a name, a new type, or all but the new type.
FilenameRules == [name: {"n", "m"}, stype: 1..2, otype: 1..2]
ImageInputs == [algorithm: {"image"}, v: PD!WritableVersions, range: 1..2, comkey: BOOLEAN,
                constraint: {<<"attr">>, <<"names", "attr", "and">>}, xperms: BOOLEAN,
                rules: BoundedSeq(FilenameRules, 2)]
Image(i) ==
    LET xperms == i.xperms /\ i.v >= PD!XPERMS_IOCTL
    IN [v |-> i.v, commons |-> <<[perms |-> 2]>>,
        classes |-> <<[comkey |-> i.comkey, perms |-> 1, constraints |-> <<i.constraint>>,
                       validatetrans |-> <<i.constraint, i.constraint>>]>>,
        nroles |-> 2, ntypes |-> 2, users |-> <<i.range, 1>>, nbools |-> 1, nlevels |-> 2,
        ncats |-> 1, te |-> <<FALSE, xperms>>,
        conds |-> <<[expr |-> 3, true_list |-> <<xperms>>, false_list |-> <<FALSE, FALSE>>]>>,
        nrole_tr |-> 1, nrole_allow |-> 2,
        filename_trans |-> PD!filename_trans_table(i.rules), compat_count |-> Len(i.rules),
        contexts |-> <<i.range, 1>>, genfs |-> <<<<i.range>>, <<>>>>, range_tr |-> <<1, i.range>>]
\* No two rules for one name and source type.
NoDuplicates(rules) ==
    \A j, k \in DOMAIN rules : j # k => <<rules[j].name, rules[j].stype>>
                                        # <<rules[k].name, rules[k].stype>>

Leaves == {[kind |-> "attr", attr |-> "role", op |-> "eq"],
           [kind |-> "names", attr |-> "type", of |-> "xtarget", op |-> "eq", names |-> {1}]}
Expressions == BoundedSeq(Leaves \cup [kind: {"not", "and", "or"}], 5)
SafeInputs == [algorithm: {"safe"}, expr: Expressions, xtarget: BOOLEAN]
BoundsInputs == [algorithm: {"bounds"}, bounds: [1..4 -> 0..5], has: [1..4 -> SUBSET {1}]]

LuaCase == input = NoInput /\ input' \in LuaInputs
FileCase == input = NoInput /\ input' \in FileInputs
SocketCase == input = NoInput /\ input' \in SocketInputs
EbitmapCase == input = NoInput /\ input' \in EbitmapInputs
AvtabCase == input = NoInput /\ input' \in AvtabInputs
CondCase == input = NoInput /\ input' \in CondInputs
MlsCase == input = NoInput /\ input' \in MlsInputs
UserCase == input = NoInput /\ input' \in UserInputs
AvCase == input = NoInput /\ input' \in AvInputs
GenfsCase == input = NoInput /\ input' \in GenfsInputs
ContextCase == input = NoInput /\ input' \in ContextInputs
XpermCase == input = NoInput /\ input' \in XpermInputs
ImageCase == input = NoInput /\ input' \in ImageInputs
SafeCase == input = NoInput /\ input' \in SafeInputs
BoundsCase == input = NoInput /\ input' \in BoundsInputs

Init == input = NoInput
Next ==
    \/ LuaCase \/ FileCase \/ SocketCase
    \/ EbitmapCase \/ AvtabCase \/ CondCase \/ MlsCase \/ UserCase
    \/ AvCase \/ GenfsCase \/ ContextCase \/ XpermCase
    \/ ImageCase \/ SafeCase \/ BoundsCase
Spec == Init /\ [][Next]_input

-----------------------------------------------------------------------------
(* The Lua LSM.                                                            *)

Errnos == {0, 1, 13, 4095, 4096}
\* A hook of every kind that can refuse and that has no answer of its own to
\* give (inode_getsecurity answers with a length, which is final).
Refusing == {h \in LH!LuaHookTable : h.name \in {"file_open", "inode_permission", "capget"}}

\* Whatever the modules return, an operation that one of them refuses is
\* refused, whatever the others say and in whichever order they are asked, and
\* an operation none of them refuses is allowed (lsm_defs.h, the walk of
\* LUA_LSM_DISPATCH and the decoding of results).
LuaDenialFinal ==
    input.algorithm = "lua" =>
        \A h \in Refusing, e1 \in Errnos, e2 \in Errnos :
            LET a == LH!LuaCall(h, input.r1, e1)
                b == LH!LuaCall(h, input.r2, e2)
                res == LH!LuaDispatch(h, a, b)
                Denies(x) == \A v \in x : v < 0
                Allows(x) == \A v \in x : v >= 0
            IN /\ Denies(a) \/ Denies(b) => Denies(res)
               /\ Allows(a) /\ Allows(b) => Allows(res)
               /\ \A v \in res : v >= -LH!MAX_ERRNO

-----------------------------------------------------------------------------
(* The permission bits of SELinux.                                         *)

\* The mask means, in the class the check is made in, the permissions the
\* hook's macros name.
MeansItsName(check) ==
    \A p \in check.perms :
        \E k \in DOMAIN SH!secclass_map(check.as) :
            /\ SH!secclass_map(check.as)[k] = p
            /\ k \in DOMAIN SH!secclass_map(check.c)
            /\ SH!secclass_map(check.c)[k] = p

Prots == SUBSET {"read", "write", "exec"}
Masks == SUBSET {"read", "write", "exec", "append"}
\* What may be asked of an open file of any kind, a socket included.
AnyFileChecks(f) ==
    UNION ({SH!selinux_file_ioctl_compat(f, c, k)
                : c \in {"get", "set", "get32", "set32", "nonblock", "cloexec", "other"},
                  k \in BOOLEAN}
           \cup {SH!selinux_file_fcntl(f, c) : c \in {"clear_append", "setfl", "owner", "lock"}}
           \cup {SH!selinux_file_open(f, o) : o \in BOOLEAN}
           \cup {SH!selinux_file_receive(f), SH!selinux_binder_transfer_file(f)}
           \cup {SH!selinux_revalidate_file_permission(f, m) : m \in SUBSET {"read", "write"}}
           \cup {SH!selinux_mmap_file(f, p, s) : p \in SUBSET {"read", "write"}, s \in BOOLEAN}
           \cup {SH!selinux_inode_setattr(f.inode, v, k, o)
                    : v \in SUBSET {"mode", "owner", "size", "kill"}, k \in BOOLEAN,
                      o \in BOOLEAN}
           \cup {SH!selinux_inode_setxattr(f.inode)})
\* And of a file that a path leads to.
PathChecks(f) ==
    UNION ({SH!selinux_file_mprotect(f, p, s, x, v)
                : p \in Prots, s \in BOOLEAN, x \in BOOLEAN,
                  v \in {"heap", "stack", "anon", "cow", "file"}}
           \cup {SH!selinux_inode_permission(f.inode, m) : m \in Masks}
           \cup {SH!may_create(f.inode.class)}
           \cup {SH!may_link(f.inode, k) : k \in {"link", "unlink"}
                    \cup (IF f.inode.class = "dir" THEN {"rmdir"} ELSE {})}
           \cup {SH!may_rename(f.inode, m, o, [f.inode EXCEPT !.class = v])
                    : m \in BOOLEAN, o \in BOOLEAN, v \in {"dir", "file"}}
           \cup {SH!selinux_path_notify(f.inode, o, p, q)
                    : o \in {"inode", "mount", "sb"}, p \in BOOLEAN, q \in BOOLEAN}
           \cup {SH!inode_checks(f.inode)})
SocketChecks(i) ==
    LET class == SH!socket_type_to_security_class(i.family, i.type, i.proto, i.ext)
    IN UNION ({SH!socket_checks(class, k) : k \in BOOLEAN}
              \cup {SH!selinux_socket_bind(i.family, class, FALSE, r)
                       : r \in IF i.family \in {"inet", "inet6"} THEN BOOLEAN ELSE {FALSE}}
              \cup {SH!selinux_socket_connect_helper(class, FALSE)}
              \cup {SH!unix_checks(class) : u \in IF i.family = "unix" THEN {1} ELSE {}}
              \cup {SH!selinux_sctp_process_new_assoc(class)
                       : u \in IF class = "sctp_socket" THEN {1} ELSE {}}
              \cup {SH!selinux_netlink_send(class, FALSE, m) : m \in SH!NlMessages}
              \cup {SH!selinux_socket_sock_rcv_skb(i.family, class, i.cap),
                    SH!selinux_ip_forward(i.cap), SH!selinux_ip_postroute(i.cap, i.ext)})
\* The hooks whose class is fixed.
FixedChecks ==
    UNION ({SH!cred_has_capability(c, n) : c \in SH!Caps, n \in BOOLEAN}
           \cup {SH!binder_checks("from"), SH!selinux_ptrace_traceme, SH!selinux_capget,
                 SH!selinux_capset, SH!sb_checks, SH!selinux_mmap_addr, SH!task_checks,
                 SH!msg_checks, SH!xfrm_checks, SH!tun_checks, SH!ib_checks,
                 SH!uring_checks, SH!has_cap_mac_admin}
           \cup {SH!selinux_ptrace_access_check(b) : b \in BOOLEAN}
           \cup {SH!selinux_quotactl(c) : c \in {"modify", "query"}}
           \cup {SH!selinux_syslog(t) : t \in {"read", "console", "other"}}
           \cup {SH!selinux_task_kill(s) \cup SH!selinux_file_send_sigiotask(s)
                    : s \in {"none", "SIGCHLD", "SIGKILL", "SIGSTOP", "other"}}
           \cup {SH!selinux_task_prlimit(b, c) : b \in BOOLEAN, c \in BOOLEAN}
           \cup {SH!selinux_setprocattr(n, TRUE)
                    : n \in {"exec", "fscreate", "keycreate", "sockcreate", "current"}}
           \cup {SH!selinux_msg_queue_msgctl(c) \cup SH!selinux_shm_shmctl(c)
                 \cup SH!selinux_sem_semctl(c) : c \in SH!IpcCommands}
           \cup {SH!shm_checks(b) \cup SH!sem_checks(b) : b \in BOOLEAN}
           \cup {SH!selinux_ipc_permission(c, r, w)
                    : c \in {"sem", "shm", "msgq"}, r \in BOOLEAN, w \in BOOLEAN}
           \cup {SH!selinux_key_permission(n)
                    : n \in {"view", "read", "write", "search", "link", "setattr"}}
           \cup {SH!selinux_bpf(c) : c \in {"map_create", "prog_load"}}
           \cup {SH!perf_event_checks(t) : t \in {"open", "cpu", "kernel", "tracepoint"}})

\* Every mask a hook passes means, in the class of the object the check is made
\* in, the permissions it was written with (hooks.c passes FILE__, SOCKET__ and
\* IPC__ masks for objects of many classes; classmap.h fixes the bits).
BitsMeanPermission ==
    CASE input.algorithm = "none" -> \A c \in FixedChecks : MeansItsName(c)
      [] input.algorithm = "file" ->
            \A c \in AnyFileChecks(input.file)
                     \cup (IF input.file.inode.class \in SH!SocketClasses
                           THEN {}
                           ELSE PathChecks(input.file) \cup SH!kernel_checks(input.file)) :
                MeansItsName(c)
      [] input.algorithm = "socket" -> \A c \in SocketChecks(input) : MeansItsName(c)
      [] OTHER -> TRUE

-----------------------------------------------------------------------------
(* The data structures of the policy.                                      *)

Built(bits, Op(_, _)) ==
    FoldLeft(LAMBDA e, b : EB!ebitmap_set_bit(e, b, TRUE), EB!ebitmap_init, SetToSortSeq(bits, Op))
\* A bitmap is the set of its bits, in one form only: however it was built,
\* whatever was cleared, and after a journey through the policy file or through
\* NetLabel, ebitmap_cmp() finds it equal; and the operations are those of sets
\* (ebitmap.c; contexts are compared with ebitmap_cmp).
EbitmapExact ==
    input.algorithm = "ebitmap" =>
        LET a == Built(input.a, <)
            b == Built(input.b, >)
            Clear(e, bits) == FoldLeft(LAMBDA d, x : EB!ebitmap_set_bit(d, x, FALSE), e, bits)
        IN /\ EB!ebitmap_cmp(a, b) <=> input.a = input.b
           /\ \A x \in 0..9 : EB!ebitmap_get_bit(a, x) <=> x \in input.a
           /\ EB!ebitmap_cmp(Clear(a, SetToSortSeq(input.b, <)), Built(input.a \ input.b, <))
           /\ EB!ebitmap_cmp(EB!ebitmap_and(a, b), Built(input.a \cap input.b, <))
           /\ \A l \in 0..9 : EB!ebitmap_contains(a, b, l)
                  <=> input.b \subseteq input.a /\ (l # 0 => \A x \in input.b : x <= l)
           /\ EB!ebitmap_cmp(EB!ebitmap_read(EB!ebitmap_write(a)), a)
           /\ EB!ebitmap_cmp(EB!ebitmap_netlbl_import(EB!ebitmap_netlbl_export(a)), a)

\* A rule of the avtab, with the fields a node has.
ToNode(r, id, on) == [key |-> r.key, spec |-> r.spec, id |-> id, enabled |-> on, data |-> {id}]
\* In whatever order the rules of a policy come, a search and the searches for
\* the next one visit every rule of the key and of the kinds asked for and no
\* other; avtab_insert() refuses a second rule of a key and a kind, except
\* extended permissions (avtab.c, the order of a hash chain).
AvtabExact ==
    input.algorithm = "avtab" =>
        LET rules == input.rules
            Node(i) == ToNode(rules[i], i, TRUE)
            all == FoldLeft(LAMBDA h, i : AT!avtab_insert_nonunique(h, Node(i)),
                            <<>>, [i \in DOMAIN rules |-> i])
            once == FoldLeft(LAMBDA h, i : IF AT!avtab_insert(h, Node(i)) = AT!Refused
                                           THEN h ELSE AT!avtab_insert(h, Node(i)),
                             <<>>, [i \in DOMAIN rules |-> i])
            first == {i \in DOMAIN rules : rules[i].spec \in AT!AVTAB_XPERMS
                                           \/ \A j \in 1..(i - 1) : rules[j] # rules[i]}
            Asked(key, specs) == {i \in DOMAIN rules : rules[i].key = key /\ rules[i].spec \in specs}
        IN \A key \in 1..2, specs \in SUBSET {"allowed", "transition", "xperms_allowed"} :
               /\ AT!Found(all, key, specs) = {Node(i) : i \in Asked(key, specs)}
               /\ AT!Found(once, key, specs) = {Node(i) : i \in Asked(key, specs) \cap first}

\* The conditional of the input, as a policy file built for the booleans has it.
FileCond(c, bools, base) ==
    LET state == AT!cond_evaluate_expr(bools, Postfix[c.expr])
        n == Len(c.true_list)
    IN [expr |-> Postfix[c.expr], cur_state |-> state,
        true_list |-> [i \in DOMAIN c.true_list |-> ToNode(c.true_list[i], base + i, state = 1)],
        false_list |-> [i \in DOMAIN c.false_list |->
                           ToNode(c.false_list[i], base + n + i, state = 0)]]
Bools(v) == "a" :> v[1] @@ "b" :> v[2]
\* After booleans are set, each conditional has the rules of the branch its
\* expression chooses enabled and those of the other branch disabled, none where
\* the expression has no value, whatever was enabled before; and never two type
\* rules for one key (conditional.c).
CondExact ==
    input.algorithm = "cond" =>
        LET te == [i \in DOMAIN input.te |->
                      ToNode([key |-> 1, spec |-> input.te[i]], 100, TRUE)]
            Cond(c, base) == FileCond(c, Bools(input.old), base)
            cs == <<Cond(input.c1, 0), Cond(input.c2, 10)>>
            p == AT!cond_read_list(te, cs)
            q == AT!evaluate_cond_nodes(AT!cond_policydb_dup(p), Bools(input.new))
            exprs == <<input.c1.expr, input.c2.expr>>
            enabled == {n.id : n \in {m \in Range(q.cond) : m.enabled}}
            chosen == UNION {IF exprs[k] = "deep" THEN {}
                             ELSE IF Value(exprs[k], input.new[1], input.new[2])
                             THEN q.list[k].true_list ELSE q.list[k].false_list : k \in 1..2}
        IN p.ok => /\ enabled = chosen
                   /\ Len(q.cond) = Len(p.cond)
                   /\ Cardinality(AT!TypeRules(q, 1, "transition")) <= 1

-----------------------------------------------------------------------------
(* Contexts and ranges.                                                    *)

\* The text of a range is read back as the range it was written for, and fills
\* exactly the room that was made for it (mls.c; a length that is short writes
\* past the buffer).
MlsRoundTrip ==
    input.algorithm = "mls" =>
        LET p == MlsPolicy(5)
            text == SS!mls_sid_to_context(p, input.range)
        IN /\ Len(text) = SS!mls_compute_context_len(p, input.range)
           /\ SS!mls_context_to_sid(p, TRUE, Tail(text), SS!Invalid) = input.range

\* The range a user is given on the way from another is a range, lies in the
\* user's own and does not rise above the clearance it comes from; the default
\* range "glblub" is a range too, and so is a range converted to a policy that
\* numbers the categories otherwise; audit rules compare levels as the partial
\* order they are (mls.c, context.h, selinux_audit_rule_match in services.c).
RangesValid ==
    input.algorithm = "user" =>
        LET p == MlsPolicy(2)
            r == SS!mls_setup_user_range(p, input.from, input.user)
            g == SS!mls_context_glblub(input.from, input.user.range)
            swap == [sens |-> <<1, 2>>, cat |-> [x \in 0..1 |-> 1 - x]]
            converted == SS!mls_convert_context(p, p, input.from, swap)
            Match(op) == SS!selinux_audit_rule_match([range |-> input.from], "obj_lev_high", op,
                                                     [range |-> input.user.range])
        IN /\ r # SS!Invalid => /\ SS!mls_range_isvalid(p, r)
                                /\ SS!mls_range_contains(input.user.range, r)
                                /\ SS!mls_level_dom(input.from[2], r[2])
           /\ g # SS!Invalid => SS!mls_range_isvalid(p, g)
           /\ SS!mls_range_isvalid(p, converted)
           /\ SS!mls_convert_context(p, p, converted, swap) = input.from
           /\ Match("le") /\ Match("ge") <=> Match("eq")
           /\ Match("lt") <=> Match("le") /\ Match("neq")
           /\ Match("gt") <=> Match("ge") /\ Match("neq")

\* Ranges survive every journey: as text, to another user, into another policy
\* (mls.c).
MlsSound == MlsRoundTrip /\ RangesValid

-----------------------------------------------------------------------------
(* Decisions.                                                              *)

Holds(name, sc, tc) ==
    CASE name = "level" -> sc.range[2].sens >= tc.range[1].sens
      [] name = "role" -> sc.role = tc.role \/ sc.type = 1
\* What the policy grants two types by itself, and the pairs of types that bound
\* them, up to the one that nothing bounds.
GrantedAlone(i, sc, tc, perm) ==
    LET Has(type) == {type} \cup (IF type \in 1..2 THEN {4} ELSE {})
    IN /\ \E r \in i.rules : r[1] \in Has(sc.type) /\ r[2] \in Has(tc.type) /\ r[3] = perm
       /\ \A k \in DOMAIN i.constraints :
              perm \in Constraints[i.constraints[k]].perms => Holds(i.constraints[k], sc, tc)
       /\ perm = "transition" => sc.role = tc.role \/ <<sc.role, tc.role>> \in i.role_allow
BoundingPairs(i, sc, tc) ==
    LET Up(t) == IF i.bounds[t] = 0 THEN t ELSE i.bounds[t]
        s1 == i.bounds[sc.type]
        s2 == IF s1 = 0 THEN 0 ELSE i.bounds[s1]
    IN {<<sc.type, tc.type>>}
       \cup (IF s1 = 0 THEN {} ELSE {<<s1, Up(tc.type)>>})
       \cup (IF s2 = 0 THEN {} ELSE {<<s2, Up(Up(tc.type))>>})
KernelPerms == {"read", "transition", "new"}

\* A permission is granted exactly when some allow rule reaches the two types,
\* through their attributes or not, every constraint on it holds, the roles may
\* follow each other where it is a transition, and the same is true of the types
\* that bound them; one the policy does not know is granted where the policy says
\* so (services.c: the order in which rules remove permissions does not matter).
\* A change of label passes exactly when every validatetrans rule holds.
AvExact ==
    input.algorithm = "av" =>
        \A sc \in Contexts, tc \in Contexts :
            /\ SS!security_compute_av(Policy(input), sc, tc, "process", KernelPerms)
                = {perm \in KernelPerms :
                      IF perm = "new" THEN input.allow_unknown
                      ELSE \A pair \in BoundingPairs(input, sc, tc) :
                               GrantedAlone(input, [sc EXCEPT !.type = pair[1]],
                                            [tc EXCEPT !.type = pair[2]], perm)}
            /\ SS!security_compute_validatetrans(Policy(input), sc, tc, sc, "process")
                   <=> \A k \in DOMAIN input.constraints : Holds(input.constraints[k], sc, tc)

\* Entries of one protocol, subnet or device that do not overlap.
Ports == {<<[protocol |-> "tcp", low |-> 1, high |-> 2], [protocol |-> "tcp", low |-> 3, high |-> 4],
            [protocol |-> "udp", low |-> 1, high |-> 4]>>}
Pkeys == {<<[subnet |-> s, low |-> 1, high |-> 2], [subnet |-> s, low |-> 3, high |-> 3],
            [subnet |-> s + 1, low |-> 1, high |-> 3]>> : s \in 1..2}
\* The label found does not depend on the order of a list without overlaps.
OrderFree(list, Lookup(_)) ==
    LET i == Lookup(list)
        j == Lookup(Reverse(list))
    IN (i = 0 <=> j = 0) /\ (i # 0 => list[i] = Reverse(list)[j])

\* A path is labelled by the longest entry that is a prefix of it and speaks of
\* its class, and by one only, in whatever order the policy lists the entries
\* (genfs_read in policydb.c sorts them, __security_genfs_sid takes the first);
\* and ports and keys without overlaps are labelled alike in any order.
GenfsLongest ==
    /\ input.algorithm = "none" =>
        /\ \A list \in Ports, proto \in {"tcp", "udp"}, port \in 0..5 :
               OrderFree(list, LAMBDA l : SS!security_port_sid(l, proto, port))
        /\ \A list \in Pkeys, subnet \in 0..3, pkey \in 0..4 :
               OrderFree(list, LAMBDA l : SS!security_ib_pkey_sid(l, subnet, pkey))
    /\ input.algorithm = "genfs" =>
        LET g == SS!genfs_read(input.entries)
            found == SS!security_genfs_sid(g.list, input.path, input.class)
            path == IF input.path[2] = "/" THEN Tail(input.path) ELSE input.path
            fits == {k \in DOMAIN input.entries :
                        /\ input.entries[k].class \in {"any", input.class}
                        /\ IsPrefix(input.entries[k].name, path)}
            longest == {k \in fits : \A j \in fits :
                           Len(input.entries[j].name) <= Len(input.entries[k].name)}
        IN g.ok => /\ Cardinality(longest) <= 1
                   /\ IF longest = {} THEN found = 0
                      ELSE found # 0 /\ g.list[found] = input.entries[CHOOSE k \in longest : TRUE]

\* What the policy is kept in answers as the sets and lists that it was made from:
\* bitmaps, the rules of the avtab and of the conditionals, and the entries by
\* path, port and key (ebitmap.c, avtab.c, conditional.c, services.c).
LookupsExact == EbitmapExact /\ AvtabExact /\ CondExact /\ GenfsLongest

\* Every context the server makes in enforcing mode is one the policy accepts:
\* computed for a new object or process, listed for a user that logs in, with the
\* level of another, or of a packet with a NetLabel label; and its text is read
\* back as the same context (services.c).
ContextsValid ==
    input.algorithm = "context" =>
        LET p == ContextPolicy(input)
            ranges == {<<Level(1), Level(1)>>, <<Level(1), Level(2)>>, <<Level(2), Level(2)>>}
            valid == {c \in [user: 1..2, role: 1..3, type: 1..2, range: ranges] :
                         SS!policydb_context_isvalid(p, c)}
            new == UNION {{SS!security_compute_sid(p, s, t, input.class, input.specified, n, TRUE)
                               : n \in {"none", "n"}}
                          \cup SS!security_get_user_sids(p, s, t.user)
                          \cup {SS!security_sid_mls_copy(p, s, t, TRUE)}
                          \cup {SS!security_netlbl_secattr_to_sid(
                                   p, SS!security_netlbl_sid_to_secattr(p, s), t)}
                          : s \in valid, t \in valid}
        IN \A c \in new \ {SS!NoContext} :
               /\ SS!policydb_context_isvalid(p, c)
               /\ SS!string_to_context_struct(p, SS!context_struct_to_string(p, c), SS!Invalid)
                      = [valid |-> TRUE, context |-> c]

\* An ioctl is granted exactly when the permission is, and, as soon as some rule
\* speaks of any command, when a rule allows this one (services.c computes the
\* drivers first and the commands of one driver on demand, avc.c asks for both);
\* a refused command is left out of the audit log only for a rule that names it.
XpermsExact ==
    input.algorithm = "xperm" =>
        LET p == [Policy([bounds |-> <<0, 0, 0>>, rules |-> {}, constraints |-> <<>>,
                          role_allow |-> {}, allow_unknown |-> FALSE])
                    EXCEPT !.te = {[s |-> r[1], t |-> 3, c |-> "process", spec |-> r[2],
                                    driver |-> r[3], data |-> r[4], enabled |-> TRUE,
                                    cond |-> FALSE] : r \in input.rules}
                                  \cup (IF ~input.ioctl THEN {}
                                        ELSE {[s |-> 1, t |-> 3, c |-> "process",
                                               spec |-> "allowed", driver |-> "d1",
                                               data |-> {"ioctl"}, enabled |-> TRUE,
                                               cond |-> FALSE]})]
            c(type) == [user |-> 1, role |-> 2, type |-> type, range |-> <<Level(1), Level(1)>>]
        IN \A driver \in {"d1", "d2", "d3"}, f \in SS!Functions :
            /\ SS!avc_has_extended_perms(p, c(1), c(3), "process", driver, f)
                <=> /\ input.ioctl
                    /\ input.rules = {} \/ \E r \in input.rules :
                           r[2] = "xallowed" /\ IF r[3] = SS!ALL_DRIVERS THEN driver \in r[4]
                                                ELSE r[3] = driver /\ f \in r[4]
            /\ SS!avc_xperms_audit_required(
                   SS!context_struct_compute_av(p, c(1), c(3), "process"),
                   SS!security_compute_xperms_decision(p, c(1), c(3), "process", driver), f, FALSE)
                   <=> ~(<<driver, f>> = <<"d3", "f0">>
                         /\ <<1, "xdontaudit", "d3", {"f0"}>> \in input.rules)

\* The server decides as the rules of its policy say, for permissions and for
\* single ioctl commands, with whatever order the rules have (services.c).
DecisionsExact == AvExact /\ XpermsExact

-----------------------------------------------------------------------------
(* The policy file.                                                        *)

\* What policydb_write() writes, for a policy of any version, policydb_read()
\* takes field by field to the end: /sys/fs/selinux/policy can be loaded again.
\* Two file name rules for one source type are left out here (see ImageReadable).
LayoutAgrees ==
    input.algorithm = "image" /\ NoDuplicates(input.rules) =>
        PD!policydb_read(Image(input)) = PD!policydb_write(Image(input))

\* The same of every policy.
ImageReadable ==
    input.algorithm = "image" =>
        PD!policydb_read(Image(input)) = PD!policydb_write(Image(input))

\* The server never stops on a policy that was read: no constraint that the
\* reader accepts trips a BUG_ON() of constraint_expr_eval() or fills its stack,
\* and the types that bound a type come to an end, so that computing an access
\* vector does; nor does a user or a role exceed any of those that bound it.
AcceptedIsSafe ==
    /\ input.algorithm = "safe" =>
        LET c == [user |-> 1, role |-> 2, type |-> 1, range |-> <<Level(1), Level(1)>>]
            p == [roles |-> <<{1}, {2}>>]
            m == SS!ConstraintRun(p, c, c, IF input.xtarget THEN c ELSE SS!NoContext, input.expr)
        IN PD!ConstraintAccepted(input.expr, input.xtarget) => ~m.bug /\ ~m.full
    /\ input.algorithm = "bounds" =>
        LET b == input.bounds
            Above(X) == X \cup {b[x] : x \in X \ {0}}
        IN (PD!IndexAccepted(b, 4)
            /\ PD!policydb_bounds_sanity_check(PD!BOUNDARY, b, input.has, {})) =>
               \A x \in 1..4 :
                   /\ 0 \in Above(Above(Above(Above({x}))))
                   /\ \A y \in Above(Above(Above({x}))) \ {0} : input.has[x] \subseteq input.has[y]

=============================================================================
