---------------------------- MODULE SelinuxAvtab ----------------------------
(***************************************************************************)
(* The access vector tables (ss/avtab.c) and the conditional policy built  *)
(* on them (ss/conditional.c).  A table is one hash chain, which every key *)
(* of the model falls into; a node carries the identity the pointers of    *)
(* the conditional lists stand for.                                        *)
(***************************************************************************)
EXTENDS Integers, Sequences, FiniteSetsExt, SequencesExt

AVTAB_AV == {"allowed", "auditallow", "auditdeny"}
AVTAB_TYPE == {"transition", "member", "change"}
AVTAB_XPERMS == {"xperms_allowed", "xperms_auditallow", "xperms_dontaudit"}

\* A key is the number that orders source type, target type and class; a search
\* is for any of a set of kinds of rule.
Matches(key, specs, n) == n.key = key /\ n.spec \in specs
\* Where a walk for a key ends: at its first match, or before the first node of
\* a greater key, or at the end.
WalkEnd(h, key, specs) ==
    LET stops == {i \in DOMAIN h : Matches(key, specs, h[i]) \/ h[i].key > key}
    IN IF stops = {} THEN Len(h) + 1 ELSE Min(stops)

avtab_insert_node(h, i, n) == InsertAt(h, i, n)
\* -EEXIST: no insertion leaves an empty chain.
Refused == <<>>
avtab_insert(h, n) ==
    LET i == WalkEnd(h, n.key, {n.spec})
    IN IF i <= Len(h) /\ Matches(n.key, {n.spec}, h[i]) /\ n.spec \notin AVTAB_XPERMS
       THEN Refused ELSE avtab_insert_node(h, i, n)

avtab_insert_nonunique(h, n) == avtab_insert_node(h, WalkEnd(h, n.key, {n.spec}), n)

\* The index of the node found, 0 for none.
avtab_search_node(h, key, specs) ==
    LET i == WalkEnd(h, key, specs)
    IN IF i <= Len(h) /\ Matches(key, specs, h[i]) THEN i ELSE 0
avtab_search_node_next(h, i, specs) ==
    LET rest == SubSeq(h, i + 1, Len(h))
        j == avtab_search_node(rest, h[i].key, specs)
    IN IF j = 0 THEN 0 ELSE i + j

\* The nodes that a search and the searches for the next one give.
Found(h, key, specs) ==
    LET Walk[i \in 0..Len(h)] ==
            IF i = 0 THEN {} ELSE {i} \cup Walk[avtab_search_node_next(h, i, specs)]
    IN {h[i] : i \in Walk[avtab_search_node(h, key, specs)]}

-----------------------------------------------------------------------------
(* Conditional expressions, in postfix; a token is a boolean or an         *)
(* operator.                                                               *)

CONSTANT COND_EXPR_MAXDEPTH
Apply(op, a, b) ==
    CASE op = "or" -> a \/ b [] op = "and" -> a /\ b
      [] op \in {"xor", "neq"} -> a # b [] op = "eq" -> a = b
BinaryOps == {"or", "and", "xor", "eq", "neq"}
EvalStep(bools, s, tok) ==
    LET n == Len(s.stack)
    IN CASE ~s.ok -> s
         [] tok \in DOMAIN bools ->
                IF n = COND_EXPR_MAXDEPTH THEN [s EXCEPT !.ok = FALSE]
                ELSE [s EXCEPT !.stack = Append(@, bools[tok])]
         [] tok = "not" -> IF n < 1 THEN [s EXCEPT !.ok = FALSE]
                           ELSE [s EXCEPT !.stack[n] = ~@]
         [] tok \in BinaryOps ->
                IF n < 2 THEN [s EXCEPT !.ok = FALSE]
                ELSE [s EXCEPT !.stack = Append(SubSeq(@, 1, n - 2), Apply(tok, @[n - 1], @[n]))]
\* 1, 0, or -1 for an expression that has no value.
cond_evaluate_expr(bools, expr) ==
    LET s == FoldLeft(LAMBDA st, tok : EvalStep(bools, st, tok), [ok |-> TRUE, stack |-> <<>>], expr)
    IN IF expr = <<>> \/ ~s.ok THEN -1 ELSE IF s.stack[1] THEN 1 ELSE 0

-----------------------------------------------------------------------------
(* The conditional table.  p: the table of the unconditional rules, that   *)
(* of the conditional ones and the list of conditionals, each with its     *)
(* expression, its current state and the nodes of its two lists.           *)

PolicyWith(te) == [ok |-> TRUE, te |-> te, cond |-> <<>>, list |-> <<>>]
Fail(p) == [p EXCEPT !.ok = FALSE]

\* other: the identities of the nodes of the true list, when the false list is
\* being read, and {} with isTrue for the true list.
cond_insertf(p, n, isTrue, other) ==
    LET i == avtab_search_node(p.cond, n.key, {n.spec})
    IN IF n.spec \in AVTAB_TYPE /\
          \/ avtab_search_node(p.te, n.key, {n.spec}) # 0
          \/ isTrue /\ i # 0
          \/ ~isTrue /\ i # 0 /\ (avtab_search_node_next(p.cond, i, {n.spec}) # 0
                                  \/ p.cond[i].id \notin other)
       THEN Fail(p)
       ELSE [p EXCEPT !.cond = avtab_insert_nonunique(@, n)]

cond_read_av_list(p, nodes, isTrue, other) ==
    FoldLeft(LAMBDA q, n : IF q.ok THEN cond_insertf(q, n, isTrue, other) ELSE q, p, nodes)
Ids(nodes) == {nodes[i].id : i \in DOMAIN nodes}
\* c: the expression and the nodes of the lists, as the file has them.
cond_read_node(p, c) ==
    LET q == cond_read_av_list(p, c.true_list, TRUE, {})
        r == cond_read_av_list(q, c.false_list, FALSE, Ids(c.true_list))
    IN [r EXCEPT !.list = Append(@, [expr |-> c.expr, cur_state |-> c.cur_state,
                                     true_list |-> Ids(c.true_list),
                                     false_list |-> Ids(c.false_list)])]
cond_read_list(te, cs) ==
    FoldLeft(LAMBDA p, c : IF p.ok THEN cond_read_node(p, c) ELSE p, PolicyWith(te), cs)

Enable(chain, ids, on) ==
    [i \in DOMAIN chain |->
        IF chain[i].id \in ids THEN [chain[i] EXCEPT !.enabled = on] ELSE chain[i]]

\* The lists are touched only when the state changes.
evaluate_cond_node(p, bools, k) ==
    LET new == cond_evaluate_expr(bools, p.list[k].expr)
    IN IF new = p.list[k].cur_state THEN p
       ELSE [p EXCEPT !.list[k].cur_state = new,
                      !.cond = Enable(Enable(@, p.list[k].true_list, new > 0),
                                      p.list[k].false_list, new = 0)]

evaluate_cond_nodes(p, bools) ==
    FoldLeft(LAMBDA q, k : evaluate_cond_node(q, bools, k), p, [k \in DOMAIN p.list |-> k])

\* cond_policydb_dup(): the nodes are inserted again, list after list, with the
\* flags they have; the copies' identities are those of the originals.
NodesOf(chain, ids) == SetToSortSeq({chain[i] : i \in {j \in DOMAIN chain : chain[j].id \in ids}},
                                    LAMBDA x, y : x.id < y.id)
cond_dup_av_list(chain, from, ids) == FoldLeft(avtab_insert_nonunique, chain, NodesOf(from, ids))
cond_policydb_dup(p) ==
    [p EXCEPT !.cond = FoldLeft(LAMBDA chain, c : cond_dup_av_list(
                                    cond_dup_av_list(chain, p.cond, c.true_list),
                                    p.cond, c.false_list),
                                <<>>, p.list)]

\* The enabled rules of a key change a decision: more is allowed and audited, and
\* of what is audited when denied only what every auditdeny rule names is left.
cond_compute_av(p, key, avd) ==
    LET On(spec) == {m.data : m \in {n \in Found(p.cond, key, AVTAB_AV)
                                         : n.spec = spec /\ n.enabled}}
    IN [allowed |-> avd.allowed \cup UNION On("allowed"),
        auditallow |-> avd.auditallow \cup UNION On("auditallow"),
        auditdeny |-> {x \in avd.auditdeny : \A d \in On("auditdeny") : x \in d}]
\* The type a rule gives: an unconditional one, or the first enabled.
TypeRules(p, key, spec) ==
    Found(p.te, key, {spec}) \cup {n \in Found(p.cond, key, {spec}) : n.enabled}
=============================================================================
