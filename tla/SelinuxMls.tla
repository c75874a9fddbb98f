----------------------------- MODULE SelinuxMls -----------------------------
(***************************************************************************)
(* Multi-level security (ss/mls.c, ss/mls_types.h, the mls_ part of        *)
(* ss/context.h).  A level is a sensitivity and a set of categories; a     *)
(* range is a pair of levels.  Names are tokens: the sensitivity and the   *)
(* category numbers, tagged.  p: the categories each sensitivity may have, *)
(* the number of categories, and whether MLS is on.                        *)
(***************************************************************************)
EXTENDS Integers, Sequences, FiniteSetsExt, SequencesExt

\* No level, and no range: -EINVAL.
BadLevel == [sens |-> 0, cat |-> {}]
Invalid == <<BadLevel, BadLevel>>

mls_level_eq(l1, l2) == l1.sens = l2.sens /\ l1.cat = l2.cat
mls_level_dom(l1, l2) == l1.sens >= l2.sens /\ l2.cat \subseteq l1.cat
mls_level_incomp(l1, l2) == ~mls_level_dom(l1, l2) /\ ~mls_level_dom(l2, l1)
mls_level_between(l1, l2, l3) == mls_level_dom(l1, l2) /\ mls_level_dom(l3, l1)
mls_range_contains(r1, r2) == mls_level_dom(r2[1], r1[1]) /\ mls_level_dom(r1[2], r2[2])

mls_level_isvalid(p, l) ==
    /\ l.sens \in DOMAIN p.levels
    /\ l.cat \subseteq p.levels[l.sens]
    /\ \A c \in l.cat : c <= p.ncats
mls_range_isvalid(p, r) ==
    mls_level_isvalid(p, r[1]) /\ mls_level_isvalid(p, r[2]) /\ mls_level_dom(r[2], r[1])
OBJECT_R_VAL == 1
mls_context_isvalid(p, c) ==
    p.mls => /\ mls_range_isvalid(p, c.range)
             /\ \/ c.role = OBJECT_R_VAL
                \/ c.user \in DOMAIN p.users
                   /\ mls_range_contains(p.users[c.user].range, c.range)

-----------------------------------------------------------------------------
(* The text of a range, as tokens.                                         *)

Colon == <<":">>
Comma == <<",">>
Dot == <<".">>
Dash == <<"-">>
Cat(c) == <<"cat", c>>

\* What ends a run of categories that starts at head.
CloseRun(head, prev) ==
    IF prev # head THEN <<IF prev - head > 1 THEN Dot ELSE Comma, Cat(prev)>> ELSE <<>>

WriteCat(s, i) ==
    IF i - s.prev > 1
    THEN [text |-> s.text \o CloseRun(s.head, s.prev)
                          \o <<IF s.prev < 0 THEN Colon ELSE Comma, Cat(i)>>,
          head |-> i, prev |-> i]
    ELSE [s EXCEPT !.prev = i]
LevelText(l) ==
    LET s == FoldLeft(WriteCat, [text |-> <<<<"sens", l.sens>>>>, head |-> -2, prev |-> -2],
                      SetToSortSeq(l.cat, <))
    IN s.text \o CloseRun(s.head, s.prev)
mls_sid_to_context(p, r) ==
    IF ~p.mls THEN <<>>
    ELSE <<Colon>> \o LevelText(r[1])
                 \o (IF mls_level_eq(r[1], r[2]) THEN <<>> ELSE <<Dash>> \o LevelText(r[2]))

\* The room the caller makes for it: a name with its separator is two tokens.
CountCat(s, i) ==
    IF i - s.prev > 1
    THEN [len |-> s.len + (IF s.head # s.prev THEN 2 ELSE 0) + 2, head |-> i, prev |-> i]
    ELSE [s EXCEPT !.prev = i]
LevelLen(l) ==
    LET s == FoldLeft(CountCat, [len |-> 1, head |-> -2, prev |-> -2], SetToSortSeq(l.cat, <))
    IN s.len + (IF s.prev # s.head THEN 2 ELSE 0)
mls_compute_context_len(p, r) ==
    IF ~p.mls THEN 0
    ELSE 1 + LevelLen(r[1]) + (IF mls_level_eq(r[1], r[2]) THEN 0 ELSE 1 + LevelLen(r[2]))

\* Reading it back.  Split(s, c): the parts of s between the tokens c.
Split(s, c) ==
    LET cuts == <<0>> \o SetToSortSeq({i \in DOMAIN s : s[i] = c}, <) \o <<Len(s) + 1>>
    IN [k \in 1..(Len(cuts) - 1) |-> SubSeq(s, cuts[k] + 1, cuts[k + 1] - 1)]
\* A category or a range of them: {} for one that is refused.
ReadCats(p, part) ==
    LET ends == Split(part, Dot)
        lo == ends[1][1][2]
        hi == ends[2][1][2]
    IN CASE Len(ends) = 1 /\ Len(part) = 1 /\ lo < p.ncats -> {lo}
         [] Len(ends) = 2 /\ Len(part) = 3 /\ lo < p.ncats /\ hi < p.ncats /\ lo < hi -> lo..hi
         [] OTHER -> {}
\* The level of a sensitivity and, if there are any, of runs of categories.
LevelOf(p, parts, cats) ==
    LET sens == parts[1][1][2]
    IN CASE Len(parts[1]) # 1 \/ sens \notin DOMAIN p.levels -> BadLevel
         [] Len(parts) = 1 -> [sens |-> sens, cat |-> {}]
         [] \E k \in DOMAIN cats : cats[k] = {} -> BadLevel
         [] OTHER -> [sens |-> sens, cat |-> UNION {cats[k] : k \in DOMAIN cats}]
ReadRuns(p, runs) == [k \in DOMAIN runs |-> ReadCats(p, runs[k])]
ReadParts(p, parts) == LevelOf(p, parts, ReadRuns(p, Split(parts[2], Comma)))
ReadLevel(p, text) == ReadParts(p, Split(text, Colon))
RangeOf(low, high) == IF low = BadLevel \/ high = BadLevel THEN Invalid ELSE <<low, high>>
\* text: what follows the colon; def: the range of the default SID.
mls_context_to_sid(p, oldc, text, def) ==
    LET ends == Split(text, Dash)
    IN CASE ~p.mls -> IF oldc /\ def = Invalid THEN Invalid ELSE <<>>
         [] ~oldc -> def
         [] OTHER -> RangeOf(ReadLevel(p, ends[1]), ReadLevel(p, ends[Min({2, Len(ends)})]))
mls_from_string(p, text) ==
    IF p.mls THEN mls_context_to_sid(p, TRUE, text, Invalid) ELSE Invalid

-----------------------------------------------------------------------------
(* Ranges computed from others.                                            *)

mls_context_cpy(r) == r
mls_context_cpy_low(r) == <<r[1], r[1]>>
mls_context_cpy_high(r) == <<r[2], r[2]>>
mls_context_glblub(r1, r2) ==
    IF r1[2].sens < r2[1].sens \/ r2[2].sens < r1[1].sens THEN Invalid
    ELSE <<[sens |-> Max({r1[1].sens, r2[1].sens}), cat |-> r1[1].cat \cap r2[1].cat],
           [sens |-> Min({r1[2].sens, r2[2].sens}), cat |-> r1[2].cat \cap r2[2].cat]>>

\* Mutant: the clearance of the user is not considered.
Mutmls_setup_user_range(p, from, user) ==
    LET sen == CASE mls_level_between(user.dflt, from[1], from[2]) -> user.dflt
                 [] mls_level_between(from[1], user.dflt, user.range[2]) -> from[1]
                 [] mls_level_between(from[2], user.range[1], user.dflt) -> user.range[1]
                 [] OTHER -> BadLevel
    IN IF sen = BadLevel THEN Invalid ELSE <<sen, from[2]>>

\* The range of a context of the user, reached from a range.
mls_setup_user_range(p, from, user) ==
    LET sen == CASE mls_level_between(user.dflt, from[1], from[2]) -> user.dflt
                 [] mls_level_between(from[1], user.dflt, user.range[2]) -> from[1]
                 [] mls_level_between(from[2], user.range[1], user.dflt) -> user.range[1]
                 [] OTHER -> BadLevel
        clr == CASE mls_level_dom(user.range[2], from[2]) -> from[2]
                 [] mls_level_dom(from[2], user.range[2]) -> user.range[2]
                 [] OTHER -> BadLevel
    IN IF sen = BadLevel \/ clr = BadLevel THEN Invalid ELSE <<sen, clr>>

\* names: what the new policy calls the sensitivities and the categories of the
\* old one, where it knows them.
mls_convert_context(oldp, newp, r, names) ==
    LET Known(l) == l.sens \in DOMAIN names.sens /\ l.cat \subseteq DOMAIN names.cat
        Conv(l) == [sens |-> names.sens[l.sens], cat |-> {names.cat[c] : c \in l.cat}]
    IN CASE ~oldp.mls \/ ~newp.mls -> <<>>
         [] Known(r[1]) /\ Known(r[2]) -> <<Conv(r[1]), Conv(r[2])>>
         [] OTHER -> Invalid

\* trans: the range transition of the types and the class, or Invalid when there
\* is none; default: the default_range of the class.
mls_compute_sid(p, s, t, trans, default, specified, process_or_sock) ==
    LET plain == IF process_or_sock THEN mls_context_cpy(s) ELSE mls_context_cpy_low(s)
    IN CASE ~p.mls -> <<>>
         [] specified = "member" -> mls_context_cpy_low(s)
         [] specified = "change" -> plain
         [] trans # Invalid -> trans
         [] default = "source_low" -> mls_context_cpy_low(s)
         [] default = "source_high" -> mls_context_cpy_high(s)
         [] default = "source_low_high" -> mls_context_cpy(s)
         [] default = "target_low" -> mls_context_cpy_low(t)
         [] default = "target_high" -> mls_context_cpy_high(t)
         [] default = "target_low_high" -> mls_context_cpy(t)
         [] default = "glblub" -> mls_context_glblub(s, t)
         [] OTHER -> plain

\* NetLabel carries the low level only.
mls_export_netlbl(p, r) == [lvl |-> r[1].sens - 1, cat |-> r[1].cat]
mls_import_netlbl(p, attr) ==
    LET l == [sens |-> attr.lvl + 1, cat |-> attr.cat] IN <<l, l>>
=============================================================================
