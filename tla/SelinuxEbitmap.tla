--------------------------- MODULE SelinuxEbitmap ---------------------------
(***************************************************************************)
(* The extensible bitmaps of the policy (ss/ebitmap.c): a list of nodes    *)
(* in the order of their start bits, each with the bits set of a window of *)
(* EBITMAP_SIZE bits, and highbit, the end of the last window.  A node's   *)
(* units are kept as one set of bit numbers.                               *)
(***************************************************************************)
EXTENDS Integers, Sequences, FiniteSetsExt, SequencesExt

CONSTANTS EBITMAP_UNIT_SIZE, EBITMAP_UNIT_NUMS
EBITMAP_SIZE == EBITMAP_UNIT_SIZE * EBITMAP_UNIT_NUMS

rounddown(bit, n) == bit - (bit % n)
ebitmap_init == [highbit |-> 0, nodes |-> <<>>]
Node(bit, bits) == [startbit |-> rounddown(bit, EBITMAP_SIZE), bits |-> bits]
End(n) == n.startbit + EBITMAP_SIZE

\* The nodes a walk for a bit passes: those before the first that starts after.
Walked(e, bit) ==
    LET later == {i \in DOMAIN e.nodes : e.nodes[i].startbit > bit}
    IN IF later = {} THEN Len(e.nodes) ELSE Min(later) - 1
Hits(e, bit) == {i \in 1..Walked(e, bit) : End(e.nodes[i]) > bit}

\* ebitmap_for_each_positive_bit().
PositiveBits(e) ==
    SetToSortSeq({b \in UNION {e.nodes[i].bits : i \in DOMAIN e.nodes} : b < e.highbit}, <)

ebitmap_cmp(e1, e2) == e1.highbit = e2.highbit /\ e1.nodes = e2.nodes

ebitmap_get_bit(e, bit) ==
    /\ e.highbit >= bit
    /\ Hits(e, bit) # {} /\ bit \in e.nodes[Min(Hits(e, bit))].bits

\* The bit is cleared; a node left without bits is taken out, and a last one
\* takes the end of the bitmap with it.
ebitmap_clear(e, i, bit) ==
    LET bits == e.nodes[i].bits \ {bit}
    IN IF bits # {} THEN [e EXCEPT !.nodes[i].bits = bits]
       ELSE [highbit |-> IF i < Len(e.nodes) THEN e.highbit
                         ELSE IF i > 1 THEN End(e.nodes[i - 1]) ELSE 0,
             nodes |-> RemoveAt(e.nodes, i)]

ebitmap_set_bit(e, bit, value) ==
    LET k == Walked(e, bit)
        hits == Hits(e, bit)
        new == Node(bit, {bit})
    IN CASE hits # {} /\ value -> [e EXCEPT !.nodes[Min(hits)].bits = @ \cup {bit}]
         [] hits # {} /\ ~value -> ebitmap_clear(e, Min(hits), bit)
         [] hits = {} /\ ~value -> e
         [] OTHER -> [highbit |-> IF k = Len(e.nodes) THEN End(new) ELSE e.highbit,
                      nodes |-> InsertAt(e.nodes, k + 1, new)]

ebitmap_and(e1, e2) ==
    FoldLeft(LAMBDA dst, bit : IF ebitmap_get_bit(e2, bit) THEN ebitmap_set_bit(dst, bit, TRUE)
                               ELSE dst,
             ebitmap_init, PositiveBits(e1))

\* One step for each node of e1: j is the node of e2 looked for, 0 once the
\* answer is no.  A last_e2bit of 0 asks for nothing.
ContainsStep(e2, last_e2bit, j, n1) ==
    IF j = 0 \/ j > Len(e2.nodes) THEN j
    ELSE LET n2 == e2.nodes[j]
         IN CASE n1.startbit < n2.startbit -> j
              [] n1.startbit > n2.startbit -> 0
              [] last_e2bit # 0 /\ n2.bits # {} /\ Max(n2.bits) > last_e2bit -> 0
              [] ~(n2.bits \subseteq n1.bits) -> 0
              [] OTHER -> j + 1
ebitmap_contains(e1, e2, last_e2bit) ==
    /\ e1.highbit >= e2.highbit
    /\ FoldLeft(LAMBDA j, n1 : ContainsStep(e2, last_e2bit, j, n1), 1, e1.nodes)
           = Len(e2.nodes) + 1

-----------------------------------------------------------------------------
(* NetLabel's category maps, external, are sets of bits.                   *)

ebitmap_netlbl_export(e) == UNION {e.nodes[i].bits : i \in DOMAIN e.nodes}
\* The category map is read unit by unit; a unit beyond the last node starts
\* another.
ImportUnit(e, unit) ==
    LET offset == rounddown(Min(unit), EBITMAP_UNIT_SIZE)
        new == Node(offset, {})
        last == Len(e.nodes)
        f == IF last = 0 \/ (last > 0 /\ offset >= End(e.nodes[IF last = 0 THEN 1 ELSE last]))
             THEN [highbit |-> End(new), nodes |-> Append(e.nodes, new)] ELSE e
    IN [f EXCEPT !.nodes[Len(f.nodes)].bits = @ \cup unit]
Units(bits) ==
    SetToSortSeq({{b \in bits : b \div EBITMAP_UNIT_SIZE = u} :
                     u \in {b \div EBITMAP_UNIT_SIZE : b \in bits}},
                 LAMBDA x, y : Min(x) < Min(y))
ebitmap_netlbl_import(bits) == FoldLeft(ImportUnit, ebitmap_init, Units(bits))

-----------------------------------------------------------------------------
(* The policy file: the end of the last unit and, for every unit with bits *)
(* set, its first bit and the bits.                                        *)

ebitmap_write(e) ==
    LET units == Units(Range(PositiveBits(e)))
    IN [highbit |-> IF units = <<>> THEN 0
                    ELSE rounddown(Max(Last(units)), EBITMAP_UNIT_SIZE) + EBITMAP_UNIT_SIZE,
        entries |-> [i \in DOMAIN units |->
                        [startbit |-> rounddown(Min(units[i]), EBITMAP_UNIT_SIZE),
                         map |-> units[i]]]]

BadBitmap == [highbit |-> -1, nodes |-> <<>>]
ReadEntry(e, entry) ==
    LET last == Len(e.nodes)
        new == last = 0 \/ entry.startbit >= End(e.nodes[IF last = 0 THEN 1 ELSE last])
    IN CASE e = BadBitmap -> e
         [] entry.startbit % EBITMAP_UNIT_SIZE # 0 -> BadBitmap
         [] entry.startbit > e.highbit - EBITMAP_UNIT_SIZE -> BadBitmap
         [] ~new /\ entry.startbit <= e.nodes[last].startbit -> BadBitmap
         [] new -> [e EXCEPT !.nodes = Append(@, Node(entry.startbit, entry.map))]
         [] OTHER -> [e EXCEPT !.nodes[last].bits = @ \cup entry.map]
ebitmap_read(file) ==
    LET h == file.highbit + EBITMAP_SIZE - 1
        highbit == rounddown(h, EBITMAP_SIZE)
    IN CASE highbit = 0 -> ebitmap_init
         [] file.entries = <<>> -> BadBitmap
         [] OTHER -> FoldLeft(ReadEntry, [highbit |-> highbit, nodes |-> <<>>], file.entries)
=============================================================================
