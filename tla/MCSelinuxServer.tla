-------------------------- MODULE MCSelinuxServer --------------------------
(* Instance of SelinuxServer for TLC: two policies that differ in the      *)
(* contexts they know and accept, in their booleans and in what they allow.*)
EXTENDS SelinuxServer, TLC

Image1 == [known |-> {"c1", "c2"}, valid |-> {"c1"}, bools |-> [b \in {"b1"} |-> FALSE],
           allow |-> {}, cond |-> [b \in BoolNames |-> {"p"}], xperms |-> NULL,
           permissive |-> FALSE, deny_unknown |-> TRUE]
Image2 == [known |-> {"c2"}, valid |-> {"c2"}, bools |-> [b \in {"b1", "b2"} |-> FALSE],
           allow |-> {"p"}, cond |-> [b \in BoolNames |-> {}], xperms |-> {},
           permissive |-> FALSE, deny_unknown |-> FALSE]
MCImages == {Image1, Image2}

CONSTANTS t1, t2, l1, l2, n1, n2, a1, a2

Symmetry == Permutations(Labellers) \cup Permutations(Checkers)

\* Two tasks of a kind race with one administrator, and two administrators with
\* each other; the SID table lives through two conversions.
MCScenarios ==
    {[tasks |-> {l1, l2, a1}, changes |-> 2], [tasks |-> {l1, a1}, changes |-> 3],
     [tasks |-> {n1, n2, a1}, changes |-> 2],
     [tasks |-> {t1, t2, a1}, changes |-> 1], [tasks |-> {t1, a1, a2}, changes |-> 2]}
=============================================================================
