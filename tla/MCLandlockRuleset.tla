------------------------- MODULE MCLandlockRuleset --------------------------
(* Instance of LandlockRuleset for TLC. *)
EXTENDS LandlockRuleset, TLC

Symmetry == Permutations(Rulesets) \cup Permutations(Hierarchies)
            \cup Permutations(Creds) \cup Permutations(Tasks)
            \cup Permutations(Objects)

\* For liveness, where symmetry is unsound: with numbers for addresses, an
\* allocation takes the smallest free one.  Which address is reused makes no
\* difference to the code.
AllocInOrder ==
    /\ \A r, q \in Rulesets :
          rstate[r] = "free" /\ rstate'[r] # "free" /\ q < r => rstate[q] # "free"
    /\ \A h, k \in Hierarchies :
          husage[h] = 0 /\ husage'[h] # 0 /\ k < h => husage[k] # 0
    /\ \A c, d \in Creds :
          cstate[c] = "free" /\ cstate'[c] # "free" /\ d < c => cstate[d] # "free"

\* Bounds: rules are only added where no ptrace check runs, with one file, two
\* domains and two credentials.
RulesOrPtrace ==
    (\E r \in Rulesets, o \in Objects : tree[r][o] # <<>>) =>
        /\ \A t \in Tracers : pt[t] = NoPtrace
        /\ Cardinality(fd) <= 1 /\ nextid <= 2
        /\ Cardinality({c \in Creds : cstate[c] # "free"}) <= 2
=============================================================================
