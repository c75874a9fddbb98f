--------------------------- MODULE LandlockPolicy ---------------------------
(***************************************************************************)
(* What Landlock promises its users about rulesets and domains, without    *)
(* memory management: a ruleset is a set of handled rights and the rights  *)
(* its rules allow per object; a thread's policy is a stack of layers,     *)
(* each a copy of a ruleset taken during landlock_restrict_self(2).        *)
(* A policy is only ever extended, by one layer at a time, and a copied    *)
(* layer never changes.                                                    *)
(***************************************************************************)
EXTENDS Naturals, Sequences

CONSTANTS Rulesets, Tasks, Objects, Access, MaxLayers, None

VARIABLES
    content,   \* content[r]: the layer that ruleset r stands for, or None
    policy,    \* policy[t]: the stack of layers of a thread, or None
    copied     \* copied[t]: the layer a thread is about to stack, or None

pvars == <<content, policy, copied>>

Layer == [handled : SUBSET Access, rights : [Objects -> SUBSET Access]]

PolicyInit ==
    /\ content = [r \in Rulesets |-> None]
    /\ \E t \in Tasks : policy = [u \in Tasks |-> IF u = t THEN <<>> ELSE None]
    /\ copied = [t \in Tasks |-> None]

Create(r, handled) ==
    /\ content[r] = None
    /\ content' = [content EXCEPT ![r] =
           [handled |-> handled, rights |-> [o \in Objects |-> {}]]]
    /\ UNCHANGED <<policy, copied>>

Allow(r, o, allowed) ==
    /\ content[r] # None
    /\ allowed \subseteq content[r].handled
    /\ content' = [content EXCEPT ![r].rights[o] = @ \cup allowed]
    /\ UNCHANGED <<policy, copied>>

Drop(r) ==
    /\ content' = [content EXCEPT ![r] = None]
    /\ UNCHANGED <<policy, copied>>

Copy(t, r) ==
    /\ policy[t] # None /\ copied[t] = None /\ content[r] # None
    /\ copied' = [copied EXCEPT ![t] = content[r]]
    /\ UNCHANGED <<content, policy>>

Restrict(t) ==
    /\ copied[t] # None
    /\ Len(policy[t]) < MaxLayers
    /\ policy' = [policy EXCEPT ![t] = Append(@, copied[t])]
    /\ copied' = [copied EXCEPT ![t] = None]
    /\ UNCHANGED content

GiveUp(t) ==
    /\ copied' = [copied EXCEPT ![t] = None]
    /\ UNCHANGED <<content, policy>>

Fork(t, u) ==
    /\ policy[t] # None /\ policy[u] = None
    /\ policy' = [policy EXCEPT ![u] = policy[t]]
    /\ UNCHANGED <<content, copied>>

Exit(t) ==
    /\ copied[t] = None
    /\ policy' = [policy EXCEPT ![t] = None]
    /\ UNCHANGED <<content, copied>>

PolicyNext ==
    \/ \E r \in Rulesets : \/ \E handled \in SUBSET Access : Create(r, handled)
                           \/ \E o \in Objects, allowed \in SUBSET Access :
                                 Allow(r, o, allowed)
                           \/ Drop(r)
                           \/ \E t \in Tasks : Copy(t, r)
    \/ \E t \in Tasks : Restrict(t) \/ GiveUp(t) \/ Exit(t)
                        \/ \E u \in Tasks : Fork(t, u)

PolicySpec == PolicyInit /\ [][PolicyNext]_pvars
=============================================================================
