------------------------ MODULE LandlockObjectProofs ------------------------
(***************************************************************************)
(* Proofs about LandlockObject, for every number of inodes, objects,       *)
(* rulesets and tasks: the counts of objects and of inodes, what one step  *)
(* does to the pointer of an inode and to the count of an object, and that *)
(* hook_sb_delete() returns when nobody works on its inodes any more.      *)
(***************************************************************************)
EXTENDS LandlockObject, FiniteSetTheorems, TLAPS

TypeInv == TypeOK /\ LocalsOK

USE DEF Threads, Owning, Releasing, Touching, Getting, TaskPC, SbPC

\* The types and the use of the locals hold initially.
LEMMA TypeInit == Init => TypeInv
BY ConstantsAssumption DEF Init, TypeInv, TypeOK, LocalsOK

\* The steps of get_inode_object() keep them.
LEMMA TypeGet ==
    ASSUME TypeInv, NEW t \in Tasks, GetInodeObject(t)
    PROVE  TypeInv'
<1> USE ConstantsAssumption DEF TypeInv, TypeOK, LocalsOK, At, Goto, RcuUnlock,
        objvars, inodevars, sbvars, locals, sbdvars
<1>1. CASE Deref(t)
  BY <1>1 DEF Deref
<1>2. CASE IncNotZero(t)
  BY <1>2 DEF IncNotZero
<1>3. CASE WaitRelease(t)
  BY <1>3 DEF WaitRelease
<1>4. CASE \E o \in Objects : CreateObject(t, o)
  BY <1>4 DEF CreateObject
<1>5. CASE CreateObjectFails(t)
  BY <1>5 DEF CreateObjectFails
<1>6. CASE Install(t)
  BY <1>6 DEF Install
<1>7. CASE InstallRaced(t)
  BY <1>7 DEF InstallRaced
<1> QED BY <1>1, <1>2, <1>3, <1>4, <1>5, <1>6, <1>7 DEF GetInodeObject

\* So do landlock_put_object() and release_inode().
LEMMA TypePut ==
    ASSUME TypeInv, NEW t \in Tasks, PutObject(t)
    PROVE  TypeInv'
<1> USE ConstantsAssumption DEF TypeInv, TypeOK, LocalsOK, At, Goto, RcuUnlock,
        objvars, inodevars, sbvars, locals, sbdvars, AfterPut
<1>1. CASE DecNotOne(t)
  BY <1>1 DEF DecNotOne
<1>2. CASE DecAndLock(t)
  BY <1>2 DEF DecAndLock
<1>3. CASE Release(t)
  BY <1>3 DEF Release
<1>4. CASE IncRefs(t)
  BY <1>4 DEF IncRefs
<1>5. CASE ClearPointer(t)
  BY <1>5 DEF ClearPointer
<1>6. CASE Iput(t)
  BY <1>6 DEF Iput
<1>7. CASE Evict(t)
  BY <1>7 DEF Evict
<1>8. CASE DecRefs(t)
  BY <1>8 DEF DecRefs
<1>9. CASE KfreeRcu(t)
  BY <1>9 DEF KfreeRcu
<1> QED BY <1>1, <1>2, <1>3, <1>4, <1>5, <1>6, <1>7, <1>8, <1>9 DEF PutObject

\* So does hook_sb_delete().
LEMMA TypeSb ==
    ASSUME TypeInv, SbDelete \/ SbStep
    PROVE  TypeInv'
<1> USE ConstantsAssumption DEF TypeInv, TypeOK, LocalsOK, At, Goto, RcuUnlock,
        objvars, inodevars, sbvars, locals, sbdvars
<1>1. CASE SbDelete
  <2>1. i_count' \in [Inodes -> Int]
    BY <1>1 DEF SbDelete
  <2>2. istate' \in [Inodes -> {"active", "freeing", "freed"}]
    BY <1>1 DEF SbDelete
  <2>3. dref' \in [Inodes -> BOOLEAN]
    BY <1>1 DEF SbDelete
  <2>4. TypeOK'
    <3>1. mounted' \in BOOLEAN
      BY <1>1 DEF SbDelete
    <3> QED BY <1>1, <2>1, <2>2, <2>3, <3>1 DEF SbDelete
  <2>5. LocalsOK'
    BY <1>1 DEF SbDelete
  <2> QED BY <2>4, <2>5
<1>2. CASE \E i \in Inodes : SbNext(i)
  BY <1>2 DEF SbNext
<1>3. CASE SbGet
  BY <1>3 DEF SbGet
<1>4. CASE SbLock
  BY <1>4 DEF SbLock
<1>5. CASE SbClear
  BY <1>5 DEF SbClear
<1>6. CASE SbIput
  BY <1>6 DEF SbIput
<1>7. CASE SbPrev
  BY <1>7 DEF SbPrev
<1>8. CASE SbEndLoop
  BY <1>8 DEF SbEndLoop
<1>9. CASE SbPutPrev
  BY <1>9 DEF SbPutPrev
<1>10. CASE SbEvict
  BY <1>10 DEF SbEvict
<1>11. CASE SbRelock
  BY <1>11 DEF SbRelock
<1>12. CASE SbWait
  BY <1>12 DEF SbWait
<1> QED BY <1>1, <1>2, <1>3, <1>4, <1>5, <1>6, <1>7, <1>8, <1>9, <1>10, <1>11, <1>12 DEF SbStep

\* So do the other steps, hence every step.
LEMMA TypeStep == TypeInv /\ [Next]_vars => TypeInv'
<1> SUFFICES ASSUME TypeInv, [Next]_vars PROVE TypeInv'
  OBVIOUS
<1> USE ConstantsAssumption DEF TypeInv, TypeOK, LocalsOK, At, Goto, RcuUnlock,
        objvars, inodevars, sbvars, locals, sbdvars
<1>1. ASSUME NEW t \in Tasks, NEW r \in Rulesets, NEW i \in Inodes, AddRule(t, r, i)
      PROVE  TypeInv'
  BY <1>1 DEF AddRule
<1>2. ASSUME NEW t \in Tasks, NEW r \in Rulesets, FreeRuleset(t, r)
      PROVE  TypeInv'
  BY <1>2 DEF FreeRuleset
<1>3. ASSUME NEW t \in Tasks, InsertRule(t)
      PROVE  TypeInv'
  BY <1>3 DEF InsertRule
<1>4. ASSUME NEW t \in Tasks, FreeRules(t)
      PROVE  TypeInv'
  <2>1. ASSUME NEW o \in Objects, FreeRule(t, o)
        PROVE  TypeInv'
    BY <2>1 DEF FreeRule
  <2>2. CASE FreeRulesetEnd(t)
    BY <2>2 DEF FreeRulesetEnd
  <2> QED BY <1>4, <2>1, <2>2 DEF FreeRules
<1>5. ASSUME NEW t \in Tasks, TaskStep(t)
      PROVE  TypeInv'
  BY <1>3, <1>4, <1>5, TypeGet, TypePut DEF TaskStep
<1>6. ASSUME NEW r \in Rulesets, NEW s \in Rulesets, NEW o \in Objects,
             InheritRule(r, s, o)
      PROVE  TypeInv'
  BY <1>6 DEF InheritRule
<1>7. ASSUME NEW o \in Objects, RcuFree(o)
      PROVE  TypeInv'
  BY <1>7 DEF RcuFree
<1>8. ASSUME NEW i \in Inodes, Lookup(i) \/ DropDentry(i) \/ Reclaim(i)
      PROVE  TypeInv'
  <2>1. CASE Lookup(i)
    <3>1. istate' \in [Inodes -> {"active", "freeing", "freed"}]
      BY <2>1 DEF Lookup
    <3>2. dref' \in [Inodes -> BOOLEAN]
      BY <2>1 DEF Lookup
    <3>3. inode_sec' \in [Inodes -> Objects \cup {NULL}]
      BY <2>1 DEF Lookup
    <3> QED BY <2>1, <3>1, <3>2, <3>3 DEF Lookup
  <2>2. CASE DropDentry(i)
    BY <2>2 DEF DropDentry
  <2>3. CASE Reclaim(i)
    BY <2>3 DEF Reclaim
  <2> QED BY <1>8, <2>1, <2>2, <2>3
<1>9. CASE UNCHANGED vars
  BY <1>9 DEF vars
<1> HIDE DEF TypeInv
<1> QED
  BY <1>1, <1>2, <1>5, <1>6, <1>7, <1>8, <1>9, TypeSb DEF Next, Environment

\* Types, and the way the threads use their locals, hold in every reachable
\* state.
THEOREM TypeCorrect == Spec => []TypeInv
BY TypeInit, TypeStep, PTL DEF Spec

-----------------------------------------------------------------------------
(* Consequences of the invariant that hold in every state.                 *)

\* Finite sets of tasks and rulesets, and their cardinalities.
LEMMA Finite ==
    ASSUME NEW S \in SUBSET (Tasks \cup Rulesets)
    PROVE  /\ IsFiniteSet(S)
           /\ Cardinality(S) \in Nat
           /\ \A x : /\ Cardinality(S \cup {x}) =
                            IF x \in S THEN Cardinality(S) ELSE Cardinality(S) + 1
                     /\ Cardinality(S \ {x}) =
                            IF x \in S THEN Cardinality(S) - 1 ELSE Cardinality(S)
                     /\ x \in S => Cardinality(S) >= 1
           /\ S = {} => Cardinality(S) = 0
           /\ Cardinality(S) = 0 => S = {}
<1>1. IsFiniteSet(Tasks \cup Rulesets)
  BY ConstantsAssumption, FS_Union
<1>2. IsFiniteSet(S)
  BY <1>1, FS_Subset
<1>3. Cardinality(S) \in Nat
  BY <1>2, FS_CardinalityType
<1>4. S = {} <=> Cardinality(S) = 0
  BY <1>2, FS_EmptySet
<1>5. ASSUME NEW x
      PROVE  /\ Cardinality(S \cup {x}) =
                    IF x \in S THEN Cardinality(S) ELSE Cardinality(S) + 1
             /\ Cardinality(S \ {x}) =
                    IF x \in S THEN Cardinality(S) - 1 ELSE Cardinality(S)
  BY <1>2, FS_AddElement, FS_RemoveElement
<1>6. ASSUME NEW x, x \in S PROVE Cardinality(S) >= 1
  BY <1>3, <1>4, <1>6
<1> QED BY <1>2, <1>3, <1>4, <1>5, <1>6

\* The holders of references are tasks and rulesets.
LEMMA RefsType ==
    /\ \A o : Refs(o) \in SUBSET (Tasks \cup Rulesets)
    /\ \A i : Iputters(i) \in SUBSET (Tasks \cup Rulesets)
BY DEF Refs, Iputters

LEMMA RefsTypeNext ==
    /\ \A o : Refs(o)' \in SUBSET (Tasks \cup Rulesets)
    /\ \A i : Iputters(i)' \in SUBSET (Tasks \cup Rulesets)
BY DEF Refs, Iputters

\* Whoever owns a reference owns a live object.
LEMMA OwnerLive ==
    ASSUME IInv
    PROVE  /\ \A t \in Tasks : pc[t] \in Owning =>
                  /\ usage[to[t]] >= 1
                  /\ ostate[to[t]] = "live"
                  /\ t \in Refs(to[t])
           /\ \A r \in Rulesets, o \in Objects : <<r, o>> \in rules =>
                  /\ usage[o] >= 1
                  /\ ostate[o] = "live"
                  /\ r \in Refs(o)
<1>1. ASSUME NEW t \in Tasks, pc[t] \in Owning
      PROVE  usage[to[t]] >= 1 /\ ostate[to[t]] = "live" /\ t \in Refs(to[t])
  <2>1. t \in Refs(to[t])
    BY <1>1 DEF Refs
  <2>2. Cardinality(Refs(to[t])) >= 1
    BY <2>1, RefsType, Finite
  <2>3. to[t] \in Objects
    BY <1>1 DEF IInv, LocalsOK
  <2>4. usage[to[t]] >= 1
    BY <2>2, <2>3 DEF IInv, UsageExact
  <2> QED BY <2>1, <2>3, <2>4 DEF IInv, DeadObjects
<1>2. ASSUME NEW r \in Rulesets, NEW o \in Objects, <<r, o>> \in rules
      PROVE  usage[o] >= 1 /\ ostate[o] = "live" /\ r \in Refs(o)
  <2>1. r \in Refs(o)
    BY <1>2 DEF Refs
  <2>2. Cardinality(Refs(o)) >= 1
    BY <2>1, RefsType, Finite
  <2>4. usage[o] >= 1
    BY <2>2 DEF IInv, UsageExact
  <2> QED BY <2>1, <2>4 DEF IInv, DeadObjects
<1> QED BY <1>1, <1>2

\* Nobody touches freed memory.
LEMMA TouchSafe == IInv => NoUseAfterFree
<1> SUFFICES ASSUME IInv, NEW t \in Threads, pc[t] \in Touching
             PROVE  ostate[to[t]] # "free"
  BY DEF NoUseAfterFree
<1>1. CASE pc[t] \in {"inc", "wait", "sb_lock"}
  BY <1>1 DEF IInv, ReaderSafe
<1>2. CASE pc[t] \in Owning
  <2>1. t \in Tasks
    BY <1>2 DEF IInv, TypeOK
  <2> QED BY <1>2, <2>1, OwnerLive
<1>3. CASE pc[t] \in Releasing
  <2>1. t \in Tasks
    BY <1>3 DEF IInv, TypeOK
  <2> QED BY <1>3, <2>1 DEF IInv, OneReleaser
<1> QED BY <1>1, <1>2, <1>3

\* Every term of an inode's count is a natural number, so that each reference
\* keeps the inode active.
LEMMA Counted ==
    ASSUME IInv, NEW i \in Inodes
    PROVE  /\ i_count[i] \in Nat
           /\ dref[i] => i_count[i] >= 1
           /\ inode_sec[i] # NULL => i_count[i] >= 1
           /\ \A t \in Tasks : pc[t] = "iput" /\ ti[t] = i => i_count[i] >= 1
           /\ pc[Umount] \in {"sb_lock", "sb_clear", "sb_iput", "sb_prev"}
                 /\ ti[Umount] = i => i_count[i] >= 1
           /\ pc[Umount] \in {"sb_put_prev"} /\ prev = i => i_count[i] >= 1
           /\ pc[Umount] = "sb_iput" /\ ti[Umount] = i => i_count[i] >= 2
           /\ i_count[i] >= 1 => istate[i] = "active"
<1>1. Cardinality(Iputters(i)) \in Nat
  BY RefsType, Finite
<1>2. ASSUME NEW t \in Tasks, pc[t] = "iput", ti[t] = i
      PROVE  Cardinality(Iputters(i)) >= 1
  <2>1. t \in Iputters(i)
    BY <1>2 DEF Iputters
  <2> QED BY <2>1, RefsType, Finite
<1>3. i_count[i] = B(dref[i]) + B(inode_sec[i] # NULL)
                   + Cardinality(Iputters(i)) + SbPins(i)
  BY DEF IInv, InodeCountExact
<1>4. i_count[i] >= 1 => istate[i] = "active"
  BY DEF IInv, FreedUnreferenced
<1> QED BY <1>1, <1>2, <1>3, <1>4 DEF B, SbPins

\* A published pointer leads to a live object, unless the unmount is about to
\* reset it.
LEMMA PointerLive ==
    ASSUME IInv, NEW i \in Inodes, inode_sec[i] # NULL, ~SbClearing(i)
    PROVE  /\ ostate[inode_sec[i]] = "live"
           /\ \A t \in Tasks : pc[t] \in Releasing \ {"release", "inc_refs", "clear"}
                  => to[t] # inode_sec[i]
<1> DEFINE o == inode_sec[i]
<1>1. o \in Objects
  BY DEF IInv, TypeOK
<1>2. CASE underobj[o] = i
  <2>1. underobj[o] # NULL
    BY <1>2, ConstantsAssumption
  <2> QED BY <1>1, <2>1 DEF IInv, DeadObjects, OneReleaser
<1>3. CASE \E t \in Tasks : pc[t] \in {"inc_refs", "clear"} /\ to[t] = o /\ ti[t] = i
  BY <1>1, <1>3 DEF IInv, OneReleaser
<1> QED BY <1>2, <1>3 DEF IInv, PointerMatched

\* A task that neither installs an object nor takes an inode over, before or
\* after its step, does not disturb the pointers.
LEMMA PointerFrame ==
    ASSUME IInv, TypeInv', NEW t \in Tasks,
           UNCHANGED <<inode_sec, underobj>>,
           \A u \in Threads : u # t => /\ pc'[u] = pc[u]
                                       /\ to'[u] = to[u] /\ ti'[u] = ti[u],
           pc[t] \notin {"install", "inc_refs", "clear"},
           pc'[t] \notin {"install", "inc_refs", "clear"}
    PROVE  PointerMatched'
<1>1. pc'[Umount] = pc[Umount] /\ ti'[Umount] = ti[Umount]
  BY ConstantsAssumption
<1>2. \A u \in Tasks : pc[u] \in {"install", "inc_refs", "clear"}
          => pc'[u] = pc[u] /\ to'[u] = to[u] /\ ti'[u] = ti[u]
  OBVIOUS
<1>3. \A u \in Tasks : pc'[u] \in {"install", "inc_refs", "clear"}
          => pc'[u] = pc[u] /\ to'[u] = to[u] /\ ti'[u] = ti[u]
  OBVIOUS
<1>4. PointerMatched
  BY DEF IInv
<1> QED BY <1>1, <1>2, <1>3, <1>4 DEF PointerMatched, SbClearing

-----------------------------------------------------------------------------
(* Every step keeps the invariant.                                         *)

\* AddRule.
LEMMA StepAddRule ==
    ASSUME IInv, TypeInv', NEW t \in Tasks, NEW r \in Rulesets, NEW i \in Inodes, AddRule(t, r, i)
    PROVE  IInv'
<1> USE ConstantsAssumption DEF TypeOK, LocalsOK, At, Goto, RcuUnlock,
        objvars, inodevars, sbvars, locals, sbdvars, SbClearing
<1>0. TypeOK /\ LocalsOK /\ TypeOK' /\ LocalsOK'
  BY DEF IInv, TypeInv
<1>1. PathHeld'
  BY <1>0 DEF IInv, PathHeld, AddRule
<1>2. UsageExact'
  <2>1. \A x \in Objects : Refs(x)' = Refs(x)
    BY <1>0 DEF Refs, AddRule
  <2> QED BY <1>0, <2>1 DEF IInv, UsageExact, AddRule
<1>3. DeadObjects'
  BY <1>0 DEF IInv, DeadObjects, AddRule
<1>4. OneReleaser'
  BY <1>0 DEF IInv, OneReleaser, AddRule
<1>5. FreshPrivate'
  BY <1>0 DEF IInv, FreshPrivate, AddRule
<1>6. ReaderSafe'
  BY <1>0 DEF IInv, ReaderSafe, AddRule
<1>7. PointerMatched'
  BY <1>0 DEF IInv, PointerMatched, AddRule
<1>8. InodeCountExact'
  <2>1. \A x \in Inodes : Iputters(x)' = Iputters(x)
    BY <1>0 DEF Iputters, AddRule
  <2> QED BY <1>0, <2>1 DEF IInv, InodeCountExact, SbPins, B, AddRule
<1>9. FreedUnreferenced'
  BY <1>0 DEF IInv, FreedUnreferenced, AddRule
<1>10. EvictOnce'
  BY <1>0 DEF IInv, EvictOnce, AddRule
<1> QED BY <1>0, <1>1, <1>2, <1>3, <1>4, <1>5, <1>6, <1>7, <1>8, <1>9, <1>10 DEF IInv

\* Deref: the object found is live.
LEMMA StepDeref ==
    ASSUME IInv, TypeInv', NEW t \in Tasks, Deref(t)
    PROVE  IInv'
<1> USE ConstantsAssumption DEF TypeOK, LocalsOK, At, Goto, RcuUnlock,
        objvars, inodevars, sbvars, locals, sbdvars, SbClearing
<1>0. TypeOK /\ LocalsOK /\ TypeOK' /\ LocalsOK'
  BY DEF IInv, TypeInv
<1>a. inode_sec[ti[t]] # NULL => ostate[inode_sec[ti[t]]] = "live"
  BY <1>0, PointerLive DEF IInv, PathHeld, Deref
<1>1. PathHeld'
  BY <1>0 DEF IInv, PathHeld, Deref
<1>2. UsageExact'
  <2>1. \A x \in Objects : Refs(x)' = Refs(x)
    BY <1>0 DEF Refs, Deref
  <2> QED BY <1>0, <2>1 DEF IInv, UsageExact, Deref
<1>3. DeadObjects'
  BY <1>0 DEF IInv, DeadObjects, Deref
<1>4. OneReleaser'
  BY <1>0 DEF IInv, OneReleaser, Deref
<1>5. FreshPrivate'
  BY <1>0 DEF IInv, FreshPrivate, Deref
<1>6. ReaderSafe'
  BY <1>0, <1>a DEF IInv, ReaderSafe, Deref
<1>7. PointerMatched'
  BY <1>0 DEF IInv, PointerMatched, Deref
<1>8. InodeCountExact'
  <2>1. \A x \in Inodes : Iputters(x)' = Iputters(x)
    BY <1>0 DEF Iputters, Deref
  <2> QED BY <1>0, <2>1 DEF IInv, InodeCountExact, SbPins, B, Deref
<1>9. FreedUnreferenced'
  BY <1>0 DEF IInv, FreedUnreferenced, Deref
<1>10. EvictOnce'
  BY <1>0 DEF IInv, EvictOnce, Deref
<1> QED BY <1>0, <1>1, <1>2, <1>3, <1>4, <1>5, <1>6, <1>7, <1>8, <1>9, <1>10 DEF IInv

\* IncNotZero.
LEMMA StepIncNotZero ==
    ASSUME IInv, TypeInv', NEW t \in Tasks, IncNotZero(t)
    PROVE  IInv'
<1> USE ConstantsAssumption DEF TypeOK, LocalsOK, At, Goto, RcuUnlock,
        objvars, inodevars, sbvars, locals, sbdvars, SbClearing
<1>0. TypeOK /\ LocalsOK /\ TypeOK' /\ LocalsOK'
  BY DEF IInv, TypeInv
<1>1. PathHeld'
  BY <1>0 DEF IInv, PathHeld, IncNotZero
<1>2. UsageExact'
  <2>0. PICK q \in Objects : q = to[t]
    BY <1>0 DEF IncNotZero
  <2>1. \A o \in Objects : o # q => Refs(o)' = Refs(o)
    BY <1>0, <2>0 DEF Refs, IncNotZero
  <2>2. CASE usage[to[t]] > 0 /\ pc' = [pc EXCEPT ![t] = "insert"]
    <3>1. t \notin Refs(q)
      BY <1>0, <2>0 DEF Refs, IncNotZero
    <3>2. Refs(q)' = Refs(q) \cup {t}
      BY <1>0, <2>0, <2>2 DEF Refs, IncNotZero
    <3>3. Cardinality(Refs(q)') = Cardinality(Refs(q)) + 1
      BY <3>1, <3>2, RefsType, Finite
    <3> QED BY <1>0, <2>0, <2>1, <2>2, <3>3 DEF IInv, UsageExact, IncNotZero
  <2>3. CASE usage' = usage /\ pc' = [pc EXCEPT ![t] = "wait"]
    <3>1. Refs(q)' = Refs(q)
      BY <1>0, <2>0, <2>3 DEF Refs, IncNotZero
    <3> QED BY <1>0, <2>0, <2>1, <2>3, <3>1 DEF IInv, UsageExact, IncNotZero
  <2> QED BY <2>2, <2>3 DEF IncNotZero
<1>3. DeadObjects'
  BY <1>0 DEF IInv, DeadObjects, IncNotZero
<1>4. OneReleaser'
  BY <1>0 DEF IInv, OneReleaser, IncNotZero
<1>5. FreshPrivate'
  BY <1>0 DEF IInv, FreshPrivate, IncNotZero
<1>6. ReaderSafe'
  BY <1>0 DEF IInv, ReaderSafe, IncNotZero
<1>7. PointerMatched'
  BY <1>0 DEF IInv, PointerMatched, IncNotZero
<1>8. InodeCountExact'
  <2>1. \A x \in Inodes : Iputters(x)' = Iputters(x)
    BY <1>0 DEF Iputters, IncNotZero
  <2> QED BY <1>0, <2>1 DEF IInv, InodeCountExact, SbPins, B, IncNotZero
<1>9. FreedUnreferenced'
  BY <1>0 DEF IInv, FreedUnreferenced, IncNotZero
<1>10. EvictOnce'
  BY <1>0 DEF IInv, EvictOnce, IncNotZero
<1> QED BY <1>0, <1>1, <1>2, <1>3, <1>4, <1>5, <1>6, <1>7, <1>8, <1>9, <1>10 DEF IInv

\* WaitRelease.
LEMMA StepWaitRelease ==
    ASSUME IInv, TypeInv', NEW t \in Tasks, WaitRelease(t)
    PROVE  IInv'
<1> USE ConstantsAssumption DEF TypeOK, LocalsOK, At, Goto, RcuUnlock,
        objvars, inodevars, sbvars, locals, sbdvars, SbClearing
<1>0. TypeOK /\ LocalsOK /\ TypeOK' /\ LocalsOK'
  BY DEF IInv, TypeInv
<1>1. PathHeld'
  BY <1>0 DEF IInv, PathHeld, WaitRelease
<1>2. UsageExact'
  <2>1. \A x \in Objects : Refs(x)' = Refs(x)
    BY <1>0 DEF Refs, WaitRelease
  <2> QED BY <1>0, <2>1 DEF IInv, UsageExact, WaitRelease
<1>3. DeadObjects'
  BY <1>0 DEF IInv, DeadObjects, WaitRelease
<1>4. OneReleaser'
  BY <1>0 DEF IInv, OneReleaser, WaitRelease
<1>5. FreshPrivate'
  BY <1>0 DEF IInv, FreshPrivate, WaitRelease
<1>6. ReaderSafe'
  BY <1>0 DEF IInv, ReaderSafe, WaitRelease
<1>7. PointerMatched'
  BY <1>0 DEF IInv, PointerMatched, WaitRelease
<1>8. InodeCountExact'
  <2>1. \A x \in Inodes : Iputters(x)' = Iputters(x)
    BY <1>0 DEF Iputters, WaitRelease
  <2> QED BY <1>0, <2>1 DEF IInv, InodeCountExact, SbPins, B, WaitRelease
<1>9. FreedUnreferenced'
  BY <1>0 DEF IInv, FreedUnreferenced, WaitRelease
<1>10. EvictOnce'
  BY <1>0 DEF IInv, EvictOnce, WaitRelease
<1> QED BY <1>0, <1>1, <1>2, <1>3, <1>4, <1>5, <1>6, <1>7, <1>8, <1>9, <1>10 DEF IInv

\* CreateObject: nothing refers to free memory.
LEMMA StepCreateObject ==
    ASSUME IInv, TypeInv', NEW t \in Tasks, NEW o \in Objects, CreateObject(t, o)
    PROVE  IInv'
<1> USE ConstantsAssumption DEF TypeOK, LocalsOK, At, Goto, RcuUnlock,
        objvars, inodevars, sbvars, locals, sbdvars, SbClearing
<1>0. TypeOK /\ LocalsOK /\ TypeOK' /\ LocalsOK'
  BY DEF IInv, TypeInv
<1>a. /\ \A u \in Threads : pc[u] \in Touching => to[u] # o
      /\ \A r \in Rulesets : <<r, o>> \notin rules
  BY <1>0, TouchSafe, OwnerLive DEF NoUseAfterFree, CreateObject
<1>b. \A i \in Inodes : inode_sec[i] # o
  BY <1>0, PointerLive DEF IInv, PathHeld, CreateObject
<1>1. PathHeld'
  BY <1>0 DEF IInv, PathHeld, CreateObject
<1>2. UsageExact'
  <2>1. \A p \in Objects : p # o => Refs(p)' = Refs(p)
    BY <1>0 DEF Refs, CreateObject
  <2>2. Refs(o)' = {t}
    BY <1>0, <1>a DEF Refs, CreateObject
  <2>3. Cardinality({t}) = 1
    BY FS_Singleton
  <2>4. /\ usage'[o] = 1
        /\ \A p \in Objects : p # o => usage'[p] = usage[p]
    BY <1>0 DEF CreateObject
  <2>5. UsageExact
    BY DEF IInv
  <2>6. SUFFICES ASSUME NEW p \in Objects
                 PROVE  usage'[p] = Cardinality(Refs(p)')
    BY DEF UsageExact
  <2>7. CASE p = o
    BY <2>2, <2>3, <2>4, <2>7
  <2>8. CASE p # o
    BY <2>1, <2>4, <2>5, <2>8 DEF UsageExact
  <2> QED BY <2>7, <2>8
<1>3. DeadObjects'
  BY <1>0 DEF IInv, DeadObjects, CreateObject
<1>4. OneReleaser'
  BY <1>0, <1>a DEF IInv, OneReleaser, CreateObject
<1>5. FreshPrivate'
  BY <1>0, <1>a, <1>b DEF IInv, FreshPrivate, CreateObject
<1>6. ReaderSafe'
  BY <1>0, <1>a DEF IInv, ReaderSafe, CreateObject
<1>7. PointerMatched'
  BY <1>0, <1>a, <1>b DEF IInv, PointerMatched, CreateObject
<1>8. InodeCountExact'
  <2>1. \A x \in Inodes : Iputters(x)' = Iputters(x)
    BY <1>0 DEF Iputters, CreateObject
  <2> QED BY <1>0, <2>1 DEF IInv, InodeCountExact, SbPins, B, CreateObject
<1>9. FreedUnreferenced'
  BY <1>0 DEF IInv, FreedUnreferenced, CreateObject
<1>10. EvictOnce'
  BY <1>0 DEF IInv, EvictOnce, CreateObject
<1> QED BY <1>0, <1>1, <1>2, <1>3, <1>4, <1>5, <1>6, <1>7, <1>8, <1>9, <1>10 DEF IInv

\* CreateObjectFails.
LEMMA StepCreateObjectFails ==
    ASSUME IInv, TypeInv', NEW t \in Tasks, CreateObjectFails(t)
    PROVE  IInv'
<1> USE ConstantsAssumption DEF TypeOK, LocalsOK, At, Goto, RcuUnlock,
        objvars, inodevars, sbvars, locals, sbdvars, SbClearing
<1>0. TypeOK /\ LocalsOK /\ TypeOK' /\ LocalsOK'
  BY DEF IInv, TypeInv
<1>1. PathHeld'
  BY <1>0 DEF IInv, PathHeld, CreateObjectFails
<1>2. UsageExact'
  <2>1. \A x \in Objects : Refs(x)' = Refs(x)
    BY <1>0 DEF Refs, CreateObjectFails
  <2> QED BY <1>0, <2>1 DEF IInv, UsageExact, CreateObjectFails
<1>3. DeadObjects'
  BY <1>0 DEF IInv, DeadObjects, CreateObjectFails
<1>4. OneReleaser'
  BY <1>0 DEF IInv, OneReleaser, CreateObjectFails
<1>5. FreshPrivate'
  BY <1>0 DEF IInv, FreshPrivate, CreateObjectFails
<1>6. ReaderSafe'
  BY <1>0 DEF IInv, ReaderSafe, CreateObjectFails
<1>7. PointerMatched'
  BY <1>0 DEF IInv, PointerMatched, CreateObjectFails
<1>8. InodeCountExact'
  <2>1. \A x \in Inodes : Iputters(x)' = Iputters(x)
    BY <1>0 DEF Iputters, CreateObjectFails
  <2> QED BY <1>0, <2>1 DEF IInv, InodeCountExact, SbPins, B, CreateObjectFails
<1>9. FreedUnreferenced'
  BY <1>0 DEF IInv, FreedUnreferenced, CreateObjectFails
<1>10. EvictOnce'
  BY <1>0 DEF IInv, EvictOnce, CreateObjectFails
<1> QED BY <1>0, <1>1, <1>2, <1>3, <1>4, <1>5, <1>6, <1>7, <1>8, <1>9, <1>10 DEF IInv

\* Install: the tie takes a reference on the inode.
LEMMA StepInstall ==
    ASSUME IInv, TypeInv', NEW t \in Tasks, Install(t)
    PROVE  IInv'
<1> USE ConstantsAssumption DEF TypeOK, LocalsOK, At, Goto, RcuUnlock,
        objvars, inodevars, sbvars, locals, sbdvars, SbClearing
<1>0. TypeOK /\ LocalsOK /\ TypeOK' /\ LocalsOK'
  BY DEF IInv, TypeInv
<1>a. /\ ostate[to[t]] = "live"
      /\ underobj[to[t]] = ti[t]
      /\ \A r \in Rulesets : <<r, to[t]>> \notin rules
      /\ \A i \in Inodes : inode_sec[i] # to[t]
      /\ \A u \in Threads : u # t /\ pc[u] \in Touching => to[u] # to[t]
      /\ to[t] \in Objects /\ ti[t] \in Inodes
  BY <1>0 DEF IInv, FreshPrivate, Install
<1>b. mounted /\ dref[ti[t]] /\ pc[Umount] = "idle"
  BY <1>0 DEF IInv, PathHeld, Install
<1>c. istate[ti[t]] = "active"
  BY <1>a, <1>b, Counted
<1>1. PathHeld'
  BY <1>0 DEF IInv, PathHeld, Install
<1>2. UsageExact'
  <2>1. \A x \in Objects : Refs(x)' = Refs(x)
    BY <1>0 DEF Refs, Install
  <2> QED BY <1>0, <2>1 DEF IInv, UsageExact, Install
<1>3. DeadObjects'
  BY <1>0 DEF IInv, DeadObjects, Install
<1>4. OneReleaser'
  BY <1>0, <1>a DEF IInv, OneReleaser, Install
<1>5. FreshPrivate'
  BY <1>0, <1>a DEF IInv, FreshPrivate, Install
<1>6. ReaderSafe'
  BY <1>0 DEF IInv, ReaderSafe, Install
<1>7. PointerMatched'
  BY <1>0, <1>a, <1>b DEF IInv, PointerMatched, Install
<1>8. InodeCountExact'
  <2>0. PICK j \in Inodes : j = ti[t]
    BY <1>a
  <2>1. \A i \in Inodes : Iputters(i)' = Iputters(i) /\ SbPins(i)' = SbPins(i)
    BY <1>0 DEF Iputters, SbPins, B, Install
  <2>2. \A i \in Inodes : Cardinality(Iputters(i)) \in Nat /\ SbPins(i) \in Nat
    BY RefsType, Finite DEF SbPins, B
  <2>3. \A i \in Inodes : i # j =>
            i_count'[i] = i_count[i] /\ inode_sec'[i] = inode_sec[i]
    BY <1>0, <2>0 DEF Install
  <2>4. i_count'[j] = i_count[j] + 1 /\ inode_sec[j] = NULL /\ inode_sec'[j] # NULL
    BY <1>0, <1>a, <2>0 DEF Install
  <2>5. dref' = dref
    BY DEF Install
  <2> QED BY <2>0, <2>1, <2>2, <2>3, <2>4, <2>5 DEF IInv, InodeCountExact, B
<1>9. FreedUnreferenced'
  BY <1>0, <1>a, <1>c DEF IInv, FreedUnreferenced, Install
<1>10. EvictOnce'
  BY <1>0 DEF IInv, EvictOnce, Install
<1> QED BY <1>0, <1>1, <1>2, <1>3, <1>4, <1>5, <1>6, <1>7, <1>8, <1>9, <1>10 DEF IInv

\* InstallRaced: the object thrown away is nobody else's.
LEMMA StepInstallRaced ==
    ASSUME IInv, TypeInv', NEW t \in Tasks, InstallRaced(t)
    PROVE  IInv'
<1> USE ConstantsAssumption DEF TypeOK, LocalsOK, At, Goto, RcuUnlock,
        objvars, inodevars, sbvars, locals, sbdvars, SbClearing
<1>0. TypeOK /\ LocalsOK /\ TypeOK' /\ LocalsOK'
  BY DEF IInv, TypeInv
<1>a. /\ ostate[to[t]] = "live"
      /\ underobj[to[t]] = ti[t]
      /\ \A r \in Rulesets : <<r, to[t]>> \notin rules
      /\ \A i \in Inodes : inode_sec[i] # to[t]
      /\ \A u \in Threads : u # t /\ pc[u] \in Touching => to[u] # to[t]
      /\ to[t] \in Objects /\ ti[t] \in Inodes
  BY <1>0 DEF IInv, FreshPrivate, InstallRaced
<1>b. mounted /\ dref[ti[t]] /\ pc[Umount] = "idle"
  BY <1>0 DEF IInv, PathHeld, InstallRaced
<1>1. PathHeld'
  BY <1>0 DEF IInv, PathHeld, InstallRaced
<1>2. UsageExact'
  <2>0. PICK q \in Objects : q = to[t]
    BY <1>0 DEF InstallRaced
  <2>1. \A o \in Objects : o # q => Refs(o)' = Refs(o)
    BY <1>0, <2>0 DEF Refs, InstallRaced
  <2>2. Refs(q)' = {}
    BY <1>0, <1>a, <2>0 DEF Refs, InstallRaced
  <2>3. Cardinality(Refs(q)') = 0
    BY <2>2, FS_EmptySet
  <2> QED BY <1>0, <2>0, <2>1, <2>3 DEF IInv, UsageExact, InstallRaced
<1>3. DeadObjects'
  BY <1>0, <1>a DEF IInv, DeadObjects, InstallRaced
<1>4. OneReleaser'
  BY <1>0, <1>a DEF IInv, OneReleaser, InstallRaced
<1>5. FreshPrivate'
  BY <1>0, <1>a DEF IInv, FreshPrivate, InstallRaced
<1>6. ReaderSafe'
  BY <1>0, <1>a DEF IInv, ReaderSafe, InstallRaced
<1>7. PointerMatched'
  BY <1>0, <1>a, <1>b DEF IInv, PointerMatched, InstallRaced
<1>8. InodeCountExact'
  <2>1. \A x \in Inodes : Iputters(x)' = Iputters(x)
    BY <1>0 DEF Iputters, InstallRaced
  <2> QED BY <1>0, <2>1 DEF IInv, InodeCountExact, SbPins, B, InstallRaced
<1>9. FreedUnreferenced'
  BY <1>0 DEF IInv, FreedUnreferenced, InstallRaced
<1>10. EvictOnce'
  BY <1>0 DEF IInv, EvictOnce, InstallRaced
<1> QED BY <1>0, <1>1, <1>2, <1>3, <1>4, <1>5, <1>6, <1>7, <1>8, <1>9, <1>10 DEF IInv

\* InsertRule.
LEMMA StepInsertRule ==
    ASSUME IInv, TypeInv', NEW t \in Tasks, InsertRule(t)
    PROVE  IInv'
<1> USE ConstantsAssumption DEF TypeOK, LocalsOK, At, Goto, RcuUnlock,
        objvars, inodevars, sbvars, locals, sbdvars, SbClearing
<1>0. TypeOK /\ LocalsOK /\ TypeOK' /\ LocalsOK'
  BY DEF IInv, TypeInv
<1>a. usage[to[t]] >= 1 /\ ostate[to[t]] = "live" /\ to[t] \in Objects
  BY <1>0, OwnerLive DEF InsertRule
<1>1. PathHeld'
  BY <1>0 DEF IInv, PathHeld, InsertRule
<1>2. UsageExact'
  <2>0. PICK q \in Objects : q = to[t]
    BY <1>0 DEF InsertRule
  <2>1. \A o \in Objects : o # q => Refs(o)' = Refs(o)
    BY <1>0, <2>0 DEF Refs, InsertRule
  <2>2. CASE <<tr[t], to[t]>> \notin rules /\ rules' = rules \cup {<<tr[t], to[t]>>}
                 /\ usage' = [usage EXCEPT ![to[t]] = @ + 1]
    <3>1. tr[t] \notin Refs(q) /\ tr[t] \in Rulesets
      BY <1>0, <2>0, <2>2 DEF Refs, InsertRule
    <3>2. Refs(q)' = Refs(q) \cup {tr[t]}
      BY <1>0, <2>0, <2>2 DEF Refs, InsertRule
    <3>3. Cardinality(Refs(q)') = Cardinality(Refs(q)) + 1
      BY <3>1, <3>2, RefsType, Finite
    <3> QED BY <1>0, <2>0, <1>a, <2>1, <2>2, <3>3 DEF IInv, UsageExact
  <2>3. CASE UNCHANGED <<rules, usage>>
    <3>1. Refs(q)' = Refs(q)
      BY <1>0, <2>0, <2>3 DEF Refs, InsertRule
    <3> QED BY <1>0, <2>0, <2>1, <2>3, <3>1 DEF IInv, UsageExact
  <2> QED BY <2>2, <2>3 DEF InsertRule
<1>3. DeadObjects'
  BY <1>0, <1>a DEF IInv, DeadObjects, InsertRule
<1>4. OneReleaser'
  BY <1>0, <1>a DEF IInv, OneReleaser, InsertRule
<1>5. FreshPrivate'
  BY <1>0 DEF IInv, FreshPrivate, InsertRule
<1>6. ReaderSafe'
  BY <1>0 DEF IInv, ReaderSafe, InsertRule
<1>7. PointerMatched'
  BY <1>0 DEF IInv, PointerMatched, InsertRule
<1>8. InodeCountExact'
  <2>1. \A x \in Inodes : Iputters(x)' = Iputters(x)
    BY <1>0 DEF Iputters, InsertRule
  <2> QED BY <1>0, <2>1 DEF IInv, InodeCountExact, SbPins, B, InsertRule
<1>9. FreedUnreferenced'
  BY <1>0 DEF IInv, FreedUnreferenced, InsertRule
<1>10. EvictOnce'
  BY <1>0 DEF IInv, EvictOnce, InsertRule
<1> QED BY <1>0, <1>1, <1>2, <1>3, <1>4, <1>5, <1>6, <1>7, <1>8, <1>9, <1>10 DEF IInv

\* DecNotOne.
LEMMA StepDecNotOne ==
    ASSUME IInv, TypeInv', NEW t \in Tasks, DecNotOne(t)
    PROVE  IInv'
<1> USE ConstantsAssumption DEF TypeOK, LocalsOK, At, Goto, RcuUnlock,
        objvars, inodevars, sbvars, locals, sbdvars, SbClearing
<1>0. TypeOK /\ LocalsOK /\ TypeOK' /\ LocalsOK'
  BY DEF IInv, TypeInv
<1>a. usage[to[t]] >= 1 /\ ostate[to[t]] = "live" /\ to[t] \in Objects
  BY <1>0, OwnerLive DEF DecNotOne
<1>1. PathHeld'
  BY <1>0 DEF IInv, PathHeld, DecNotOne, AfterPut
<1>2. UsageExact'
  <2>0. PICK q \in Objects : q = to[t]
    BY <1>0 DEF DecNotOne, AfterPut
  <2>1. \A o \in Objects : o # q => Refs(o)' = Refs(o)
    BY <1>0, <2>0 DEF Refs, DecNotOne, AfterPut
  <2>2. CASE pc'[t] \notin Owning
    <3>1. t \in Refs(q)
      BY <2>0, OwnerLive DEF DecNotOne
    <3>2. Refs(q)' = Refs(q) \ {t}
      BY <1>0, <2>0, <2>2 DEF Refs, DecNotOne, AfterPut
    <3>3. Cardinality(Refs(q)') = Cardinality(Refs(q)) - 1
      BY <3>1, <3>2, RefsType, Finite
    <3>4. usage' = [usage EXCEPT ![to[t]] = @ - 1]
      BY <1>0, <2>0, <2>2 DEF DecNotOne, AfterPut
    <3> QED BY <1>0, <2>0, <1>a, <2>1, <3>3, <3>4 DEF IInv, UsageExact
  <2>3. CASE pc'[t] \in Owning
    <3>1. Refs(q)' = Refs(q) /\ usage' = usage
      BY <1>0, <2>0, <2>3 DEF Refs, DecNotOne, AfterPut
    <3> QED BY <1>0, <2>0, <2>1, <3>1 DEF IInv, UsageExact
  <2> QED BY <2>2, <2>3
<1>3. DeadObjects'
  BY <1>0, <1>a DEF IInv, DeadObjects, DecNotOne, AfterPut
<1>4. OneReleaser'
  BY <1>0, <1>a DEF IInv, OneReleaser, DecNotOne, AfterPut
<1>5. FreshPrivate'
  BY <1>0 DEF IInv, FreshPrivate, DecNotOne, AfterPut
<1>6. ReaderSafe'
  BY <1>0 DEF IInv, ReaderSafe, DecNotOne, AfterPut
<1>7. PointerMatched'
  <2>1. UNCHANGED <<inode_sec, underobj>>
    BY DEF DecNotOne, AfterPut
  <2>2. /\ \A u \in Threads : u # t => /\ pc'[u] = pc[u]
                                     /\ to'[u] = to[u] /\ ti'[u] = ti[u]
        /\ pc[t] \notin {"install", "inc_refs", "clear"}
        /\ pc'[t] \notin {"install", "inc_refs", "clear"}
    BY <1>0 DEF DecNotOne, AfterPut
  <2> QED BY <2>1, <2>2, PointerFrame
<1>8. InodeCountExact'
  <2>1. \A x \in Inodes : Iputters(x)' = Iputters(x)
    BY <1>0 DEF Iputters, DecNotOne, AfterPut
  <2> QED BY <1>0, <2>1 DEF IInv, InodeCountExact, SbPins, B, DecNotOne, AfterPut
<1>9. FreedUnreferenced'
  BY <1>0 DEF IInv, FreedUnreferenced, DecNotOne, AfterPut
<1>10. EvictOnce'
  BY <1>0 DEF IInv, EvictOnce, DecNotOne, AfterPut
<1> QED BY <1>0, <1>1, <1>2, <1>3, <1>4, <1>5, <1>6, <1>7, <1>8, <1>9, <1>10 DEF IInv

\* DecAndLock: the task that drops the last reference is the only releaser.
LEMMA StepDecAndLock ==
    ASSUME IInv, TypeInv', NEW t \in Tasks, DecAndLock(t)
    PROVE  IInv'
<1> USE ConstantsAssumption DEF TypeOK, LocalsOK, At, Goto, RcuUnlock,
        objvars, inodevars, sbvars, locals, sbdvars, SbClearing
<1>0. TypeOK /\ LocalsOK /\ TypeOK' /\ LocalsOK'
  BY DEF IInv, TypeInv
<1>a. usage[to[t]] >= 1 /\ ostate[to[t]] = "live" /\ to[t] \in Objects
  BY <1>0, OwnerLive DEF DecAndLock
<1>1. PathHeld'
  BY <1>0 DEF IInv, PathHeld, DecAndLock, AfterPut
<1>2. UsageExact'
  <2>0. PICK q \in Objects : q = to[t]
    BY <1>0 DEF DecAndLock, AfterPut
  <2>1. \A o \in Objects : o # q => Refs(o)' = Refs(o)
    BY <1>0, <2>0 DEF Refs, DecAndLock, AfterPut
  <2>2. CASE pc'[t] \notin Owning
    <3>1. t \in Refs(q)
      BY <2>0, OwnerLive DEF DecAndLock
    <3>2. Refs(q)' = Refs(q) \ {t}
      BY <1>0, <2>0, <2>2 DEF Refs, DecAndLock, AfterPut
    <3>3. Cardinality(Refs(q)') = Cardinality(Refs(q)) - 1
      BY <3>1, <3>2, RefsType, Finite
    <3>4. usage' = [usage EXCEPT ![to[t]] = @ - 1]
      BY <1>0, <2>0, <2>2 DEF DecAndLock, AfterPut
    <3> QED BY <1>0, <2>0, <1>a, <2>1, <3>3, <3>4 DEF IInv, UsageExact
  <2> QED BY <1>0, <2>2 DEF DecAndLock, AfterPut
<1>3. DeadObjects'
  BY <1>0, <1>a DEF IInv, DeadObjects, DecAndLock, AfterPut
<1>4. OneReleaser'
  BY <1>0, <1>a DEF IInv, OneReleaser, DecAndLock, AfterPut
<1>5. FreshPrivate'
  BY <1>0 DEF IInv, FreshPrivate, DecAndLock, AfterPut
<1>6. ReaderSafe'
  BY <1>0 DEF IInv, ReaderSafe, DecAndLock, AfterPut
<1>7. PointerMatched'
  <2>1. UNCHANGED <<inode_sec, underobj>>
    BY DEF DecAndLock, AfterPut
  <2>2. /\ \A u \in Threads : u # t => /\ pc'[u] = pc[u]
                                     /\ to'[u] = to[u] /\ ti'[u] = ti[u]
        /\ pc[t] \notin {"install", "inc_refs", "clear"}
        /\ pc'[t] \notin {"install", "inc_refs", "clear"}
    BY <1>0 DEF DecAndLock, AfterPut
  <2> QED BY <2>1, <2>2, PointerFrame
<1>8. InodeCountExact'
  <2>1. \A x \in Inodes : Iputters(x)' = Iputters(x)
    BY <1>0 DEF Iputters, DecAndLock, AfterPut
  <2> QED BY <1>0, <2>1 DEF IInv, InodeCountExact, SbPins, B, DecAndLock, AfterPut
<1>9. FreedUnreferenced'
  BY <1>0 DEF IInv, FreedUnreferenced, DecAndLock, AfterPut
<1>10. EvictOnce'
  BY <1>0 DEF IInv, EvictOnce, DecAndLock, AfterPut
<1> QED BY <1>0, <1>1, <1>2, <1>3, <1>4, <1>5, <1>6, <1>7, <1>8, <1>9, <1>10 DEF IInv

\* Release: the task takes the inode over, if the unmount did not.
LEMMA StepRelease ==
    ASSUME IInv, TypeInv', NEW t \in Tasks, Release(t)
    PROVE  IInv'
<1> USE ConstantsAssumption DEF TypeOK, LocalsOK, At, Goto, RcuUnlock,
        objvars, inodevars, sbvars, locals, sbdvars, SbClearing
<1>0. TypeOK /\ LocalsOK /\ TypeOK' /\ LocalsOK'
  BY DEF IInv, TypeInv
<1>a. /\ to[t] \in Objects /\ ostate[to[t]] = "live" /\ usage[to[t]] = 0
      /\ \A u \in Tasks : u # t /\ pc[u] \in Releasing => to[u] # to[t]
      /\ \A u \in Tasks : pc[u] = "install" => to[u] # to[t]
  BY <1>0 DEF IInv, OneReleaser, FreshPrivate, Release
<1>1. PathHeld'
  BY <1>0 DEF IInv, PathHeld, Release
<1>2. UsageExact'
  <2>1. \A x \in Objects : Refs(x)' = Refs(x)
    BY <1>0 DEF Refs, Release
  <2> QED BY <1>0, <2>1 DEF IInv, UsageExact, Release
<1>3. DeadObjects'
  BY <1>0, <1>a DEF IInv, DeadObjects, Release
<1>4. OneReleaser'
  BY <1>0, <1>a DEF IInv, OneReleaser, Release
<1>5. FreshPrivate'
  BY <1>0, <1>a DEF IInv, FreshPrivate, Release
<1>6. ReaderSafe'
  BY <1>0 DEF IInv, ReaderSafe, Release
<1>7. PointerMatched'
  <2>1. CASE underobj[to[t]] = NULL
    BY <1>0, <1>a, <2>1 DEF IInv, PointerMatched, Release
  <2>2. CASE underobj[to[t]] # NULL
    BY <1>0, <1>a, <2>2 DEF IInv, PointerMatched, Release
  <2> QED BY <2>1, <2>2
<1>8. InodeCountExact'
  <2>1. \A x \in Inodes : Iputters(x)' = Iputters(x)
    BY <1>0 DEF Iputters, Release
  <2> QED BY <1>0, <2>1 DEF IInv, InodeCountExact, SbPins, B, Release
<1>9. FreedUnreferenced'
  BY <1>0 DEF IInv, FreedUnreferenced, Release
<1>10. EvictOnce'
  BY <1>0 DEF IInv, EvictOnce, Release
<1> QED BY <1>0, <1>1, <1>2, <1>3, <1>4, <1>5, <1>6, <1>7, <1>8, <1>9, <1>10 DEF IInv

\* IncRefs.
LEMMA StepIncRefs ==
    ASSUME IInv, TypeInv', NEW t \in Tasks, IncRefs(t)
    PROVE  IInv'
<1> USE ConstantsAssumption DEF TypeOK, LocalsOK, At, Goto, RcuUnlock,
        objvars, inodevars, sbvars, locals, sbdvars, SbClearing
<1>0. TypeOK /\ LocalsOK /\ TypeOK' /\ LocalsOK'
  BY DEF IInv, TypeInv
<1>1. PathHeld'
  BY <1>0 DEF IInv, PathHeld, IncRefs
<1>2. UsageExact'
  <2>1. \A x \in Objects : Refs(x)' = Refs(x)
    BY <1>0 DEF Refs, IncRefs
  <2> QED BY <1>0, <2>1 DEF IInv, UsageExact, IncRefs
<1>3. DeadObjects'
  BY <1>0 DEF IInv, DeadObjects, IncRefs
<1>4. OneReleaser'
  BY <1>0 DEF IInv, OneReleaser, IncRefs
<1>5. FreshPrivate'
  BY <1>0 DEF IInv, FreshPrivate, IncRefs
<1>6. ReaderSafe'
  BY <1>0 DEF IInv, ReaderSafe, IncRefs
<1>7. PointerMatched'
  BY <1>0 DEF IInv, PointerMatched, IncRefs
<1>8. InodeCountExact'
  <2>1. \A x \in Inodes : Iputters(x)' = Iputters(x)
    BY <1>0 DEF Iputters, IncRefs
  <2> QED BY <1>0, <2>1 DEF IInv, InodeCountExact, SbPins, B, IncRefs
<1>9. FreedUnreferenced'
  BY <1>0 DEF IInv, FreedUnreferenced, IncRefs
<1>10. EvictOnce'
  BY <1>0 DEF IInv, EvictOnce, IncRefs
<1> QED BY <1>0, <1>1, <1>2, <1>3, <1>4, <1>5, <1>6, <1>7, <1>8, <1>9, <1>10 DEF IInv

\* ClearPointer: the reference passes from the tie to the task.
LEMMA StepClearPointer ==
    ASSUME IInv, TypeInv', NEW t \in Tasks, ClearPointer(t)
    PROVE  IInv'
<1> USE ConstantsAssumption DEF TypeOK, LocalsOK, At, Goto, RcuUnlock,
        objvars, inodevars, sbvars, locals, sbdvars, SbClearing
<1>0. TypeOK /\ LocalsOK /\ TypeOK' /\ LocalsOK'
  BY DEF IInv, TypeInv
<1>a. inode_sec[ti[t]] = to[t] /\ ~SbClearing(ti[t]) /\ to[t] \in Objects /\ ti[t] \in Inodes
  BY <1>0 DEF IInv, PointerMatched, ClearPointer
<1>b. underobj[to[t]] = NULL /\ \A u \in Tasks : u # t /\ pc[u] \in Releasing => to[u] # to[t]
  BY <1>0 DEF IInv, OneReleaser, ClearPointer
<1>1. PathHeld'
  BY <1>0 DEF IInv, PathHeld, ClearPointer
<1>2. UsageExact'
  <2>1. \A x \in Objects : Refs(x)' = Refs(x)
    BY <1>0 DEF Refs, ClearPointer
  <2> QED BY <1>0, <2>1 DEF IInv, UsageExact, ClearPointer
<1>3. DeadObjects'
  BY <1>0 DEF IInv, DeadObjects, ClearPointer
<1>4. OneReleaser'
  BY <1>0 DEF IInv, OneReleaser, ClearPointer
<1>5. FreshPrivate'
  BY <1>0 DEF IInv, FreshPrivate, ClearPointer
<1>6. ReaderSafe'
  BY <1>0 DEF IInv, ReaderSafe, ClearPointer
<1>7. PointerMatched'
  BY <1>0, <1>a, <1>b DEF IInv, PointerMatched, FreshPrivate, ClearPointer
<1>8. InodeCountExact'
  <2>0. PICK j \in Inodes : j = ti[t]
    BY <1>0 DEF ClearPointer
  <2>1. \A i \in Inodes : i # j => Iputters(i)' = Iputters(i)
    BY <1>0, <2>0 DEF Iputters, ClearPointer
  <2>2. t \notin Iputters(j) /\ Iputters(j)' = Iputters(j) \cup {t}
    BY <1>0, <2>0 DEF Iputters, ClearPointer
  <2>3. Cardinality(Iputters(j)') = Cardinality(Iputters(j)) + 1
    BY <2>2, RefsType, Finite
  <2>4. Cardinality(Iputters(j)) \in Nat
    BY RefsType, Finite
  <2> QED BY <1>0, <2>0, <1>a, <2>1, <2>3, <2>4 DEF IInv, InodeCountExact, SbPins, B, ClearPointer
<1>9. FreedUnreferenced'
  BY <1>0 DEF IInv, FreedUnreferenced, ClearPointer
<1>10. EvictOnce'
  BY <1>0 DEF IInv, EvictOnce, ClearPointer
<1> QED BY <1>0, <1>1, <1>2, <1>3, <1>4, <1>5, <1>6, <1>7, <1>8, <1>9, <1>10 DEF IInv

\* Iput.
LEMMA StepIput ==
    ASSUME IInv, TypeInv', NEW t \in Tasks, Iput(t)
    PROVE  IInv'
<1> USE ConstantsAssumption DEF TypeOK, LocalsOK, At, Goto, RcuUnlock,
        objvars, inodevars, sbvars, locals, sbdvars, SbClearing
<1>0. TypeOK /\ LocalsOK /\ TypeOK' /\ LocalsOK'
  BY DEF IInv, TypeInv
<1>a. ti[t] \in Inodes /\ i_count[ti[t]] >= 1 /\ istate[ti[t]] = "active"
  BY <1>0, Counted DEF Iput
<1>1. PathHeld'
  BY <1>0 DEF IInv, PathHeld, Iput
<1>2. UsageExact'
  <2>1. \A x \in Objects : Refs(x)' = Refs(x)
    BY <1>0 DEF Refs, Iput
  <2> QED BY <1>0, <2>1 DEF IInv, UsageExact, Iput
<1>3. DeadObjects'
  BY <1>0 DEF IInv, DeadObjects, Iput
<1>4. OneReleaser'
  BY <1>0 DEF IInv, OneReleaser, Iput
<1>5. FreshPrivate'
  BY <1>0 DEF IInv, FreshPrivate, Iput
<1>6. ReaderSafe'
  BY <1>0 DEF IInv, ReaderSafe, Iput
<1>7. PointerMatched'
  BY <1>0 DEF IInv, PointerMatched, Iput
<1>8. InodeCountExact'
  <2>0. PICK j \in Inodes : j = ti[t]
    BY <1>0 DEF Iput
  <2>1. \A i \in Inodes : i # j => Iputters(i)' = Iputters(i)
    BY <1>0, <2>0 DEF Iputters, Iput
  <2>2. t \in Iputters(j) /\ Iputters(j)' = Iputters(j) \ {t}
    BY <1>0, <2>0 DEF Iputters, Iput
  <2>3. Cardinality(Iputters(j)') = Cardinality(Iputters(j)) - 1
    BY <2>2, RefsType, Finite
  <2>4. Cardinality(Iputters(j)) \in Nat
    BY RefsType, Finite
  <2>5. \A i \in Inodes : SbPins(i)' = SbPins(i) /\ SbPins(i) \in Nat
    BY <1>0 DEF SbPins, B, Iput
  <2>6. /\ \A i \in Inodes : i # j => i_count'[i] = i_count[i]
        /\ i_count'[j] = i_count[j] - 1
        /\ dref' = dref /\ inode_sec' = inode_sec
    BY <1>0, <2>0 DEF Iput
  <2>7. SUFFICES ASSUME NEW i \in Inodes
                 PROVE  (i_count[i] = B(dref[i]) + B(inode_sec[i] # NULL)
                                      + Cardinality(Iputters(i)) + SbPins(i))'
    BY DEF InodeCountExact
  <2>8. i_count[i] = B(dref[i]) + B(inode_sec[i] # NULL)
                     + Cardinality(Iputters(i)) + SbPins(i)
    BY DEF IInv, InodeCountExact
  <2>9. CASE i = j
    BY <2>3, <2>4, <2>5, <2>6, <2>8, <2>9 DEF B
  <2>10. CASE i # j
    BY <2>1, <2>5, <2>6, <2>8, <2>10
  <2> QED BY <2>9, <2>10
<1>9. FreedUnreferenced'
  BY <1>0, <1>a DEF IInv, FreedUnreferenced, Iput
<1>10. EvictOnce'
  BY <1>0, <1>a DEF IInv, EvictOnce, Iput
<1> QED BY <1>0, <1>1, <1>2, <1>3, <1>4, <1>5, <1>6, <1>7, <1>8, <1>9, <1>10 DEF IInv

\* Evict.
LEMMA StepEvict ==
    ASSUME IInv, TypeInv', NEW t \in Tasks, Evict(t)
    PROVE  IInv'
<1> USE ConstantsAssumption DEF TypeOK, LocalsOK, At, Goto, RcuUnlock,
        objvars, inodevars, sbvars, locals, sbdvars, SbClearing
<1>0. TypeOK /\ LocalsOK /\ TypeOK' /\ LocalsOK'
  BY DEF IInv, TypeInv
<1>1. PathHeld'
  BY <1>0 DEF IInv, PathHeld, Evict
<1>2. UsageExact'
  <2>1. \A x \in Objects : Refs(x)' = Refs(x)
    BY <1>0 DEF Refs, Evict
  <2> QED BY <1>0, <2>1 DEF IInv, UsageExact, Evict
<1>3. DeadObjects'
  BY <1>0 DEF IInv, DeadObjects, Evict
<1>4. OneReleaser'
  BY <1>0 DEF IInv, OneReleaser, Evict
<1>5. FreshPrivate'
  BY <1>0 DEF IInv, FreshPrivate, Evict
<1>6. ReaderSafe'
  BY <1>0 DEF IInv, ReaderSafe, Evict
<1>7. PointerMatched'
  BY <1>0 DEF IInv, PointerMatched, Evict
<1>8. InodeCountExact'
  <2>1. \A x \in Inodes : Iputters(x)' = Iputters(x)
    BY <1>0 DEF Iputters, Evict
  <2> QED BY <1>0, <2>1 DEF IInv, InodeCountExact, SbPins, B, Evict
<1>9. FreedUnreferenced'
  BY <1>0 DEF IInv, FreedUnreferenced, EvictOnce, Evict
<1>10. EvictOnce'
  BY <1>0 DEF IInv, EvictOnce, Evict
<1> QED BY <1>0, <1>1, <1>2, <1>3, <1>4, <1>5, <1>6, <1>7, <1>8, <1>9, <1>10 DEF IInv

\* DecRefs.
LEMMA StepDecRefs ==
    ASSUME IInv, TypeInv', NEW t \in Tasks, DecRefs(t)
    PROVE  IInv'
<1> USE ConstantsAssumption DEF TypeOK, LocalsOK, At, Goto, RcuUnlock,
        objvars, inodevars, sbvars, locals, sbdvars, SbClearing
<1>0. TypeOK /\ LocalsOK /\ TypeOK' /\ LocalsOK'
  BY DEF IInv, TypeInv
<1>1. PathHeld'
  BY <1>0 DEF IInv, PathHeld, DecRefs
<1>2. UsageExact'
  <2>1. \A x \in Objects : Refs(x)' = Refs(x)
    BY <1>0 DEF Refs, DecRefs
  <2> QED BY <1>0, <2>1 DEF IInv, UsageExact, DecRefs
<1>3. DeadObjects'
  BY <1>0 DEF IInv, DeadObjects, DecRefs
<1>4. OneReleaser'
  BY <1>0 DEF IInv, OneReleaser, DecRefs
<1>5. FreshPrivate'
  BY <1>0 DEF IInv, FreshPrivate, DecRefs
<1>6. ReaderSafe'
  BY <1>0 DEF IInv, ReaderSafe, DecRefs
<1>7. PointerMatched'
  BY <1>0 DEF IInv, PointerMatched, DecRefs
<1>8. InodeCountExact'
  <2>1. \A x \in Inodes : Iputters(x)' = Iputters(x)
    BY <1>0 DEF Iputters, DecRefs
  <2> QED BY <1>0, <2>1 DEF IInv, InodeCountExact, SbPins, B, DecRefs
<1>9. FreedUnreferenced'
  BY <1>0 DEF IInv, FreedUnreferenced, DecRefs
<1>10. EvictOnce'
  BY <1>0 DEF IInv, EvictOnce, DecRefs
<1> QED BY <1>0, <1>1, <1>2, <1>3, <1>4, <1>5, <1>6, <1>7, <1>8, <1>9, <1>10 DEF IInv

\* KfreeRcu: readers of the object are waited for, and no pointer leads to it.
LEMMA StepKfreeRcu ==
    ASSUME IInv, TypeInv', NEW t \in Tasks, KfreeRcu(t)
    PROVE  IInv'
<1> USE ConstantsAssumption DEF TypeOK, LocalsOK, At, Goto, RcuUnlock,
        objvars, inodevars, sbvars, locals, sbdvars, SbClearing
<1>0. TypeOK /\ LocalsOK /\ TypeOK' /\ LocalsOK'
  BY DEF IInv, TypeInv
<1>a. /\ to[t] \in Objects /\ ostate[to[t]] = "live" /\ usage[to[t]] = 0
      /\ underobj[to[t]] = NULL
      /\ \A u \in Tasks : u # t /\ pc[u] \in Releasing => to[u] # to[t]
      /\ \A u \in Tasks : pc[u] = "install" => to[u] # to[t]
  BY <1>0 DEF IInv, OneReleaser, FreshPrivate, KfreeRcu
<1>1. PathHeld'
  BY <1>0 DEF IInv, PathHeld, KfreeRcu, AfterPut
<1>2. UsageExact'
  <2>1. \A x \in Objects : Refs(x)' = Refs(x)
    BY <1>0 DEF Refs, KfreeRcu, AfterPut
  <2> QED BY <1>0, <2>1 DEF IInv, UsageExact, KfreeRcu, AfterPut
<1>3. DeadObjects'
  BY <1>0, <1>a DEF IInv, DeadObjects, KfreeRcu, AfterPut
<1>4. OneReleaser'
  BY <1>0, <1>a DEF IInv, OneReleaser, KfreeRcu, AfterPut
<1>5. FreshPrivate'
  BY <1>0, <1>a DEF IInv, FreshPrivate, KfreeRcu, AfterPut
<1>6. ReaderSafe'
  BY <1>0, <1>a DEF IInv, ReaderSafe, KfreeRcu, AfterPut
<1>7. PointerMatched'
  BY <1>0 DEF IInv, PointerMatched, KfreeRcu, AfterPut
<1>8. InodeCountExact'
  <2>1. \A x \in Inodes : Iputters(x)' = Iputters(x)
    BY <1>0 DEF Iputters, KfreeRcu, AfterPut
  <2> QED BY <1>0, <2>1 DEF IInv, InodeCountExact, SbPins, B, KfreeRcu, AfterPut
<1>9. FreedUnreferenced'
  BY <1>0 DEF IInv, FreedUnreferenced, KfreeRcu, AfterPut
<1>10. EvictOnce'
  BY <1>0 DEF IInv, EvictOnce, KfreeRcu, AfterPut
<1> QED BY <1>0, <1>1, <1>2, <1>3, <1>4, <1>5, <1>6, <1>7, <1>8, <1>9, <1>10 DEF IInv

\* FreeRuleset.
LEMMA StepFreeRuleset ==
    ASSUME IInv, TypeInv', NEW t \in Tasks, NEW r \in Rulesets, FreeRuleset(t, r)
    PROVE  IInv'
<1> USE ConstantsAssumption DEF TypeOK, LocalsOK, At, Goto, RcuUnlock,
        objvars, inodevars, sbvars, locals, sbdvars, SbClearing
<1>0. TypeOK /\ LocalsOK /\ TypeOK' /\ LocalsOK'
  BY DEF IInv, TypeInv
<1>1. PathHeld'
  BY <1>0 DEF IInv, PathHeld, FreeRuleset
<1>2. UsageExact'
  <2>1. \A x \in Objects : Refs(x)' = Refs(x)
    BY <1>0 DEF Refs, FreeRuleset
  <2> QED BY <1>0, <2>1 DEF IInv, UsageExact, FreeRuleset
<1>3. DeadObjects'
  BY <1>0 DEF IInv, DeadObjects, FreeRuleset
<1>4. OneReleaser'
  BY <1>0 DEF IInv, OneReleaser, FreeRuleset
<1>5. FreshPrivate'
  BY <1>0 DEF IInv, FreshPrivate, FreeRuleset
<1>6. ReaderSafe'
  BY <1>0 DEF IInv, ReaderSafe, FreeRuleset
<1>7. PointerMatched'
  BY <1>0 DEF IInv, PointerMatched, FreeRuleset
<1>8. InodeCountExact'
  <2>1. \A x \in Inodes : Iputters(x)' = Iputters(x)
    BY <1>0 DEF Iputters, FreeRuleset
  <2> QED BY <1>0, <2>1 DEF IInv, InodeCountExact, SbPins, B, FreeRuleset
<1>9. FreedUnreferenced'
  BY <1>0 DEF IInv, FreedUnreferenced, FreeRuleset
<1>10. EvictOnce'
  BY <1>0 DEF IInv, EvictOnce, FreeRuleset
<1> QED BY <1>0, <1>1, <1>2, <1>3, <1>4, <1>5, <1>6, <1>7, <1>8, <1>9, <1>10 DEF IInv

\* FreeRule: the reference passes from the rule to the task.
LEMMA StepFreeRule ==
    ASSUME IInv, TypeInv', NEW t \in Tasks, NEW o \in Objects, FreeRule(t, o)
    PROVE  IInv'
<1> USE ConstantsAssumption DEF TypeOK, LocalsOK, At, Goto, RcuUnlock,
        objvars, inodevars, sbvars, locals, sbdvars, SbClearing
<1>0. TypeOK /\ LocalsOK /\ TypeOK' /\ LocalsOK'
  BY DEF IInv, TypeInv
<1>a. usage[o] >= 1 /\ ostate[o] = "live" /\ tr[t] \in Refs(o) /\ tr[t] \in Rulesets
  BY <1>0, OwnerLive DEF FreeRule
<1>1. PathHeld'
  BY <1>0 DEF IInv, PathHeld, FreeRule
<1>2. UsageExact'
  <2>1. \A p \in Objects : p # o => Refs(p)' = Refs(p)
    BY <1>0 DEF Refs, FreeRule
  <2>2. t \notin Refs(o) \ {tr[t]}
    BY <1>0 DEF Refs, FreeRule
  <2>3. Refs(o)' = (Refs(o) \ {tr[t]}) \cup {t}
    BY <1>0 DEF Refs, FreeRule
  <2>4. Refs(o) \ {tr[t]} \in SUBSET (Tasks \cup Rulesets)
    BY RefsType
  <2>5. Cardinality(Refs(o) \ {tr[t]}) = Cardinality(Refs(o)) - 1
    BY <1>a, RefsType, Finite
  <2>6. Cardinality(Refs(o)') = (Cardinality(Refs(o)) - 1) + 1
    <3>1. PICK S \in SUBSET (Tasks \cup Rulesets) : S = Refs(o) \ {tr[t]}
      BY <2>4
    <3>2. Cardinality(S \cup {t}) = Cardinality(S) + 1
      BY <2>2, <3>1, Finite
    <3> QED BY <2>3, <2>5, <3>1, <3>2
  <2>7. usage[o] = Cardinality(Refs(o)) /\ Cardinality(Refs(o)) \in Nat
    BY RefsType, Finite DEF IInv, UsageExact
  <2>8. usage' = usage
    BY DEF FreeRule
  <2> QED BY <2>1, <2>6, <2>7, <2>8 DEF IInv, UsageExact
<1>3. DeadObjects'
  BY <1>0 DEF IInv, DeadObjects, FreeRule
<1>4. OneReleaser'
  BY <1>0 DEF IInv, OneReleaser, FreeRule
<1>5. FreshPrivate'
  BY <1>0 DEF IInv, FreshPrivate, FreeRule
<1>6. ReaderSafe'
  BY <1>0 DEF IInv, ReaderSafe, FreeRule
<1>7. PointerMatched'
  BY <1>0 DEF IInv, PointerMatched, FreeRule
<1>8. InodeCountExact'
  <2>1. \A x \in Inodes : Iputters(x)' = Iputters(x)
    BY <1>0 DEF Iputters, FreeRule
  <2> QED BY <1>0, <2>1 DEF IInv, InodeCountExact, SbPins, B, FreeRule
<1>9. FreedUnreferenced'
  BY <1>0 DEF IInv, FreedUnreferenced, FreeRule
<1>10. EvictOnce'
  BY <1>0 DEF IInv, EvictOnce, FreeRule
<1> QED BY <1>0, <1>1, <1>2, <1>3, <1>4, <1>5, <1>6, <1>7, <1>8, <1>9, <1>10 DEF IInv

\* FreeRulesetEnd.
LEMMA StepFreeRulesetEnd ==
    ASSUME IInv, TypeInv', NEW t \in Tasks, FreeRulesetEnd(t)
    PROVE  IInv'
<1> USE ConstantsAssumption DEF TypeOK, LocalsOK, At, Goto, RcuUnlock,
        objvars, inodevars, sbvars, locals, sbdvars, SbClearing
<1>0. TypeOK /\ LocalsOK /\ TypeOK' /\ LocalsOK'
  BY DEF IInv, TypeInv
<1>1. PathHeld'
  BY <1>0 DEF IInv, PathHeld, FreeRulesetEnd
<1>2. UsageExact'
  <2>1. \A x \in Objects : Refs(x)' = Refs(x)
    BY <1>0 DEF Refs, FreeRulesetEnd
  <2> QED BY <1>0, <2>1 DEF IInv, UsageExact, FreeRulesetEnd
<1>3. DeadObjects'
  BY <1>0 DEF IInv, DeadObjects, FreeRulesetEnd
<1>4. OneReleaser'
  BY <1>0 DEF IInv, OneReleaser, FreeRulesetEnd
<1>5. FreshPrivate'
  BY <1>0 DEF IInv, FreshPrivate, FreeRulesetEnd
<1>6. ReaderSafe'
  BY <1>0 DEF IInv, ReaderSafe, FreeRulesetEnd
<1>7. PointerMatched'
  BY <1>0 DEF IInv, PointerMatched, FreeRulesetEnd
<1>8. InodeCountExact'
  <2>1. \A x \in Inodes : Iputters(x)' = Iputters(x)
    BY <1>0 DEF Iputters, FreeRulesetEnd
  <2> QED BY <1>0, <2>1 DEF IInv, InodeCountExact, SbPins, B, FreeRulesetEnd
<1>9. FreedUnreferenced'
  BY <1>0 DEF IInv, FreedUnreferenced, FreeRulesetEnd
<1>10. EvictOnce'
  BY <1>0 DEF IInv, EvictOnce, FreeRulesetEnd
<1> QED BY <1>0, <1>1, <1>2, <1>3, <1>4, <1>5, <1>6, <1>7, <1>8, <1>9, <1>10 DEF IInv

\* InheritRule.
LEMMA StepInheritRule ==
    ASSUME IInv, TypeInv', NEW r \in Rulesets, NEW s \in Rulesets, NEW o \in Objects,
           InheritRule(r, s, o)
    PROVE  IInv'
<1> USE ConstantsAssumption DEF TypeOK, LocalsOK, At, Goto, RcuUnlock,
        objvars, inodevars, sbvars, locals, sbdvars, SbClearing
<1>0. TypeOK /\ LocalsOK /\ TypeOK' /\ LocalsOK'
  BY DEF IInv, TypeInv
<1>a. usage[o] >= 1 /\ ostate[o] = "live"
  BY <1>0, OwnerLive DEF InheritRule
<1>1. PathHeld'
  BY <1>0 DEF IInv, PathHeld, InheritRule
<1>2. UsageExact'
  <2>1. \A p \in Objects : p # o => Refs(p)' = Refs(p)
    BY <1>0 DEF Refs, InheritRule
  <2>2. s \notin Refs(o)
    BY <1>0 DEF Refs, InheritRule
  <2>3. Refs(o)' = Refs(o) \cup {s}
    BY <1>0 DEF Refs, InheritRule
  <2>4. Cardinality(Refs(o)') = Cardinality(Refs(o)) + 1
    BY <2>2, <2>3, RefsType, Finite
  <2>5. /\ usage'[o] = usage[o] + 1
        /\ \A p \in Objects : p # o => usage'[p] = usage[p]
    BY <1>0 DEF InheritRule
  <2> QED BY <2>1, <2>4, <2>5 DEF IInv, UsageExact
<1>3. DeadObjects'
  BY <1>0, <1>a DEF IInv, DeadObjects, InheritRule
<1>4. OneReleaser'
  BY <1>0, <1>a DEF IInv, OneReleaser, InheritRule
<1>5. FreshPrivate'
  BY <1>0 DEF IInv, FreshPrivate, InheritRule
<1>6. ReaderSafe'
  BY <1>0 DEF IInv, ReaderSafe, InheritRule
<1>7. PointerMatched'
  BY <1>0 DEF IInv, PointerMatched, InheritRule
<1>8. InodeCountExact'
  <2>1. \A x \in Inodes : Iputters(x)' = Iputters(x)
    BY <1>0 DEF Iputters, InheritRule
  <2> QED BY <1>0, <2>1 DEF IInv, InodeCountExact, SbPins, B, InheritRule
<1>9. FreedUnreferenced'
  BY <1>0 DEF IInv, FreedUnreferenced, InheritRule
<1>10. EvictOnce'
  BY <1>0 DEF IInv, EvictOnce, InheritRule
<1> QED BY <1>0, <1>1, <1>2, <1>3, <1>4, <1>5, <1>6, <1>7, <1>8, <1>9, <1>10 DEF IInv

\* RcuFree: no reader is left.
LEMMA StepRcuFree ==
    ASSUME IInv, TypeInv', NEW o \in Objects, RcuFree(o)
    PROVE  IInv'
<1> USE ConstantsAssumption DEF TypeOK, LocalsOK, At, Goto, RcuUnlock,
        objvars, inodevars, sbvars, locals, sbdvars, SbClearing
<1>0. TypeOK /\ LocalsOK /\ TypeOK' /\ LocalsOK'
  BY DEF IInv, TypeInv
<1>1. PathHeld'
  BY <1>0 DEF IInv, PathHeld, RcuFree
<1>2. UsageExact'
  <2>1. \A x \in Objects : Refs(x)' = Refs(x)
    BY <1>0 DEF Refs, RcuFree
  <2> QED BY <1>0, <2>1 DEF IInv, UsageExact, RcuFree
<1>3. DeadObjects'
  BY <1>0 DEF IInv, DeadObjects, RcuFree
<1>4. OneReleaser'
  BY <1>0 DEF IInv, OneReleaser, RcuFree
<1>5. FreshPrivate'
  BY <1>0 DEF IInv, FreshPrivate, RcuFree
<1>6. ReaderSafe'
  BY <1>0 DEF IInv, ReaderSafe, RcuFree
<1>7. PointerMatched'
  BY <1>0 DEF IInv, PointerMatched, RcuFree
<1>8. InodeCountExact'
  <2>1. \A x \in Inodes : Iputters(x)' = Iputters(x)
    BY <1>0 DEF Iputters, RcuFree
  <2> QED BY <1>0, <2>1 DEF IInv, InodeCountExact, SbPins, B, RcuFree
<1>9. FreedUnreferenced'
  BY <1>0 DEF IInv, FreedUnreferenced, RcuFree
<1>10. EvictOnce'
  BY <1>0 DEF IInv, EvictOnce, RcuFree
<1> QED BY <1>0, <1>1, <1>2, <1>3, <1>4, <1>5, <1>6, <1>7, <1>8, <1>9, <1>10 DEF IInv

\* Lookup: an inode that was freed is untied already.
LEMMA StepLookup ==
    ASSUME IInv, TypeInv', NEW i \in Inodes, Lookup(i)
    PROVE  IInv'
<1> USE ConstantsAssumption DEF TypeOK, LocalsOK, At, Goto, RcuUnlock,
        objvars, inodevars, sbvars, locals, sbdvars, SbClearing
<1>0. TypeOK /\ LocalsOK /\ TypeOK' /\ LocalsOK'
  BY DEF IInv, TypeInv
<1>a. istate[i] = "freed" => i_count[i] = 0 /\ inode_sec[i] = NULL
  BY <1>0, Counted DEF IInv, FreedUnreferenced
<1>b. inode_sec' = inode_sec
  BY <1>0, <1>a DEF Lookup
<1>1. PathHeld'
  BY <1>0 DEF IInv, PathHeld, Lookup
<1>2. UsageExact'
  <2>1. \A x \in Objects : Refs(x)' = Refs(x)
    BY <1>0 DEF Refs, Lookup
  <2> QED BY <1>0, <2>1 DEF IInv, UsageExact, Lookup
<1>3. DeadObjects'
  BY <1>0 DEF IInv, DeadObjects, Lookup
<1>4. OneReleaser'
  BY <1>0 DEF IInv, OneReleaser, Lookup
<1>5. FreshPrivate'
  BY <1>0, <1>b DEF IInv, FreshPrivate, Lookup
<1>6. ReaderSafe'
  BY <1>0 DEF IInv, ReaderSafe, Lookup
<1>7. PointerMatched'
  BY <1>0, <1>b DEF IInv, PointerMatched, Lookup
<1>8. InodeCountExact'
  <2>1. \A j \in Inodes : Iputters(j)' = Iputters(j) /\ SbPins(j)' = SbPins(j)
    BY <1>0 DEF Iputters, SbPins, B, Lookup
  <2>2. \A j \in Inodes : Cardinality(Iputters(j)) \in Nat /\ SbPins(j) \in Nat
    BY RefsType, Finite DEF SbPins, B
  <2>3. /\ \A j \in Inodes : j # i => i_count'[j] = i_count[j] /\ dref'[j] = dref[j]
        /\ i_count'[i] = i_count[i] + 1 /\ ~dref[i] /\ dref'[i]
    BY <1>0 DEF Lookup
  <2> QED BY <1>b, <2>1, <2>2, <2>3 DEF IInv, InodeCountExact, B
<1>9. FreedUnreferenced'
  BY <1>0 DEF IInv, FreedUnreferenced, Lookup
<1>10. EvictOnce'
  BY <1>0 DEF IInv, EvictOnce, Lookup
<1> QED BY <1>0, <1>1, <1>2, <1>3, <1>4, <1>5, <1>6, <1>7, <1>8, <1>9, <1>10 DEF IInv

\* DropDentry.
LEMMA StepDropDentry ==
    ASSUME IInv, TypeInv', NEW i \in Inodes, DropDentry(i)
    PROVE  IInv'
<1> USE ConstantsAssumption DEF TypeOK, LocalsOK, At, Goto, RcuUnlock,
        objvars, inodevars, sbvars, locals, sbdvars, SbClearing
<1>0. TypeOK /\ LocalsOK /\ TypeOK' /\ LocalsOK'
  BY DEF IInv, TypeInv
<1>a. i_count[i] >= 1 /\ istate[i] = "active"
  BY Counted DEF DropDentry
<1>1. PathHeld'
  BY <1>0 DEF IInv, PathHeld, DropDentry
<1>2. UsageExact'
  <2>1. \A x \in Objects : Refs(x)' = Refs(x)
    BY <1>0 DEF Refs, DropDentry
  <2> QED BY <1>0, <2>1 DEF IInv, UsageExact, DropDentry
<1>3. DeadObjects'
  BY <1>0 DEF IInv, DeadObjects, DropDentry
<1>4. OneReleaser'
  BY <1>0 DEF IInv, OneReleaser, DropDentry
<1>5. FreshPrivate'
  BY <1>0 DEF IInv, FreshPrivate, DropDentry
<1>6. ReaderSafe'
  BY <1>0 DEF IInv, ReaderSafe, DropDentry
<1>7. PointerMatched'
  BY <1>0 DEF IInv, PointerMatched, DropDentry
<1>8. InodeCountExact'
  <2>1. \A j \in Inodes : Iputters(j)' = Iputters(j) /\ SbPins(j)' = SbPins(j)
    BY <1>0 DEF Iputters, SbPins, B, DropDentry
  <2>2. \A j \in Inodes : Cardinality(Iputters(j)) \in Nat /\ SbPins(j) \in Nat
    BY RefsType, Finite DEF SbPins, B
  <2>3. /\ \A j \in Inodes : j # i => i_count'[j] = i_count[j] /\ dref'[j] = dref[j]
        /\ i_count'[i] = i_count[i] - 1 /\ dref[i] /\ ~dref'[i]
        /\ inode_sec' = inode_sec
    BY <1>0 DEF DropDentry
  <2> QED BY <2>1, <2>2, <2>3 DEF IInv, InodeCountExact, B
<1>9. FreedUnreferenced'
  BY <1>0, <1>a DEF IInv, FreedUnreferenced, DropDentry
<1>10. EvictOnce'
  BY <1>0 DEF IInv, EvictOnce, DropDentry
<1> QED BY <1>0, <1>1, <1>2, <1>3, <1>4, <1>5, <1>6, <1>7, <1>8, <1>9, <1>10 DEF IInv

\* Reclaim.
LEMMA StepReclaim ==
    ASSUME IInv, TypeInv', NEW i \in Inodes, Reclaim(i)
    PROVE  IInv'
<1> USE ConstantsAssumption DEF TypeOK, LocalsOK, At, Goto, RcuUnlock,
        objvars, inodevars, sbvars, locals, sbdvars, SbClearing
<1>0. TypeOK /\ LocalsOK /\ TypeOK' /\ LocalsOK'
  BY DEF IInv, TypeInv
<1>1. PathHeld'
  BY <1>0 DEF IInv, PathHeld, Reclaim
<1>2. UsageExact'
  <2>1. \A x \in Objects : Refs(x)' = Refs(x)
    BY <1>0 DEF Refs, Reclaim
  <2> QED BY <1>0, <2>1 DEF IInv, UsageExact, Reclaim
<1>3. DeadObjects'
  BY <1>0 DEF IInv, DeadObjects, Reclaim
<1>4. OneReleaser'
  BY <1>0 DEF IInv, OneReleaser, Reclaim
<1>5. FreshPrivate'
  BY <1>0 DEF IInv, FreshPrivate, Reclaim
<1>6. ReaderSafe'
  BY <1>0 DEF IInv, ReaderSafe, Reclaim
<1>7. PointerMatched'
  BY <1>0 DEF IInv, PointerMatched, Reclaim
<1>8. InodeCountExact'
  <2>1. \A x \in Inodes : Iputters(x)' = Iputters(x)
    BY <1>0 DEF Iputters, Reclaim
  <2> QED BY <1>0, <2>1 DEF IInv, InodeCountExact, SbPins, B, Reclaim
<1>9. FreedUnreferenced'
  BY <1>0 DEF IInv, FreedUnreferenced, Reclaim
<1>10. EvictOnce'
  BY <1>0 DEF IInv, EvictOnce, Reclaim
<1> QED BY <1>0, <1>1, <1>2, <1>3, <1>4, <1>5, <1>6, <1>7, <1>8, <1>9, <1>10 DEF IInv

\* SbDelete.
LEMMA StepSbDelete ==
    ASSUME IInv, TypeInv', SbDelete
    PROVE  IInv'
<1> USE ConstantsAssumption DEF TypeOK, LocalsOK, At, Goto, RcuUnlock,
        objvars, inodevars, sbvars, locals, sbdvars, SbClearing
<1>0. TypeOK /\ LocalsOK /\ TypeOK' /\ LocalsOK'
  BY DEF IInv, TypeInv
<1>a. \A i \in Inodes : i_count'[i] = IF dref[i] THEN i_count[i] - 1 ELSE i_count[i]
  BY <1>0 DEF SbDelete
<1>b. \A i \in Inodes : istate'[i] = IF istate[i] = "active" /\ i_count'[i] = 0
                                  THEN "freed" ELSE istate[i]
  BY <1>0 DEF SbDelete
<1>c. \A i \in Inodes : dref'[i] = FALSE
  BY <1>0 DEF SbDelete
<1>1. PathHeld'
  BY <1>0 DEF IInv, PathHeld, SbDelete
<1>2. UsageExact'
  <2>1. \A x \in Objects : Refs(x)' = Refs(x)
    BY <1>0 DEF Refs, SbDelete
  <2> QED BY <1>0, <2>1 DEF IInv, UsageExact, SbDelete
<1>3. DeadObjects'
  BY <1>0 DEF IInv, DeadObjects, SbDelete
<1>4. OneReleaser'
  BY <1>0 DEF IInv, OneReleaser, SbDelete
<1>5. FreshPrivate'
  BY <1>0 DEF IInv, FreshPrivate, SbDelete
<1>6. ReaderSafe'
  BY <1>0 DEF IInv, ReaderSafe, SbDelete
<1>7. PointerMatched'
  BY <1>0 DEF IInv, PointerMatched, SbDelete
<1>8. InodeCountExact'
  <2>1. \A i \in Inodes : Iputters(i)' = Iputters(i) /\ Cardinality(Iputters(i)) \in Nat
    BY <1>0, RefsType, Finite DEF Iputters, SbDelete
  <2>2. \A i \in Inodes : SbPins(i)' = SbPins(i) /\ SbPins(i) \in Nat
    BY <1>0 DEF SbPins, B, SbDelete
  <2>3. inode_sec' = inode_sec
    BY DEF SbDelete
  <2> QED BY <1>0, <1>a, <1>c, <2>1, <2>2, <2>3 DEF IInv, InodeCountExact, B
<1>9. FreedUnreferenced'
  <2>1. \A i \in Inodes : dref[i] => istate[i] = "active"
    BY Counted
  <2> QED BY <1>a, <1>b, <2>1 DEF IInv, FreedUnreferenced
<1>10. EvictOnce'
  BY <1>0, <1>b DEF IInv, EvictOnce, SbDelete
<1> QED BY <1>0, <1>1, <1>2, <1>3, <1>4, <1>5, <1>6, <1>7, <1>8, <1>9, <1>10 DEF IInv

\* SbNext.
LEMMA StepSbNext ==
    ASSUME IInv, TypeInv', NEW j \in Inodes, SbNext(j)
    PROVE  IInv'
<1> USE ConstantsAssumption DEF TypeOK, LocalsOK, At, Goto, RcuUnlock,
        objvars, inodevars, sbvars, locals, sbdvars, SbClearing
<1>0. TypeOK /\ LocalsOK /\ TypeOK' /\ LocalsOK'
  BY DEF IInv, TypeInv
<1>1. PathHeld'
  BY <1>0 DEF IInv, PathHeld, SbNext
<1>2. UsageExact'
  <2>1. \A x \in Objects : Refs(x)' = Refs(x)
    BY <1>0 DEF Refs, SbNext
  <2> QED BY <1>0, <2>1 DEF IInv, UsageExact, SbNext
<1>3. DeadObjects'
  BY <1>0 DEF IInv, DeadObjects, SbNext
<1>4. OneReleaser'
  BY <1>0 DEF IInv, OneReleaser, SbNext
<1>5. FreshPrivate'
  BY <1>0 DEF IInv, FreshPrivate, SbNext
<1>6. ReaderSafe'
  BY <1>0 DEF IInv, ReaderSafe, SbNext
<1>7. PointerMatched'
  BY <1>0 DEF IInv, PointerMatched, SbNext
<1>8. InodeCountExact'
  <2>1. \A x \in Inodes : Iputters(x)' = Iputters(x)
    BY <1>0 DEF Iputters, SbNext
  <2> QED BY <1>0, <2>1 DEF IInv, InodeCountExact, SbPins, B, SbNext
<1>9. FreedUnreferenced'
  BY <1>0 DEF IInv, FreedUnreferenced, SbNext
<1>10. EvictOnce'
  BY <1>0 DEF IInv, EvictOnce, SbNext
<1> QED BY <1>0, <1>1, <1>2, <1>3, <1>4, <1>5, <1>6, <1>7, <1>8, <1>9, <1>10 DEF IInv

\* SbGet: the object found is live.
LEMMA StepSbGet ==
    ASSUME IInv, TypeInv', SbGet
    PROVE  IInv'
<1> USE ConstantsAssumption DEF TypeOK, LocalsOK, At, Goto, RcuUnlock,
        objvars, inodevars, sbvars, locals, sbdvars, SbClearing
<1>0. TypeOK /\ LocalsOK /\ TypeOK' /\ LocalsOK'
  BY DEF IInv, TypeInv
<1>a. ti[Umount] \in Inodes /\ ~SbClearing(ti[Umount])
  BY <1>0 DEF SbGet
<1>b. inode_sec[ti[Umount]] # NULL =>
          /\ ostate[inode_sec[ti[Umount]]] = "live"
          /\ istate[ti[Umount]] = "active"
  BY <1>0, <1>a, PointerLive, Counted
<1>1. PathHeld'
  BY <1>0 DEF IInv, PathHeld, SbGet
<1>2. UsageExact'
  <2>1. \A x \in Objects : Refs(x)' = Refs(x)
    BY <1>0 DEF Refs, SbGet
  <2> QED BY <1>0, <2>1 DEF IInv, UsageExact, SbGet
<1>3. DeadObjects'
  BY <1>0 DEF IInv, DeadObjects, SbGet
<1>4. OneReleaser'
  BY <1>0 DEF IInv, OneReleaser, SbGet
<1>5. FreshPrivate'
  BY <1>0, <1>a DEF IInv, FreshPrivate, SbGet
<1>6. ReaderSafe'
  BY <1>0, <1>b DEF IInv, ReaderSafe, SbGet
<1>7. PointerMatched'
  BY <1>0 DEF IInv, PointerMatched, SbGet
<1>8. InodeCountExact'
  <2>1. \A i \in Inodes : Iputters(i)' = Iputters(i) /\ Cardinality(Iputters(i)) \in Nat
    BY <1>0, RefsType, Finite DEF Iputters, SbGet
  <2>2. PICK j \in Inodes : j = ti[Umount]
    BY <1>a
  <2>3. CASE i_count' = i_count /\ pc' = [pc EXCEPT ![Umount] = "sb_loop"]
    BY <1>0, <2>1, <2>3 DEF IInv, InodeCountExact, SbPins, B, SbGet
  <2>4. CASE i_count' = [i_count EXCEPT ![ti[Umount]] = @ + 1]
             /\ pc' = [pc EXCEPT ![Umount] = "sb_lock"]
    <3>1. \A i \in Inodes : SbPins(i) \in Nat
             /\ SbPins(i)' = IF i = j THEN SbPins(i) + 1 ELSE SbPins(i)
      BY <1>0, <2>2, <2>4 DEF SbPins, B, SbGet
    <3>2. \A i \in Inodes : i_count'[i] = IF i = j THEN i_count[i] + 1 ELSE i_count[i]
      BY <1>0, <2>2, <2>4
    <3>3. inode_sec' = inode_sec /\ dref' = dref
      BY DEF SbGet
    <3> QED BY <2>1, <3>1, <3>2, <3>3 DEF IInv, InodeCountExact, B
  <2> QED BY <2>3, <2>4 DEF SbGet
<1>9. FreedUnreferenced'
  BY <1>0, <1>b DEF IInv, FreedUnreferenced, SbGet
<1>10. EvictOnce'
  BY <1>0 DEF IInv, EvictOnce, SbGet
<1> QED BY <1>0, <1>1, <1>2, <1>3, <1>4, <1>5, <1>6, <1>7, <1>8, <1>9, <1>10 DEF IInv

\* SbLock: the unmount takes the inode over, if no task did.
LEMMA StepSbLock ==
    ASSUME IInv, TypeInv', SbLock
    PROVE  IInv'
<1> USE ConstantsAssumption DEF TypeOK, LocalsOK, At, Goto, RcuUnlock,
        objvars, inodevars, sbvars, locals, sbdvars, SbClearing
<1>0. TypeOK /\ LocalsOK /\ TypeOK' /\ LocalsOK'
  BY DEF IInv, TypeInv
<1>a. to[Umount] \in Objects /\ ti[Umount] \in Inodes
  BY <1>0 DEF SbLock
<1>b. \A t \in Tasks : pc[t] # "install"
  BY <1>0 DEF IInv, PathHeld, SbLock
<1>1. PathHeld'
  BY <1>0 DEF IInv, PathHeld, SbLock
<1>2. UsageExact'
  <2>1. \A x \in Objects : Refs(x)' = Refs(x)
    BY <1>0 DEF Refs, SbLock
  <2> QED BY <1>0, <2>1 DEF IInv, UsageExact, SbLock
<1>3. DeadObjects'
  BY <1>0, <1>a DEF IInv, DeadObjects, SbLock
<1>4. OneReleaser'
  BY <1>0, <1>a DEF IInv, OneReleaser, SbLock
<1>5. FreshPrivate'
  BY <1>0, <1>b DEF IInv, FreshPrivate, SbLock
<1>6. ReaderSafe'
  BY <1>0 DEF IInv, ReaderSafe, SbLock
<1>7. PointerMatched'
  <2>1. CASE underobj[to[Umount]] = ti[Umount]
    <3>1. inode_sec[ti[Umount]] = to[Umount]
      BY <1>0, <1>a, <1>b, <2>1 DEF IInv, PointerMatched
    <3>2. \A t \in Tasks : pc[t] \in {"inc_refs", "clear"} => ti[t] # ti[Umount]
      BY <1>0, <1>a, <2>1, <3>1 DEF IInv, PointerMatched, OneReleaser
    <3>3. /\ \A o \in Objects : underobj'[o] = IF o = to[Umount] THEN NULL ELSE underobj[o]
          /\ inode_sec' = inode_sec /\ ti' = ti
          /\ \A t \in Tasks : pc'[t] = pc[t] /\ to'[t] = to[t]
          /\ pc'[Umount] = "sb_clear" /\ pc[Umount] = "sb_lock"
      BY <1>0, <1>a, <2>1 DEF SbLock
    <3>4. PointerMatched
      BY DEF IInv
    <3>5. \A i \in Inodes : inode_sec[i] # NULL /\ i # ti[Umount]
              => \/ inode_sec[i] \in Objects /\ inode_sec[i] # to[Umount]
                 \/ \E t \in Tasks : /\ pc[t] \in {"inc_refs", "clear"}
                                     /\ to[t] = inode_sec[i] /\ ti[t] = i
      BY <1>0, <1>a, <2>1, <3>3, <3>4 DEF PointerMatched
    <3>6. \A i \in Inodes : inode_sec'[i] # NULL =>
              \/ SbClearing(i)'
              \/ underobj'[inode_sec'[i]] = i
              \/ \E t \in Tasks : /\ pc'[t] \in {"inc_refs", "clear"}
                                  /\ to'[t] = inode_sec'[i] /\ ti'[t] = i
      BY <1>0, <1>a, <3>3, <3>4, <3>5 DEF PointerMatched
    <3>7. \A o \in Objects : underobj'[o] # NULL =>
              inode_sec'[underobj'[o]] = o /\ ~SbClearing(underobj[o])'
      BY <1>0, <1>a, <1>b, <3>1, <3>3, <3>4 DEF PointerMatched
    <3> QED BY <1>0, <1>a, <3>1, <3>2, <3>3, <3>4, <3>6, <3>7 DEF PointerMatched
  <2>2. CASE underobj[to[Umount]] # ti[Umount]
    BY <1>0, <1>a, <1>b, <2>2 DEF IInv, PointerMatched, SbLock
  <2> QED BY <2>1, <2>2
<1>8. InodeCountExact'
  <2>1. \A x \in Inodes : Iputters(x)' = Iputters(x)
    BY <1>0 DEF Iputters, SbLock
  <2> QED BY <1>0, <2>1 DEF IInv, InodeCountExact, SbPins, B, SbLock
<1>9. FreedUnreferenced'
  BY <1>0 DEF IInv, FreedUnreferenced, SbLock
<1>10. EvictOnce'
  BY <1>0 DEF IInv, EvictOnce, SbLock
<1> QED BY <1>0, <1>1, <1>2, <1>3, <1>4, <1>5, <1>6, <1>7, <1>8, <1>9, <1>10 DEF IInv

\* SbClear: the tie's reference passes to the unmount.
LEMMA StepSbClear ==
    ASSUME IInv, TypeInv', SbClear
    PROVE  IInv'
<1> USE ConstantsAssumption DEF TypeOK, LocalsOK, At, Goto, RcuUnlock,
        objvars, inodevars, sbvars, locals, sbdvars, SbClearing
<1>0. TypeOK /\ LocalsOK /\ TypeOK' /\ LocalsOK'
  BY DEF IInv, TypeInv
<1>a. inode_sec[ti[Umount]] # NULL /\ ti[Umount] \in Inodes
  BY <1>0 DEF IInv, PointerMatched, SbClear
<1>b. \A t \in Tasks : pc[t] # "install"
  BY <1>0 DEF IInv, PathHeld, SbClear
<1>1. PathHeld'
  BY <1>0 DEF IInv, PathHeld, SbClear
<1>2. UsageExact'
  <2>1. \A x \in Objects : Refs(x)' = Refs(x)
    BY <1>0 DEF Refs, SbClear
  <2> QED BY <1>0, <2>1 DEF IInv, UsageExact, SbClear
<1>3. DeadObjects'
  BY <1>0 DEF IInv, DeadObjects, SbClear
<1>4. OneReleaser'
  BY <1>0 DEF IInv, OneReleaser, SbClear
<1>5. FreshPrivate'
  BY <1>0, <1>b DEF IInv, FreshPrivate, SbClear
<1>6. ReaderSafe'
  BY <1>0 DEF IInv, ReaderSafe, SbClear
<1>7. PointerMatched'
  BY <1>0, <1>a, <1>b DEF IInv, PointerMatched, SbClear
<1>8. InodeCountExact'
  <2>1. \A i \in Inodes : Iputters(i)' = Iputters(i) /\ Cardinality(Iputters(i)) \in Nat
    BY <1>0, RefsType, Finite DEF Iputters, SbClear
  <2>2. PICK j \in Inodes : j = ti[Umount]
    BY <1>a
  <2>3. \A i \in Inodes : SbPins(i) \in Nat
            /\ SbPins(i)' = IF i = j THEN SbPins(i) + 1 ELSE SbPins(i)
    BY <1>0, <2>2 DEF SbPins, B, SbClear
  <2>4. /\ \A i \in Inodes : i # j => inode_sec'[i] = inode_sec[i]
        /\ inode_sec[j] # NULL /\ inode_sec'[j] = NULL
        /\ i_count' = i_count /\ dref' = dref
    BY <1>0, <1>a, <2>2 DEF SbClear
  <2>7. SUFFICES ASSUME NEW i \in Inodes
                 PROVE  (i_count[i] = B(dref[i]) + B(inode_sec[i] # NULL)
                                      + Cardinality(Iputters(i)) + SbPins(i))'
    BY DEF InodeCountExact
  <2>8. i_count[i] = B(dref[i]) + B(inode_sec[i] # NULL)
                     + Cardinality(Iputters(i)) + SbPins(i)
    BY DEF IInv, InodeCountExact
  <2>9. CASE i = j
    BY <2>1, <2>3, <2>4, <2>8, <2>9 DEF B
  <2>10. CASE i # j
    BY <2>1, <2>3, <2>4, <2>8, <2>10
  <2> QED BY <2>9, <2>10
<1>9. FreedUnreferenced'
  BY <1>0 DEF IInv, FreedUnreferenced, SbClear
<1>10. EvictOnce'
  BY <1>0 DEF IInv, EvictOnce, SbClear
<1> QED BY <1>0, <1>1, <1>2, <1>3, <1>4, <1>5, <1>6, <1>7, <1>8, <1>9, <1>10 DEF IInv

\* SbIput.
LEMMA StepSbIput ==
    ASSUME IInv, TypeInv', SbIput
    PROVE  IInv'
<1> USE ConstantsAssumption DEF TypeOK, LocalsOK, At, Goto, RcuUnlock,
        objvars, inodevars, sbvars, locals, sbdvars, SbClearing
<1>0. TypeOK /\ LocalsOK /\ TypeOK' /\ LocalsOK'
  BY DEF IInv, TypeInv
<1>a. ti[Umount] \in Inodes /\ i_count[ti[Umount]] >= 2 /\ istate[ti[Umount]] = "active"
  BY <1>0, Counted DEF SbIput
<1>1. PathHeld'
  BY <1>0 DEF IInv, PathHeld, SbIput
<1>2. UsageExact'
  <2>1. \A x \in Objects : Refs(x)' = Refs(x)
    BY <1>0 DEF Refs, SbIput
  <2> QED BY <1>0, <2>1 DEF IInv, UsageExact, SbIput
<1>3. DeadObjects'
  BY <1>0 DEF IInv, DeadObjects, SbIput
<1>4. OneReleaser'
  BY <1>0 DEF IInv, OneReleaser, SbIput
<1>5. FreshPrivate'
  BY <1>0 DEF IInv, FreshPrivate, SbIput
<1>6. ReaderSafe'
  BY <1>0 DEF IInv, ReaderSafe, SbIput
<1>7. PointerMatched'
  BY <1>0 DEF IInv, PointerMatched, SbIput
<1>8. InodeCountExact'
  <2>1. \A i \in Inodes : Iputters(i)' = Iputters(i) /\ Cardinality(Iputters(i)) \in Nat
    BY <1>0, RefsType, Finite DEF Iputters, SbIput
  <2>2. PICK j \in Inodes : j = ti[Umount]
    BY <1>a
  <2>3. \A i \in Inodes : SbPins(i) \in Nat
            /\ SbPins(i)' = IF i = j THEN SbPins(i) - 1 ELSE SbPins(i)
    BY <1>0, <2>2 DEF SbPins, B, SbIput
  <2>4. /\ \A i \in Inodes : i_count'[i] = IF i = j THEN i_count[i] - 1 ELSE i_count[i]
        /\ inode_sec' = inode_sec /\ dref' = dref
    BY <1>0, <2>2 DEF SbIput
  <2>7. SUFFICES ASSUME NEW i \in Inodes
                 PROVE  (i_count[i] = B(dref[i]) + B(inode_sec[i] # NULL)
                                      + Cardinality(Iputters(i)) + SbPins(i))'
    BY DEF InodeCountExact
  <2>8. i_count[i] = B(dref[i]) + B(inode_sec[i] # NULL)
                     + Cardinality(Iputters(i)) + SbPins(i)
    BY DEF IInv, InodeCountExact
  <2>9. CASE i = j
    BY <2>1, <2>3, <2>4, <2>8, <2>9 DEF B
  <2>10. CASE i # j
    BY <2>1, <2>3, <2>4, <2>8, <2>10
  <2> QED BY <2>9, <2>10
<1>9. FreedUnreferenced'
  BY <1>0, <1>a DEF IInv, FreedUnreferenced, SbIput
<1>10. EvictOnce'
  BY <1>0 DEF IInv, EvictOnce, SbIput
<1> QED BY <1>0, <1>1, <1>2, <1>3, <1>4, <1>5, <1>6, <1>7, <1>8, <1>9, <1>10 DEF IInv

\* SbPrev.
LEMMA StepSbPrev ==
    ASSUME IInv, TypeInv', SbPrev
    PROVE  IInv'
<1> USE ConstantsAssumption DEF TypeOK, LocalsOK, At, Goto, RcuUnlock,
        objvars, inodevars, sbvars, locals, sbdvars, SbClearing
<1>0. TypeOK /\ LocalsOK /\ TypeOK' /\ LocalsOK'
  BY DEF IInv, TypeInv
<1>1. PathHeld'
  BY <1>0 DEF IInv, PathHeld, SbPrev
<1>2. UsageExact'
  <2>1. \A x \in Objects : Refs(x)' = Refs(x)
    BY <1>0 DEF Refs, SbPrev
  <2> QED BY <1>0, <2>1 DEF IInv, UsageExact, SbPrev
<1>3. DeadObjects'
  BY <1>0 DEF IInv, DeadObjects, SbPrev
<1>4. OneReleaser'
  BY <1>0 DEF IInv, OneReleaser, SbPrev
<1>5. FreshPrivate'
  BY <1>0 DEF IInv, FreshPrivate, SbPrev
<1>6. ReaderSafe'
  BY <1>0 DEF IInv, ReaderSafe, SbPrev
<1>7. PointerMatched'
  BY <1>0 DEF IInv, PointerMatched, SbPrev
<1>8. InodeCountExact'
  <2>1. \A i \in Inodes : Iputters(i)' = Iputters(i) /\ Cardinality(Iputters(i)) \in Nat
    BY <1>0, RefsType, Finite DEF Iputters, SbPrev
  <2>2. \A i \in Inodes : SbPins(i)' = SbPins(i)
    BY <1>0 DEF SbPins, B, SbPrev
  <2>3. UNCHANGED <<i_count, inode_sec, dref>>
    BY DEF SbPrev
  <2> QED BY <2>1, <2>2, <2>3 DEF IInv, InodeCountExact
<1>9. FreedUnreferenced'
  BY <1>0 DEF IInv, FreedUnreferenced, SbPrev
<1>10. EvictOnce'
  BY <1>0 DEF IInv, EvictOnce, SbPrev
<1> QED BY <1>0, <1>1, <1>2, <1>3, <1>4, <1>5, <1>6, <1>7, <1>8, <1>9, <1>10 DEF IInv

\* SbEndLoop.
LEMMA StepSbEndLoop ==
    ASSUME IInv, TypeInv', SbEndLoop
    PROVE  IInv'
<1> USE ConstantsAssumption DEF TypeOK, LocalsOK, At, Goto, RcuUnlock,
        objvars, inodevars, sbvars, locals, sbdvars, SbClearing
<1>0. TypeOK /\ LocalsOK /\ TypeOK' /\ LocalsOK'
  BY DEF IInv, TypeInv
<1>1. PathHeld'
  BY <1>0 DEF IInv, PathHeld, SbEndLoop
<1>2. UsageExact'
  <2>1. \A x \in Objects : Refs(x)' = Refs(x)
    BY <1>0 DEF Refs, SbEndLoop
  <2> QED BY <1>0, <2>1 DEF IInv, UsageExact, SbEndLoop
<1>3. DeadObjects'
  BY <1>0 DEF IInv, DeadObjects, SbEndLoop
<1>4. OneReleaser'
  BY <1>0 DEF IInv, OneReleaser, SbEndLoop
<1>5. FreshPrivate'
  BY <1>0 DEF IInv, FreshPrivate, SbEndLoop
<1>6. ReaderSafe'
  BY <1>0 DEF IInv, ReaderSafe, SbEndLoop
<1>7. PointerMatched'
  BY <1>0 DEF IInv, PointerMatched, SbEndLoop
<1>8. InodeCountExact'
  <2>1. \A i \in Inodes : Iputters(i)' = Iputters(i) /\ Cardinality(Iputters(i)) \in Nat
    BY <1>0, RefsType, Finite DEF Iputters, SbEndLoop
  <2>2. \A i \in Inodes : SbPins(i)' = SbPins(i)
    BY <1>0 DEF SbPins, B, SbEndLoop
  <2>3. UNCHANGED <<i_count, inode_sec, dref>>
    BY DEF SbEndLoop
  <2> QED BY <2>1, <2>2, <2>3 DEF IInv, InodeCountExact
<1>9. FreedUnreferenced'
  BY <1>0 DEF IInv, FreedUnreferenced, SbEndLoop
<1>10. EvictOnce'
  BY <1>0 DEF IInv, EvictOnce, SbEndLoop
<1> QED BY <1>0, <1>1, <1>2, <1>3, <1>4, <1>5, <1>6, <1>7, <1>8, <1>9, <1>10 DEF IInv

\* SbPutPrev.
LEMMA StepSbPutPrev ==
    ASSUME IInv, TypeInv', SbPutPrev
    PROVE  IInv'
<1> USE ConstantsAssumption DEF TypeOK, LocalsOK, At, Goto, RcuUnlock,
        objvars, inodevars, sbvars, locals, sbdvars, SbClearing
<1>0. TypeOK /\ LocalsOK /\ TypeOK' /\ LocalsOK'
  BY DEF IInv, TypeInv
<1>a. prev \in Inodes /\ i_count[prev] >= 1 /\ istate[prev] = "active"
  BY <1>0, Counted DEF SbPutPrev
<1>1. PathHeld'
  BY <1>0 DEF IInv, PathHeld, SbPutPrev
<1>2. UsageExact'
  <2>1. \A x \in Objects : Refs(x)' = Refs(x)
    BY <1>0 DEF Refs, SbPutPrev
  <2> QED BY <1>0, <2>1 DEF IInv, UsageExact, SbPutPrev
<1>3. DeadObjects'
  BY <1>0 DEF IInv, DeadObjects, SbPutPrev
<1>4. OneReleaser'
  BY <1>0 DEF IInv, OneReleaser, SbPutPrev
<1>5. FreshPrivate'
  BY <1>0 DEF IInv, FreshPrivate, SbPutPrev
<1>6. ReaderSafe'
  BY <1>0 DEF IInv, ReaderSafe, SbPutPrev
<1>7. PointerMatched'
  BY <1>0 DEF IInv, PointerMatched, SbPutPrev
<1>8. InodeCountExact'
  <2>1. \A i \in Inodes : Iputters(i)' = Iputters(i) /\ Cardinality(Iputters(i)) \in Nat
    BY <1>0, RefsType, Finite DEF Iputters, SbPutPrev
  <2>2. PICK j \in Inodes : j = prev
    BY <1>a
  <2>3. \A i \in Inodes : SbPins(i) \in Nat
            /\ SbPins(i)' = IF i = j THEN SbPins(i) - 1 ELSE SbPins(i)
    BY <1>0, <2>2 DEF SbPins, B, SbPutPrev
  <2>4. /\ \A i \in Inodes : i_count'[i] = IF i = j THEN i_count[i] - 1 ELSE i_count[i]
        /\ inode_sec' = inode_sec /\ dref' = dref
    BY <1>0, <2>2 DEF SbPutPrev
  <2>7. SUFFICES ASSUME NEW i \in Inodes
                 PROVE  (i_count[i] = B(dref[i]) + B(inode_sec[i] # NULL)
                                      + Cardinality(Iputters(i)) + SbPins(i))'
    BY DEF InodeCountExact
  <2>8. i_count[i] = B(dref[i]) + B(inode_sec[i] # NULL)
                     + Cardinality(Iputters(i)) + SbPins(i)
    BY DEF IInv, InodeCountExact
  <2>9. CASE i = j
    BY <2>1, <2>3, <2>4, <2>8, <2>9 DEF B
  <2>10. CASE i # j
    BY <2>1, <2>3, <2>4, <2>8, <2>10
  <2> QED BY <2>9, <2>10
<1>9. FreedUnreferenced'
  BY <1>0, <1>a DEF IInv, FreedUnreferenced, SbPutPrev
<1>10. EvictOnce'
  BY <1>0, <1>a DEF IInv, EvictOnce, SbPutPrev
<1> QED BY <1>0, <1>1, <1>2, <1>3, <1>4, <1>5, <1>6, <1>7, <1>8, <1>9, <1>10 DEF IInv

\* SbEvict.
LEMMA StepSbEvict ==
    ASSUME IInv, TypeInv', SbEvict
    PROVE  IInv'
<1> USE ConstantsAssumption DEF TypeOK, LocalsOK, At, Goto, RcuUnlock,
        objvars, inodevars, sbvars, locals, sbdvars, SbClearing
<1>0. TypeOK /\ LocalsOK /\ TypeOK' /\ LocalsOK'
  BY DEF IInv, TypeInv
<1>1. PathHeld'
  BY <1>0 DEF IInv, PathHeld, SbEvict
<1>2. UsageExact'
  <2>1. \A x \in Objects : Refs(x)' = Refs(x)
    BY <1>0 DEF Refs, SbEvict
  <2> QED BY <1>0, <2>1 DEF IInv, UsageExact, SbEvict
<1>3. DeadObjects'
  BY <1>0 DEF IInv, DeadObjects, SbEvict
<1>4. OneReleaser'
  BY <1>0 DEF IInv, OneReleaser, SbEvict
<1>5. FreshPrivate'
  BY <1>0 DEF IInv, FreshPrivate, SbEvict
<1>6. ReaderSafe'
  BY <1>0 DEF IInv, ReaderSafe, SbEvict
<1>7. PointerMatched'
  BY <1>0 DEF IInv, PointerMatched, SbEvict
<1>8. InodeCountExact'
  <2>1. \A i \in Inodes : Iputters(i)' = Iputters(i) /\ Cardinality(Iputters(i)) \in Nat
    BY <1>0, RefsType, Finite DEF Iputters, SbEvict
  <2>2. \A i \in Inodes : SbPins(i)' = SbPins(i)
    BY <1>0 DEF SbPins, B, SbEvict
  <2>3. UNCHANGED <<i_count, inode_sec, dref>>
    BY DEF SbEvict
  <2> QED BY <2>1, <2>2, <2>3 DEF IInv, InodeCountExact
<1>9. FreedUnreferenced'
  BY <1>0 DEF IInv, FreedUnreferenced, EvictOnce, SbEvict
<1>10. EvictOnce'
  BY <1>0 DEF IInv, EvictOnce, SbEvict
<1> QED BY <1>0, <1>1, <1>2, <1>3, <1>4, <1>5, <1>6, <1>7, <1>8, <1>9, <1>10 DEF IInv

\* SbRelock.
LEMMA StepSbRelock ==
    ASSUME IInv, TypeInv', SbRelock
    PROVE  IInv'
<1> USE ConstantsAssumption DEF TypeOK, LocalsOK, At, Goto, RcuUnlock,
        objvars, inodevars, sbvars, locals, sbdvars, SbClearing
<1>0. TypeOK /\ LocalsOK /\ TypeOK' /\ LocalsOK'
  BY DEF IInv, TypeInv
<1>1. PathHeld'
  BY <1>0 DEF IInv, PathHeld, SbRelock
<1>2. UsageExact'
  <2>1. \A x \in Objects : Refs(x)' = Refs(x)
    BY <1>0 DEF Refs, SbRelock
  <2> QED BY <1>0, <2>1 DEF IInv, UsageExact, SbRelock
<1>3. DeadObjects'
  BY <1>0 DEF IInv, DeadObjects, SbRelock
<1>4. OneReleaser'
  BY <1>0 DEF IInv, OneReleaser, SbRelock
<1>5. FreshPrivate'
  BY <1>0 DEF IInv, FreshPrivate, SbRelock
<1>6. ReaderSafe'
  BY <1>0 DEF IInv, ReaderSafe, SbRelock
<1>7. PointerMatched'
  BY <1>0 DEF IInv, PointerMatched, SbRelock
<1>8. InodeCountExact'
  <2>1. \A i \in Inodes : Iputters(i)' = Iputters(i) /\ Cardinality(Iputters(i)) \in Nat
    BY <1>0, RefsType, Finite DEF Iputters, SbRelock
  <2>2. \A i \in Inodes : SbPins(i)' = SbPins(i)
    BY <1>0 DEF SbPins, B, SbRelock
  <2>3. UNCHANGED <<i_count, inode_sec, dref>>
    BY DEF SbRelock
  <2> QED BY <2>1, <2>2, <2>3 DEF IInv, InodeCountExact
<1>9. FreedUnreferenced'
  BY <1>0 DEF IInv, FreedUnreferenced, SbRelock
<1>10. EvictOnce'
  BY <1>0 DEF IInv, EvictOnce, SbRelock
<1> QED BY <1>0, <1>1, <1>2, <1>3, <1>4, <1>5, <1>6, <1>7, <1>8, <1>9, <1>10 DEF IInv

\* SbWait.
LEMMA StepSbWait ==
    ASSUME IInv, TypeInv', SbWait
    PROVE  IInv'
<1> USE ConstantsAssumption DEF TypeOK, LocalsOK, At, Goto, RcuUnlock,
        objvars, inodevars, sbvars, locals, sbdvars, SbClearing
<1>0. TypeOK /\ LocalsOK /\ TypeOK' /\ LocalsOK'
  BY DEF IInv, TypeInv
<1>1. PathHeld'
  BY <1>0 DEF IInv, PathHeld, SbWait
<1>2. UsageExact'
  <2>1. \A x \in Objects : Refs(x)' = Refs(x)
    BY <1>0 DEF Refs, SbWait
  <2> QED BY <1>0, <2>1 DEF IInv, UsageExact, SbWait
<1>3. DeadObjects'
  BY <1>0 DEF IInv, DeadObjects, SbWait
<1>4. OneReleaser'
  BY <1>0 DEF IInv, OneReleaser, SbWait
<1>5. FreshPrivate'
  BY <1>0 DEF IInv, FreshPrivate, SbWait
<1>6. ReaderSafe'
  BY <1>0 DEF IInv, ReaderSafe, SbWait
<1>7. PointerMatched'
  BY <1>0 DEF IInv, PointerMatched, SbWait
<1>8. InodeCountExact'
  <2>1. \A x \in Inodes : Iputters(x)' = Iputters(x)
    BY <1>0 DEF Iputters, SbWait
  <2> QED BY <1>0, <2>1 DEF IInv, InodeCountExact, SbPins, B, SbWait
<1>9. FreedUnreferenced'
  BY <1>0 DEF IInv, FreedUnreferenced, SbWait
<1>10. EvictOnce'
  BY <1>0 DEF IInv, EvictOnce, SbWait
<1> QED BY <1>0, <1>1, <1>2, <1>3, <1>4, <1>5, <1>6, <1>7, <1>8, <1>9, <1>10 DEF IInv

-----------------------------------------------------------------------------

\* The invariant holds initially.
LEMMA InvInit == Init => IInv
<1> SUFFICES ASSUME Init PROVE IInv
  OBVIOUS
<1>1. TypeOK /\ LocalsOK
  BY TypeInit DEF TypeInv
<1>2. \A o \in Objects : Refs(o) = {}
  BY ConstantsAssumption DEF Init, Refs
<1>3. \A i \in Inodes : Iputters(i) = {} /\ SbPins(i) = 0
  BY ConstantsAssumption DEF Init, Iputters, SbPins, B
<1>4. Cardinality({}) = 0
  BY FS_EmptySet
<1>5. UsageExact
  BY <1>2, <1>4 DEF Init, UsageExact
<1>6. InodeCountExact
  <2>1. \A i \in Inodes : /\ i_count[i] = 1 /\ dref[i] = TRUE
                          /\ inode_sec[i] = NULL
    BY DEF Init
  <2> QED BY <1>3, <1>4, <2>1 DEF InodeCountExact, B
<1>7. PathHeld /\ DeadObjects /\ OneReleaser /\ FreshPrivate /\ ReaderSafe
      /\ FreedUnreferenced /\ EvictOnce
  BY ConstantsAssumption DEF Init, PathHeld, DeadObjects, OneReleaser, FreshPrivate,
     ReaderSafe, FreedUnreferenced, EvictOnce
<1>8. PointerMatched
  BY ConstantsAssumption DEF Init, PointerMatched, SbClearing
<1> QED BY <1>1, <1>5, <1>6, <1>7, <1>8 DEF IInv

\* Stuttering keeps it.
LEMMA StepStutter ==
    ASSUME IInv, TypeInv', UNCHANGED vars
    PROVE  IInv'
<1> USE DEF vars, objvars, inodevars, sbvars, locals, sbdvars
<1>1. UsageExact' /\ InodeCountExact'
  BY DEF IInv, UsageExact, InodeCountExact, Refs, Iputters, SbPins, B
<1>2. PathHeld' /\ DeadObjects' /\ OneReleaser' /\ FreshPrivate' /\ ReaderSafe'
  BY DEF IInv, PathHeld, DeadObjects, OneReleaser, FreshPrivate, ReaderSafe
<1>3. PointerMatched' /\ FreedUnreferenced' /\ EvictOnce'
  BY DEF IInv, PointerMatched, SbClearing, FreedUnreferenced, EvictOnce
<1> QED BY <1>1, <1>2, <1>3 DEF IInv, TypeInv

\* Every step keeps it.
LEMMA InvStep == IInv /\ [Next]_vars => IInv'
<1> SUFFICES ASSUME IInv, [Next]_vars PROVE IInv'
  OBVIOUS
<1>0. TypeInv'
  BY TypeStep DEF IInv, TypeInv
<1>1. ASSUME NEW t \in Tasks, GetInodeObject(t) PROVE IInv'
  BY <1>0, <1>1, StepDeref, StepIncNotZero, StepWaitRelease, StepCreateObject,
     StepCreateObjectFails, StepInstall, StepInstallRaced DEF GetInodeObject
<1>2. ASSUME NEW t \in Tasks, PutObject(t) PROVE IInv'
  BY <1>0, <1>2, StepDecNotOne, StepDecAndLock, StepRelease, StepIncRefs,
     StepClearPointer, StepIput, StepEvict, StepDecRefs, StepKfreeRcu
     DEF PutObject
<1>3. ASSUME NEW t \in Tasks, TaskStep(t) PROVE IInv'
  BY <1>0, <1>1, <1>2, <1>3, StepInsertRule, StepFreeRule, StepFreeRulesetEnd
     DEF TaskStep, FreeRules
<1>4. CASE SbStep
  BY <1>0, <1>4, StepSbNext, StepSbGet, StepSbLock, StepSbClear, StepSbIput,
     StepSbPrev, StepSbEndLoop, StepSbPutPrev, StepSbEvict, StepSbRelock, StepSbWait
     DEF SbStep
<1>5. CASE Environment
  BY <1>0, <1>5, StepRcuFree, StepLookup, StepDropDentry, StepReclaim
     DEF Environment
<1>6. CASE SbDelete
  BY <1>0, <1>6, StepSbDelete
<1>7. CASE UNCHANGED vars
  BY <1>0, <1>7, StepStutter
<1>8. ASSUME NEW t \in Tasks, NEW r \in Rulesets, NEW i \in Inodes, AddRule(t, r, i)
      PROVE  IInv'
  BY <1>0, <1>8, StepAddRule
<1>9. ASSUME NEW t \in Tasks, NEW r \in Rulesets, FreeRuleset(t, r)
      PROVE  IInv'
  BY <1>0, <1>9, StepFreeRuleset
<1>10. ASSUME NEW r \in Rulesets, NEW s \in Rulesets, NEW o \in Objects,
              InheritRule(r, s, o)
       PROVE  IInv'
  BY <1>0, <1>10, StepInheritRule
<1> QED BY <1>3, <1>4, <1>5, <1>6, <1>7, <1>8, <1>9, <1>10 DEF Next

\* The inductive invariant holds in every reachable state.
THEOREM Invariance == Spec => []IInv
BY InvInit, InvStep, PTL DEF Spec

\* object->usage counts exactly the rules and the tasks that own the object.
THEOREM UsageIsExact == Spec => []UsageExact
<1>1. IInv => UsageExact
  BY DEF IInv
<1> QED BY <1>1, Invariance, PTL

\* No thread ever touches an object whose memory was freed, lockless readers
\* included.
THEOREM ObjectSafety == Spec => []NoUseAfterFree
BY TouchSafe, Invariance, PTL

\* The reference of the tie is put exactly once.
THEOREM InodeCountIsExact == Spec => []InodeCountExact
<1>1. IInv => InodeCountExact
  BY DEF IInv
<1> QED BY <1>1, Invariance, PTL

\* hook_inode_free_security() never warns.
THEOREM FreedInodesAreUntied == Spec => []FreedInodeUntied
<1>1. IInv => FreedInodeUntied
  BY Counted DEF IInv, TypeOK, FreedInodeUntied, FreedUnreferenced
<1> QED BY <1>1, Invariance, PTL

\* hook_sb_delete()'s iput() under the list lock never drops the last reference.
THEOREM SbIputIsNeverLast == Spec => []SbIputNeverLast
<1>1. IInv => SbIputNeverLast
  BY Counted DEF IInv, LocalsOK, SbIputNeverLast
<1> QED BY <1>1, Invariance, PTL

\* Both counts at once: every reference on an object and on an inode is counted.
THEOREM CountsAreExact == Spec => []CountsExact
<1>1. UsageExact /\ InodeCountExact => CountsExact
  BY DEF CountsExact
<1> QED BY <1>1, UsageIsExact, InodeCountIsExact, PTL

\* No use after free and no last iput() with a lock held, whatever the tasks and
\* the unmount do.
THEOREM MemoryIsSafe == Spec => []MemorySafe
<1>1. NoUseAfterFree /\ FreedInodeUntied /\ SbIputNeverLast => MemorySafe
  BY DEF MemorySafe
<1> QED BY <1>1, ObjectSafety, FreedInodesAreUntied, SbIputIsNeverLast, PTL

-----------------------------------------------------------------------------
(* What a step does to a pointer and to a count.                           *)

\* Two inodes are never tied to one object.
PointersDiffer ==
    \A i, j \in Inodes : inode_sec[i] # NULL /\ inode_sec[i] = inode_sec[j] => i = j

\* Who writes the pointer of an inode.
LEMMA SecStep ==
    ASSUME TypeInv, [Next]_vars
    PROVE  \/ UNCHANGED inode_sec
           \/ \E t \in Tasks : Install(t) \/ ClearPointer(t)
           \/ SbClear
           \/ \E i \in Inodes : Lookup(i)
<1> USE DEF objvars, inodevars, sbvars, locals, sbdvars
<1>1. ASSUME NEW t \in Tasks, TaskStep(t)
      PROVE  UNCHANGED inode_sec \/ Install(t) \/ ClearPointer(t)
  <2>1. CASE GetInodeObject(t)
    BY <2>1 DEF GetInodeObject, Deref, IncNotZero, WaitRelease, CreateObject,
                CreateObjectFails, InstallRaced
  <2>2. CASE PutObject(t)
    BY <2>2 DEF PutObject, DecNotOne, DecAndLock, Release, IncRefs, Iput, Evict,
                DecRefs, KfreeRcu
  <2>3. CASE InsertRule(t) \/ FreeRules(t)
    BY <2>3 DEF InsertRule, FreeRules, FreeRule, FreeRulesetEnd
  <2> QED BY <1>1, <2>1, <2>2, <2>3 DEF TaskStep
<1>2. CASE SbDelete \/ SbStep
  BY <1>2 DEF SbDelete, SbStep, SbNext, SbGet, SbLock, SbIput, SbPrev, SbEndLoop,
              SbPutPrev, SbEvict, SbRelock, SbWait
<1>3. CASE Environment
  BY <1>3 DEF Environment, RcuFree, DropDentry, Reclaim
<1>4. ASSUME NEW t \in Tasks, NEW r \in Rulesets,
             (\E i \in Inodes : AddRule(t, r, i)) \/ FreeRuleset(t, r)
      PROVE  UNCHANGED inode_sec
  BY <1>4 DEF AddRule, FreeRuleset
<1>5. ASSUME NEW r \in Rulesets, NEW s \in Rulesets, NEW o \in Objects, InheritRule(r, s, o)
      PROVE  UNCHANGED inode_sec
  BY <1>5 DEF InheritRule
<1>6. CASE UNCHANGED vars
  BY <1>6 DEF vars
<1> QED BY <1>1, <1>2, <1>3, <1>4, <1>5, <1>6 DEF Next

\* What it becomes.
LEMMA SecBecomes ==
    ASSUME IInv, PointersDiffer, [Next]_vars, NEW i \in Inodes, inode_sec'[i] # inode_sec[i]
    PROVE  \/ inode_sec'[i] = NULL
           \/ /\ inode_sec[i] = NULL /\ inode_sec'[i] \in Objects
              /\ \A j \in Inodes : j # i => inode_sec'[j] = inode_sec[j]
              /\ \A j \in Inodes : inode_sec[j] # inode_sec'[i]
<1>0. TypeInv
  BY DEF IInv, TypeInv
<1>1. ASSUME NEW t \in Tasks, Install(t)
      PROVE  /\ inode_sec[i] = NULL /\ inode_sec'[i] \in Objects
             /\ \A j \in Inodes : j # i => inode_sec'[j] = inode_sec[j]
             /\ \A j \in Inodes : inode_sec[j] # inode_sec'[i]
  <2>1. /\ pc[t] = "install" /\ inode_sec[ti[t]] = NULL
        /\ inode_sec' = [inode_sec EXCEPT ![ti[t]] = to[t]]
    BY <1>1 DEF Install, At
  <2>2. to[t] \in Objects /\ \A j \in Inodes : inode_sec[j] # to[t]
    BY <1>0, <2>1 DEF IInv, FreshPrivate, TypeInv, LocalsOK
  <2> QED BY <1>0, <2>1, <2>2 DEF TypeInv, TypeOK
<1>2. ASSUME NEW t \in Tasks, ClearPointer(t) PROVE inode_sec'[i] = NULL
  BY <1>0, <1>2 DEF ClearPointer, TypeInv, TypeOK
<1>3. CASE SbClear
  BY <1>0, <1>3 DEF SbClear, TypeInv, TypeOK
<1>4. ASSUME NEW j \in Inodes, Lookup(j) PROVE inode_sec'[i] = NULL
  BY <1>0, <1>4 DEF Lookup, TypeInv, TypeOK
<1> QED BY <1>0, <1>1, <1>2, <1>3, <1>4, SecStep

LEMMA DifferStep ==
    ASSUME IInv, PointersDiffer, [Next]_vars
    PROVE  PointersDiffer'
<1> SUFFICES ASSUME NEW i \in Inodes, NEW j \in Inodes, inode_sec'[i] # NULL,
                    inode_sec'[i] = inode_sec'[j], i # j
             PROVE  FALSE
  BY DEF PointersDiffer
<1>1. CASE inode_sec'[i] = inode_sec[i] /\ inode_sec'[j] = inode_sec[j]
  BY <1>1 DEF PointersDiffer
<1>2. CASE inode_sec'[i] # inode_sec[i]
  BY <1>2, SecBecomes
<1>3. CASE inode_sec'[j] # inode_sec[j]
  BY <1>3, SecBecomes
<1> QED BY <1>1, <1>2, <1>3

\* A pointer is reset by whoever took the inode over.
LEMMA UntiedStep ==
    ASSUME IInv, PointersDiffer, [Next]_vars
    PROVE  UntiedByOwner
<1> SUFFICES ASSUME NEW i \in Inodes, inode_sec[i] # NULL, inode_sec'[i] # inode_sec[i]
             PROVE  inode_sec'[i] = NULL /\ underobj[inode_sec[i]] = NULL
  BY DEF UntiedByOwner
<1>0. TypeInv
  BY DEF IInv, TypeInv
<1>1. inode_sec'[i] = NULL
  BY SecBecomes
<1>2. ASSUME NEW t \in Tasks, Install(t) PROVE FALSE
  BY <1>0, <1>2 DEF Install, TypeInv, TypeOK
<1>3. ASSUME NEW t \in Tasks, ClearPointer(t) PROVE underobj[inode_sec[i]] = NULL
  <2>1. pc[t] = "clear" /\ ti[t] = i
    BY <1>0, <1>3 DEF ClearPointer, At, TypeInv, TypeOK
  <2> QED BY <2>1 DEF IInv, PointerMatched, OneReleaser
<1>4. ASSUME SbClear PROVE underobj[inode_sec[i]] = NULL
  <2>1. pc[Umount] = "sb_clear" /\ ti[Umount] = i
    BY <1>0, <1>4 DEF SbClear, At, TypeInv, TypeOK
  <2>2. SUFFICES ASSUME underobj[inode_sec[i]] # NULL PROVE FALSE
    OBVIOUS
  <2>3. inode_sec[i] \in Objects
    BY <1>0 DEF TypeInv, TypeOK
  <2>4. ~ \E t \in Tasks : pc[t] = "install" /\ to[t] = inode_sec[i]
    BY DEF IInv, FreshPrivate
  <2>5. PICK j \in Inodes : j = underobj[inode_sec[i]]
    BY <1>0, <2>2, <2>3 DEF TypeInv, TypeOK
  <2>6. inode_sec[j] = inode_sec[i] /\ ~SbClearing(j)
    BY <2>2, <2>3, <2>4, <2>5 DEF IInv, PointerMatched
  <2> QED BY <2>1, <2>6 DEF PointersDiffer, SbClearing
<1>5. ASSUME NEW j \in Inodes, Lookup(j) PROVE FALSE
  <2>1. j = i /\ istate[i] = "freed"
    BY <1>0, <1>5 DEF Lookup, TypeInv, TypeOK
  <2> QED BY <2>1, Counted
<1> QED BY <1>0, <1>1, <1>2, <1>3, <1>4, <1>5, SecStep

\* Who writes the count of an object.
LEMMA UsageStep ==
    ASSUME IInv, [Next]_vars
    PROVE  NeverRevived
<1> SUFFICES ASSUME NEW o \in Objects, usage[o] = 0, usage'[o] # 0 PROVE ostate[o] = "free"
  BY DEF NeverRevived
<1> USE DEF objvars, inodevars, sbvars, locals, sbdvars
<1>0. TypeInv
  BY DEF IInv, TypeInv
<1>1. ASSUME NEW t \in Tasks, TaskStep(t) PROVE ostate[o] = "free"
  <2>0. pc[t] \in Owning => usage[to[t]] >= 1 /\ to[t] \in Objects
    BY <1>0, OwnerLive DEF TypeInv, LocalsOK
  <2>1. CASE \E x \in Objects : CreateObject(t, x)
    BY <1>0, <2>1 DEF CreateObject, TypeInv, TypeOK
  <2>2. CASE InstallRaced(t)
    BY <1>0, <2>2 DEF InstallRaced, TypeInv, TypeOK
  <2>3. CASE IncNotZero(t)
    BY <1>0, <2>3 DEF IncNotZero, TypeInv, TypeOK
  <2>4. CASE InsertRule(t)
    BY <1>0, <2>0, <2>4 DEF InsertRule, At, TypeInv, TypeOK
  <2>5. CASE DecNotOne(t)
    BY <1>0, <2>0, <2>5 DEF DecNotOne, At, TypeInv, TypeOK
  <2>6. CASE DecAndLock(t)
    BY <1>0, <2>0, <2>6 DEF DecAndLock, At, TypeInv, TypeOK
  <2>7. CASE Deref(t) \/ WaitRelease(t) \/ CreateObjectFails(t) \/ Install(t)
    BY <2>7 DEF Deref, WaitRelease, CreateObjectFails, Install
  <2>8. CASE Release(t) \/ IncRefs(t) \/ ClearPointer(t) \/ Iput(t) \/ Evict(t)
             \/ DecRefs(t) \/ KfreeRcu(t)
    BY <2>8 DEF Release, IncRefs, ClearPointer, Iput, Evict, DecRefs, KfreeRcu
  <2>9. CASE FreeRules(t)
    BY <2>9 DEF FreeRules, FreeRule, FreeRulesetEnd
  <2> QED BY <1>1, <2>1, <2>2, <2>3, <2>4, <2>5, <2>6, <2>7, <2>8, <2>9
          DEF TaskStep, GetInodeObject, PutObject
<1>2. CASE SbDelete \/ SbStep
  BY <1>2 DEF SbDelete, SbStep, SbNext, SbGet, SbLock, SbClear, SbIput, SbPrev, SbEndLoop,
              SbPutPrev, SbEvict, SbRelock, SbWait
<1>3. CASE Environment
  BY <1>3 DEF Environment, RcuFree, Lookup, DropDentry, Reclaim
<1>4. ASSUME NEW t \in Tasks, NEW r \in Rulesets,
             (\E i \in Inodes : AddRule(t, r, i)) \/ FreeRuleset(t, r)
      PROVE  FALSE
  BY <1>4 DEF AddRule, FreeRuleset
<1>5. ASSUME NEW r \in Rulesets, NEW s \in Rulesets, NEW x \in Objects, InheritRule(r, s, x)
      PROVE  FALSE
  <2>1. usage[x] >= 1
    BY <1>5, OwnerLive DEF InheritRule
  <2> QED BY <1>0, <1>5, <2>1 DEF InheritRule, TypeInv, TypeOK
<1>6. CASE UNCHANGED vars
  BY <1>6 DEF vars
<1> QED BY <1>1, <1>2, <1>3, <1>4, <1>5, <1>6 DEF Next

LEMMA DifferInit == Init => PointersDiffer
BY DEF Init, PointersDiffer

\* No step re-ties an inode that is tied, unties one without owning it, or
\* revives an object (get_inode_object(), release_inode(), hook_sb_delete(),
\* landlock_put_object()).
THEOREM WritesDisciplined == Spec => MemoryDiscipline
<1>1. IInv /\ PointersDiffer /\ [Next]_vars => PointersDiffer'
  BY DifferStep
<1>2. IInv /\ PointersDiffer /\ [Next]_vars => [UntiedByOwner /\ NeverRevived]_vars
  BY UntiedStep, UsageStep
<1> QED BY <1>1, <1>2, DifferInit, Invariance, PTL DEF Spec, MemoryDiscipline

-----------------------------------------------------------------------------
(* The invariant of the unmount.                                           *)

\* hook_sb_delete() has the list lock while it walks, and whoever takes an
\* inode over has the object's lock.
Walking == {"sb_loop", "sb_inode", "sb_lock", "sb_clear", "sb_iput", "sb_prev"}
LocksHeld ==
    /\ \A t \in Tasks : pc[t] \in {"release", "inc_refs"} => olock[to[t]] = t
    /\ pc[Umount] \in Walking => list_lock = Umount

\* What the walk looks at does not change under it but by being untied.
WalkSound ==
    /\ pc[Umount] = "sb_inode" => istate[ti[Umount]] # "freed"
    /\ pc[Umount] = "sb_lock" => inode_sec[ti[Umount]] \in {to[Umount], NULL}

\* No object leads to an inode that the walk is done with, and nobody is about
\* to announce that he took it over.
Untied(i) == /\ \A o \in Objects : underobj[o] # i
             /\ \A t \in Tasks : pc[t] = "inc_refs" => ti[t] # i
Visiting(i) == i \in todo \/ (pc[Umount] \in {"sb_inode", "sb_lock"} /\ ti[Umount] = i)
VisitedUntied ==
    pc[Umount] # "idle" => \A i \in Inodes : Visiting(i) \/ Untied(i)

\* inode_refs counts those who took an inode over and are not done with it.
Announced == {"clear", "iput", "evict", "dec_refs"}
Announcers == {t \in Tasks : pc[t] \in Announced}
RefsCounted == inode_refs = Cardinality(Announcers)

\* Every inode that is being freed has a thread that frees it; once the
\* unmount began every other one has a reference that is not a path's.
EvictSoon ==
    /\ \A i \in Inodes : istate[i] = "freeing" =>
         \/ \E t \in Tasks : pc[t] = "evict" /\ ti[t] = i
         \/ pc[Umount] = "sb_evict" /\ prev = i
    /\ ~mounted => \A i \in Inodes : ~dref[i] /\ (istate[i] = "active" => i_count[i] >= 1)

\* The walk left out freed inodes only, keeps none, and is waited for.
WalkEnded ==
    \/ pc[Umount] \in {"sb_wait", "done"}
    \/ pc[Umount] \in {"sb_put_prev", "sb_evict", "sb_relock"} /\ ti[Umount] = NULL
EndOK ==
    /\ WalkEnded => \A i \in todo : istate[i] = "freed"
    /\ pc[Umount] \in {"sb_wait", "done"} => prev = NULL
    /\ pc[Umount] = "done" => inode_refs = 0 /\ \A i \in Inodes : istate[i] = "freed"

UInv ==
    /\ LocksHeld
    /\ WalkSound
    /\ VisitedUntied
    /\ RefsCounted
    /\ EvictSoon
    /\ EndOK

Inv == IInv /\ UInv

\* What the invariant of the objects says of one thread and one inode.
LEMMA Facts ==
    ASSUME IInv
    PROVE  /\ TypeOK /\ LocalsOK
           /\ mounted <=> pc[Umount] = "idle"
           /\ \A t \in Tasks : pc[t] \in Getting => mounted
           /\ \A t \in Tasks : pc[t] \in Touching => to[t] \in Objects
           /\ \A t \in Tasks : pc[t] \in Getting \cup {"inc_refs", "clear", "iput", "evict", "dec_refs"}
                 => ti[t] \in Inodes
           /\ Umount \notin Tasks /\ \A t \in Tasks : t # NULL
           /\ NULL \notin Inodes /\ NULL \notin Objects
BY ConstantsAssumption DEF IInv, LocalsOK, PathHeld

\* An inode that is not tied once the unmount began stays alone.
LEMMA UntiedWhen ==
    ASSUME IInv, ~mounted, NEW i \in Inodes, inode_sec[i] = NULL
    PROVE  Untied(i)
<1>1. ASSUME NEW o \in Objects, underobj[o] = i PROVE FALSE
  <2>1. underobj[o] # NULL
    BY <1>1, Facts
  <2>2. ~ \E t \in Tasks : pc[t] = "install" /\ to[t] = o
    BY Facts
  <2>3. inode_sec[i] = o
    BY <1>1, <2>1, <2>2 DEF IInv, PointerMatched
  <2> QED BY <2>3, Facts
<1>2. ASSUME NEW t \in Tasks, pc[t] = "inc_refs", ti[t] = i PROVE FALSE
  <2>1. inode_sec[i] = to[t] /\ to[t] \in Objects
    BY <1>2, Facts DEF IInv, PointerMatched
  <2> QED BY <2>1, Facts
<1> QED BY <1>1, <1>2 DEF Untied

LEMMA FreedUntiedWhen ==
    ASSUME IInv, ~mounted, NEW i \in Inodes, istate[i] # "active"
    PROVE  Untied(i)
<1>1. inode_sec[i] = NULL
  BY Counted
<1> QED BY <1>1, UntiedWhen

\* A step of a task that neither takes an inode over nor works on one.
LEMMA TaskFrame ==
    ASSUME Inv, TypeInv', NEW t \in Tasks,
           \A u \in Threads : u # t => pc'[u] = pc[u] /\ to'[u] = to[u] /\ ti'[u] = ti[u],
           UNCHANGED <<olock, istate, dref, inode_refs, list_lock, mounted, prev, todo>>,
           mounted \/ UNCHANGED <<underobj, i_count, inode_sec>>,
           pc[t] \notin {"release", "inc_refs"} \cup Announced,
           pc'[t] \notin {"release", "inc_refs"} \cup Announced
    PROVE  UInv'
<1>0. /\ pc'[Umount] = pc[Umount] /\ to'[Umount] = to[Umount] /\ ti'[Umount] = ti[Umount]
      /\ mounted <=> pc[Umount] = "idle"
      /\ \A u \in Tasks : u # t => pc'[u] = pc[u] /\ to'[u] = to[u] /\ ti'[u] = ti[u]
  BY Facts DEF Inv
<1>1. LocksHeld'
  BY <1>0 DEF Inv, UInv, LocksHeld
<1>2. WalkSound'
  BY <1>0 DEF Inv, UInv, WalkSound
<1>3. VisitedUntied'
  BY <1>0 DEF Inv, UInv, VisitedUntied, Visiting, Untied
<1>4. RefsCounted'
  <2>1. Announcers' = Announcers
    BY <1>0 DEF Announcers
  <2> QED BY <2>1 DEF Inv, UInv, RefsCounted
<1>5. EvictSoon'
  <2>1. \A i \in Inodes : (\E u \in Tasks : pc[u] = "evict" /\ ti[u] = i) =>
                          (\E u \in Tasks : pc'[u] = "evict" /\ ti'[u] = i)
    BY <1>0 DEF Announced
  <2> QED BY <1>0, <2>1 DEF Inv, UInv, EvictSoon
<1>6. EndOK'
  BY <1>0 DEF Inv, UInv, EndOK, WalkEnded
<1> QED BY <1>1, <1>2, <1>3, <1>4, <1>5, <1>6 DEF UInv

\* A step that nobody in the protocol notices.
LEMMA QuietFrame ==
    ASSUME Inv, UNCHANGED <<pc, to, ti, olock, underobj, i_count, inode_sec, istate, dref,
                            inode_refs, list_lock, mounted, prev, todo>>
    PROVE  UInv'
<1>1. LocksHeld' /\ WalkSound' /\ VisitedUntied'
  BY DEF Inv, UInv, LocksHeld, WalkSound, VisitedUntied, Visiting, Untied
<1>2. RefsCounted' /\ EvictSoon' /\ EndOK'
  BY DEF Inv, UInv, RefsCounted, Announcers, EvictSoon, EndOK, WalkEnded
<1> QED BY <1>1, <1>2 DEF UInv

\* get_inode_object() runs while the filesystem is mounted; the other steps
\* of a task up to the last put leave the protocol alone.
LEMMA UGet ==
    ASSUME Inv, TypeInv', NEW t \in Tasks, GetInodeObject(t)
    PROVE  UInv'
<1> USE DEF objvars, inodevars, sbvars, locals, sbdvars, At, Goto, RcuUnlock, Announced
<1>0. IInv /\ pc \in [Threads -> TaskPC \cup SbPC] /\ t \in Threads
      /\ ti \in [Threads -> Inodes \cup {NULL}] /\ to \in [Threads -> Objects \cup {NULL}]
  BY DEF Inv, IInv, TypeOK
<1>1. CASE Deref(t)
  BY <1>0, <1>1, TaskFrame DEF Deref
<1>2. CASE IncNotZero(t)
  BY <1>0, <1>2, TaskFrame DEF IncNotZero
<1>3. CASE WaitRelease(t)
  BY <1>0, <1>3, TaskFrame DEF WaitRelease
<1>4. CASE \E o \in Objects : CreateObject(t, o)
  BY <1>0, <1>4, TaskFrame, Facts DEF CreateObject
<1>5. CASE CreateObjectFails(t)
  BY <1>0, <1>5, TaskFrame DEF CreateObjectFails
<1>6. CASE Install(t)
  BY <1>0, <1>6, TaskFrame, Facts DEF Install
<1>7. CASE InstallRaced(t)
  BY <1>0, <1>7, TaskFrame, Facts DEF InstallRaced
<1> QED BY <1>1, <1>2, <1>3, <1>4, <1>5, <1>6, <1>7 DEF GetInodeObject

LEMMA UTask ==
    ASSUME Inv, TypeInv', NEW t \in Tasks,
           \/ InsertRule(t) \/ DecNotOne(t) \/ KfreeRcu(t) \/ FreeRules(t)
           \/ \E r \in Rulesets : (\E i \in Inodes : AddRule(t, r, i)) \/ FreeRuleset(t, r)
    PROVE  UInv'
<1> USE DEF objvars, inodevars, sbvars, locals, sbdvars, At, Goto, RcuUnlock, Announced, AfterPut
<1>0. IInv /\ pc \in [Threads -> TaskPC \cup SbPC] /\ t \in Threads
      /\ ti \in [Threads -> Inodes \cup {NULL}] /\ to \in [Threads -> Objects \cup {NULL}]
  BY DEF Inv, IInv, TypeOK
<1>1. CASE InsertRule(t)
  BY <1>0, <1>1, TaskFrame DEF InsertRule
<1>2. CASE DecNotOne(t)
  BY <1>0, <1>2, TaskFrame DEF DecNotOne
<1>3. CASE KfreeRcu(t)
  BY <1>0, <1>3, TaskFrame DEF KfreeRcu
<1>4. CASE \E o \in Objects : FreeRule(t, o)
  BY <1>0, <1>4, TaskFrame DEF FreeRule
<1>5. CASE FreeRulesetEnd(t)
  BY <1>0, <1>5, TaskFrame DEF FreeRulesetEnd
<1>6. CASE \E r \in Rulesets, i \in Inodes : AddRule(t, r, i)
  BY <1>0, <1>6, TaskFrame DEF AddRule
<1>7. CASE \E r \in Rulesets : FreeRuleset(t, r)
  BY <1>0, <1>7, TaskFrame DEF FreeRuleset
<1> QED BY <1>1, <1>2, <1>3, <1>4, <1>5, <1>6, <1>7 DEF FreeRules

\* A step of a task that does not take part in the counting.
LEMMA TaskKeeps ==
    ASSUME Inv, NEW t \in Tasks,
           \A u \in Threads : u # t => pc'[u] = pc[u] /\ to'[u] = to[u] /\ ti'[u] = ti[u],
           UNCHANGED <<istate, dref, i_count, inode_sec, inode_refs, list_lock, mounted,
                       prev, todo>>,
           pc[t] \notin Announced, pc'[t] \notin Announced, LocksHeld', VisitedUntied'
    PROVE  UInv'
<1>0. /\ pc'[Umount] = pc[Umount] /\ to'[Umount] = to[Umount] /\ ti'[Umount] = ti[Umount]
      /\ \A u \in Tasks : u # t => pc'[u] = pc[u] /\ to'[u] = to[u] /\ ti'[u] = ti[u]
  BY Facts DEF Inv
<1>1. WalkSound'
  BY <1>0 DEF Inv, UInv, WalkSound
<1>2. RefsCounted'
  <2>1. Announcers' = Announcers
    BY <1>0 DEF Announcers
  <2> QED BY <2>1 DEF Inv, UInv, RefsCounted
<1>3. EvictSoon'
  <2>1. \A i \in Inodes : (\E u \in Tasks : pc[u] = "evict" /\ ti[u] = i) =>
                          (\E u \in Tasks : pc'[u] = "evict" /\ ti'[u] = i)
    BY <1>0 DEF Announced
  <2> QED BY <1>0, <2>1 DEF Inv, UInv, EvictSoon
<1>4. EndOK'
  BY <1>0 DEF Inv, UInv, EndOK, WalkEnded
<1> QED BY <1>1, <1>2, <1>3, <1>4 DEF UInv

\* refcount_dec_and_lock() takes the lock for the one who releases.
LEMMA UDecAndLock ==
    ASSUME Inv, TypeInv', NEW t \in Tasks, DecAndLock(t)
    PROVE  UInv'
<1> USE DEF objvars, inodevars, sbvars, locals, sbdvars, At, Goto, AfterPut
<1>0. /\ IInv /\ pc \in [Threads -> TaskPC \cup SbPC] /\ t \in Threads /\ LocksHeld /\ VisitedUntied
      /\ ti \in [Threads -> Inodes \cup {NULL}] /\ to \in [Threads -> Objects \cup {NULL}]
      /\ olock \in [Objects -> Tasks \cup {NULL}]
      /\ pc[t] = "dec_lock" /\ to[t] \in Objects
      /\ Umount \notin Tasks /\ \A u \in Tasks : u # NULL
  BY Facts DEF Inv, UInv, IInv, TypeOK, LocalsOK, DecAndLock
<1>1. CASE olock' = [olock EXCEPT ![to[t]] = t] /\ Goto(t, "release") /\ UNCHANGED locals
  <2>1. LocksHeld'
    BY <1>0, <1>1 DEF DecAndLock, LocksHeld
  <2>2. VisitedUntied'
    BY <1>0, <1>1 DEF DecAndLock, VisitedUntied, Visiting, Untied
  <2> QED BY <1>0, <1>1, <2>1, <2>2, TaskKeeps DEF DecAndLock, Announced
<1>2. CASE AfterPut(t) /\ UNCHANGED olock
  BY <1>0, <1>2, TaskFrame DEF DecAndLock, Announced
<1> QED BY <1>1, <1>2 DEF DecAndLock

\* release_inode() takes the inode over from the object, or finds none.
LEMMA URelease ==
    ASSUME Inv, TypeInv', NEW t \in Tasks, Release(t)
    PROVE  UInv'
<1> USE DEF objvars, inodevars, sbvars, locals, sbdvars, At, Goto
<1>0. /\ IInv /\ pc \in [Threads -> TaskPC \cup SbPC] /\ t \in Threads /\ LocksHeld /\ VisitedUntied
      /\ ti \in [Threads -> Inodes \cup {NULL}] /\ to \in [Threads -> Objects \cup {NULL}]
      /\ olock \in [Objects -> Tasks \cup {NULL}]
      /\ underobj \in [Objects -> Inodes \cup {NULL}]
      /\ pc[t] = "release" /\ to[t] \in Objects
      /\ Umount \notin Tasks /\ NULL \notin Inodes
  BY Facts DEF Inv, UInv, IInv, TypeOK, LocalsOK, Release
<1>1. /\ \A u \in Threads : u # t => pc'[u] = pc[u] /\ to'[u] = to[u] /\ ti'[u] = ti[u]
      /\ pc'[t] \in {"kfree_rcu", "inc_refs"} /\ to' = to
      /\ pc'[t] = "inc_refs" => ti'[t] = underobj[to[t]] /\ olock' = olock
      /\ pc'[t] = "kfree_rcu" => olock' = [olock EXCEPT ![to[t]] = NULL]
      /\ \A o \in Objects : underobj'[o] \in {underobj[o], NULL}
      /\ UNCHANGED <<istate, dref, i_count, inode_sec, inode_refs, list_lock, mounted,
                     prev, todo>>
  BY <1>0 DEF Release
<1>2. LocksHeld'
  <2>1. ASSUME NEW u \in Tasks, pc'[u] \in {"release", "inc_refs"} PROVE olock'[to[u]] = u
    <3>1. CASE u = t
      BY <1>0, <1>1, <2>1, <3>1 DEF LocksHeld
    <3>2. CASE u # t
      <4>1. pc[u] \in {"release", "inc_refs"} /\ u \in Threads
        BY <1>1, <2>1, <3>2
      <4>2. olock[to[u]] = u /\ olock[to[t]] = t /\ to[u] \in Objects
        BY <1>0, <4>1, Facts DEF LocksHeld
      <4> QED BY <1>0, <1>1, <3>2, <4>2
    <3> QED BY <3>1, <3>2
  <2>2. pc'[Umount] = pc[Umount] /\ list_lock' = list_lock
    BY <1>0, <1>1
  <2> QED BY <1>0, <1>1, <2>1, <2>2 DEF LocksHeld
<1>3. VisitedUntied'
  <2> SUFFICES ASSUME pc'[Umount] # "idle", NEW i \in Inodes, ~Visiting(i)' PROVE Untied(i)'
    BY DEF VisitedUntied
  <2>1. Untied(i)
    BY <1>0, <1>1 DEF VisitedUntied, Visiting
  <2> QED BY <1>0, <1>1, <2>1 DEF Untied
<1> QED BY <1>0, <1>1, <1>2, <1>3, TaskKeeps DEF Announced

\* Nobody takes an inode over once all are freed.
LEMMA NoneLeft ==
    ASSUME Inv, NEW t \in Tasks, pc[t] = "inc_refs"
    PROVE  pc[Umount] # "done"
<1>1. ti[t] \in Inodes /\ inode_sec[ti[t]] = to[t] /\ to[t] # NULL
  BY Facts DEF Inv, IInv, PointerMatched
<1>2. istate[ti[t]] = "active"
  BY <1>1, Counted DEF Inv
<1> QED BY <1>1, <1>2 DEF Inv, UInv, EndOK

\* The steps that count and uncount a task in inode_refs.
LEMMA UIncRefs ==
    ASSUME Inv, TypeInv', NEW t \in Tasks, IncRefs(t)
    PROVE  UInv'
<1> USE DEF objvars, inodevars, sbvars, locals, sbdvars, At, Goto
<1>0. /\ IInv /\ pc \in [Threads -> TaskPC \cup SbPC] /\ t \in Threads /\ UInv
      /\ olock \in [Objects -> Tasks \cup {NULL}]
      /\ pc[t] = "inc_refs" /\ to[t] \in Objects
      /\ Umount \notin Tasks
  BY Facts DEF Inv, IInv, TypeOK, LocalsOK, IncRefs
<1>1. /\ \A u \in Threads : u # t => pc'[u] = pc[u]
      /\ pc'[t] = "clear" /\ pc'[Umount] = pc[Umount] /\ inode_refs' = inode_refs + 1
      /\ olock' = [olock EXCEPT ![to[t]] = NULL]
      /\ UNCHANGED <<to, ti, underobj, istate, dref, i_count, inode_sec, list_lock, mounted,
                     prev, todo>>
  BY <1>0 DEF IncRefs
<1>2. LocksHeld'
  BY <1>0, <1>1 DEF UInv, LocksHeld
<1>3. WalkSound'
  BY <1>0, <1>1 DEF UInv, WalkSound
<1>4. VisitedUntied'
  BY <1>0, <1>1 DEF UInv, VisitedUntied, Visiting, Untied
<1>5. RefsCounted'
  <2>1. Announcers' = Announcers \cup {t} /\ t \notin Announcers
    BY <1>0, <1>1 DEF Announcers, Announced
  <2>2. Announcers \in SUBSET (Tasks \cup Rulesets)
    BY DEF Announcers
  <2>3. Cardinality(Announcers \cup {t}) = Cardinality(Announcers) + 1
    BY <2>1, <2>2, Finite
  <2> QED BY <1>0, <1>1, <2>1, <2>3 DEF UInv, RefsCounted
<1>6. EvictSoon'
  <2>1. \A i \in Inodes : (\E u \in Tasks : pc[u] = "evict" /\ ti[u] = i) =>
                          (\E u \in Tasks : pc'[u] = "evict" /\ ti'[u] = i)
    BY <1>0, <1>1
  <2> QED BY <1>0, <1>1, <2>1 DEF UInv, EvictSoon
<1>7. EndOK'
  <2>1. pc[Umount] # "done"
    BY <1>0, NoneLeft
  <2> QED BY <1>0, <1>1, <2>1 DEF UInv, EndOK, WalkEnded
<1> QED BY <1>2, <1>3, <1>4, <1>5, <1>6, <1>7 DEF UInv

LEMMA UDecRefs ==
    ASSUME Inv, TypeInv', NEW t \in Tasks, DecRefs(t)
    PROVE  UInv'
<1> USE DEF objvars, inodevars, sbvars, locals, sbdvars, At, Goto
<1>0. /\ IInv /\ pc \in [Threads -> TaskPC \cup SbPC] /\ t \in Threads /\ UInv
      /\ pc[t] = "dec_refs" /\ Umount \notin Tasks
  BY Facts DEF Inv, IInv, TypeOK, DecRefs
<1>1. /\ \A u \in Threads : u # t => pc'[u] = pc[u]
      /\ pc'[t] = "kfree_rcu" /\ pc'[Umount] = pc[Umount] /\ inode_refs' = inode_refs - 1
      /\ UNCHANGED <<olock, to, ti, underobj, istate, dref, i_count, inode_sec, list_lock,
                     mounted, prev, todo>>
  BY <1>0 DEF DecRefs
<1>2. LocksHeld' /\ WalkSound'
  BY <1>0, <1>1 DEF UInv, LocksHeld, WalkSound
<1>4. VisitedUntied'
  BY <1>0, <1>1 DEF UInv, VisitedUntied, Visiting, Untied
<1>5. RefsCounted' /\ inode_refs # 0
  <2>1. Announcers' = Announcers \ {t} /\ t \in Announcers
    BY <1>0, <1>1 DEF Announcers, Announced
  <2>2. Announcers \in SUBSET (Tasks \cup Rulesets)
    BY DEF Announcers
  <2>3. /\ Cardinality(Announcers \ {t}) = Cardinality(Announcers) - 1
        /\ Cardinality(Announcers) >= 1
    BY <2>1, <2>2, Finite
  <2> QED BY <1>0, <1>1, <2>1, <2>3 DEF UInv, RefsCounted
<1>6. EvictSoon'
  <2>1. \A i \in Inodes : (\E u \in Tasks : pc[u] = "evict" /\ ti[u] = i) =>
                          (\E u \in Tasks : pc'[u] = "evict" /\ ti'[u] = i)
    BY <1>0, <1>1
  <2> QED BY <1>0, <1>1, <2>1 DEF UInv, EvictSoon
<1>7. EndOK'
  BY <1>0, <1>1, <1>5 DEF UInv, EndOK, WalkEnded
<1> QED BY <1>2, <1>4, <1>5, <1>6, <1>7 DEF UInv

\* The pointer is reset.
LEMMA UClearPointer ==
    ASSUME Inv, TypeInv', NEW t \in Tasks, ClearPointer(t)
    PROVE  UInv'
<1> USE DEF objvars, inodevars, sbvars, locals, sbdvars, At, Goto
<1>0. /\ IInv /\ pc \in [Threads -> TaskPC \cup SbPC] /\ t \in Threads /\ UInv
      /\ inode_sec \in [Inodes -> Objects \cup {NULL}]
      /\ pc[t] = "clear" /\ Umount \notin Tasks
      /\ pc[Umount] = "sb_lock" => ti[Umount] \in Inodes
  BY Facts DEF Inv, IInv, TypeOK, LocalsOK, ClearPointer
<1>1. /\ \A u \in Threads : u # t => pc'[u] = pc[u]
      /\ pc'[t] = "iput" /\ pc'[Umount] = pc[Umount]
      /\ \A i \in Inodes : inode_sec'[i] \in {inode_sec[i], NULL}
      /\ UNCHANGED <<olock, to, ti, underobj, istate, dref, i_count, inode_refs, list_lock,
                     mounted, prev, todo>>
  BY <1>0 DEF ClearPointer
<1>2. LocksHeld' /\ WalkSound'
  BY <1>0, <1>1 DEF UInv, LocksHeld, WalkSound
<1>4. VisitedUntied'
  BY <1>0, <1>1 DEF UInv, VisitedUntied, Visiting, Untied
<1>5. RefsCounted'
  <2>1. Announcers' = Announcers
    BY <1>0, <1>1 DEF Announcers, Announced
  <2> QED BY <1>0, <1>1, <2>1 DEF UInv, RefsCounted
<1>6. EvictSoon'
  <2>1. \A i \in Inodes : (\E u \in Tasks : pc[u] = "evict" /\ ti[u] = i) =>
                          (\E u \in Tasks : pc'[u] = "evict" /\ ti'[u] = i)
    BY <1>0, <1>1
  <2> QED BY <1>0, <1>1, <2>1 DEF UInv, EvictSoon
<1>7. EndOK'
  BY <1>0, <1>1 DEF UInv, EndOK, WalkEnded
<1> QED BY <1>2, <1>4, <1>5, <1>6, <1>7 DEF UInv

\* The reference on the inode is put; the last one frees it when no filesystem
\* is mounted.
LEMMA UIput ==
    ASSUME Inv, TypeInv', NEW t \in Tasks, Iput(t)
    PROVE  UInv'
<1> USE DEF objvars, inodevars, sbvars, locals, sbdvars, At, Goto
<1>0. /\ IInv /\ pc \in [Threads -> TaskPC \cup SbPC] /\ t \in Threads /\ UInv
      /\ istate \in [Inodes -> {"active", "freeing", "freed"}] /\ i_count \in [Inodes -> Int]
      /\ pc[t] = "iput" /\ ti[t] \in Inodes /\ Umount \notin Tasks
      /\ pc[Umount] = "sb_inode" => ti[Umount] \in Inodes
      /\ mounted <=> pc[Umount] = "idle"
      /\ todo \subseteq Inodes
  BY Facts DEF Inv, IInv, TypeOK, LocalsOK, Iput
<1>a. istate[ti[t]] = "active" /\ i_count[ti[t]] >= 1
  BY <1>0, Counted
<1>1. /\ \A u \in Threads : u # t => pc'[u] = pc[u]
      /\ pc'[t] \in {"dec_refs", "evict"} /\ pc'[Umount] = pc[Umount]
      /\ i_count'[ti[t]] = i_count[ti[t]] - 1
      /\ \A i \in Inodes : i # ti[t] => i_count'[i] = i_count[i] /\ istate'[i] = istate[i]
      /\ istate'[ti[t]] = "freeing" => pc'[t] = "evict"
      /\ istate'[ti[t]] # "freeing" => istate'[ti[t]] = "active"
                                       /\ (i_count[ti[t]] # 1 \/ mounted)
      /\ UNCHANGED <<olock, to, ti, underobj, inode_sec, dref, inode_refs, list_lock,
                     mounted, prev, todo>>
  BY <1>0, <1>a DEF Iput
<1>2. LocksHeld' /\ WalkSound'
  BY <1>0, <1>1 DEF UInv, LocksHeld, WalkSound
<1>4. VisitedUntied'
  BY <1>0, <1>1 DEF UInv, VisitedUntied, Visiting, Untied
<1>5. RefsCounted'
  <2>1. Announcers' = Announcers
    BY <1>0, <1>1 DEF Announcers, Announced
  <2> QED BY <1>0, <1>1, <2>1 DEF UInv, RefsCounted
<1>6. EvictSoon'
  <2>1. ASSUME NEW i \in Inodes, istate'[i] = "freeing"
        PROVE  \/ \E u \in Tasks : pc'[u] = "evict" /\ ti'[u] = i
               \/ pc'[Umount] = "sb_evict" /\ prev' = i
    <3>1. CASE i = ti[t]
      BY <1>1, <2>1, <3>1
    <3>2. CASE i # ti[t]
      BY <1>0, <1>1, <2>1, <3>2 DEF UInv, EvictSoon
    <3> QED BY <3>1, <3>2
  <2>2. ASSUME ~mounted', NEW i \in Inodes
        PROVE  ~dref'[i] /\ (istate'[i] = "active" => i_count'[i] >= 1)
    <3>1. ~dref[i] /\ (istate[i] = "active" => i_count[i] >= 1) /\ i_count[i] \in Int
      BY <1>0, <1>1, <2>2 DEF UInv, EvictSoon
    <3>2. CASE i = ti[t]
      BY <1>0, <1>a, <1>1, <2>2, <3>1, <3>2
    <3>3. CASE i # ti[t]
      BY <1>1, <3>1, <3>3
    <3> QED BY <3>2, <3>3
  <2> QED BY <2>1, <2>2 DEF EvictSoon
<1>7. EndOK'
  BY <1>0, <1>a, <1>1 DEF UInv, EndOK, WalkEnded
<1> QED BY <1>2, <1>4, <1>5, <1>6, <1>7 DEF UInv

\* The inode is freed.
LEMMA UEvict ==
    ASSUME Inv, TypeInv', NEW t \in Tasks, Evict(t)
    PROVE  UInv'
<1> USE DEF objvars, inodevars, sbvars, locals, sbdvars, At, Goto
<1>0. /\ IInv /\ pc \in [Threads -> TaskPC \cup SbPC] /\ t \in Threads /\ UInv
      /\ istate \in [Inodes -> {"active", "freeing", "freed"}]
      /\ pc[t] = "evict" /\ ti[t] \in Inodes /\ Umount \notin Tasks /\ list_lock = NULL
      /\ Umount # NULL /\ todo \subseteq Inodes
      /\ \A u \in Tasks : u # t /\ pc[u] = "evict" => ti[u] # ti[t]
  BY Facts, ConstantsAssumption DEF Inv, IInv, TypeOK, LocalsOK, EvictOnce, Evict
<1>1. /\ \A u \in Threads : u # t => pc'[u] = pc[u]
      /\ pc'[t] = "dec_refs" /\ pc'[Umount] = pc[Umount]
      /\ istate'[ti[t]] = "freed" /\ \A i \in Inodes : i # ti[t] => istate'[i] = istate[i]
      /\ UNCHANGED <<olock, to, ti, underobj, inode_sec, i_count, dref, inode_refs, list_lock,
                     mounted, prev, todo>>
  BY <1>0 DEF Evict
<1>2. LocksHeld' /\ WalkSound'
  <2>1. pc[Umount] \notin Walking
    BY <1>0 DEF UInv, LocksHeld
  <2> QED BY <1>0, <1>1, <2>1 DEF UInv, LocksHeld, WalkSound, Walking
<1>4. VisitedUntied'
  BY <1>0, <1>1 DEF UInv, VisitedUntied, Visiting, Untied
<1>5. RefsCounted'
  <2>1. Announcers' = Announcers
    BY <1>0, <1>1 DEF Announcers, Announced
  <2> QED BY <1>0, <1>1, <2>1 DEF UInv, RefsCounted
<1>6. EvictSoon'
  BY <1>0, <1>1 DEF UInv, EvictSoon
<1>7. EndOK'
  BY <1>0, <1>1 DEF UInv, EndOK, WalkEnded
<1> QED BY <1>2, <1>4, <1>5, <1>6, <1>7 DEF UInv

-----------------------------------------------------------------------------
(* The rest of the kernel.                                                 *)

\* While the filesystem is mounted nothing but the references of the tasks and
\* what is being freed matters.
LEMMA MountedFrame ==
    ASSUME Inv, mounted, mounted',
           UNCHANGED <<pc, to, ti, olock, inode_refs, list_lock, prev, todo>>,
           \A i \in Inodes : istate'[i] = "freeing" => istate[i] = "freeing"
    PROVE  UInv'
<1>0. pc[Umount] = "idle"
  BY Facts DEF Inv
<1>1. LocksHeld' /\ WalkSound' /\ VisitedUntied'
  BY <1>0 DEF Inv, UInv, LocksHeld, WalkSound, VisitedUntied
<1>2. RefsCounted' /\ EvictSoon' /\ EndOK'
  BY <1>0 DEF Inv, UInv, RefsCounted, Announcers, EvictSoon, EndOK, WalkEnded
<1> QED BY <1>1, <1>2 DEF UInv

LEMMA UEnvironment ==
    ASSUME Inv, Environment \/ \E r, s \in Rulesets, o \in Objects : InheritRule(r, s, o)
    PROVE  UInv'
<1> USE DEF objvars, inodevars, sbvars, locals, sbdvars
<1>0. istate \in [Inodes -> {"active", "freeing", "freed"}]
  BY DEF Inv, IInv, TypeOK
<1>1. ASSUME NEW o \in Objects, RcuFree(o) PROVE UInv'
  BY <1>1, QuietFrame DEF RcuFree
<1>2. ASSUME NEW r \in Rulesets, NEW s \in Rulesets, NEW o \in Objects, InheritRule(r, s, o)
      PROVE  UInv'
  BY <1>2, QuietFrame DEF InheritRule
<1>3. ASSUME NEW i \in Inodes, Lookup(i) \/ DropDentry(i) \/ Reclaim(i) PROVE UInv'
  <2>1. /\ mounted /\ mounted'
        /\ UNCHANGED <<pc, to, ti, olock, inode_refs, list_lock, prev, todo>>
    BY <1>3 DEF Lookup, DropDentry, Reclaim
  <2>2. \A j \in Inodes : istate'[j] = "freeing" => istate[j] = "freeing"
    BY <1>0, <1>3 DEF Lookup, DropDentry, Reclaim
  <2> QED BY <2>1, <2>2, MountedFrame
<1> QED BY <1>1, <1>2, <1>3 DEF Environment

-----------------------------------------------------------------------------
(* hook_sb_delete().                                                       *)

\* A step of the unmount leaves the tasks, and who they announced, alone.
SbMoves ==
    /\ \A t \in Tasks : pc'[t] = pc[t] /\ to'[t] = to[t] /\ ti'[t] = ti[t]
    /\ UNCHANGED <<olock, inode_refs>>

LEMMA SbKeeps ==
    ASSUME Inv, SbMoves
    PROVE  /\ RefsCounted'
           /\ \A t \in Tasks : pc'[t] \in {"release", "inc_refs"} => olock'[to'[t]] = t
           /\ \A i \in Inodes : (\E t \in Tasks : pc'[t] = "evict" /\ ti'[t] = i)
                 <=> (\E t \in Tasks : pc[t] = "evict" /\ ti[t] = i)
<1>1. Announcers' = Announcers
  BY DEF SbMoves, Announcers
<1>2. RefsCounted'
  BY <1>1 DEF Inv, UInv, RefsCounted, SbMoves
<1> QED BY <1>2 DEF Inv, UInv, LocksHeld, SbMoves

\* What the steps of the unmount start from.
LEMMA SbFacts ==
    ASSUME Inv
    PROVE  /\ IInv /\ UInv /\ Umount \notin Tasks /\ Umount # NULL
           /\ pc \in [Threads -> TaskPC \cup SbPC]
           /\ ti \in [Threads -> Inodes \cup {NULL}] /\ to \in [Threads -> Objects \cup {NULL}]
           /\ istate \in [Inodes -> {"active", "freeing", "freed"}]
           /\ i_count \in [Inodes -> Int] /\ dref \in [Inodes -> BOOLEAN]
           /\ underobj \in [Objects -> Inodes \cup {NULL}]
           /\ inode_sec \in [Inodes -> Objects \cup {NULL}]
           /\ prev \in Inodes \cup {NULL} /\ todo \subseteq Inodes
           /\ mounted <=> pc[Umount] = "idle"
           /\ NULL \notin Inodes /\ NULL \notin Objects
           /\ pc[Umount] \in {"sb_inode", "sb_lock", "sb_clear", "sb_iput", "sb_prev"}
                 => ti[Umount] \in Inodes
           /\ pc[Umount] = "sb_lock" => to[Umount] \in Objects
           /\ pc[Umount] \in {"sb_put_prev", "sb_evict"} => prev \in Inodes
BY ConstantsAssumption, Facts DEF Inv, IInv, TypeOK, LocalsOK

\* The unmount begins: every inode is to be visited.
LEMMA USbDelete ==
    ASSUME Inv, SbDelete
    PROVE  UInv'
<1> DEFINE count == [i \in Inodes |-> IF dref[i] THEN i_count[i] - 1 ELSE i_count[i]]
<1> USE DEF objvars, inodevars, sbvars, locals, sbdvars, At, Goto
<1>0. /\ pc[Umount] = "idle" /\ SbMoves /\ pc'[Umount] = "sb_loop" /\ todo' = Inodes
      /\ list_lock' = Umount /\ mounted' = FALSE /\ UNCHANGED prev
      /\ dref' = [i \in Inodes |-> FALSE] /\ i_count' = count
      /\ istate' = [i \in Inodes |-> IF istate[i] = "active" /\ count[i] = 0
                                     THEN "freed" ELSE istate[i]]
  BY SbFacts DEF SbDelete, SbMoves
<1>1. \A i \in Inodes : count[i] \in Nat
  <2> SUFFICES ASSUME NEW i \in Inodes PROVE count[i] \in Nat
    OBVIOUS
  <2>1. i_count[i] \in Nat /\ (dref[i] => i_count[i] >= 1)
    BY Counted DEF Inv
  <2> QED BY <2>1
<1> HIDE DEF count
<1>2. LocksHeld' /\ RefsCounted'
  BY <1>0, SbKeeps DEF LocksHeld
<1>3. WalkSound' /\ VisitedUntied' /\ EndOK'
  <2>1. \A i \in Inodes : Visiting(i)'
    BY <1>0 DEF Visiting
  <2> QED BY <1>0, <2>1 DEF WalkSound, VisitedUntied, EndOK, WalkEnded
<1>4. EvictSoon'
  <2>1. ASSUME NEW i \in Inodes, istate'[i] = "freeing"
        PROVE  \E t \in Tasks : pc'[t] = "evict" /\ ti'[t] = i
    <3>1. istate[i] = "freeing"
      BY <1>0, <2>1
    <3> QED BY <1>0, <3>1, SbKeeps DEF Inv, UInv, EvictSoon
  <2>2. ASSUME NEW i \in Inodes
        PROVE  ~dref'[i] /\ (istate'[i] = "active" => i_count'[i] >= 1)
    BY <1>0, <1>1
  <2> QED BY <2>1, <2>2 DEF EvictSoon
<1> QED BY <1>2, <1>3, <1>4 DEF UInv

\* The walk passes an inode without reference: nothing leads to it.
LEMMA USbNext ==
    ASSUME Inv, NEW i \in Inodes, SbNext(i)
    PROVE  UInv'
<1> USE DEF objvars, inodevars, sbvars, locals, sbdvars, At, Goto
<1>0. /\ pc[Umount] = "sb_loop" /\ SbMoves /\ todo' = todo \ {i} /\ istate[i] # "freed"
      /\ IF i_count[i] = 0 THEN pc' = pc /\ ti' = ti
                           ELSE pc'[Umount] = "sb_inode" /\ ti'[Umount] = i
      /\ UNCHANGED <<underobj, istate, dref, i_count, inode_sec, list_lock, mounted, prev>>
  BY SbFacts DEF SbNext, SbMoves
<1>1. ~mounted /\ ~ (pc[Umount] \in {"idle", "sb_evict"})
      /\ pc'[Umount] \in {"sb_loop", "sb_inode"}
  BY <1>0, SbFacts
<1>2. LocksHeld' /\ RefsCounted'
  BY <1>0, <1>1, SbKeeps DEF Inv, UInv, LocksHeld, Walking
<1>3. WalkSound' /\ EndOK'
  BY <1>0, <1>1 DEF WalkSound, EndOK, WalkEnded
<1>4. VisitedUntied'
  <2> SUFFICES ASSUME NEW j \in Inodes, ~Visiting(j)' PROVE Untied(j)'
    BY DEF VisitedUntied
  <2>1. Untied(j) => Untied(j)'
    BY <1>0 DEF Untied, SbMoves
  <2>2. CASE j = i
    <3>1. i_count[i] = 0
      BY <1>0, <2>2 DEF Visiting
    <3>2. inode_sec[i] = NULL
      BY <3>1, Counted DEF Inv
    <3> QED BY <1>1, <2>1, <2>2, <3>2, UntiedWhen DEF Inv
  <2>3. CASE j # i
    <3>1. j \notin todo'
      BY DEF Visiting
    <3>2. j \notin todo /\ ~ (pc[Umount] \in {"sb_inode", "sb_lock"})
      BY <1>0, <2>3, <3>1
    <3>3. ~Visiting(j)
      BY <3>2 DEF Visiting
    <3> QED BY <1>0, <2>1, <3>3 DEF Inv, UInv, VisitedUntied
  <2> QED BY <2>2, <2>3
<1>5. EvictSoon'
  BY <1>0, <1>1, SbKeeps DEF Inv, UInv, EvictSoon
<1> QED BY <1>2, <1>3, <1>4, <1>5 DEF UInv

\* It skips one that is being freed or has no object, or takes a reference.
LEMMA USbGet ==
    ASSUME Inv, SbGet
    PROVE  UInv'
<1> USE DEF objvars, inodevars, sbvars, locals, sbdvars, At, Goto
<1> DEFINE i == ti[Umount]
<1>0. /\ pc[Umount] = "sb_inode" /\ SbMoves /\ i \in Inodes /\ ti' = ti
      /\ UNCHANGED <<underobj, istate, dref, inode_sec, list_lock, mounted, prev, todo>>
      /\ \/ /\ istate[i] = "freeing" \/ inode_sec[i] = NULL
            /\ pc'[Umount] = "sb_loop" /\ i_count' = i_count
         \/ /\ istate[i] # "freeing" /\ pc'[Umount] = "sb_lock"
            /\ to'[Umount] = inode_sec[i]
            /\ i_count' = [i_count EXCEPT ![i] = @ + 1]
  BY SbFacts DEF SbGet, SbMoves
<1>1. ~mounted /\ pc'[Umount] \in {"sb_loop", "sb_lock"}
  BY <1>0, SbFacts
<1>2. LocksHeld' /\ RefsCounted'
  BY <1>0, <1>1, SbKeeps DEF Inv, UInv, LocksHeld, Walking
<1>3. WalkSound' /\ EndOK'
  BY <1>0, <1>1 DEF WalkSound, EndOK, WalkEnded
<1>4. VisitedUntied'
  <2> SUFFICES ASSUME NEW j \in Inodes, ~Visiting(j)' PROVE Untied(j)'
    BY DEF VisitedUntied
  <2>1. Untied(j) => Untied(j)'
    BY <1>0 DEF Untied, SbMoves
  <2>2. CASE j = i
    <3>1. istate[i] = "freeing" \/ inode_sec[i] = NULL
      BY <1>0, <2>2 DEF Visiting
    <3>2. Untied(i)
      BY <1>0, <1>1, <3>1, UntiedWhen, FreedUntiedWhen DEF Inv
    <3> QED BY <2>1, <2>2, <3>2
  <2>3. CASE j # i
    <3>1. ~Visiting(j)
      BY <1>0, <2>3 DEF Visiting
    <3> QED BY <1>0, <2>1, <3>1 DEF Inv, UInv, VisitedUntied
  <2> QED BY <2>2, <2>3
<1>5. EvictSoon'
  <2>1. \A j \in Inodes : i_count[j] \in Int /\ i_count'[j] \in Int /\ i_count'[j] >= i_count[j]
    BY <1>0, SbFacts
  <2>2. ASSUME NEW j \in Inodes
        PROVE  ~dref'[j] /\ (istate'[j] = "active" => i_count'[j] >= 1)
    BY <1>0, <1>1, <2>1 DEF Inv, UInv, EvictSoon
  <2>3. ASSUME NEW j \in Inodes, istate'[j] = "freeing"
        PROVE  \E t \in Tasks : pc'[t] = "evict" /\ ti'[t] = j
    BY <1>0, <2>3, SbKeeps DEF Inv, UInv, EvictSoon
  <2> QED BY <2>2, <2>3 DEF EvictSoon
<1> QED BY <1>2, <1>3, <1>4, <1>5 DEF UInv

\* The section under the object's lock leaves nothing that leads to the inode:
\* whoever was about to announce that he took it over would hold that lock.
LEMMA USbLock ==
    ASSUME Inv, SbLock
    PROVE  UInv'
<1> USE DEF objvars, inodevars, sbvars, locals, sbdvars, At, Goto
<1> DEFINE i == ti[Umount]
           o == to[Umount]
<1>0. /\ pc[Umount] = "sb_lock" /\ SbMoves /\ i \in Inodes /\ o \in Objects /\ ti' = ti
      /\ pc'[Umount] \in {"sb_clear", "sb_prev"} /\ olock[o] = NULL
      /\ UNCHANGED <<istate, dref, i_count, inode_sec, list_lock, mounted, prev, todo>>
      /\ \A x \in Objects : underobj'[x] \in {underobj[x], NULL}
      /\ underobj[o] = i => underobj'[o] = NULL
  BY SbFacts DEF SbLock, SbMoves
<1>1. ~mounted
  BY <1>0, SbFacts
<1>2. LocksHeld' /\ RefsCounted'
  BY <1>0, <1>1, SbKeeps DEF Inv, UInv, LocksHeld, Walking
<1>3. WalkSound' /\ EndOK'
  BY <1>0, <1>1 DEF WalkSound, EndOK, WalkEnded
<1>4. VisitedUntied'
  <2> SUFFICES ASSUME NEW j \in Inodes, j \notin todo PROVE Untied(j)'
    BY <1>0 DEF VisitedUntied, Visiting
  <2>1. CASE j = i
    <3>0. inode_sec[i] \in {o, NULL}
      BY <1>0 DEF Inv, UInv, WalkSound
    <3>1. ASSUME NEW x \in Objects, underobj'[x] = i PROVE FALSE
      <4>1. underobj[x] = i /\ i # NULL
        BY <1>0, <3>1, SbFacts
      <4>2. ~ \E t \in Tasks : pc[t] = "install" /\ to[t] = x
        BY <1>1, Facts DEF Inv
      <4>3. inode_sec[i] = x
        BY <4>1, <4>2 DEF Inv, IInv, PointerMatched
      <4>4. x = o
        BY <3>0, <4>3, SbFacts
      <4> QED BY <1>0, <3>1, <4>1, <4>4
    <3>2. ASSUME NEW t \in Tasks, pc[t] = "inc_refs", ti[t] = i PROVE FALSE
      <4>1. inode_sec[i] = to[t] /\ to[t] \in Objects
        BY <3>2, Facts DEF Inv, IInv, PointerMatched
      <4>2. to[t] = o
        BY <3>0, <4>1, SbFacts
      <4>3. olock[o] = t /\ t # NULL
        BY <3>2, <4>2, Facts DEF Inv, UInv, LocksHeld
      <4> QED BY <1>0, <4>3
    <3> QED BY <1>0, <2>1, <3>1, <3>2 DEF Untied, SbMoves
  <2>2. CASE j # i
    <3>1. Untied(j)
      BY <1>0, <2>2 DEF Inv, UInv, VisitedUntied, Visiting
    <3> QED BY <1>0, <3>1, SbFacts DEF Untied, SbMoves
  <2> QED BY <2>1, <2>2
<1>5. EvictSoon'
  BY <1>0, <1>1, SbKeeps DEF Inv, UInv, EvictSoon
<1> QED BY <1>2, <1>3, <1>4, <1>5 DEF UInv

\* A step of the walk that leaves every object and every inode's state alone.
LEMMA UWalk ==
    ASSUME Inv, SbMoves, UNCHANGED <<underobj, istate, dref, mounted, todo>>,
           pc[Umount] \in {"sb_loop", "sb_clear", "sb_iput", "sb_prev", "sb_relock"},
           pc'[Umount] \in SbPC \ {"idle", "sb_inode", "sb_lock", "done"},
           pc'[Umount] \in Walking => list_lock' = Umount,
           \A i \in Inodes : istate[i] = "active" => i_count'[i] >= 1,
           EndOK'
    PROVE  UInv'
<1>1. ~mounted
  BY SbFacts
<1>2. LocksHeld' /\ RefsCounted'
  BY SbKeeps DEF LocksHeld
<1>3. WalkSound'
  BY DEF WalkSound
<1>4. VisitedUntied'
  BY DEF Inv, UInv, VisitedUntied, Visiting, Untied, SbMoves
<1>5. EvictSoon'
  BY <1>1, SbKeeps DEF Inv, UInv, EvictSoon
<1> QED BY <1>2, <1>3, <1>4, <1>5 DEF UInv

LEMMA USbWalk ==
    ASSUME Inv, SbClear \/ SbIput \/ SbPrev \/ SbEndLoop \/ SbRelock
    PROVE  UInv'
<1> USE DEF objvars, inodevars, sbvars, locals, sbdvars, At, Goto
<1>0. ~mounted => \A i \in Inodes : istate[i] = "active" => i_count[i] >= 1
  BY DEF Inv, UInv, EvictSoon
<1>1. CASE SbClear
  <2>1. /\ pc[Umount] = "sb_clear" /\ SbMoves /\ pc'[Umount] = "sb_iput" /\ ~mounted
        /\ UNCHANGED <<underobj, istate, dref, i_count, list_lock, mounted, prev, todo>>
    BY <1>1, SbFacts DEF SbClear, SbMoves
  <2>2. EndOK' /\ list_lock' = Umount
    BY <2>1 DEF Inv, UInv, EndOK, WalkEnded, LocksHeld, Walking
  <2> QED BY <1>0, <2>1, <2>2, UWalk
<1>2. CASE SbIput
  <2>1. /\ pc[Umount] = "sb_iput" /\ SbMoves /\ pc'[Umount] = "sb_prev" /\ ~mounted
        /\ UNCHANGED <<underobj, istate, dref, list_lock, mounted, prev, todo>>
        /\ ti[Umount] \in Inodes
        /\ i_count' = [i_count EXCEPT ![ti[Umount]] = @ - 1]
    BY <1>2, SbFacts DEF SbIput, SbMoves
  <2>2. i_count[ti[Umount]] >= 2
    BY <2>1, Counted DEF Inv
  <2>3. \A i \in Inodes : istate[i] = "active" => i_count'[i] >= 1
    BY <1>0, <2>1, <2>2, SbFacts
  <2>4. EndOK' /\ list_lock' = Umount
    BY <2>1 DEF Inv, UInv, EndOK, WalkEnded, LocksHeld, Walking
  <2> QED BY <2>1, <2>3, <2>4, UWalk
<1>3. CASE SbPrev
  <2>1. /\ pc[Umount] = "sb_prev" /\ SbMoves /\ ~mounted /\ ti[Umount] \in Inodes
        /\ pc'[Umount] \in {"sb_loop", "sb_put_prev"} /\ ti' = ti
        /\ pc'[Umount] = "sb_loop" => list_lock' = list_lock
        /\ UNCHANGED <<underobj, istate, dref, i_count, mounted, todo>>
    BY <1>3, SbFacts DEF SbPrev, SbMoves
  <2>2. EndOK'
    BY <2>1, SbFacts DEF EndOK, WalkEnded
  <2>3. pc'[Umount] \in Walking => list_lock' = Umount
    BY <2>1 DEF Inv, UInv, LocksHeld, Walking
  <2> QED BY <1>0, <2>1, <2>2, <2>3, UWalk
<1>4. CASE SbEndLoop
  <2>1. /\ pc[Umount] = "sb_loop" /\ SbMoves /\ ~mounted
        /\ pc'[Umount] = IF prev = NULL THEN "sb_wait" ELSE "sb_put_prev"
        /\ \A i \in todo : istate[i] = "freed"
        /\ UNCHANGED <<underobj, istate, dref, i_count, mounted, prev, todo>>
    BY <1>4, SbFacts DEF SbEndLoop, SbMoves
  <2>2. EndOK'
    BY <2>1 DEF EndOK, WalkEnded
  <2> QED BY <1>0, <2>1, <2>2, UWalk DEF Walking
<1>5. CASE SbRelock
  <2>1. /\ pc[Umount] = "sb_relock" /\ SbMoves /\ ~mounted /\ prev' = ti[Umount] /\ ti' = ti
        /\ \/ ti[Umount] = NULL /\ pc'[Umount] = "sb_wait"
           \/ ti[Umount] # NULL /\ pc'[Umount] = "sb_loop" /\ list_lock' = Umount
        /\ UNCHANGED <<underobj, istate, dref, i_count, mounted, todo>>
    BY <1>5, SbFacts DEF SbRelock, SbMoves
  <2>2. EndOK'
    BY <2>1 DEF Inv, UInv, EndOK, WalkEnded
  <2>3. pc'[Umount] \in Walking => list_lock' = Umount
    BY <2>1 DEF Walking
  <2> QED BY <1>0, <2>1, <2>2, <2>3, UWalk
<1> QED BY <1>1, <1>2, <1>3, <1>4, <1>5

\* iput(prev_inode) may drop the last reference: then the unmount evicts.
LEMMA USbPutPrev ==
    ASSUME Inv, SbPutPrev
    PROVE  UInv'
<1> USE DEF objvars, inodevars, sbvars, locals, sbdvars, At, Goto
<1>0. /\ pc[Umount] = "sb_put_prev" /\ SbMoves /\ prev \in Inodes /\ ~mounted /\ ti' = ti
      /\ i_count' = [i_count EXCEPT ![prev] = @ - 1]
      /\ \/ /\ i_count[prev] = 1 /\ pc'[Umount] = "sb_evict"
            /\ istate' = [istate EXCEPT ![prev] = "freeing"]
         \/ i_count[prev] # 1 /\ pc'[Umount] = "sb_relock" /\ istate' = istate
      /\ UNCHANGED <<underobj, dref, inode_sec, list_lock, mounted, prev, todo>>
  BY SbFacts DEF SbPutPrev, SbMoves
<1>1. i_count[prev] >= 1 /\ i_count[prev] \in Int
  BY <1>0, Counted DEF Inv
<1>a. istate[prev] = "active"
  BY <1>0, <1>1 DEF Inv, IInv, FreedUnreferenced
<1>2. LocksHeld' /\ RefsCounted' /\ WalkSound'
  BY <1>0, SbKeeps DEF LocksHeld, Walking, WalkSound
<1>3. EndOK'
  BY <1>0, <1>a, SbFacts DEF Inv, UInv, EndOK, WalkEnded
<1>4. VisitedUntied'
  BY <1>0 DEF Inv, UInv, VisitedUntied, Visiting, Untied, SbMoves
<1>5. EvictSoon'
  <2>1. ASSUME NEW i \in Inodes, istate'[i] = "freeing"
        PROVE  \/ \E t \in Tasks : pc'[t] = "evict" /\ ti'[t] = i
               \/ pc'[Umount] = "sb_evict" /\ prev' = i
    <3>1. CASE i = prev
      BY <1>0, <1>a, <2>1, <3>1
    <3>2. CASE i # prev
      <4>1. istate[i] = "freeing"
        BY <1>0, <2>1, <3>2, SbFacts
      <4> QED BY <1>0, <4>1, SbKeeps DEF Inv, UInv, EvictSoon
    <3> QED BY <3>1, <3>2
  <2>2. ASSUME NEW i \in Inodes
        PROVE  ~dref'[i] /\ (istate'[i] = "active" => i_count'[i] >= 1)
    <3>1. ~dref[i] /\ (istate[i] = "active" => i_count[i] >= 1) /\ dref' = dref
      BY <1>0 DEF Inv, UInv, EvictSoon
    <3>2. CASE i = prev
      BY <1>0, <1>1, <3>1, <3>2, SbFacts
    <3>3. CASE i # prev
      BY <1>0, <3>1, <3>3, SbFacts
    <3> QED BY <3>2, <3>3
  <2> QED BY <2>1, <2>2 DEF EvictSoon
<1> QED BY <1>2, <1>3, <1>4, <1>5 DEF UInv

LEMMA USbEvict ==
    ASSUME Inv, SbEvict
    PROVE  UInv'
<1> USE DEF objvars, inodevars, sbvars, locals, sbdvars, At, Goto
<1>0. /\ pc[Umount] = "sb_evict" /\ SbMoves /\ prev \in Inodes /\ ~mounted /\ ti' = ti
      /\ pc'[Umount] = "sb_relock" /\ istate' = [istate EXCEPT ![prev] = "freed"]
      /\ UNCHANGED <<underobj, dref, i_count, inode_sec, list_lock, mounted, prev, todo>>
  BY SbFacts DEF SbEvict, SbMoves
<1>2. LocksHeld' /\ RefsCounted' /\ WalkSound'
  BY <1>0, SbKeeps DEF LocksHeld, Walking, WalkSound
<1>3. EndOK'
  BY <1>0, SbFacts DEF Inv, UInv, EndOK, WalkEnded
<1>4. VisitedUntied'
  BY <1>0 DEF Inv, UInv, VisitedUntied, Visiting, Untied, SbMoves
<1>5. EvictSoon'
  <2>1. ASSUME NEW i \in Inodes, istate'[i] = "freeing"
        PROVE  \E t \in Tasks : pc'[t] = "evict" /\ ti'[t] = i
    <3>1. istate[i] = "freeing" /\ i # prev
      BY <1>0, <2>1, SbFacts
    <3> QED BY <1>0, <3>1, SbKeeps DEF Inv, UInv, EvictSoon
  <2>2. ASSUME NEW i \in Inodes
        PROVE  ~dref'[i] /\ (istate'[i] = "active" => i_count'[i] >= 1)
    BY <1>0, SbFacts DEF Inv, UInv, EvictSoon
  <2> QED BY <2>1, <2>2 DEF EvictSoon
<1> QED BY <1>2, <1>3, <1>4, <1>5 DEF UInv

\* When the walk ended and inode_refs is zero, no inode is left: one with a
\* reference would be tied, and nothing leads to it.
LEMMA AllFreed ==
    ASSUME Inv, pc[Umount] = "sb_wait", inode_refs = 0, NEW i \in Inodes
    PROVE  istate[i] = "freed"
<1> SUFFICES ASSUME istate[i] # "freed" PROVE FALSE
  OBVIOUS
<1>0. ~mounted /\ prev = NULL /\ i # NULL /\ i \notin todo
  BY SbFacts DEF Inv, UInv, EndOK, WalkEnded
<1>1. \A t \in Tasks : pc[t] \notin Announced
  <2>1. Announcers \in SUBSET (Tasks \cup Rulesets)
    BY DEF Announcers
  <2>2. Cardinality(Announcers) = 0
    BY DEF Inv, UInv, RefsCounted
  <2>3. \A t : t \in Announcers => Cardinality(Announcers) >= 1
    BY <2>1, Finite
  <2>4. \A t : t \notin Announcers
    BY <2>2, <2>3
  <2> QED BY <2>4 DEF Announcers
<1>2. istate[i] = "active"
  BY <1>1, SbFacts DEF Inv, UInv, EvictSoon, Announced
<1>3. i_count[i] >= 1 /\ ~dref[i]
  BY <1>0, <1>2 DEF Inv, UInv, EvictSoon
<1>4. Untied(i)
  BY <1>0 DEF Inv, UInv, VisitedUntied, Visiting
<1>5. inode_sec[i] # NULL
  <2>1. Iputters(i) = {}
    BY <1>1 DEF Iputters, Announced
  <2>2. Cardinality(Iputters(i)) = 0
    BY <2>1, FS_EmptySet
  <2>3. SbPins(i) = 0
    BY <1>0 DEF SbPins, B
  <2>4. i_count[i] = B(dref[i]) + B(inode_sec[i] # NULL)
                     + Cardinality(Iputters(i)) + SbPins(i)
    BY DEF Inv, IInv, InodeCountExact
  <2> QED BY <1>3, <2>2, <2>3, <2>4 DEF B
<1>6. inode_sec[i] \in Objects
  BY <1>5, SbFacts
<1>7. \/ underobj[inode_sec[i]] = i
      \/ \E t \in Tasks : pc[t] \in {"inc_refs", "clear"} /\ ti[t] = i
  BY <1>5 DEF Inv, IInv, PointerMatched, SbClearing
<1> QED BY <1>1, <1>4, <1>6, <1>7 DEF Untied, Announced

LEMMA USbWait ==
    ASSUME Inv, SbWait
    PROVE  UInv'
<1> USE DEF objvars, inodevars, sbvars, locals, sbdvars, At, Goto
<1>0. /\ pc[Umount] = "sb_wait" /\ SbMoves /\ pc'[Umount] = "done" /\ inode_refs = 0 /\ ti' = ti
      /\ ~mounted
      /\ UNCHANGED <<istate, underobj, dref, i_count, inode_sec, list_lock, mounted, prev, todo>>
  BY SbFacts DEF SbWait, SbMoves
<1>1. LocksHeld' /\ RefsCounted' /\ WalkSound'
  BY <1>0, SbKeeps DEF LocksHeld, Walking, WalkSound
<1>2. EndOK'
  BY <1>0, AllFreed DEF Inv, UInv, EndOK, WalkEnded, SbMoves
<1>3. VisitedUntied'
  BY <1>0 DEF Inv, UInv, VisitedUntied, Visiting, Untied, SbMoves
<1>4. EvictSoon'
  BY <1>0, SbKeeps DEF Inv, UInv, EvictSoon
<1> QED BY <1>1, <1>2, <1>3, <1>4 DEF UInv

-----------------------------------------------------------------------------

LEMMA UInvInit == Init => UInv
<1> SUFFICES ASSUME Init PROVE UInv
  OBVIOUS
<1>1. Announcers = {}
  BY DEF Init, Announcers, Announced
<1>2. Cardinality(Announcers) = 0
  BY <1>1, FS_EmptySet
<1>3. pc[Umount] = "idle" /\ \A t \in Tasks : pc[t] = "idle"
  BY DEF Init
<1>4. LocksHeld /\ WalkSound /\ VisitedUntied /\ EndOK
  BY <1>3 DEF LocksHeld, WalkSound, VisitedUntied, EndOK, WalkEnded, Walking
<1>5. RefsCounted /\ EvictSoon
  BY <1>2 DEF Init, RefsCounted, EvictSoon
<1> QED BY <1>4, <1>5 DEF UInv

LEMMA UInvStep ==
    ASSUME Inv, TypeInv', [Next]_vars
    PROVE  UInv'
<1>1. ASSUME NEW t \in Tasks, TaskStep(t) PROVE UInv'
  <2>1. CASE GetInodeObject(t)
    BY <2>1, UGet
  <2>2. CASE InsertRule(t) \/ FreeRules(t)
    BY <2>2, UTask
  <2>3. CASE PutObject(t)
    BY <2>3, UTask, UDecAndLock, URelease, UIncRefs, UClearPointer, UIput, UEvict, UDecRefs
       DEF PutObject
  <2> QED BY <1>1, <2>1, <2>2, <2>3 DEF TaskStep
<1>2. ASSUME NEW t \in Tasks, NEW r \in Rulesets,
             (\E i \in Inodes : AddRule(t, r, i)) \/ FreeRuleset(t, r)
      PROVE  UInv'
  BY <1>2, UTask
<1>3. CASE SbStep
  BY <1>3, USbNext, USbGet, USbLock, USbWalk, USbPutPrev, USbEvict, USbWait DEF SbStep
<1>4. CASE SbDelete
  BY <1>4, USbDelete
<1>5. CASE Environment \/ \E r, s \in Rulesets, o \in Objects : InheritRule(r, s, o)
  BY <1>5, UEnvironment
<1>6. CASE UNCHANGED vars
  BY <1>6, QuietFrame DEF vars, objvars, inodevars, sbvars, locals, sbdvars
<1> QED BY <1>1, <1>2, <1>3, <1>4, <1>5, <1>6 DEF Next

\* Inodes outlive those who work on them, and none outlives the superblock.
LEMMA UnmountFollows == Inv => UnmountSafe
<1> SUFFICES ASSUME Inv PROVE UnmountSafe
  OBVIOUS
<1>1. NoInodeUseAfterFree
  <2>1. ASSUME NEW t \in Tasks, pc[t] \in {"deref", "install", "inc_refs", "clear", "iput"}
        PROVE  istate[ti[t]] = "active"
    <3>1. ti[t] \in Inodes
      BY <2>1, Facts DEF Inv
    <3>2. CASE pc[t] \in {"deref", "install"}
      <4>1. i_count[ti[t]] >= 1
        BY <3>1, <3>2, Counted DEF Inv, IInv, PathHeld
      <4> QED BY <3>1, <4>1 DEF Inv, IInv, FreedUnreferenced
    <3>3. CASE pc[t] \in {"inc_refs", "clear"}
      <4>1. inode_sec[ti[t]] = to[t] /\ to[t] # NULL
        BY <3>3, Facts DEF Inv, IInv, PointerMatched
      <4>2. i_count[ti[t]] >= 1
        BY <3>1, <4>1, Counted DEF Inv
      <4> QED BY <3>1, <4>2 DEF Inv, IInv, FreedUnreferenced
    <3>4. CASE pc[t] = "iput"
      <4>1. i_count[ti[t]] >= 1
        BY <3>1, <3>4, Counted DEF Inv
      <4> QED BY <3>1, <4>1 DEF Inv, IInv, FreedUnreferenced
    <3> QED BY <2>1, <3>2, <3>3, <3>4
  <2>2. pc[Umount] = "sb_inode" => istate[ti[Umount]] # "freed"
    BY DEF Inv, UInv, WalkSound
  <2>3. ASSUME pc[Umount] \in {"sb_lock", "sb_clear", "sb_iput", "sb_prev"}
        PROVE  istate[ti[Umount]] = "active"
    <3>1. ti[Umount] \in Inodes
      BY <2>3, SbFacts
    <3>2. i_count[ti[Umount]] >= 1
      BY <2>3, <3>1, Counted DEF Inv
    <3> QED BY <3>1, <3>2 DEF Inv, IInv, FreedUnreferenced
  <2> QED BY <2>1, <2>2, <2>3 DEF NoInodeUseAfterFree
<1>2. NoBusyInodes
  <2> SUFFICES ASSUME pc[Umount] = "done"
               PROVE  /\ \A i \in Inodes : istate[i] = "freed"
                      /\ \A t \in Tasks : pc[t] \notin TakenOver \cup {"evict", "dec_refs"}
    BY DEF NoBusyInodes
  <2>1. inode_refs = 0 /\ \A i \in Inodes : istate[i] = "freed"
    BY DEF Inv, UInv, EndOK
  <2>2. \A t \in Tasks : pc[t] \notin Announced
    <3>1. Announcers \in SUBSET (Tasks \cup Rulesets)
      BY DEF Announcers
    <3>2. Cardinality(Announcers) = 0
      BY <2>1 DEF Inv, UInv, RefsCounted
    <3>3. \A t : t \in Announcers => Cardinality(Announcers) >= 1
      BY <3>1, Finite
    <3>4. \A t : t \notin Announcers
      BY <3>2, <3>3
    <3> QED BY <3>4 DEF Announcers
  <2>3. \A t \in Tasks : pc[t] # "inc_refs"
    BY NoneLeft
  <2> QED BY <2>1, <2>2, <2>3 DEF TakenOver, Announced
<1> QED BY <1>1, <1>2 DEF UnmountSafe

\* The invariant of the unmount protocol holds in every reachable state.
THEOREM UnmountInvariance == Spec => []Inv
<1>1. Init => TypeInv /\ IInv /\ UInv
  BY TypeInit, InvInit, UInvInit
<1>2. IInv /\ UInv /\ TypeInv' /\ [Next]_vars => UInv'
  BY UInvStep DEF Inv
<1>3. IInv /\ UInv => Inv
  BY DEF Inv
<1> QED BY <1>1, <1>2, <1>3, Invariance, TypeCorrect, PTL DEF Spec

\* hook_sb_delete() and release_inode(): nobody works on an inode that was freed,
\* and when the hook returns no inode is left and nobody uses one.
THEOREM UnmountIsSafe == Spec => []UnmountSafe
BY UnmountFollows, UnmountInvariance, PTL
=============================================================================
