-------------------------- MODULE RecycledFreeList --------------------------
(***************************************************************************)
(* The free list stays well formed, and holds every node that is neither   *)
(* owned nor in the hands of a call; every step is one of SharedInstances. *)
(***************************************************************************)
EXTENDS RecycledHandles

\* Free nodes are exactly the free nodes of before: the list is as it was.
LEMMA ListStays ==
  ASSUME ListInv, FreeOnList, head_' = head_, next' = next,
         next \in [Nodes -> Nodes \cup {Null}], head_ \in Nodes \cup {Null},
         \A n \in Nodes : Free(n)' <=> Free(n)
  PROVE  ListInv' /\ FreeOnList'
  <1>1. OnList' = OnList
    BY DEF OnList, ListClosed
  <1>2. \A n \in Nodes : next[n] # Null => next[n] \in Nodes
    OBVIOUS
  <1>3. FreeOnList'
    BY <1>1 DEF FreeOnList
  <1>4. head_ # Null => Free(head_)'
    BY DEF ListInv
  <1>5. \A n \in Nodes : Free(n)' /\ next[n] # Null => Free(next[n])' /\ next[n] # head_
    BY <1>2 DEF ListInv
  <1> QED
    BY <1>3, <1>4, <1>5 DEF ListInv

\* Where there is no free node there is nothing to show.
LEMMA NoneFree ==
  ASSUME head_' = Null, \A n \in Nodes : ~Free(n)'
  PROVE  ListInv' /\ FreeOnList'
  BY DEF ListInv, FreeOnList

\* What is free stays free when counts stay zero or nonzero and no call takes
\* a node in hand.
LEMMA FreeKept ==
  ASSUME alloc' = alloc, \A n \in alloc : refs'[n] = 0 <=> refs[n] = 0,
         \A n \in Nodes : InTransit(n)' <=> InTransit(n)
  PROVE  \A n \in Nodes : Free(n)' <=> Free(n)
  BY DEF Free

\* Steps that leave the list alone: a node whose count they change is owned,
\* or in transit, before and after.
LEMMA FreeSame ==
  ASSUME OwnerInv, NEW t \in Threads,
         \/ Enter(t) \/ AcqLock(t) \/ AcqInc(t) \/ AcqUnlock(t) \/ AcqReturn(t)
         \/ RelDec(t) \/ RelLock(t) \/ RelUnlock(t) \/ Finish(t)
  PROVE  \A n \in Nodes : Free(n)' <=> Free(n)
  <1>0. /\ pc \in [Threads -> Labels] /\ u \in [Threads -> Nodes \cup {Null}]
        /\ refs \in [Nodes -> Int] /\ alloc \subseteq Nodes
    BY DEF OwnerInv, CallInv, Shape
  <1>00. \A n \in alloc : refs[n] \in Nat
    BY OwnedIffCounted DEF OwnerInv
  <1>1. ASSUME NEW x \in Ptrs, NEW y \in Ptrs,
               \/ Construct(t, x) \/ ConstructNull(t, x) \/ Acquire(t, x) \/ Release(t, x)
               \/ Destroy(t, x) \/ MoveAssign(t, x, y) \/ CopyAssign(t, x, y)
               \/ MoveConstruct(t, x, y)
        PROVE  \A n \in Nodes : Free(n)' <=> Free(n)
    <2>1. alloc' = alloc /\ refs' = refs
      BY <1>1, EnterMem
    <2>2. \/ UNCHANGED call
          \/ /\ ~InCall(t) /\ u' = u
             /\ \E l \in {"acqLock", "relDec", "finish"} : pc' = [pc EXCEPT ![t] = l]
      BY <1>1 DEF Construct, ConstructNull, Acquire, Release, Destroy, MoveAssign, CopyAssign,
                  MoveConstruct, BeginRelease, Begin
    <2>3. \A n \in Nodes : InTransit(n)' <=> InTransit(n)
      <3>1. CASE UNCHANGED call
        BY <3>1 DEF InTransit, call
      <3>2. ASSUME ~InCall(t), u' = u, NEW l \in {"acqLock", "relDec", "finish"},
                   pc' = [pc EXCEPT ![t] = l]
            PROVE  \A n \in Nodes : InTransit(n)' <=> InTransit(n)
        BY <1>0, <3>2 DEF InCall, InTransit
      <3> QED BY <2>2, <3>1, <3>2, Zenon
    <2> QED BY <2>1, <2>3, FreeKept
  <1>2. ASSUME NEW x \in Ptrs, NEW y \in Ptrs, CopyConstruct(t, x, y)
        PROVE  \A n \in Nodes : Free(n)' <=> Free(n)
    <2>1. ASSUME NEW n \in Nodes, n = p_[y]
          PROVE  n \in alloc /\ refs[n] # 0
      BY <1>2, <2>1, QuietOwns, StoredIsCounted DEF CopyConstruct
    <2>2. p_[y] \in Nodes \cup {Null}
      BY DEF OwnerInv, CallInv, Shape
    <2>3. \A n \in alloc : refs'[n] = 0 <=> refs[n] = 0
      BY <1>0, <1>00, <1>2, <2>1, <2>2 DEF CopyConstruct
    <2>4. alloc' = alloc /\ \A n \in Nodes : InTransit(n)' <=> InTransit(n)
      BY <1>2 DEF CopyConstruct, InTransit, call
    <2> QED BY <2>3, <2>4, FreeKept
  <1>3. CASE AcqLock(t) \/ AcqUnlock(t) \/ AcqReturn(t) \/ RelLock(t) \/ RelUnlock(t)
    <2>1. alloc' = alloc /\ refs' = refs
      BY <1>3 DEF AcqLock, AcqUnlock, AcqReturn, RelLock, RelUnlock, Lock, Unlock, mem
    <2>2. \A n \in Nodes : InTransit(n)' <=> InTransit(n)
      <3>1. CASE AcqLock(t) \/ AcqUnlock(t) \/ AcqReturn(t)
        BY <1>0, <3>1 DEF AcqLock, AcqUnlock, AcqReturn, Lock, Unlock, Goto, Return, InTransit
      <3>2. CASE RelLock(t) \/ RelUnlock(t)
        BY <1>0, <3>2 DEF RelLock, RelUnlock, Lock, Unlock, Goto, InTransit
      <3> QED BY <1>3, <3>1, <3>2
    <2> QED BY <2>1, <2>2, FreeKept
  <1>4. CASE AcqInc(t)
    <2>1. u[t] \in alloc /\ u[t] \in Nodes /\ refs[u[t]] = 0
      BY <1>0, <1>4 DEF AcqInc, OwnerInv, UncountedInTransit, Transit
    <2> QED BY <1>0, <1>4, <2>1 DEF AcqInc, Goto, Free, InTransit
  <1>5. CASE RelDec(t)
    <2>1. PICK x \in Ptrs, n \in Nodes : x = dst[t] /\ n = p_[x] /\ Loses(x, n)
      BY <1>5, RelDecOwners
    <2>2. n \in alloc /\ refs[n] # 0
      BY <2>1, StoredIsCounted DEF Loses
    <2>3. \A m \in Nodes : m # n => (InTransit(m)' <=> InTransit(m))
      BY <1>0, <1>5, <2>1 DEF RelDec, InTransit
    <2>4. refs' = [refs EXCEPT ![n] = @ - 1] /\ (refs[n] - 1 = 0 => InTransit(n)')
      BY <1>0, <1>5, <2>1 DEF RelDec, InTransit
    <2>5. alloc' = alloc /\ \A m \in Nodes : m # n => refs'[m] = refs[m]
      BY <1>0, <1>5, <2>4 DEF RelDec
    <2>6. ~Free(n) /\ ~Free(n)'
      BY <1>0, <1>00, <2>2, <2>4 DEF Free
    <2> QED BY <2>3, <2>5, <2>6, Zenon DEF Free
  <1>6. CASE Finish(t)
    <2>1. ASSUME FinishCopyAssign(t), NEW n \in Nodes, n = p_[src[t]]
          PROVE  n \in alloc /\ refs[n] # 0
      BY <1>6, <2>1, SourceOwns, StoredIsCounted
    <2>2. alloc' = alloc /\ \A m \in Nodes : InTransit(m)' <=> InTransit(m)
      BY <1>0, <1>6 DEF Finish, Return, InTransit
    <2>3. CASE refs' = refs
      BY <2>2, <2>3, FreeKept
    <2>4. CASE FinishCopyAssign(t)
      <3>1. p_[src[t]] \in Nodes \cup {Null}
        BY <1>6, <2>4, SourceOwns DEF OwnerInv, CallInv, Shape
      <3>2. \A n \in alloc : refs'[n] = 0 <=> refs[n] = 0
        BY <1>0, <1>00, <2>1, <2>4, <3>1 DEF FinishCopyAssign
      <3> QED BY <2>2, <3>2, FreeKept
    <2> QED
      BY <1>6, <2>3, <2>4, Zenon DEF Finish, FinishRelease, FinishDestroy, FinishMoveAssign
  <1> QED
    BY <1>1, <1>2, <1>3, <1>4, <1>5, <1>6, ZenonT(40) DEF Enter

\* Popping takes the head and leaves a well-formed list of the others.
LEMMA AcqPopList ==
  ASSUME OwnerInv, NEW t \in Threads, AcqPop(t)
  PROVE  ListInv' /\ FreeOnList'
  <1>0. /\ pc \in [Threads -> Labels] /\ u \in [Threads -> Nodes \cup {Null}]
        /\ next \in [Nodes -> Nodes \cup {Null}] /\ next' = next
    BY DEF OwnerInv, CallInv, Shape, AcqPop
  <1>1. PICK h \in Nodes : h = head_ /\ Free(h) /\ head_' = next[h]
    BY DEF AcqPop, OwnerInv, ListInv, CallInv, Shape
  <1>2. \A n \in Nodes : Free(n)' <=> Free(n) /\ n # h
    BY <1>0, <1>1 DEF AcqPop, Free, InTransit
  <1>3. \A n \in Nodes : Free(n) /\ next[n] # Null => Free(next[n]) /\ next[n] # h
    BY <1>1 DEF OwnerInv, ListInv
  <1>4. head_' # Null => Free(head_)'
    <2>1. SUFFICES ASSUME NEW k \in Nodes, k = next[h] PROVE Free(k)'
      BY <1>0, <1>1 DEF Free
    <2> QED BY <1>1, <1>2, <1>3, <2>1, NullAssumption
  <1>5. \A n \in Nodes : Free(n)' /\ next'[n] # Null => Free(next[n])' /\ next'[n] # head_'
    <2> SUFFICES ASSUME NEW n \in Nodes, Free(n), n # h, NEW k \in Nodes, k = next[n]
                 PROVE  Free(k)' /\ k # head_'
      BY <1>0, <1>2 DEF Free
    <2> QED
      BY <1>1, <1>2, <1>3, NullAssumption DEF OwnerInv, ListInv
  <1>6. ListInv'
    BY <1>0, <1>2, <1>4, <1>5 DEF OwnerInv, ListInv
  <1>7. ASSUME NEW n \in Nodes, Free(n), n # h, NEW S \in SUBSET Nodes, ListClosed(S)'
        PROVE  n \in S
    <2>1. ListClosed(S \cup {h})
      BY <1>0, <1>1, <1>7 DEF ListClosed
    <2>2. n \in OnList
      BY <1>7 DEF OwnerInv, FreeOnList
    <2> QED BY <1>7, <2>1, <2>2 DEF OnList
  <1>8. FreeOnList'
    BY <1>2, <1>7 DEF FreeOnList, OnList
  <1> QED
    BY <1>6, <1>8

\* Pushing a node that was in transit puts exactly that node on the list.
LEMMA RelPushList ==
  ASSUME OwnerInv, NEW t \in Threads, RelPush(t)
  PROVE  ListInv' /\ FreeOnList'
  <1>0. /\ pc \in [Threads -> Labels] /\ u \in [Threads -> Nodes \cup {Null}]
        /\ next \in [Nodes -> Nodes \cup {Null}] /\ head_ \in Nodes \cup {Null}
        /\ alloc \subseteq Nodes
    BY DEF OwnerInv, CallInv, Shape
  <1>1. PICK w \in Nodes : w = u[t] /\ w \in alloc /\ refs[w] = 0 /\ ~Free(w)
    BY <1>0 DEF RelPush, OwnerInv, UncountedInTransit, Transit, Free, InTransit
  <1>2. next' = [next EXCEPT ![w] = head_] /\ head_' = w
    BY <1>1 DEF RelPush
  <1>3. \A n \in Nodes : Free(n)' <=> Free(n) \/ n = w
    BY <1>0, <1>1 DEF RelPush, Goto, Free, InTransit, OwnerInv, OneCarrier, Transit
  <1>4. /\ head_ # Null => Free(head_) /\ head_ # w
        /\ \A n \in Nodes : Free(n) /\ next[n] # Null =>
              Free(next[n]) /\ next[n] # head_ /\ next[n] # w
        /\ \A m, n \in Nodes :
              Free(m) /\ Free(n) /\ next[m] # Null /\ next[m] = next[n] => m = n
    BY <1>1 DEF OwnerInv, ListInv
  <1>5. ListInv'
    <2>1. Free(head_)'
      <3>1. SUFFICES ASSUME NEW k \in Nodes, k = w PROVE Free(k)'
        BY <1>2 DEF Free
      <3> QED BY <1>3, <3>1
    <2>2. ASSUME NEW n \in Nodes, Free(n)', next'[n] # Null
          PROVE  Free(next[n])' /\ next'[n] # head_'
      <3>1. SUFFICES ASSUME NEW k \in Nodes, k = next'[n] PROVE Free(k)' /\ k # w
        BY <1>0, <1>2, <2>2 DEF Free
      <3> QED BY <1>0, <1>1, <1>2, <1>3, <1>4, <2>2, <3>1, NullAssumption
    <2>3. ASSUME NEW m \in Nodes, NEW n \in Nodes, Free(m)', Free(n)',
                 next'[m] # Null, next'[m] = next'[n]
          PROVE  m = n
      BY <1>0, <1>1, <1>2, <1>3, <1>4, <2>3
    <2> QED BY <2>1, <2>2, <2>3 DEF ListInv
  <1>6. ASSUME NEW n \in Nodes, Free(n)', NEW S \in SUBSET Nodes, ListClosed(S)'
        PROVE  n \in S
    <2>1. CASE n = w
      BY <1>2, <1>6, <2>1, NullAssumption DEF ListClosed
    <2>2. CASE Free(n)
      <3> DEFINE F == {m \in S : Free(m)}
      <3>1. ListClosed(F)
        BY <1>0, <1>1, <1>2, <1>4, <1>6, NullAssumption DEF ListClosed
      <3>2. F \in SUBSET Nodes /\ n \in OnList
        BY <2>2 DEF OwnerInv, FreeOnList
      <3>3. n \in F
        BY <3>1, <3>2 DEF OnList
      <3> QED BY <3>3
    <2> QED BY <1>3, <1>6, <2>1, <2>2
  <1>7. FreeOnList'
    BY <1>6 DEF FreeOnList, OnList
  <1> QED
    BY <1>5, <1>7

\* The list stays well formed and complete.
LEMMA ListNext ==
  ASSUME OwnerInv, [Next]_vars
  PROVE  ListInv' /\ FreeOnList'
  <1>0. /\ next \in [Nodes -> Nodes \cup {Null}] /\ head_ \in Nodes \cup {Null}
        /\ ListInv /\ FreeOnList /\ alloc \subseteq Nodes /\ refs \in [Nodes -> Int]
    BY DEF OwnerInv, CallInv, Shape
  <1> USE DEF mem, objs, call
  <1>1. ASSUME NEW t \in Threads,
               \/ Enter(t) \/ AcqLock(t) \/ AcqInc(t) \/ AcqUnlock(t) \/ AcqReturn(t)
               \/ RelDec(t) \/ RelLock(t) \/ RelUnlock(t) \/ Finish(t)
        PROVE  ListInv' /\ FreeOnList'
    <2>1. \A n \in Nodes : Free(n)' <=> Free(n)
      BY <1>1, FreeSame
    <2>2. head_' = head_ /\ next' = next
      <3>1. CASE Enter(t)
        BY <3>1, EnterMem DEF Enter, CopyConstruct
      <3> QED
        BY <1>1, <3>1 DEF AcqLock, AcqInc, AcqUnlock, AcqReturn, RelDec, RelLock, RelUnlock,
                          Lock, Unlock, Finish
    <2> QED BY <1>0, <2>1, <2>2, ListStays
  <1>2. ASSUME NEW t \in Threads, AcqPop(t) \/ RelPush(t)
        PROVE  ListInv' /\ FreeOnList'
    BY <1>2, AcqPopList, RelPushList
  <1>3. ASSUME NEW t \in Threads, AcqNew(t)
        PROVE  ListInv' /\ FreeOnList'
    <2>1. \A n \in Nodes : ~Free(n)
      <3>1. ListClosed({})
        BY <1>3 DEF AcqNew, ListClosed
      <3> QED BY <1>0, <3>1 DEF FreeOnList, OnList
    <2>2. PICK m \in Nodes \ alloc : alloc' = alloc \cup {m} /\ refs' = [refs EXCEPT ![m] = 1]
      BY <1>3, ZenonT(40) DEF AcqNew
    <2>3. \A n \in Nodes : InTransit(n) => InTransit(n)'
      BY <1>3 DEF AcqNew, InTransit, OwnerInv, CallInv, Shape
    <2>4. \A n \in Nodes : ~Free(n)'
      BY <1>0, <2>1, <2>2, <2>3 DEF Free
    <2> QED BY <1>3, <2>4, NoneFree DEF AcqNew
  <1>4. CASE DestroyBin
    <2>1. \A n \in Nodes : ~Free(n)'
      BY <1>0, <1>4 DEF DestroyBin, Free, FreeOnList, InTransit
    <2> QED BY <1>4, <2>1, NoneFree DEF DestroyBin
  <1>5. CASE UNCHANGED vars
    <2>1. \A n \in Nodes : Free(n)' <=> Free(n)
      BY <1>5 DEF vars, Free, InTransit
    <2> QED BY <1>0, <1>5, <2>1, ListStays DEF vars
  <1> QED
    BY <1>1, <1>2, <1>3, <1>4, <1>5 DEF Next, Step

\* The invariant is inductive.
LEMMA OwnerInvNext ==
  ASSUME ~SelfAssign, OwnerInv, [Next]_vars
  PROVE  OwnerInv'
  <1>1. CallInv' /\ MutualExclusion'
    BY CallInvNext, MutexNext DEF OwnerInv
  <1>2. HandlesCounted'
    BY DEF OwnerInv, HandlesCounted
  <1> QED
    BY <1>1, <1>2, DistinctNext, StoredNext, EmptyNext, UncountedNext, AloneNext, OneCarrierNext,
       RefsNext, ListNext DEF OwnerInv

-----------------------------------------------------------------------------
(* Recycled implements SharedInstances, for any number of threads, handles  *)
(* and nodes: a release takes effect at its decrement, an acquire when it   *)
(* returns, an assignment in two steps (drop, then share or move).          *)

\* The mapping read off the predicates of the owners' proof.
LEMMA InstancesIs ==
  /\ Instances = [x \in Ptrs |-> IF GivenUp(x) THEN Null ELSE p_[x]]
  /\ Instances' = [x \in Ptrs |-> IF GivenUp(x)' THEN Null ELSE p_'[x]]
  BY DEF Instances, GivenUp

\* The promise does not notice the step.
Unseen == Instances' = Instances /\ Asking' = Asking

\* Entering acquire asks for an instance.
LEMMA AskStep ==
  ASSUME OwnerInv, NEW t \in Threads, NEW x \in Ptrs, Construct(t, x) \/ Acquire(t, x)
  PROVE  Shared!Ask(x)
  <1> USE DEF OwnerInv, CallInv, Shape, CallShape, Construct, Acquire, Begin, objs, mem
  <1>1. p_[x] = Null
    BY DEF Stored
  <1>2. \A z \in Ptrs : GivenUp(z)' <=> GivenUp(z)
    BY NullAssumption DEF GivenUp, Released, InCall
  <1>3. Instances' = Instances /\ Instances[x] = Null
    BY <1>1, <1>2, InstancesIs
  <1>4. Asking' = Asking \cup {x}
    BY NullAssumption DEF Asking, InCall
  <1> QED
    BY <1>3, <1>4 DEF Shared!Ask

\* Entering a release, or stepping inside a call away from its effect, is
\* not seen.
LEMMA UnseenSteps ==
  ASSUME OwnerInv, NEW t \in Threads, NEW x \in Ptrs, NEW y \in Ptrs,
         \/ ConstructNull(t, x) \/ Release(t, x) \/ Destroy(t, x)
         \/ MoveAssign(t, x, y) \/ CopyAssign(t, x, y)
         \/ AcqLock(t) \/ AcqPop(t) \/ AcqNew(t) \/ AcqInc(t) \/ AcqUnlock(t)
         \/ RelLock(t) \/ RelPush(t) \/ RelUnlock(t)
  PROVE  Unseen
  <1>0. /\ pc \in [Threads -> Labels] /\ op \in [Threads -> Ops]
        /\ dst \in [Threads -> Ptrs \cup {Null}]
        /\ pc[t] = "idle" => op[t] = "none" /\ dst[t] = Null
    BY DEF OwnerInv, CallInv, Shape, CallShape
  <1>1. CASE \/ ConstructNull(t, x) \/ Release(t, x) \/ Destroy(t, x)
             \/ MoveAssign(t, x, y) \/ CopyAssign(t, x, y)
    <2>1. \/ ConstructNull(t, x)
          \/ \E o \in {"release", "destroy", "moveAssign", "copyAssign"}, w \in {Null, y} :
                ~InCall(t) /\ BeginRelease(t, o, x, w)
      BY <1>1 DEF Release, Destroy, MoveAssign, CopyAssign
    <2>2. CASE ConstructNull(t, x)
      BY <2>2 DEF ConstructNull, call, Unseen, Instances, Asking
    <2>3. ASSUME NEW o \in {"release", "destroy", "moveAssign", "copyAssign"},
                 NEW w \in {Null, y}, ~InCall(t), BeginRelease(t, o, x, w)
          PROVE  Unseen
      <3>1. /\ p_' = p_ /\ op' = [op EXCEPT ![t] = o] /\ dst' = [dst EXCEPT ![t] = x]
            /\ pc' = [pc EXCEPT ![t] = IF p_[x] # Null THEN "relDec" ELSE "finish"]
            /\ op[t] = "none" /\ dst[t] = Null
        BY <1>0, <2>3 DEF BeginRelease, Begin, objs, InCall
      <3>2. \A z \in Ptrs : p_[z] # Null => (GivenUp(z)' <=> GivenUp(z))
        BY <1>0, <3>1, NullAssumption DEF GivenUp, Released
      <3>3. Instances' = Instances
        BY <3>1, <3>2, InstancesIs
      <3>4. Asking' = Asking
        BY <1>0, <3>1 DEF Asking
      <3> QED BY <3>3, <3>4 DEF Unseen
    <2> QED BY <2>1, <2>2, <2>3, Zenon
  <1>2. CASE \/ AcqLock(t) \/ AcqPop(t) \/ AcqNew(t) \/ AcqInc(t) \/ AcqUnlock(t)
             \/ RelLock(t) \/ RelPush(t) \/ RelUnlock(t)
    <2>1. p_' = p_ /\ op' = op /\ dst' = dst
      BY <1>2 DEF AcqLock, AcqPop, AcqNew, AcqInc, AcqUnlock, RelLock, RelPush, RelUnlock,
                  Lock, Unlock, Goto, objs
    <2>2. \A s \in Threads : pc'[s] \in Released <=> pc[s] \in Released
      <3>1. CASE AcqLock(t) \/ AcqPop(t) \/ AcqNew(t) \/ AcqInc(t) \/ AcqUnlock(t)
        BY <1>0, <3>1 DEF AcqLock, AcqPop, AcqNew, AcqInc, AcqUnlock, Lock, Unlock, Goto, Released
      <3>2. CASE RelLock(t) \/ RelPush(t) \/ RelUnlock(t)
        BY <1>0, <3>2 DEF RelLock, RelPush, RelUnlock, Lock, Unlock, Goto, Released
      <3> QED BY <1>2, <3>1, <3>2
    <2>3. Instances' = Instances
      BY <2>1, <2>2 DEF Instances
    <2> QED BY <2>1, <2>3 DEF Unseen, Asking
  <1> QED
    BY <1>1, <1>2, Zenon

\* The copy constructor shares, the move constructor hands over.
LEMMA ConstructSteps ==
  ASSUME OwnerInv, NEW t \in Threads, NEW x \in Ptrs, NEW y \in Ptrs
  PROVE  /\ CopyConstruct(t, x, y) => Shared!Share(x, y)
         /\ MoveConstruct(t, x, y) => Shared!Move(x, y)
  <1> SUFFICES ASSUME CopyConstruct(t, x, y) \/ MoveConstruct(t, x, y)
               PROVE  /\ CopyConstruct(t, x, y) => Shared!Share(x, y)
                      /\ MoveConstruct(t, x, y) => Shared!Move(x, y)
    OBVIOUS
  <1>1. x \notin live /\ Readable(y) /\ UNCHANGED call
    BY DEF CopyConstruct, MoveConstruct, Writable
  <1>2. p_[x] = Null /\ ~GivenUp(x) /\ ~GivenUp(y) /\ p_ \in [Ptrs -> Nodes \cup {Null}]
    BY <1>1, DeadOwnsNothing, QuietOwns DEF OwnerInv, Stored, CallInv, Shape
  <1>3. \A z \in Ptrs : GivenUp(z)' <=> GivenUp(z)
    BY <1>1 DEF call, GivenUp
  <1>4. x \notin Asking /\ Asking' = Asking
    BY <1>1, NullAssumption
       DEF Asking, call, OwnerInv, CallInv, Shape, CallShape, Acquiring, Releasing, Labels
  <1>5. CASE CopyConstruct(t, x, y)
    <2>1. Instances' = [Instances EXCEPT ![x] = Instances[y]] /\ Instances[x] = Null
      BY <1>2, <1>3, <1>5, InstancesIs DEF CopyConstruct
    <2>2. ~MoveConstruct(t, x, y) \/ Shared!Move(x, y)
      BY <1>1, <1>2, <1>3, <1>4, InstancesIs DEF MoveConstruct, Shared!Move
    <2> QED BY <1>4, <2>1, <2>2 DEF Shared!Share
  <1>6. CASE MoveConstruct(t, x, y)
    <2>1. Instances' = [Instances EXCEPT ![x] = Instances[y], ![y] = Null] /\ Instances[x] = Null
      BY <1>2, <1>3, <1>6, InstancesIs DEF MoveConstruct
    <2>2. ~CopyConstruct(t, x, y) \/ Shared!Share(x, y)
      BY <1>1, <1>2, <1>3, <1>4, InstancesIs DEF CopyConstruct, Shared!Share
    <2> QED BY <1>4, <2>1, <2>2 DEF Shared!Move
  <1> QED
    BY <1>5, <1>6

\* An acquire that returns gives an instance no handle refers to.
LEMMA AcquireStep ==
  ASSUME OwnerInv, NEW t \in Threads, AcqReturn(t)
  PROVE  \E x \in Ptrs, n \in Nodes : Shared!Acquire(x, n)
  <1> USE DEF OwnerInv, CallInv, Shape, CallShape, AcqReturn, Return
  <1>1. PICK x \in Ptrs, n \in Nodes :
          x = dst[t] /\ n = u[t] /\ \A s \in Threads : dst[s] = x => s = t
    BY CallerAlone
  <1>2. \A z \in Ptrs : GivenUp(z)' <=> GivenUp(z)
    BY NullAssumption DEF GivenUp, Released
  <1>3. p_[x] = Null /\ ~GivenUp(x) /\ p_' = [p_ EXCEPT ![x] = n] /\ Holders(n) = {x}
    BY <1>1 DEF EmptyWhileAcquiring, AloneWhenGranted, Acquiring, GivenUp, Released
  <1> HIDE DEF OwnerInv, CallInv, Shape, CallShape, AcqReturn
  <1>4. \A z \in Ptrs : Instances[z] # n
    <2>1. \A z \in Ptrs : z # x => ~(p_[z] = n /\ ~GivenUp(z))
      BY <1>3, RefersIs DEF Holders
    <2> QED
      BY <1>3, <2>1, InstancesIs, NullAssumption
  <1>5. Instances' = [Instances EXCEPT ![x] = n]
    BY <1>2, <1>3, InstancesIs DEF OwnerInv, CallInv, Shape
  <1>6. x \in Asking /\ Asking' = Asking \ {x}
    BY <1>1, NullAssumption
       DEF Asking, Acquiring, OwnerInv, CallInv, Shape, CallShape, AcqReturn
  <1> QED
    BY <1>4, <1>5, <1>6, Zenon DEF Shared!Acquire

\* The decrement is where a release takes effect.
LEMMA DropStep ==
  ASSUME OwnerInv, NEW t \in Threads, RelDec(t)
  PROVE  \E x \in Ptrs : Shared!Drop(x)
  <1> USE DEF OwnerInv, CallInv, Shape, RelDec, objs
  <1>1. PICK x \in Ptrs : x = dst[t]
    BY CallerAlone
  <1>2. \A z \in Ptrs : GivenUp(z)' <=> GivenUp(z) \/ z = x
    BY <1>1 DEF GivenUp, Released
  <1>3. Instances' = [Instances EXCEPT ![x] = Null]
    BY <1>2, InstancesIs
  <1>4. Asking' = Asking
    BY DEF Asking
  <1> QED
    BY <1>3, <1>4, Zenon DEF Shared!Drop

\* The end of a release is not seen; that of an assignment shares or moves.
LEMMA FinishStep ==
  ASSUME OwnerInv, NEW t \in Threads, Finish(t)
  PROVE  Unseen \/ \E x, y \in Ptrs : Shared!Share(x, y) \/ Shared!Move(x, y)
  <1>1. PICK x \in Ptrs : x = dst[t] /\ \A s \in Threads : dst[s] = x => s = t
    BY CallerAlone DEF Finish
  <1>2. /\ GivenUp(x) /\ ~GivenUp(x)'
        /\ \A z \in Ptrs : z # x => (GivenUp(z)' <=> GivenUp(z))
    BY <1>1, FinisherOwnsNothing
  <1>3. x \notin Asking /\ Asking' = Asking
    BY <1>1, NullAssumption
       DEF Asking, Finish, Return, OwnerInv, CallInv, Shape, CallShape, Releasing
  <1>4. p_ \in [Ptrs -> Nodes \cup {Null}] /\ Instances[x] = Null
    BY <1>2, InstancesIs DEF OwnerInv, CallInv, Shape
  <1>5. CASE FinishRelease(t) \/ FinishDestroy(t)
    <2>1. p_' = [p_ EXCEPT ![x] = Null]
      BY <1>1, <1>5 DEF FinishRelease, FinishDestroy
    <2>2. Instances' = Instances
      BY <1>2, <1>4, <2>1, InstancesIs
    <2> QED BY <1>3, <2>2 DEF Unseen
  <1>6. CASE FinishCopyAssign(t)
    <2>1. PICK y \in Ptrs : y = src[t] /\ x # y /\ ~GivenUp(y)
      BY <1>1, <1>6, SourceOwns
    <2>2. p_' = [p_ EXCEPT ![x] = p_[y]]
      BY <1>1, <1>6, <2>1 DEF FinishCopyAssign
    <2>3. Instances' = [Instances EXCEPT ![x] = Instances[y]]
      BY <1>2, <1>4, <2>1, <2>2, InstancesIs
    <2> QED BY <1>3, <1>4, <2>3, Zenon DEF Shared!Share
  <1>7. CASE FinishMoveAssign(t)
    <2>1. PICK y \in Ptrs : y = src[t] /\ x # y /\ ~GivenUp(y)
      BY <1>1, <1>7, SourceOwns
    <2>2. p_' = [p_ EXCEPT ![x] = p_[y], ![y] = Null]
      BY <1>1, <1>7, <2>1 DEF FinishMoveAssign
    <2>3. Instances' = [Instances EXCEPT ![x] = Instances[y], ![y] = Null]
      BY <1>2, <1>4, <2>1, <2>2, InstancesIs
    <2> QED BY <1>3, <1>4, <2>3, Zenon DEF Shared!Move
  <1> QED
    BY <1>5, <1>6, <1>7 DEF Finish

\* Every step of the bin and its handles is a step of the promise or unseen.
LEMMA RefinementNext ==
  ASSUME OwnerInv, [Next]_vars
  PROVE  [Shared!Next]_(Shared!vars)
  <1>1. ASSUME Unseen PROVE [Shared!Next]_(Shared!vars)
    BY <1>1 DEF Unseen, Shared!vars
  <1>2. CASE DestroyBin \/ UNCHANGED vars
    BY <1>1, <1>2 DEF DestroyBin, vars, objs, call, Unseen, Instances, Asking
  <1>3. ASSUME NEW t \in Threads, Enter(t)
        PROVE  [Shared!Next]_(Shared!vars)
    BY <1>1, <1>3, AskStep, UnseenSteps, ConstructSteps DEF Enter, Shared!Next
  <1>4. ASSUME NEW t \in Threads, Step(t)
        PROVE  [Shared!Next]_(Shared!vars)
    <2>1. CASE AcqReturn(t)
      BY <2>1, AcquireStep DEF Shared!Next
    <2>2. CASE RelDec(t)
      BY <2>2, DropStep DEF Shared!Next
    <2>3. CASE Finish(t)
      BY <1>1, <2>3, FinishStep DEF Shared!Next
    <2>4. CASE \/ AcqLock(t) \/ AcqPop(t) \/ AcqNew(t) \/ AcqInc(t) \/ AcqUnlock(t)
               \/ RelLock(t) \/ RelPush(t) \/ RelUnlock(t)
      <3>1. PICK x \in Ptrs : x = dst[t]
        BY <2>4, CallerAlone DEF AcqLock, AcqPop, AcqNew, AcqInc, AcqUnlock, RelLock,
           RelPush, RelUnlock, Lock, Unlock
      <3> QED BY <1>1, <2>4, <3>1, UnseenSteps
    <2> QED BY <1>4, <2>1, <2>2, <2>3, <2>4 DEF Step
  <1> QED
    BY <1>2, <1>3, <1>4 DEF Next
=============================================================================
