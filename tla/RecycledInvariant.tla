------------------------- MODULE RecycledInvariant --------------------------
(***************************************************************************)
(* The inductive invariant of the bin and its handles, what follows from   *)
(* it, the size of the pool, and the refinement of SharedInstances.        *)
(***************************************************************************)
EXTENDS RecycledFreeList, FiniteSetTheorems

\* The handles are finitely many.
LEMMA HandlesAreCounted == HandlesCounted
  <1> SUFFICES ASSUME NEW S \in SUBSET Ptrs
               PROVE  /\ Cardinality(S) \in Nat
                      /\ Cardinality(S) = 0 <=> S = {}
                      /\ \A x \in Ptrs \ S : Cardinality(S \cup {x}) = Cardinality(S) + 1
    BY DEF HandlesCounted
  <1>1. IsFiniteSet(S)
    BY PtrsAssumption, FS_Subset
  <1> QED
    BY <1>1, FS_CardinalityType, FS_EmptySet, FS_AddElement

\* The invariant holds of the empty bin.
LEMMA OwnerInvInit == Init => OwnerInv
  <1> SUFFICES ASSUME Init PROVE OwnerInv
    OBVIOUS
  <1>1. CallInv /\ MutualExclusion
    BY CallInvInit, MutexInit
  <1>2. Distinct /\ Stored /\ EmptyWhileAcquiring /\ UncountedInTransit /\ AloneWhenGranted
          /\ OneCarrier
    BY DEF Init, Distinct, Stored, EmptyWhileAcquiring, UncountedInTransit, AloneWhenGranted,
           OneCarrier, Releasing, Acquiring, Transit
  <1>3. RefsCountOwners /\ ListInv /\ FreeOnList
    BY DEF Init, RefsCountOwners, ListInv, FreeOnList, Free
  <1> QED
    BY <1>1, <1>2, <1>3, HandlesAreCounted DEF OwnerInv

\* The inductive invariant holds as long as no handle is assigned to itself:
\* what every step of acquire, release and the members that call them keeps.
THEOREM OwnerInvHolds == ASSUME ~SelfAssign PROVE Spec => []OwnerInv
  <1>1. OwnerInv /\ [Next]_vars => OwnerInv'
    BY OwnerInvNext
  <1> QED
    BY <1>1, OwnerInvInit, PTL DEF Spec

\* The reference count of every instance is the number of handles that own a
\* reference to it, at every step of every call of recycled_ptr, as long as no
\* caller copy-assigns a handle to itself.
THEOREM RefsCountOwnersHolds == ASSUME ~SelfAssign PROVE Spec => []RefsCountOwners
  <1>1. OwnerInv => RefsCountOwners
    BY DEF OwnerInv
  <1> QED
    BY <1>1, OwnerInvHolds, PTL

\* BOOST_ASSERT(p->refs == 1) never fails: recycled::acquire() hands out an
\* instance that nobody else refers to.
THEOREM AcquireExclusiveHolds == ASSUME ~SelfAssign PROVE Spec => []AcquireExclusive
  <1>1. OwnerInv => AcquireExclusive
    <2> SUFFICES ASSUME OwnerInv, NEW t \in Threads, pc[t] = "acqReturn" PROVE refs[u[t]] = 1
      BY DEF AcquireExclusive
    <2>1. u[t] \in alloc /\ Holders(u[t]) = {dst[t]}
      BY DEF OwnerInv, AloneWhenGranted
    <2>2. Cardinality({dst[t]}) = 1
      BY FS_Singleton, ZenonT(40)
    <2> QED BY <2>1, <2>2 DEF OwnerInv, RefsCountOwners
  <1> QED
    BY <1>1, OwnerInvHolds, PTL

\* What is on the list is owned by nobody.
THEOREM FreeListUnownedHolds == ASSUME ~SelfAssign PROVE Spec => []FreeListUnowned
  <1>1. OwnerInv => FreeListUnowned
    <2> SUFFICES ASSUME OwnerInv PROVE FreeListUnowned
      OBVIOUS
    <2> DEFINE F == {n \in Nodes : Free(n)}
    <2>1. ListClosed(F)
      BY DEF ListClosed, OwnerInv, ListInv, CallInv, Shape
    <2>2. \A n \in OnList : n \in Nodes /\ Free(n)
      BY <2>1 DEF OnList
    <2>3. \A n \in Nodes : Free(n) => Holders(n) = {}
      BY OwnedIffCounted DEF OwnerInv, Free
    <2> QED BY <2>2, <2>3 DEF FreeListUnowned, Free
  <1> QED
    BY <1>1, OwnerInvHolds, PTL

\* An instance that nobody owns is on the list or on its way to or from it, so
\* that ~recycled() deletes every instance.
THEOREM NothingLostHolds == ASSUME ~SelfAssign PROVE Spec => []NothingLost
  <1>1. OwnerInv => NothingLost
    <2> SUFFICES ASSUME OwnerInv, NEW n \in alloc, Holders(n) = {}, ~InTransit(n)
                 PROVE  n \in OnList
      BY DEF NothingLost
    <2> QED
      BY OwnedIffCounted DEF OwnerInv, CallInv, Shape, FreeOnList, Free
  <1> QED
    BY <1>1, OwnerInvHolds, PTL

\* Type correctness; that refs never drops below zero needs the invariant.
THEOREM TypeOKHolds == ASSUME ~SelfAssign PROVE Spec => []TypeOK
  <1>1. Init => TypeOK
    BY DEF Init, TypeOK, Labels, Ops
  <1>2. ASSUME OwnerInv, TypeOK, [Next]_vars, OwnerInv'
        PROVE  TypeOK'
    <2>1. Shape'
      BY <1>2 DEF OwnerInv, CallInv
    <2>2. refs \in [Nodes -> Nat]
      BY <1>2 DEF TypeOK
    <2> USE <1>2, <2>2 DEF mem, objs, call
    <2>3. ASSUME NEW t \in Threads, NEW x \in Ptrs, NEW y \in Ptrs, CopyConstruct(t, x, y)
          PROVE  refs' \in [Nodes -> Nat]
      <3>1. p_[y] \in Nodes \cup {Null}
        BY DEF TypeOK
      <3> QED BY <2>3, <3>1 DEF CopyConstruct
    <2>4. ASSUME NEW t \in Threads, AcqNew(t) \/ AcqInc(t)
          PROVE  refs' \in [Nodes -> Nat]
      BY <2>4 DEF AcqNew, AcqInc
    <2>5. ASSUME NEW t \in Threads, RelDec(t)
          PROVE  refs' \in [Nodes -> Nat]
      <3>1. PICK x \in Ptrs, n \in Nodes : x = dst[t] /\ n = p_[x] /\ Loses(x, n)
        BY <2>5, RelDecOwners, ZenonT(40)
      <3>2. refs[n] # 0 /\ refs' = [refs EXCEPT ![n] = @ - 1]
        BY <2>5, <3>1, StoredIsCounted DEF Loses, RelDec
      <3> QED BY <3>2
    <2>6. ASSUME NEW t \in Threads, Finish(t)
          PROVE  refs' \in [Nodes -> Nat]
      BY <2>6 DEF Finish, FinishRelease, FinishDestroy, FinishMoveAssign,
                            FinishCopyAssign
    <2>7. refs' \in [Nodes -> Nat]
      <3>1. ASSUME NEW t \in Threads, NEW x \in Ptrs, NEW y \in Ptrs,
                   \/ Construct(t, x) \/ ConstructNull(t, x) \/ MoveConstruct(t, x, y)
                   \/ Acquire(t, x) \/ Release(t, x) \/ Destroy(t, x)
                   \/ MoveAssign(t, x, y) \/ CopyAssign(t, x, y)
            PROVE  refs' = refs
        BY <3>1, EnterMem, Zenon
      <3>2. ASSUME NEW t \in Threads,
                   \/ AcqLock(t) \/ AcqPop(t) \/ AcqUnlock(t) \/ AcqReturn(t)
                   \/ RelLock(t) \/ RelPush(t) \/ RelUnlock(t)
            PROVE  refs' = refs
        BY <3>2 DEF AcqLock, AcqPop, AcqUnlock, AcqReturn, RelLock, RelPush, RelUnlock,
                    Lock, Unlock
      <3>3. CASE DestroyBin \/ UNCHANGED vars
        BY <3>3 DEF DestroyBin, vars
      <3> QED
        BY <2>3, <2>4, <2>5, <2>6, <3>1, <3>2, <3>3, ZenonT(40) DEF Next, Enter, Step
    <2> QED
      BY <2>1, <2>7 DEF Shape, TypeOK
  <1> QED
    BY <1>1, <1>2, OwnerInvHolds, PTL DEF Spec

-----------------------------------------------------------------------------
(* The size of the pool.                                                    *)

\* The handle x stands for n: it owns n, or is pushing it on the list.
Claims(x, n) ==
    \/ x \in Holders(n)
    \/ \E s \in Threads : pc[s] = "relLock" /\ u[s] = n /\ dst[s] = x

\* A handle stands for at most one node.
LEMMA OneClaim ==
  ASSUME OwnerInv, NEW x \in Ptrs, NEW m \in Nodes, NEW n \in Nodes, Claims(x, m), Claims(x, n)
  PROVE  m = n
  <1>1. \A s, t \in Threads : dst[s] = x /\ dst[t] = x => s = t
    BY CallerAlone, NullAssumption, ZenonT(40) DEF OwnerInv, CallInv, CallShape
  <1>2. \A k \in Nodes : x \in Holders(k) <=> (p_[x] = k /\ ~GivenUp(x)) \/ Granted(x, k)
    BY RefersIs DEF Holders
  <1>3. \A k \in Nodes : Granted(x, k) => p_[x] = Null
    BY DEF Granted, OwnerInv, EmptyWhileAcquiring, Acquiring
  <1> DEFINE Pushing(k) == \E s \in Threads : pc[s] = "relLock" /\ u[s] = k /\ dst[s] = x
  <1>4. \A k, l \in Nodes : Granted(x, k) /\ Granted(x, l) => k = l
    BY <1>1 DEF Granted
  <1>5. \A k, l \in Nodes : Pushing(k) /\ Pushing(l) => k = l
    BY <1>1
  <1>6. \A k, l \in Nodes : ~(Granted(x, k) /\ Pushing(l))
    BY <1>1 DEF Granted
  <1>7. \A k \in Nodes : Pushing(k) => GivenUp(x)
    BY DEF GivenUp, Released
  <1>8. \A k \in {m, n} : (p_[x] = k /\ ~GivenUp(x)) \/ Granted(x, k) \/ Pushing(k)
    BY <1>2 DEF Claims
  <1> HIDE DEF Pushing
  <1> QED
    BY <1>3, <1>4, <1>5, <1>6, <1>7, <1>8, NullAssumption

\* When the bin allocates, every node is claimed, and not by the caller.
LEMMA AllClaimed ==
  ASSUME OwnerInv, NEW t \in Threads, AcqNew(t)
  PROVE  /\ \A n \in alloc : \E x \in Ptrs : Claims(x, n)
         /\ \A n \in Nodes : ~Claims(dst[t], n)
  <1>1. \A n \in Nodes : ~Free(n)
    <2>1. ListClosed({})
      BY DEF AcqNew, ListClosed
    <2> QED BY <2>1 DEF OwnerInv, FreeOnList, OnList
  <1>2. \A s \in Threads : pc[s] \notin {"acqInc", "relPush"}
    BY DEF AcqNew, OwnerInv, MutualExclusion, Critical
  <1>3. ASSUME NEW n \in alloc
        PROVE  \E x \in Ptrs : Claims(x, n)
    <2>1. n \in Nodes
      BY DEF OwnerInv, CallInv, Shape
    <2>2. CASE refs[n] # 0
      BY <2>2, OwnedIffCounted DEF OwnerInv, Claims, Holders
    <2>3. CASE InTransit(n)
      BY <1>2, <2>3, CallerAlone DEF InTransit, Claims
    <2> QED BY <1>1, <2>1, <2>2, <2>3 DEF Free
  <1>4. \A n \in Nodes : ~Claims(dst[t], n)
    BY CallerAlone, AcquirerOwnsNothing DEF AcqNew, Claims
  <1> QED
    BY <1>3, <1>4

Pool == IsFiniteSet(alloc) /\ PoolBounded

\* The bin never holds more instances than there are handles: it allocates
\* only when all its instances are in use.
THEOREM PoolBoundedHolds == ASSUME ~SelfAssign PROVE Spec => []PoolBounded
  <1>1. Init => Pool
    BY PtrsAssumption, FS_EmptySet, FS_CardinalityType DEF Init, Pool, PoolBounded
  <1>2. ASSUME OwnerInv, Pool, [Next]_vars
        PROVE  Pool'
    <2> USE DEF mem, objs, call
    <2>1. ASSUME alloc' \subseteq alloc
          PROVE  Pool'
      BY <1>2, <2>1, PtrsAssumption, FS_Subset, FS_CardinalityType DEF Pool, PoolBounded
    <2>2. ASSUME NEW t \in Threads, AcqNew(t)
          PROVE  Pool'
      <3>1. PICK n \in Nodes \ alloc : alloc' = alloc \cup {n}
        BY <2>2 DEF AcqNew
      <3>2. PICK x \in Ptrs : x = dst[t]
        BY <1>2, <2>2, CallerAlone DEF AcqNew
      <3> DEFINE f == [m \in alloc' |-> IF m = n THEN x ELSE CHOOSE y \in Ptrs : Claims(y, m)]
      <3>3. \A m \in alloc : m \in Nodes /\ m # n /\ f[m] \in Ptrs /\ Claims(f[m], m)
        BY <1>2, <2>2, <3>1, AllClaimed DEF OwnerInv, CallInv, Shape
      <3>4. f[n] = x /\ \A m \in Nodes : ~Claims(x, m)
        BY <1>2, <2>2, <3>1, <3>2, AllClaimed
      <3>5. f \in [alloc' -> Ptrs]
        BY <3>1, <3>3, <3>4
      <3>6. \A k, m \in alloc' : f[k] = f[m] => k = m
        BY <1>2, <3>1, <3>3, <3>4, OneClaim
      <3>7. f \in Injection(alloc', Ptrs)
        BY <3>5, <3>6 DEF Injection, IsInjective
      <3> HIDE DEF f
      <3> QED
        BY <3>7, PtrsAssumption, FS_Injection DEF Pool, PoolBounded
    <2>3. \/ alloc' \subseteq alloc
          \/ \E t \in Threads : AcqNew(t)
      <3>1. ASSUME NEW t \in Threads, Enter(t)
            PROVE  alloc' = alloc
        BY <3>1, EnterMem, Zenon DEF Enter, CopyConstruct
      <3>2. ASSUME NEW t \in Threads,
                   AcqLock(t) \/ AcqPop(t) \/ AcqInc(t) \/ AcqUnlock(t) \/ AcqReturn(t)
            PROVE  alloc' = alloc
        BY <3>2 DEF AcqLock, AcqPop, AcqInc, AcqUnlock, AcqReturn, Lock, Unlock
      <3>3. ASSUME NEW t \in Threads,
                   RelDec(t) \/ RelLock(t) \/ RelPush(t) \/ RelUnlock(t) \/ Finish(t)
            PROVE  alloc' = alloc
        BY <3>3 DEF RelDec, RelLock, RelPush, RelUnlock, Lock, Unlock, Finish
      <3>4. CASE DestroyBin \/ UNCHANGED vars
        BY <3>4 DEF DestroyBin, vars
      <3> QED
        BY <1>2, <3>1, <3>2, <3>3, <3>4, ZenonT(40) DEF Next, Step
    <2> QED BY <2>1, <2>2, <2>3
  <1>3. Pool => PoolBounded
    BY DEF Pool
  <1> QED
    BY <1>1, <1>2, <1>3, OwnerInvHolds, PTL DEF Spec

-----------------------------------------------------------------------------
(* Recycled implements SharedInstances.                                     *)

\* recycled_ptr implements shared ownership: whatever the threads and however
\* their calls interleave, acquire, copy, move and release look atomic, and an
\* acquired instance belongs to no other handle.
THEOREM ImplementsSharedInstancesHolds ==
  ASSUME ~SelfAssign PROVE Spec => ImplementsSharedInstances
  <1>1. Init => Shared!Init
    BY NullAssumption DEF Init, Shared!Init, Instances, Asking, Released
  <1>2. OwnerInv /\ [Next]_vars => [Shared!Next]_(Shared!vars)
    BY RefinementNext
  <1> QED
    BY <1>1, <1>2, OwnerInvHolds, PTL DEF Spec, ImplementsSharedInstances, Shared!Spec
=============================================================================
