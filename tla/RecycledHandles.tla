-------------------------- MODULE RecycledHandles ---------------------------
(***************************************************************************)
(* The reference counts follow the owners; what the handles store and the  *)
(* calls carry, from step to step.                                         *)
(***************************************************************************)
EXTENDS RecycledOwners

\* The counts follow the owners in every step.
LEMMA RefsNext ==
  ASSUME OwnerInv, [Next]_vars
  PROVE  RefsCountOwners'
  <1>0. HandlesCounted /\ RefsCountOwners /\ alloc \subseteq Nodes /\ refs \in [Nodes -> Int]
    BY DEF OwnerInv, CallInv, Shape
  <1> USE DEF mem, objs, call
  <1>1. ASSUME NEW t \in Threads, NEW x \in Ptrs, NEW y \in Ptrs,
               \/ Construct(t, x) \/ ConstructNull(t, x) \/ Acquire(t, x) \/ Release(t, x)
               \/ Destroy(t, x) \/ MoveAssign(t, x, y) \/ CopyAssign(t, x, y)
        PROVE  RefsCountOwners'
    <2>1. SameOwners
      BY <1>1, EnterOwners
    <2>2. alloc' = alloc /\ refs' = refs
      BY <1>1, EnterMem
    <2> QED BY <1>0, <2>1, <2>2, CountSame
  <1>2. ASSUME NEW t \in Threads, NEW x \in Ptrs, NEW y \in Ptrs, CopyConstruct(t, x, y)
        PROVE  RefsCountOwners'
    <2>1. CASE p_[y] = Null /\ SameOwners
      BY <1>0, <1>2, <2>1, CountSame DEF CopyConstruct
    <2>2. ASSUME NEW n \in Nodes, n = p_[y], Gains(x, n)
          PROVE  RefsCountOwners'
      <3>1. n \in alloc /\ alloc' = alloc /\ refs' = [refs EXCEPT ![n] = @ + 1]
        BY <1>2, <2>2, NullAssumption DEF CopyConstruct, OwnerInv, Stored
      <3> QED BY <1>0, <2>2, <3>1, CountGains, ZenonT(40)
    <2> QED BY <1>2, <2>1, <2>2, CopyConstructOwners
  <1>3. ASSUME NEW t \in Threads, NEW x \in Ptrs, NEW y \in Ptrs, MoveConstruct(t, x, y)
        PROVE  RefsCountOwners'
    <2>1. CASE p_[y] = Null /\ SameOwners
      BY <1>0, <1>3, <2>1, CountSame DEF MoveConstruct
    <2>2. ASSUME NEW n \in Nodes, n = p_[y], TakesOver(x, y, n)
          PROVE  RefsCountOwners'
      <3>1. n \in alloc /\ alloc' = alloc /\ refs' = refs
        BY <1>3, <2>2, NullAssumption DEF MoveConstruct, OwnerInv, Stored
      <3> QED BY <1>0, <2>2, <3>1, CountTakesOver
    <2> QED BY <1>3, <2>1, <2>2, MoveConstructOwners
  <1>4. ASSUME NEW t \in Threads,
               AcqLock(t) \/ AcqPop(t) \/ AcqUnlock(t) \/ RelLock(t) \/ RelPush(t) \/ RelUnlock(t)
        PROVE  RefsCountOwners'
    <2>1. SameOwners
      BY <1>4, GotoOwners DEF OwnerInv
    <2>2. alloc' = alloc /\ refs' = refs
      BY <1>4 DEF AcqLock, AcqPop, AcqUnlock, RelLock, RelPush, RelUnlock, Lock, Unlock
    <2> QED BY <1>0, <2>1, <2>2, CountSame
  <1>5. ASSUME NEW t \in Threads, AcqNew(t)
        PROVE  RefsCountOwners'
    <2>1. PICK n \in Nodes \ alloc :
            /\ alloc' = alloc \cup {n} /\ refs' = [refs EXCEPT ![n] = 1]
            /\ u' = [u EXCEPT ![t] = n]
      BY <1>5, ZenonT(40) DEF AcqNew
    <2>2. PICK x \in Ptrs : Gains(x, n)
      BY <1>5, <2>1, GrantOwners, ZenonT(40) DEF AcqNew
    <2>3. Holders(n)' = {x}
      BY <2>1, <2>2, OwnedIsAllocated DEF Gains
    <2>4. \A m \in alloc : refs'[m] = refs[m] /\ Holders(m)' = Holders(m)
      BY <1>0, <2>1, <2>2 DEF Gains
    <2>5. refs'[n] = 1 /\ Cardinality({x}) = 1
      <3>1. {} \in SUBSET Ptrs /\ x \in Ptrs \ {} /\ {} \cup {x} = {x}
        BY Zenon
      <3>2. Cardinality({}) = 0
        BY <1>0, <3>1, Zenon DEF HandlesCounted
      <3>3. Cardinality({x}) = Cardinality({}) + 1
        BY <1>0, <3>1, OneMore, Zenon
      <3>4. refs'[n] = 1
        BY <1>0, <2>1
      <3> QED
        BY <3>2, <3>3, <3>4
    <2>6. \A m \in alloc' : m = n \/ m \in alloc
      BY <2>1
    <2>7. \A m \in alloc : refs'[m] = Cardinality(Holders(m)')
      BY <1>0, <2>4 DEF RefsCountOwners
    <2> QED
      BY <2>3, <2>5, <2>6, <2>7, Zenon DEF RefsCountOwners
  <1>6. ASSUME NEW t \in Threads, AcqInc(t)
        PROVE  RefsCountOwners'
    <2>1. PICK n \in Nodes : n = u[t] /\ n \in alloc
      BY <1>0, <1>6 DEF AcqInc, OwnerInv, UncountedInTransit, Transit
    <2>2. PICK x \in Ptrs : Gains(x, n)
      BY <1>6, <2>1, GrantOwners, ZenonT(40) DEF AcqInc, Goto, OwnerInv, CallInv, Shape
    <2> QED
      BY <1>0, <1>6, <2>1, <2>2, CountGains, ZenonT(40) DEF AcqInc
  <1>7. ASSUME NEW t \in Threads, AcqReturn(t)
        PROVE  RefsCountOwners'
    BY <1>0, <1>7, AcqReturnOwners, CountSame, ZenonT(40) DEF AcqReturn
  <1>8. ASSUME NEW t \in Threads, RelDec(t)
        PROVE  RefsCountOwners'
    <2>1. PICK x \in Ptrs, n \in Nodes : x = dst[t] /\ n = p_[x] /\ Loses(x, n)
      BY <1>8, RelDecOwners
    <2>2. n \in alloc
      BY <2>1, StoredIsCounted DEF Loses
    <2> QED
      BY <1>0, <1>8, <2>1, <2>2, CountLoses, ZenonT(40) DEF RelDec
  <1>9. ASSUME NEW t \in Threads, Finish(t), FinishRelease(t) \/ FinishDestroy(t)
        PROVE  RefsCountOwners'
    <2>1. alloc' = alloc /\ refs' = refs
      BY <1>9 DEF Finish, FinishRelease, FinishDestroy
    <2> QED BY <1>0, <1>9, <2>1, FinishReleaseOwners, CountSame
  <1>10. ASSUME NEW t \in Threads, Finish(t), FinishMoveAssign(t)
         PROVE  RefsCountOwners'
    <2>1. alloc' = alloc /\ refs' = refs
      BY <1>10 DEF Finish, FinishMoveAssign
    <2>2. ASSUME NEW x \in Ptrs, NEW y \in Ptrs, NEW n \in Nodes, TakesOver(x, y, n)
          PROVE  RefsCountOwners'
      BY <1>0, <2>1, <2>2, CountTakesOver, StoredIsCounted DEF TakesOver
    <2> QED
      BY <1>0, <1>10, <2>1, <2>2, FinishMoveOwners, CountSame
  <1>11. ASSUME NEW t \in Threads, Finish(t), FinishCopyAssign(t)
         PROVE  RefsCountOwners'
    <2>1. CASE p_[src[t]] = Null /\ SameOwners
      BY <1>0, <1>11, <2>1, CountSame DEF Finish, FinishCopyAssign
    <2>2. ASSUME NEW x \in Ptrs, NEW n \in Nodes, x = dst[t], n = p_[src[t]], Gains(x, n)
          PROVE  RefsCountOwners'
      <3>1. n \in alloc
        BY <1>11, <2>2, SourceOwns, StoredIsCounted
      <3>2. alloc' = alloc /\ refs' = [refs EXCEPT ![n] = @ + 1]
        BY <1>11, <2>2, NullAssumption DEF Finish, FinishCopyAssign
      <3> QED
        BY <1>0, <2>2, <3>1, <3>2, CountGains, Zenon
    <2> QED
      BY <1>11, <2>1, <2>2, FinishCopyOwners
  <1>12. CASE DestroyBin
    <2>1. UNCHANGED <<p_, pc, dst, u, refs>> /\ alloc' \subseteq alloc
      BY <1>12 DEF DestroyBin
    <2>2. SameOwners
      BY <2>1 DEF SameOwners, Holders, Refers
    <2> QED
      BY <1>0, <2>1, <2>2, CountSame
  <1>13. CASE UNCHANGED vars
    <2>1. SameOwners
      BY <1>13 DEF vars, SameOwners, Holders, Refers
    <2> QED
      BY <1>0, <1>13, <2>1, CountSame DEF vars
  <1> QED
    BY <1>1, <1>2, <1>3, <1>4, <1>5, <1>6, <1>7, <1>8, <1>9, <1>10, <1>11, <1>12, <1>13,
       ZenonT(40) DEF Next, Enter, Step, Finish

-----------------------------------------------------------------------------
(* The handles and the calls.                                               *)

\* Assignments keep having two different handles.
LEMMA DistinctNext ==
  ASSUME ~SelfAssign, OwnerInv, [Next]_vars
  PROVE  Distinct'
  <1>0. /\ pc \in [Threads -> Labels] /\ dst \in [Threads -> Ptrs \cup {Null}]
        /\ src \in [Threads -> Ptrs \cup {Null}] /\ Distinct
    BY DEF OwnerInv, CallInv, Shape
  <1>u. CASE UNCHANGED vars
    BY <1>0, <1>u DEF vars, call, Distinct
  <1> USE <1>0 DEF Distinct, Releasing
  <1>1. ASSUME NEW t \in Threads, NEW x \in Ptrs, NEW y \in Ptrs,
               \/ Construct(t, x) \/ ConstructNull(t, x) \/ Acquire(t, x)
               \/ CopyConstruct(t, x, y) \/ MoveConstruct(t, x, y)
        PROVE  Distinct'
    BY <1>1 DEF Construct, ConstructNull, Acquire, CopyConstruct, MoveConstruct, Begin, call
  <1>2. ASSUME NEW t \in Threads, NEW x \in Ptrs, NEW y \in Ptrs,
               Release(t, x) \/ Destroy(t, x) \/ MoveAssign(t, x, y) \/ CopyAssign(t, x, y)
        PROVE  Distinct'
    BY <1>2, NullAssumption DEF Release, Destroy, MoveAssign, CopyAssign, BeginRelease, Begin
  <1>3. ASSUME NEW t \in Threads,
               \/ AcqLock(t) \/ AcqPop(t) \/ AcqNew(t) \/ AcqInc(t) \/ AcqUnlock(t)
               \/ AcqReturn(t) \/ Finish(t)
        PROVE  Distinct'
    BY <1>3 DEF AcqLock, AcqPop, AcqNew, AcqInc, AcqUnlock, AcqReturn, Lock, Unlock, Goto,
                Finish, Return
  <1>4. ASSUME NEW t \in Threads, RelDec(t) \/ RelLock(t) \/ RelPush(t) \/ RelUnlock(t)
        PROVE  Distinct'
    BY <1>4 DEF RelDec, RelLock, RelPush, RelUnlock, Lock, Unlock, Goto
  <1>5. CASE DestroyBin
    BY <1>5 DEF DestroyBin, call
  <1> QED
    BY <1>u, <1>1, <1>2, <1>3, <1>4, <1>5, ZenonT(40) DEF Next, Enter, Step

\* Stored addresses stay allocated.
LEMMA StoredNext ==
  ASSUME OwnerInv, [Next]_vars
  PROVE  Stored'
  <1>0. /\ p_ \in [Ptrs -> Nodes \cup {Null}] /\ live \subseteq Ptrs /\ alloc \subseteq Nodes
        /\ Stored
    BY DEF OwnerInv, CallInv, Shape
  <1>u. CASE UNCHANGED vars
    BY <1>0, <1>u DEF vars, mem, objs, Stored
  <1> USE <1>0, NullAssumption DEF Stored, mem, objs
  <1>1. ASSUME NEW t \in Threads, NEW x \in Ptrs, NEW y \in Ptrs,
               \/ Construct(t, x) \/ ConstructNull(t, x)
               \/ CopyConstruct(t, x, y) \/ MoveConstruct(t, x, y)
        PROVE  Stored'
    BY <1>1 DEF Construct, ConstructNull, CopyConstruct, MoveConstruct, Readable, Writable
  <1>2. ASSUME NEW t \in Threads, NEW x \in Ptrs, NEW y \in Ptrs,
               \/ Acquire(t, x) \/ Release(t, x) \/ Destroy(t, x)
               \/ MoveAssign(t, x, y) \/ CopyAssign(t, x, y)
        PROVE  Stored'
    BY <1>2 DEF Acquire, Release, Destroy, MoveAssign, CopyAssign, BeginRelease
  <1>3. ASSUME NEW t \in Threads, AcqReturn(t)
        PROVE  Stored'
    <2>1. dst[t] \in Ptrs /\ dst[t] \in live /\ u[t] \in alloc
      BY <1>3, CallerAlone DEF AcqReturn, OwnerInv, AloneWhenGranted
    <2> QED BY <1>3, <2>1 DEF AcqReturn
  <1>4. ASSUME NEW t \in Threads, AcqNew(t)
        PROVE  Stored'
    BY <1>4 DEF AcqNew
  <1>5. ASSUME NEW t \in Threads,
               \/ AcqLock(t) \/ AcqPop(t) \/ AcqInc(t) \/ AcqUnlock(t)
               \/ RelDec(t) \/ RelLock(t) \/ RelPush(t) \/ RelUnlock(t)
        PROVE  Stored'
    BY <1>5 DEF AcqLock, AcqPop, AcqInc, AcqUnlock, RelDec, RelLock, RelPush, RelUnlock,
                Lock, Unlock
  <1>6. ASSUME NEW t \in Threads, Finish(t)
        PROVE  Stored'
    <2>1. dst[t] \in Ptrs /\ dst[t] \in live
      BY <1>6, CallerAlone DEF Finish
    <2>2. CASE FinishRelease(t) \/ FinishDestroy(t)
      BY <1>6, <2>1, <2>2 DEF Finish, FinishRelease, FinishDestroy
    <2>3. CASE FinishMoveAssign(t) \/ FinishCopyAssign(t)
      <3>1. src[t] \in Ptrs
        BY <1>6, <2>3, SourceOwns
      <3> QED
        BY <1>6, <2>1, <2>3, <3>1 DEF Finish, FinishMoveAssign, FinishCopyAssign
    <2> QED BY <1>6, <2>2, <2>3 DEF Finish
  <1>7. CASE DestroyBin
    BY <1>7 DEF DestroyBin
  <1> QED
    BY <1>u, <1>1, <1>2, <1>3, <1>4, <1>5, <1>6, <1>7, ZenonT(40) DEF Next, Enter, Step

\* A handle stays empty until its acquire returns.
LEMMA EmptyNext ==
  ASSUME OwnerInv, [Next]_vars
  PROVE  EmptyWhileAcquiring'
  <1> SUFFICES ASSUME NEW s \in Threads, pc'[s] \in Acquiring PROVE p_'[dst'[s]] = Null
    BY DEF EmptyWhileAcquiring
  <1>0. /\ pc \in [Threads -> Labels] /\ dst \in [Threads -> Ptrs \cup {Null}]
        /\ p_ \in [Ptrs -> Nodes \cup {Null}] /\ Stored
        /\ pc[s] \in Acquiring => p_[dst[s]] = Null
    BY DEF OwnerInv, CallInv, Shape, EmptyWhileAcquiring
  <1>u. CASE UNCHANGED vars
    BY <1>0, <1>u DEF vars, call, objs
  <1> USE <1>0 DEF Acquiring, objs, call
  <1>1. ASSUME NEW t \in Threads, NEW x \in Ptrs,
               Construct(t, x) \/ ConstructNull(t, x) \/ Acquire(t, x)
        PROVE  p_'[dst'[s]] = Null
    BY <1>1 DEF Construct, ConstructNull, Acquire, Begin, Stored
  <1>2. ASSUME NEW t \in Threads, NEW x \in Ptrs, NEW y \in Ptrs,
               Release(t, x) \/ Destroy(t, x) \/ MoveAssign(t, x, y) \/ CopyAssign(t, x, y)
        PROVE  p_'[dst'[s]] = Null
    BY <1>2 DEF Release, Destroy, MoveAssign, CopyAssign, BeginRelease, Begin
  <1>3. ASSUME NEW t \in Threads, NEW x \in Ptrs, NEW y \in Ptrs,
               CopyConstruct(t, x, y) \/ MoveConstruct(t, x, y)
        PROVE  p_'[dst'[s]] = Null
    <2>1. pc[s] \in Acquiring /\ dst'[s] = dst[s] /\ p_[dst[s]] = Null /\ x \notin live
      BY <1>3 DEF CopyConstruct, MoveConstruct
    <2>2. dst[s] \in Ptrs /\ dst[s] \in live
      BY <2>1, CallerAlone
    <2> QED BY <1>3, <2>1, <2>2 DEF CopyConstruct, MoveConstruct
  <1>4. ASSUME NEW t \in Threads,
               \/ AcqLock(t) \/ AcqPop(t) \/ AcqNew(t) \/ AcqInc(t) \/ AcqUnlock(t)
        PROVE  p_'[dst'[s]] = Null
    BY <1>4 DEF AcqLock, AcqPop, AcqNew, AcqInc, AcqUnlock, Lock, Unlock, Goto
  <1>5. ASSUME NEW t \in Threads, RelDec(t) \/ RelLock(t) \/ RelPush(t) \/ RelUnlock(t)
        PROVE  p_'[dst'[s]] = Null
    BY <1>5 DEF RelDec, RelLock, RelPush, RelUnlock, Lock, Unlock, Goto
  <1>6. ASSUME NEW t \in Threads, AcqReturn(t) \/ Finish(t)
        PROVE  p_'[dst'[s]] = Null
    <2>1. s # t /\ pc[s] \in Acquiring /\ dst'[s] = dst[s] /\ p_[dst[s]] = Null
      BY <1>6 DEF AcqReturn, Finish, Return
    <2>2. dst[s] \in Ptrs /\ dst[s] # dst[t]
      BY <1>6, <2>1, CallerAlone DEF AcqReturn, Finish
    <2> QED
      BY <1>6, <2>1, <2>2 DEF AcqReturn, Finish, FinishRelease, FinishDestroy, FinishMoveAssign,
                              FinishCopyAssign
  <1>7. CASE DestroyBin
    BY <1>7 DEF DestroyBin
  <1> QED
    BY <1>u, <1>1, <1>2, <1>3, <1>4, <1>5, <1>6, <1>7, ZenonT(40) DEF Next, Enter, Step

\* A node in transit is not counted until it is granted.
LEMMA UncountedNext ==
  ASSUME OwnerInv, [Next]_vars
  PROVE  UncountedInTransit'
  <1> SUFFICES ASSUME NEW s \in Threads, pc'[s] \in Transit
               PROVE  u'[s] \in alloc' /\ refs'[u'[s]] = 0
    BY DEF UncountedInTransit
  <1>0. /\ alloc \subseteq Nodes /\ refs \in [Nodes -> Int] /\ pc \in [Threads -> Labels]
        /\ u \in [Threads -> Nodes \cup {Null}] /\ p_ \in [Ptrs -> Nodes \cup {Null}]
        /\ pc[s] \in Transit => u[s] \in alloc /\ refs[u[s]] = 0
    BY DEF OwnerInv, CallInv, Shape, UncountedInTransit
  <1> USE <1>0, NullAssumption DEF Transit, mem, objs, call
  <1>1. ASSUME NEW t \in Threads, NEW x \in Ptrs, NEW y \in Ptrs,
               \/ Construct(t, x) \/ ConstructNull(t, x) \/ Acquire(t, x) \/ Release(t, x)
               \/ Destroy(t, x) \/ MoveAssign(t, x, y) \/ CopyAssign(t, x, y)
        PROVE  u'[s] \in alloc' /\ refs'[u'[s]] = 0
    BY <1>1 DEF Construct, ConstructNull, Acquire, Release, Destroy, MoveAssign, CopyAssign,
                BeginRelease, Begin
  <1>2. ASSUME NEW t \in Threads, NEW x \in Ptrs, NEW y \in Ptrs, CopyConstruct(t, x, y)
        PROVE  u'[s] \in alloc' /\ refs'[u'[s]] = 0
    <2>1. p_[y] # Null => refs[p_[y]] # 0
      BY <1>2, QuietOwns, StoredIsCounted DEF CopyConstruct
    <2> QED BY <1>2, <2>1 DEF CopyConstruct
  <1>3. ASSUME NEW t \in Threads, NEW x \in Ptrs, NEW y \in Ptrs, MoveConstruct(t, x, y)
        PROVE  u'[s] \in alloc' /\ refs'[u'[s]] = 0
    BY <1>3 DEF MoveConstruct
  <1>4. ASSUME NEW t \in Threads, AcqLock(t) \/ AcqUnlock(t) \/ RelLock(t) \/ RelUnlock(t)
                                    \/ RelPush(t)
        PROVE  u'[s] \in alloc' /\ refs'[u'[s]] = 0
    BY <1>4 DEF AcqLock, AcqUnlock, RelLock, RelUnlock, RelPush, Lock, Unlock, Goto
  <1>5. ASSUME NEW t \in Threads, AcqPop(t)
        PROVE  u'[s] \in alloc' /\ refs'[u'[s]] = 0
    <2>1. Free(head_)
      BY <1>5 DEF AcqPop, OwnerInv, ListInv
    <2> QED BY <1>5, <2>1 DEF AcqPop, Free
  <1>6. ASSUME NEW t \in Threads, AcqNew(t)
        PROVE  u'[s] \in alloc' /\ refs'[u'[s]] = 0
    BY <1>6 DEF AcqNew
  <1>7. ASSUME NEW t \in Threads, AcqInc(t)
        PROVE  u'[s] \in alloc' /\ refs'[u'[s]] = 0
    BY <1>7 DEF AcqInc, Goto, OwnerInv, OneCarrier
  <1>8. ASSUME NEW t \in Threads, RelDec(t)
        PROVE  u'[s] \in alloc' /\ refs'[u'[s]] = 0
    <2>1. PICK x \in Ptrs, n \in Nodes : x = dst[t] /\ n = p_[x] /\ Loses(x, n)
      BY <1>8, RelDecOwners
    <2>2. n \in alloc /\ refs[n] # 0
      BY <2>1, StoredIsCounted DEF Loses
    <2> QED BY <1>8, <2>1, <2>2 DEF RelDec
  <1>9. ASSUME NEW t \in Threads, AcqReturn(t)
        PROVE  u'[s] \in alloc' /\ refs'[u'[s]] = 0
    BY <1>9 DEF AcqReturn, Return
  <1>10. ASSUME NEW t \in Threads, Finish(t)
         PROVE  u'[s] \in alloc' /\ refs'[u'[s]] = 0
    <2>1. FinishCopyAssign(t) /\ p_[src[t]] # Null =>
             p_[src[t]] \in Nodes /\ refs[p_[src[t]]] # 0
      BY <1>10, SourceOwns, StoredIsCounted
    <2> QED
      BY <1>10, <2>1 DEF Finish, FinishRelease, FinishDestroy, FinishMoveAssign,
                                   FinishCopyAssign, Return
  <1>11. CASE DestroyBin
    BY <1>11 DEF DestroyBin, InCall
  <1>12. CASE UNCHANGED vars
    BY <1>12 DEF vars
  <1> QED
    BY <1>1, <1>2, <1>3, <1>4, <1>5, <1>6, <1>7, <1>8, <1>9, <1>10, <1>11, <1>12, ZenonT(40)
       DEF Next, Enter, Step

\* Two threads never carry the same node.
LEMMA OneCarrierNext ==
  ASSUME OwnerInv, [Next]_vars
  PROVE  OneCarrier'
  <1>0. /\ pc \in [Threads -> Labels] /\ u \in [Threads -> Nodes \cup {Null}]
        /\ OneCarrier
    BY DEF OwnerInv, CallInv, Shape
  <1>00. \A s \in Threads : pc[s] \in Transit => u[s] \in alloc /\ refs[u[s]] = 0
    BY DEF OwnerInv, UncountedInTransit
  <1> USE <1>0, <1>00 DEF OneCarrier, Transit, call
  <1>1. ASSUME NEW t \in Threads, Enter(t)
        PROVE  OneCarrier'
    <2>1. CASE UNCHANGED call
      BY <2>1
    <2>2. ASSUME NEW l \in {"acqLock", "relDec", "finish"}, pc' = [pc EXCEPT ![t] = l], u' = u
          PROVE  OneCarrier'
      BY <2>2
    <2>3. UNCHANGED call \/ \E l \in {"acqLock", "relDec", "finish"} :
                               pc' = [pc EXCEPT ![t] = l] /\ u' = u
      <3> HIDE <1>0, <1>00 DEF call
      <3> QED
        BY <1>1 DEF Enter, Construct, ConstructNull, CopyConstruct, MoveConstruct, Acquire,
                    Release, Destroy, MoveAssign, CopyAssign, BeginRelease, Begin
    <2> QED BY <2>1, <2>2, <2>3, Zenon
  <1>2. ASSUME NEW t \in Threads,
               \/ AcqLock(t) \/ AcqNew(t) \/ AcqInc(t) \/ AcqUnlock(t) \/ AcqReturn(t)
               \/ RelLock(t) \/ RelPush(t) \/ RelUnlock(t) \/ Finish(t)
        PROVE  OneCarrier'
    <2>1. CASE AcqLock(t) \/ AcqNew(t) \/ AcqInc(t) \/ AcqUnlock(t)
      BY <2>1 DEF AcqLock, AcqNew, AcqInc, AcqUnlock, Lock, Unlock, Goto
    <2>2. CASE RelLock(t) \/ RelPush(t) \/ RelUnlock(t)
      BY <2>2 DEF RelLock, RelPush, RelUnlock, Lock, Unlock, Goto
    <2>3. CASE AcqReturn(t) \/ Finish(t)
      BY <2>3 DEF AcqReturn, Finish, Return
    <2> QED
      BY <1>2, <2>1, <2>2, <2>3, Zenon
  <1>3. ASSUME NEW t \in Threads, AcqPop(t)
        PROVE  OneCarrier'
    <2>1. \A s \in Threads : pc[s] \in Transit => u[s] # head_
      BY <1>3 DEF AcqPop, OwnerInv, ListInv, Free, InTransit
    <2> QED BY <1>3, <2>1 DEF AcqPop
  <1>4. ASSUME NEW t \in Threads, RelDec(t)
        PROVE  OneCarrier'
    <2>1. PICK x \in Ptrs, n \in Nodes : x = dst[t] /\ n = p_[x] /\ Loses(x, n)
      BY <1>4, RelDecOwners
    <2>2. refs[n] # 0
      BY <2>1, StoredIsCounted DEF Loses
    <2>3. \A s \in Threads : pc[s] \in Transit => u[s] # n
      BY <2>2
    <2> QED BY <1>4, <2>1, <2>3 DEF RelDec
  <1>5. CASE DestroyBin \/ UNCHANGED vars
    BY <1>5 DEF DestroyBin, vars
  <1> QED
    BY <1>1, <1>2, <1>3, <1>4, <1>5 DEF Next, Step

\* A node that has been granted stays with the handle it was granted to: no
\* other step changes its owners.
LEMMA GrantUndisturbed ==
  ASSUME OwnerInv, [Next]_vars, NEW s \in Threads, NEW n \in Nodes, n = u[s],
         pc[s] \in {"acqUnlock", "acqReturn"}, pc'[s] # "idle"
  PROVE  Holders(n)' = Holders(n)
  <1>1. /\ dst[s] \in Ptrs /\ Holders(n) = {dst[s]} /\ n \in alloc /\ refs[n] # 0
        /\ ~Readable(dst[s])
    BY CallerAlone, OwnedIffCounted
       DEF OwnerInv, AloneWhenGranted, Readable, Writes, InCall
  <1> USE DEF mem, objs, call
  <1>2. ASSUME NEW t \in Threads, NEW x \in Ptrs, NEW y \in Ptrs,
               \/ Construct(t, x) \/ ConstructNull(t, x) \/ Acquire(t, x) \/ Release(t, x)
               \/ Destroy(t, x) \/ MoveAssign(t, x, y) \/ CopyAssign(t, x, y)
        PROVE  Holders(n)' = Holders(n)
    BY <1>2, EnterOwners DEF SameOwners
  <1>3. ASSUME NEW t \in Threads, NEW x \in Ptrs, NEW y \in Ptrs, CopyConstruct(t, x, y)
        PROVE  Holders(n)' = Holders(n)
    <2>1. y \in Ptrs /\ Readable(y)
      BY <1>3 DEF CopyConstruct
    <2>2. p_[y] # n
      BY <1>1, <2>1, QuietOwns
    <2> QED BY <1>3, <2>2, CopyConstructOwners DEF SameOwners, Gains
  <1>4. ASSUME NEW t \in Threads, NEW x \in Ptrs, NEW y \in Ptrs, MoveConstruct(t, x, y)
        PROVE  Holders(n)' = Holders(n)
    <2>1. y \in Ptrs /\ Readable(y)
      BY <1>4 DEF MoveConstruct, Writable
    <2>2. p_[y] # n
      BY <1>1, <2>1, QuietOwns
    <2> QED BY <1>4, <2>2, MoveConstructOwners DEF SameOwners, TakesOver
  <1>5. ASSUME NEW t \in Threads,
               AcqLock(t) \/ AcqPop(t) \/ AcqUnlock(t) \/ RelLock(t) \/ RelPush(t) \/ RelUnlock(t)
        PROVE  Holders(n)' = Holders(n)
    BY <1>5, GotoOwners DEF SameOwners, OwnerInv
  <1>6. ASSUME NEW t \in Threads, AcqNew(t)
        PROVE  Holders(n)' = Holders(n)
    <2>1. PICK m \in Nodes \ alloc : u' = [u EXCEPT ![t] = m]
      BY <1>6, ZenonT(40) DEF AcqNew
    <2>2. PICK x \in Ptrs : Gains(x, m)
      BY <1>6, <2>1, GrantOwners, ZenonT(40) DEF AcqNew
    <2> QED BY <1>1, <2>1, <2>2 DEF Gains
  <1>7. ASSUME NEW t \in Threads, AcqInc(t)
        PROVE  Holders(n)' = Holders(n)
    <2>1. PICK m \in Nodes : m = u[t] /\ refs[m] = 0
      BY <1>7 DEF AcqInc, OwnerInv, UncountedInTransit, Transit, CallInv, Shape
    <2>2. PICK x \in Ptrs : Gains(x, m)
      BY <1>7, <2>1, GrantOwners, ZenonT(40) DEF AcqInc, Goto, OwnerInv, CallInv, Shape
    <2> QED BY <1>1, <2>1, <2>2 DEF Gains
  <1>8. ASSUME NEW t \in Threads, AcqReturn(t)
        PROVE  Holders(n)' = Holders(n)
    BY <1>8, AcqReturnOwners DEF SameOwners
  <1>9. ASSUME NEW t \in Threads, RelDec(t)
        PROVE  Holders(n)' = Holders(n)
    <2>1. PICK x \in Ptrs, m \in Nodes : x = dst[t] /\ m = p_[x] /\ Loses(x, m)
      BY <1>9, RelDecOwners
    <2>2. dst[t] # dst[s]
      BY <1>9, CallerAlone DEF RelDec
    <2> QED BY <1>1, <2>1, <2>2 DEF Loses
  <1>10. ASSUME NEW t \in Threads, Finish(t)
         PROVE  Holders(n)' = Holders(n)
    <2>1. CASE FinishRelease(t) \/ FinishDestroy(t)
      BY <1>10, <2>1, FinishReleaseOwners DEF SameOwners
    <2>2. CASE FinishMoveAssign(t) \/ FinishCopyAssign(t)
      <3>1. src[t] \in Ptrs /\ \A m \in Nodes : src[t] \in Holders(m) <=> p_[src[t]] = m
        BY <1>10, <2>2, SourceOwns
      <3>2. dst[s] # src[t]
        BY <1>10, <3>1 DEF Finish, OwnerInv, CallInv, NoConflict
      <3>3. p_[src[t]] # n
        BY <1>1, <3>1, <3>2
      <3> QED
        BY <1>10, <2>2, <3>3, FinishMoveOwners, FinishCopyOwners
           DEF SameOwners, Gains, TakesOver
    <2> QED BY <1>10, <2>1, <2>2 DEF Finish
  <1>11. CASE DestroyBin
    BY <1>11 DEF DestroyBin, InCall
  <1>12. CASE UNCHANGED vars
    BY <1>12 DEF vars, Holders, Refers
  <1> QED
    BY <1>2, <1>3, <1>4, <1>5, <1>6, <1>7, <1>8, <1>9, <1>10, <1>11, <1>12, ZenonT(40)
       DEF Next, Enter, Step

\* How a call comes to hold a granted node: it is granted one, or holds it
\* already.
LEMMA GrantControl ==
  ASSUME CallInv, [Next]_vars, NEW s \in Threads, pc'[s] \in {"acqUnlock", "acqReturn"}
  PROVE  \/ AcqNew(s) \/ AcqInc(s)
         \/ /\ pc[s] \in {"acqUnlock", "acqReturn"}
            /\ u'[s] = u[s] /\ dst'[s] = dst[s] /\ alloc \subseteq alloc'
  <1> USE DEF CallInv, Shape, mem, objs, call
  <1> DEFINE Holds == /\ pc[s] \in {"acqUnlock", "acqReturn"}
                      /\ u'[s] = u[s] /\ dst'[s] = dst[s] /\ alloc \subseteq alloc'
  <1>1. ASSUME NEW t \in Threads, Enter(t)
        PROVE  Holds
    <2>1. ASSUME NEW x \in Ptrs, Construct(t, x) \/ Acquire(t, x) \/ ConstructNull(t, x)
          PROVE  Holds
      BY <2>1 DEF Construct, ConstructNull, Acquire, Begin, InCall
    <2>2. ASSUME NEW x \in Ptrs, NEW y \in Ptrs,
                 \/ Release(t, x) \/ Destroy(t, x) \/ MoveAssign(t, x, y) \/ CopyAssign(t, x, y)
          PROVE  Holds
      BY <2>2 DEF Release, Destroy, MoveAssign, CopyAssign, BeginRelease, Begin, InCall
    <2>3. ASSUME NEW x \in Ptrs, NEW y \in Ptrs, CopyConstruct(t, x, y) \/ MoveConstruct(t, x, y)
          PROVE  Holds
      BY <2>3 DEF CopyConstruct, MoveConstruct
    <2> QED
      BY <1>1, <2>1, <2>2, <2>3, Zenon DEF Enter
  <1>2. ASSUME NEW t \in Threads, AcqNew(t) \/ AcqInc(t)
        PROVE  t = s \/ Holds
    BY <1>2 DEF AcqNew, AcqInc, Goto
  <1>3. ASSUME NEW t \in Threads, AcqLock(t) \/ AcqPop(t) \/ AcqUnlock(t) \/ AcqReturn(t)
        PROVE  Holds
    BY <1>3 DEF AcqLock, AcqPop, AcqUnlock, AcqReturn, Lock, Unlock, Goto, Return
  <1>4. ASSUME NEW t \in Threads, RelDec(t) \/ RelLock(t) \/ RelPush(t) \/ RelUnlock(t)
                                    \/ Finish(t)
        PROVE  Holds
    BY <1>4 DEF RelDec, RelLock, RelPush, RelUnlock, Lock, Unlock, Goto, Finish, Return
  <1>5. CASE DestroyBin \/ UNCHANGED vars
    BY <1>5 DEF DestroyBin, InCall, vars
  <1> QED
    BY <1>1, <1>2, <1>3, <1>4, <1>5, ZenonT(40) DEF Next, Step

\* What is granted stays with its one owner until acquire returns.
LEMMA AloneNext ==
  ASSUME OwnerInv, [Next]_vars
  PROVE  AloneWhenGranted'
  <1> SUFFICES ASSUME NEW s \in Threads, pc'[s] \in {"acqUnlock", "acqReturn"},
                      NEW n, n = u'[s], NEW x, x = dst'[s]
               PROVE  n \in alloc' /\ Holders(n)' = {x}
    BY DEF AloneWhenGranted
  <1>0. u \in [Threads -> Nodes \cup {Null}] /\ alloc \subseteq Nodes /\ CallInv
    BY DEF OwnerInv, CallInv, Shape
  <1> USE DEF objs
  <1>1. CASE /\ pc[s] \in {"acqUnlock", "acqReturn"}
             /\ u'[s] = u[s] /\ dst'[s] = dst[s] /\ alloc \subseteq alloc'
    <2>1. n \in Nodes /\ n \in alloc /\ Holders(n) = {x}
      BY <1>0, <1>1 DEF OwnerInv, AloneWhenGranted
    <2>2. Holders(n)' = Holders(n)
      BY <1>1, <2>1, GrantUndisturbed
    <2> QED BY <1>1, <2>1, <2>2
  <1>2. CASE AcqNew(s)
    <2>1. n \in Nodes \ alloc /\ n \in alloc' /\ u' = [u EXCEPT ![s] = n]
      BY <1>0, <1>2 DEF AcqNew
    <2>2. PICK y \in Ptrs : y = dst[s] /\ Gains(y, n)
      BY <1>2, <2>1, GrantOwners, ZenonT(40) DEF AcqNew
    <2>3. Holders(n) = {}
      BY <2>1, OwnedIsAllocated
    <2> QED BY <1>2, <2>1, <2>2, <2>3 DEF Gains, AcqNew
  <1>3. CASE AcqInc(s)
    <2>1. n = u[s] /\ x = dst[s] /\ alloc' = alloc
      BY <1>3 DEF AcqInc, Goto
    <2>2. n \in alloc /\ n \in Nodes /\ Holders(n) = {}
      BY <1>0, <1>3, <2>1, OwnedIffCounted DEF AcqInc, OwnerInv, UncountedInTransit, Transit
    <2>3. PICK y \in Ptrs : y = dst[s] /\ Gains(y, n)
      BY <1>0, <1>3, <2>1, <2>2, GrantOwners, ZenonT(40) DEF AcqInc, Goto
    <2> QED BY <2>1, <2>2, <2>3 DEF Gains
  <1> QED
    BY <1>0, <1>1, <1>2, <1>3, GrantControl, ZenonT(40)
=============================================================================
