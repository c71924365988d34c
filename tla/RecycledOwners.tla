--------------------------- MODULE RecycledOwners ---------------------------
(***************************************************************************)
(* Recycled, for any number of threads, handles and nodes: who may be in   *)
(* which call, the mutex, and what each step does to the owners of a node. *)
(***************************************************************************)
EXTENDS Recycled, TLAPS

-----------------------------------------------------------------------------
(* Calls: what a thread is doing, and with which objects.                   *)

\* The shape of the state that does not depend on the counts being right.
Shape ==
    /\ head_ \in Nodes \cup {Null}
    /\ m_ \in Threads \cup {Null}
    /\ alloc \subseteq Nodes
    /\ next \in [Nodes -> Nodes \cup {Null}]
    /\ refs \in [Nodes -> Int]
    /\ live \subseteq Ptrs
    /\ p_ \in [Ptrs -> Nodes \cup {Null}]
    /\ pc \in [Threads -> Labels]
    /\ op \in [Threads -> Ops]
    /\ dst \in [Threads -> Ptrs \cup {Null}]
    /\ src \in [Threads -> Ptrs \cup {Null}]
    /\ u \in [Threads -> Nodes \cup {Null}]

Acquiring == {"acqLock", "acqPop", "acqInc", "acqUnlock", "acqReturn"}
Releasing == {"relDec", "relLock", "relPush", "relUnlock", "finish"}

\* A thread inside a call has a live *this, and an other when it assigns.
CallShape ==
    \A t \in Threads :
        /\ pc[t] = "idle" => op[t] = "none" /\ dst[t] = Null /\ src[t] = Null /\ u[t] = Null
        /\ pc[t] \in Acquiring => op[t] = "acquire" /\ dst[t] \in live /\ src[t] = Null
        /\ pc[t] \in Releasing => dst[t] \in live
        /\ pc[t] \in Releasing =>
              \/ op[t] \in {"release", "destroy"} /\ src[t] = Null
              \/ op[t] \in {"moveAssign", "copyAssign"} /\ src[t] \in live
        /\ pc[t] \in {"acqInc", "acqUnlock", "acqReturn", "relLock", "relPush", "relUnlock"}
              => u[t] \in Nodes
        /\ pc[t] = "relDec" => p_[dst[t]] \in Nodes

\* No two calls in progress share an object that one of them writes.
NoConflict ==
    \A s, t \in Threads :
        s # t /\ pc[s] # "idle" /\ pc[t] # "idle" =>
            /\ dst[s] # dst[t]
            /\ dst[s] # src[t]
            /\ op[s] = "moveAssign" => src[s] # src[t]

CallInv == Shape /\ CallShape /\ NoConflict

\* Nobody is in a call at first.
LEMMA CallInvInit == Init => CallInv
  BY NullAssumption DEF Init, CallInv, Shape, CallShape, NoConflict, Labels, Ops,
     Acquiring, Releasing

\* Every step keeps the calls well formed and free of conflicts.
LEMMA CallInvNext == CallInv /\ [Next]_vars => CallInv'
  <1> SUFFICES ASSUME CallInv, [Next]_vars PROVE CallInv'
    OBVIOUS
  <1> USE NullAssumption DEF CallInv, Shape, mem, objs, call, Labels, Ops
  <1>1. ASSUME NEW t \in Threads, NEW x \in Ptrs,
               Construct(t, x) \/ Acquire(t, x) \/ Release(t, x) \/ Destroy(t, x)
        PROVE  CallInv'
    <2> USE <1>1 DEF Construct, Acquire, Release, Destroy, BeginRelease, Begin,
                    InCall, Writable, Readable
    <2>1. Shape'
      OBVIOUS
    <2>2. CallShape'
      BY DEF CallShape, Acquiring, Releasing
    <2>3. NoConflict'
      BY DEF NoConflict, Writes, Reads, CallShape, Acquiring, Releasing
    <2> QED BY <2>1, <2>2, <2>3
  <1>2. ASSUME NEW t \in Threads, NEW x \in Ptrs, NEW y \in Ptrs,
               MoveAssign(t, x, y) \/ CopyAssign(t, x, y)
        PROVE  CallInv'
    <2> USE <1>2 DEF MoveAssign, CopyAssign, BeginRelease, Begin,
                    InCall, Writable, Readable
    <2>1. Shape'
      OBVIOUS
    <2>2. CallShape'
      BY DEF CallShape, Acquiring, Releasing
    <2>3. NoConflict'
      BY DEF NoConflict, Writes, Reads, CallShape, Acquiring, Releasing
    <2> QED BY <2>1, <2>2, <2>3
  <1>3. ASSUME NEW t \in Threads, NEW x \in Ptrs, NEW y \in Ptrs,
               ConstructNull(t, x) \/ CopyConstruct(t, x, y) \/ MoveConstruct(t, x, y)
        PROVE  CallInv'
    BY <1>3 DEF ConstructNull, CopyConstruct, MoveConstruct, Writable, Readable,
                Writes, Reads, InCall, CallShape, NoConflict, Acquiring, Releasing
  <1>4. ASSUME NEW t \in Threads,
               AcqLock(t) \/ AcqPop(t) \/ AcqNew(t) \/ AcqInc(t) \/ AcqUnlock(t)
        PROVE  CallInv'
    <2>1. CASE AcqLock(t) \/ AcqUnlock(t)
      BY <2>1 DEF AcqLock, AcqUnlock, Lock, Unlock, Goto, CallShape, NoConflict, Acquiring, Releasing
    <2>2. CASE AcqPop(t) \/ AcqInc(t)
      BY <2>2 DEF AcqPop, AcqInc, Goto, CallShape, NoConflict, Acquiring, Releasing
    <2>3. CASE AcqNew(t)
      BY <2>3 DEF AcqNew, CallShape, NoConflict, Acquiring, Releasing
    <2> QED BY <1>4, <2>1, <2>2, <2>3
  <1>5. ASSUME NEW t \in Threads, AcqReturn(t)
        PROVE  CallInv'
    BY <1>5 DEF AcqReturn, Return, CallShape, NoConflict, Acquiring, Releasing
  <1>6. ASSUME NEW t \in Threads,
               RelDec(t) \/ RelLock(t) \/ RelPush(t) \/ RelUnlock(t)
        PROVE  CallInv'
    <2>1. CASE RelDec(t) \/ RelPush(t)
      BY <2>1 DEF RelDec, RelPush, Goto, CallShape, NoConflict, Acquiring, Releasing
    <2>2. CASE RelLock(t) \/ RelUnlock(t)
      BY <2>2 DEF RelLock, RelUnlock, Lock, Unlock, Goto, CallShape, NoConflict, Acquiring, Releasing
    <2> QED BY <1>6, <2>1, <2>2
  <1>7. ASSUME NEW t \in Threads, Finish(t)
        PROVE  CallInv'
    <2> USE <1>7 DEF Finish, FinishRelease, FinishDestroy, FinishMoveAssign,
                    FinishCopyAssign, Return
    <2>1. Shape'
      BY DEF CallShape, Acquiring, Releasing
    <2>2. CallShape'
      BY DEF CallShape, NoConflict, Acquiring, Releasing
    <2>3. NoConflict'
      BY DEF NoConflict
    <2> QED BY <2>1, <2>2, <2>3
  <1>8. CASE DestroyBin
    BY <1>8 DEF DestroyBin, CallShape, NoConflict, Acquiring, Releasing
  <1>9. CASE UNCHANGED vars
    BY <1>9 DEF vars, CallShape, NoConflict, Acquiring, Releasing
  <1> QED
    BY <1>1, <1>2, <1>3, <1>4, <1>5, <1>6, <1>7, <1>8, <1>9 DEF Next, Enter, Step

-----------------------------------------------------------------------------
(* The mutex.                                                               *)

\* Nobody holds the lock at first.
LEMMA MutexInit == Init => MutualExclusion
  BY NullAssumption DEF Init, MutualExclusion, Critical

\* Lock and Unlock are the only steps that enter or leave a guarded section.
LEMMA MutexNext == CallInv /\ MutualExclusion /\ [Next]_vars => MutualExclusion'
  <1> SUFFICES ASSUME CallInv, MutualExclusion, [Next]_vars PROVE MutualExclusion'
    OBVIOUS
  <1> USE NullAssumption DEF CallInv, Shape, MutualExclusion, Critical, mem, objs, call
  <1>1. ASSUME NEW t \in Threads, Enter(t) PROVE MutualExclusion'
    <2> USE DEF Begin, InCall
    <2>1. ASSUME NEW x \in Ptrs, Construct(t, x) \/ ConstructNull(t, x) \/ Acquire(t, x)
          PROVE  MutualExclusion'
      BY <2>1 DEF Construct, ConstructNull, Acquire
    <2>2. ASSUME NEW x \in Ptrs, Release(t, x) \/ Destroy(t, x)
          PROVE  MutualExclusion'
      BY <2>2 DEF Release, Destroy, BeginRelease
    <2>3. ASSUME NEW x \in Ptrs, NEW y \in Ptrs,
                 CopyConstruct(t, x, y) \/ MoveConstruct(t, x, y)
          PROVE  MutualExclusion'
      BY <2>3 DEF CopyConstruct, MoveConstruct
    <2>4. ASSUME NEW x \in Ptrs, NEW y \in Ptrs, MoveAssign(t, x, y) \/ CopyAssign(t, x, y)
          PROVE  MutualExclusion'
      BY <2>4 DEF MoveAssign, CopyAssign, BeginRelease
    <2> QED
      BY <1>1, <2>1, <2>2, <2>3, <2>4 DEF Enter
  <1>2. ASSUME NEW t \in Threads, Step(t) PROVE MutualExclusion'
    <2>1. CASE AcqLock(t) \/ RelLock(t)
      BY <2>1 DEF AcqLock, RelLock, Lock, Goto
    <2>2. CASE AcqUnlock(t) \/ RelUnlock(t)
      BY <2>2 DEF AcqUnlock, RelUnlock, Unlock, Goto
    <2>3. CASE AcqPop(t) \/ AcqNew(t) \/ AcqInc(t) \/ RelPush(t) \/ RelDec(t)
      BY <2>3 DEF AcqPop, AcqNew, AcqInc, RelPush, RelDec, Goto
    <2>4. CASE AcqReturn(t) \/ Finish(t)
      BY <2>4 DEF AcqReturn, Finish, Return
    <2> QED
      BY <1>2, <2>1, <2>2, <2>3, <2>4 DEF Step
  <1>3. CASE DestroyBin
    BY <1>3 DEF DestroyBin
  <1>4. CASE UNCHANGED vars
    BY <1>4 DEF vars
  <1> QED
    BY <1>1, <1>2, <1>3, <1>4 DEF Next

\* No two threads are inside the sections that recycled::m_ guards.
THEOREM MutualExclusionHolds == Spec => []MutualExclusion
  <1>1. Init => CallInv /\ MutualExclusion
    BY CallInvInit, MutexInit
  <1>2. CallInv /\ MutualExclusion /\ [Next]_vars => CallInv' /\ MutualExclusion'
    BY CallInvNext, MutexNext
  <1> QED
    BY <1>1, <1>2, PTL DEF Spec

-----------------------------------------------------------------------------
(* Owners: the counts are right and the list holds what nobody owns.        *)

Transit == {"acqInc", "relLock", "relPush"}

\* Stored addresses are allocated, and only living handles store one.
Stored ==
    \A x \in Ptrs :
        /\ x \notin live => p_[x] = Null
        /\ p_[x] # Null => p_[x] \in alloc

\* What a call knows of the node in its hands.
EmptyWhileAcquiring == \A t \in Threads : pc[t] \in Acquiring => p_[dst[t]] = Null
UncountedInTransit ==
    \A t \in Threads : pc[t] \in Transit => u[t] \in alloc /\ refs[u[t]] = 0
AloneWhenGranted ==
    \A t \in Threads :
        pc[t] \in {"acqUnlock", "acqReturn"} => u[t] \in alloc /\ Holders(u[t]) = {dst[t]}

\* A node in transit is in one pair of hands.
OneCarrier ==
    \A s, t \in Threads :
        pc[s] \in Transit /\ pc[t] \in Transit /\ u[s] = u[t] => s = t

Free(n) == n \in alloc /\ refs[n] = 0 /\ ~InTransit(n)

\* The list is built of free nodes only, and enters each of them at most once.
ListInv ==
    /\ head_ # Null => Free(head_)
    /\ \A n \in Nodes : Free(n) /\ next[n] # Null => Free(next[n]) /\ next[n] # head_
    /\ \A m, n \in Nodes :
          Free(m) /\ Free(n) /\ next[m] # Null /\ next[m] = next[n] => m = n

\* Every free node is on the list.
FreeOnList == \A n \in Nodes : Free(n) => n \in OnList

\* Nobody assigns a handle to itself.
Distinct == \A t \in Threads : pc[t] \in Releasing => dst[t] # src[t]

\* What counting handles relies on, which is so because they are finitely many.
HandlesCounted ==
    \A S \in SUBSET Ptrs :
        /\ Cardinality(S) \in Nat
        /\ Cardinality(S) = 0 <=> S = {}
        /\ \A x \in Ptrs \ S : Cardinality(S \cup {x}) = Cardinality(S) + 1

OwnerInv ==
    /\ HandlesCounted /\ CallInv /\ MutualExclusion /\ Distinct
    /\ Stored /\ EmptyWhileAcquiring /\ UncountedInTransit /\ AloneWhenGranted /\ OneCarrier
    /\ RefsCountOwners /\ ListInv /\ FreeOnList

\* An owned node has a positive count, an unowned one has count zero.
LEMMA OwnedIffCounted ==
  ASSUME HandlesCounted, RefsCountOwners, NEW n \in alloc
  PROVE  /\ refs[n] \in Nat
         /\ refs[n] = 0 <=> Holders(n) = {}
  <1>1. Holders(n) \in SUBSET Ptrs
    BY DEF Holders
  <1>2. Cardinality(Holders(n)) \in Nat /\ (Cardinality(Holders(n)) = 0 <=> Holders(n) = {})
    BY <1>1, Zenon DEF HandlesCounted
  <1> QED
    BY <1>2, Zenon DEF RefsCountOwners

-----------------------------------------------------------------------------
(* What each step does to the owners.                                       *)

\* The handle is inside a call that has given up its reference.
GivenUp(x) == \E t \in Threads : dst[t] = x /\ pc[t] \in Released

\* The acquire of the handle has taken n and not yet stored it.
Granted(x, n) ==
    \E t \in Threads : dst[t] = x /\ u[t] = n /\ pc[t] \in {"acqUnlock", "acqReturn"}

\* Ownership in terms of the two predicates above.
LEMMA RefersIs ==
  \A x \in Ptrs, n \in Nodes : Refers(x, n) <=> (p_[x] = n /\ ~GivenUp(x)) \/ Granted(x, n)
  BY DEF Refers, GivenUp, Granted

\* The same after a step.
LEMMA RefersIsNext ==
  \A x \in Ptrs, n \in Nodes :
      Refers(x, n)' <=> (p_'[x] = n /\ ~GivenUp(x)') \/ Granted(x, n)'
  BY DEF Refers, GivenUp, Granted

\* The owners of every node are what they were.
SameOwners == \A n \in Nodes : Holders(n)' = Holders(n)

\* A step that stores nothing, grants nothing and gives up nothing keeps the owners.
LEMMA OwnersKept ==
  ASSUME p_' = p_,
         \A x \in Ptrs : p_[x] # Null => (GivenUp(x)' <=> GivenUp(x)),
         \A x \in Ptrs, n \in Nodes : Granted(x, n)' <=> Granted(x, n)
  PROVE  SameOwners
  <1>1. \A x \in Ptrs, n \in Nodes : Refers(x, n)' <=> Refers(x, n)
    BY RefersIs, RefersIsNext, NullAssumption
  <1> QED
    BY <1>1 DEF SameOwners, Holders

\* Handle x becomes an owner of n, stops being one, or takes over from y.
Gains(x, n) ==
    /\ x \notin Holders(n) /\ Holders(n)' = Holders(n) \cup {x}
    /\ \A m \in Nodes : m # n => Holders(m)' = Holders(m)
Loses(x, n) ==
    /\ x \in Holders(n) /\ Holders(n)' = Holders(n) \ {x}
    /\ \A m \in Nodes : m # n => Holders(m)' = Holders(m)
TakesOver(x, y, n) ==
    /\ x \notin Holders(n) /\ y \in Holders(n) /\ Holders(n)' = (Holders(n) \ {y}) \cup {x}
    /\ \A m \in Nodes : m # n => Holders(m)' = Holders(m)

\* Steps of a call that stay on one side of the moments that matter.
LEMMA GotoOwners ==
  ASSUME CallInv, NEW t \in Threads,
         AcqLock(t) \/ AcqPop(t) \/ AcqUnlock(t) \/ RelLock(t) \/ RelPush(t) \/ RelUnlock(t)
  PROVE  SameOwners
  <1> USE DEF CallInv, Shape, AcqLock, AcqPop, AcqUnlock, RelLock, RelPush, RelUnlock,
              Lock, Unlock, Goto, objs
  <1>1. p_' = p_
    OBVIOUS
  <1>2. \A x \in Ptrs : GivenUp(x)' <=> GivenUp(x)
    BY DEF GivenUp, Released
  <1>3. \A x \in Ptrs, n \in Nodes : Granted(x, n)' <=> Granted(x, n)
    BY DEF Granted
  <1> QED
    BY <1>1, <1>2, <1>3, OwnersKept

\* Entering a member, or moving a handle, touches neither the bin nor a count.
LEMMA EnterMem ==
  ASSUME NEW t \in Threads, NEW x \in Ptrs, NEW y \in Ptrs,
         \/ Construct(t, x) \/ ConstructNull(t, x) \/ Acquire(t, x) \/ Release(t, x)
         \/ Destroy(t, x) \/ MoveAssign(t, x, y) \/ CopyAssign(t, x, y)
         \/ MoveConstruct(t, x, y)
  PROVE  UNCHANGED <<head_, m_, alloc, next, refs>>
  <1>1. UNCHANGED mem
    BY DEF Construct, ConstructNull, Acquire, Release, Destroy, MoveAssign, CopyAssign,
           MoveConstruct, BeginRelease
  <1> QED
    BY <1>1 DEF mem

\* Entering a member changes no owner: what it releases is still owned.
LEMMA EnterOwners ==
  ASSUME OwnerInv, NEW t \in Threads, NEW x \in Ptrs, NEW y \in Ptrs,
         \/ Construct(t, x) \/ ConstructNull(t, x) \/ Acquire(t, x) \/ Release(t, x)
         \/ Destroy(t, x) \/ MoveAssign(t, x, y) \/ CopyAssign(t, x, y)
  PROVE  SameOwners
  <1>0. /\ pc \in [Threads -> Labels] /\ dst \in [Threads -> Ptrs \cup {Null}]
        /\ pc[t] = "idle" => dst[t] = Null
    BY DEF OwnerInv, CallInv, Shape, CallShape
  <1>1. p_' = p_ /\ u' = u
    BY DEF Construct, ConstructNull, Acquire, Release, Destroy, MoveAssign, CopyAssign,
           BeginRelease, Begin, objs, call
  <1>2. \/ UNCHANGED call
        \/ \E l \in {"acqLock", "relDec", "finish"} :
              /\ pc[t] = "idle" /\ (l = "finish" => p_[x] = Null)
              /\ pc' = [pc EXCEPT ![t] = l] /\ dst' = [dst EXCEPT ![t] = x]
    BY DEF Construct, ConstructNull, Acquire, Release, Destroy, MoveAssign, CopyAssign,
           BeginRelease, Begin, InCall
  <1>3. \A z \in Ptrs : p_[z] # Null => (GivenUp(z)' <=> GivenUp(z))
    BY <1>0, <1>2, NullAssumption DEF GivenUp, Released, call
  <1>4. \A z \in Ptrs, n \in Nodes : Granted(z, n)' <=> Granted(z, n)
    BY <1>0, <1>1, <1>2 DEF Granted, call
  <1> QED
    BY <1>1, <1>3, <1>4, OwnersKept

\* A handle that is not alive owns nothing.
LEMMA DeadOwnsNothing ==
  ASSUME OwnerInv, NEW x \in Ptrs, x \notin live
  PROVE  ~GivenUp(x) /\ \A n \in Nodes : ~Granted(x, n) /\ x \notin Holders(n)
  <1>1. \A s \in Threads : dst[s] # x
    BY NullAssumption DEF OwnerInv, CallInv, Shape, CallShape, Acquiring, Releasing, Labels
  <1>2. p_[x] = Null
    BY DEF OwnerInv, Stored
  <1> QED
    BY <1>1, <1>2, NullAssumption, RefersIs DEF GivenUp, Granted, Holders

\* A handle that no call writes owns exactly what it stores.
LEMMA QuietOwns ==
  ASSUME OwnerInv, NEW x \in Ptrs, Readable(x)
  PROVE  /\ ~GivenUp(x) /\ \A n \in Nodes : ~Granted(x, n)
         /\ \A n \in Nodes : x \in Holders(n) <=> p_[x] = n
  <1>1. \A s \in Threads : dst[s] = x => pc[s] = "idle"
    BY DEF Readable, Writes, InCall
  <1>2. ~GivenUp(x) /\ \A n \in Nodes : ~Granted(x, n)
    BY <1>1 DEF GivenUp, Granted, Released
  <1> QED
    BY <1>2, RefersIs DEF Holders

\* The new handle joins the owners of what the source stores.
LEMMA CopyConstructOwners ==
  ASSUME OwnerInv, NEW t \in Threads, NEW x \in Ptrs, NEW y \in Ptrs, CopyConstruct(t, x, y)
  PROVE  \/ p_[y] = Null /\ SameOwners
         \/ \E n \in Nodes : n = p_[y] /\ Gains(x, n)
  <1>1. \A z \in Ptrs : GivenUp(z)' <=> GivenUp(z)
    BY DEF CopyConstruct, call, GivenUp
  <1>2. \A z \in Ptrs, n \in Nodes : Granted(z, n)' <=> Granted(z, n)
    BY DEF CopyConstruct, call, Granted
  <1>3. p_' = [p_ EXCEPT ![x] = p_[y]] /\ p_ \in [Ptrs -> Nodes \cup {Null}] /\ x \notin live
    BY DEF CopyConstruct, OwnerInv, CallInv, Shape
  <1>4. \A n \in Nodes : Holders(n)' = IF n = p_[y] THEN Holders(n) \cup {x} ELSE Holders(n)
    <2> TAKE n \in Nodes
    <2>1. \A z \in Ptrs : Refers(z, n)' <=> Refers(z, n) \/ (z = x /\ p_[y] = n)
      BY <1>1, <1>2, <1>3, RefersIs, RefersIsNext, DeadOwnsNothing DEF Holders
    <2> QED BY <2>1 DEF Holders
  <1>5. CASE p_[y] = Null
    BY <1>4, <1>5, NullAssumption DEF SameOwners
  <1>6. CASE p_[y] # Null
    <2>1. PICK n \in Nodes : n = p_[y]
      BY <1>3, <1>6
    <2>2. x \notin Holders(n)
      BY <1>3, DeadOwnsNothing
    <2>3. Gains(x, n)
      BY <1>4, <2>1, <2>2 DEF Gains
    <2> QED BY <2>1, <2>3
  <1> QED
    BY <1>5, <1>6

\* The new handle replaces the source among the owners.
LEMMA MoveConstructOwners ==
  ASSUME OwnerInv, NEW t \in Threads, NEW x \in Ptrs, NEW y \in Ptrs, MoveConstruct(t, x, y)
  PROVE  \/ p_[y] = Null /\ SameOwners
         \/ \E n \in Nodes : n = p_[y] /\ TakesOver(x, y, n)
  <1>1. \A z \in Ptrs : GivenUp(z)' <=> GivenUp(z)
    BY DEF MoveConstruct, call, GivenUp
  <1>2. \A z \in Ptrs, n \in Nodes : Granted(z, n)' <=> Granted(z, n)
    BY DEF MoveConstruct, call, Granted
  <1>3. /\ p_' = [p_ EXCEPT ![x] = p_[y], ![y] = Null]
        /\ p_ \in [Ptrs -> Nodes \cup {Null}] /\ x \notin live /\ y \in live /\ Readable(y)
    BY DEF MoveConstruct, OwnerInv, CallInv, Shape, Writable, Readable
  <1>4. \A n \in Nodes :
          Holders(n)' = IF n = p_[y] THEN (Holders(n) \ {y}) \cup {x} ELSE Holders(n)
    <2> TAKE n \in Nodes
    <2>1. \A z \in Ptrs : Refers(z, n)' <=> (Refers(z, n) /\ z # y) \/ (z = x /\ p_[y] = n)
      BY <1>1, <1>2, <1>3, RefersIs, RefersIsNext, DeadOwnsNothing, QuietOwns, NullAssumption
         DEF Holders
    <2>2. Refers(y, n) <=> p_[y] = n
      BY <1>3, QuietOwns DEF Holders
    <2> QED BY <2>1, <2>2 DEF Holders
  <1>5. CASE p_[y] = Null
    BY <1>4, <1>5, NullAssumption DEF SameOwners
  <1>6. CASE p_[y] # Null
    <2>1. PICK n \in Nodes : n = p_[y]
      BY <1>3, <1>6
    <2>2. x \notin Holders(n) /\ y \in Holders(n)
      BY <1>3, <2>1, DeadOwnsNothing, QuietOwns
    <2>3. TakesOver(x, y, n)
      BY <1>4, <2>1, <2>2 DEF TakesOver
    <2> QED BY <2>1, <2>3
  <1> QED
    BY <1>5, <1>6

\* Only one call is about a handle.
LEMMA CallerAlone ==
  ASSUME OwnerInv, NEW t \in Threads, pc[t] # "idle"
  PROVE  /\ dst[t] \in Ptrs /\ dst[t] \in live
         /\ \A s \in Threads : dst[s] = dst[t] => s = t
  <1>1. dst[t] \in Ptrs /\ dst[t] \in live
    BY NullAssumption DEF OwnerInv, CallInv, Shape, CallShape, Acquiring, Releasing, Labels
  <1> QED
    BY <1>1, NullAssumption DEF OwnerInv, CallInv, CallShape, NoConflict

\* A node that was never allocated, or was deleted, has no owner.
LEMMA OwnedIsAllocated ==
  ASSUME OwnerInv, NEW n \in Nodes, Holders(n) # {}
  PROVE  n \in alloc
  <1>1. PICK x \in Ptrs : Refers(x, n)
    BY DEF Holders
  <1>2. CASE p_[x] = n
    BY <1>2, NullAssumption DEF OwnerInv, Stored
  <1>3. CASE Granted(x, n)
    BY <1>3 DEF OwnerInv, AloneWhenGranted, Granted
  <1> QED
    BY <1>1, <1>2, <1>3, RefersIs

\* Until it is granted one, a handle that acquires owns nothing.
LEMMA AcquirerOwnsNothing ==
  ASSUME OwnerInv, NEW t \in Threads, pc[t] \in {"acqLock", "acqPop", "acqInc"}
  PROVE  /\ p_[dst[t]] = Null /\ ~GivenUp(dst[t])
         /\ \A n \in Nodes : ~Granted(dst[t], n) /\ dst[t] \notin Holders(n)
  <1>1. dst[t] \in Ptrs /\ \A s \in Threads : dst[s] = dst[t] => s = t
    BY CallerAlone
  <1>2. p_[dst[t]] = Null
    BY DEF OwnerInv, EmptyWhileAcquiring, Acquiring
  <1>3. ~GivenUp(dst[t]) /\ \A n \in Nodes : ~Granted(dst[t], n)
    BY <1>1 DEF GivenUp, Granted, Released
  <1> QED
    BY <1>1, <1>2, <1>3, NullAssumption, RefersIs DEF Holders

\* The two ways of being granted a node: from the list and from the heap.
LEMMA GrantOwners ==
  ASSUME OwnerInv, NEW t \in Threads, NEW n \in Nodes,
         pc[t] \in {"acqPop", "acqInc"}, pc' = [pc EXCEPT ![t] = "acqUnlock"],
         u' = [u EXCEPT ![t] = n], UNCHANGED <<p_, dst>>
  PROVE  \E x \in Ptrs : x = dst[t] /\ Gains(x, n)
  <1>1. PICK x \in Ptrs : x = dst[t]
    BY CallerAlone
  <1>2. \A z \in Ptrs : GivenUp(z)' <=> GivenUp(z)
    BY DEF GivenUp, Released, OwnerInv, CallInv, Shape
  <1>3. \A z \in Ptrs, m \in Nodes : Granted(z, m)' <=> Granted(z, m) \/ (z = x /\ m = n)
    BY <1>1, CallerAlone DEF Granted, OwnerInv, CallInv, Shape
  <1>4. /\ p_[x] = Null /\ ~GivenUp(x)
        /\ \A m \in Nodes : ~Granted(x, m) /\ x \notin Holders(m)
    BY <1>1, AcquirerOwnsNothing
  <1>5. \A m \in Nodes, z \in Ptrs : Refers(z, m)' <=> Refers(z, m) \/ (z = x /\ m = n)
    BY <1>2, <1>3, <1>4, RefersIs, RefersIsNext
  <1>6. Gains(x, n)
    BY <1>4, <1>5 DEF Gains, Holders
  <1> QED
    BY <1>1, <1>6

\* Storing a granted node changes no owner.
LEMMA AcqReturnOwners ==
  ASSUME OwnerInv, NEW t \in Threads, AcqReturn(t)
  PROVE  SameOwners
  <1>1. PICK x \in Ptrs : x = dst[t] /\ \A s \in Threads : dst[s] = x => s = t
    BY CallerAlone DEF AcqReturn
  <1> USE DEF OwnerInv, CallInv, Shape, AcqReturn, Return
  <1>2. \A z \in Ptrs : GivenUp(z)' <=> GivenUp(z)
    BY NullAssumption DEF GivenUp, Released
  <1>3. \A z \in Ptrs, m \in Nodes : z # x => (Granted(z, m)' <=> Granted(z, m))
    BY <1>1, NullAssumption DEF Granted
  <1>4. \A m \in Nodes : ~Granted(x, m)' /\ (Granted(x, m) <=> m = u[t])
    BY <1>1, NullAssumption DEF Granted
  <1>5. p_[x] = Null /\ p_' = [p_ EXCEPT ![x] = u[t]] /\ ~GivenUp(x)
    BY <1>1 DEF EmptyWhileAcquiring, Acquiring, GivenUp, Released
  <1>6. \A m \in Nodes, z \in Ptrs : Refers(z, m)' <=> Refers(z, m)
    BY <1>1, <1>2, <1>3, <1>4, <1>5, RefersIs, RefersIsNext, NullAssumption
  <1> QED
    BY <1>6 DEF SameOwners, Holders

\* The decrement is where a handle gives up its node.
LEMMA RelDecOwners ==
  ASSUME OwnerInv, NEW t \in Threads, RelDec(t)
  PROVE  \E x \in Ptrs, n \in Nodes : x = dst[t] /\ n = p_[x] /\ Loses(x, n)
  <1> USE DEF OwnerInv, CallInv, Shape, RelDec, objs
  <1>1. dst[t] \in Ptrs /\ \A s \in Threads : dst[s] = dst[t] => s = t
    BY CallerAlone
  <1>2. PICK x \in Ptrs, n \in Nodes : x = dst[t] /\ n = p_[x]
    BY <1>1 DEF CallShape
  <1>3. \A z \in Ptrs : GivenUp(z)' <=> GivenUp(z) \/ z = x
    BY <1>2 DEF GivenUp, Released
  <1>4. \A z \in Ptrs, m \in Nodes : Granted(z, m)' <=> Granted(z, m)
    BY DEF Granted
  <1>5. ~GivenUp(x) /\ \A m \in Nodes : ~Granted(x, m)
    BY <1>1, <1>2 DEF GivenUp, Granted, Released
  <1>6. \A m \in Nodes, z \in Ptrs : Refers(z, m)' <=> Refers(z, m) /\ z # x
    BY <1>2, <1>3, <1>4, <1>5, RefersIs, RefersIsNext
  <1>7. \A m \in Nodes : Refers(x, m) <=> m = n
    BY <1>2, <1>5, RefersIs
  <1>8. Loses(x, n)
    BY <1>6, <1>7 DEF Loses, Holders
  <1> QED
    BY <1>2, <1>8

\* The end of a call that releases: its handle owns nothing, and takes what
\* the assignment gives it.
LEMMA FinisherOwnsNothing ==
  ASSUME OwnerInv, NEW t \in Threads, Finish(t), NEW x \in Ptrs, x = dst[t]
  PROVE  /\ GivenUp(x) /\ ~GivenUp(x)'
         /\ \A z \in Ptrs : z # x => (GivenUp(z)' <=> GivenUp(z))
         /\ \A z \in Ptrs, m \in Nodes : Granted(z, m)' <=> Granted(z, m)
         /\ \A m \in Nodes : ~Granted(x, m) /\ x \notin Holders(m)
  <1>1. \A s \in Threads : dst[s] = x => s = t
    BY CallerAlone DEF Finish
  <1> USE DEF OwnerInv, CallInv, Shape, Finish, Return
  <1>2. GivenUp(x) /\ ~GivenUp(x)' /\ \A z \in Ptrs : z # x => (GivenUp(z)' <=> GivenUp(z))
    BY <1>1, NullAssumption DEF GivenUp, Released
  <1>3. \A z \in Ptrs, m \in Nodes : Granted(z, m)' <=> Granted(z, m)
    BY NullAssumption DEF Granted
  <1>4. \A m \in Nodes : ~Granted(x, m)
    BY <1>1 DEF Granted
  <1> QED
    BY <1>2, <1>3, <1>4, RefersIs DEF Holders

\* Forgetting a node that was given up changes no owner.
LEMMA FinishReleaseOwners ==
  ASSUME OwnerInv, NEW t \in Threads, Finish(t), FinishRelease(t) \/ FinishDestroy(t)
  PROVE  SameOwners
  <1>1. PICK x \in Ptrs : x = dst[t]
    BY CallerAlone DEF Finish
  <1>2. p_ \in [Ptrs -> Nodes \cup {Null}] /\ p_' = [p_ EXCEPT ![x] = Null]
    BY <1>1 DEF FinishRelease, FinishDestroy, OwnerInv, CallInv, Shape
  <1>3. \A m \in Nodes, z \in Ptrs : Refers(z, m)' <=> Refers(z, m)
    BY <1>1, <1>2, FinisherOwnsNothing, RefersIs, RefersIsNext, NullAssumption
  <1> QED
    BY <1>3 DEF SameOwners, Holders

\* The source of an assignment owns what it stores.
LEMMA SourceOwns ==
  ASSUME OwnerInv, NEW t \in Threads, Finish(t), FinishMoveAssign(t) \/ FinishCopyAssign(t)
  PROVE  /\ src[t] \in Ptrs /\ src[t] \in live /\ dst[t] \in Ptrs /\ dst[t] # src[t]
         /\ ~GivenUp(src[t])
         /\ \A m \in Nodes : ~Granted(src[t], m) /\ (src[t] \in Holders(m) <=> p_[src[t]] = m)
  <1>1. src[t] \in live /\ src[t] \in Ptrs /\ dst[t] # src[t] /\ dst[t] \in Ptrs
    <2>1. pc[t] = "finish" /\ op[t] \in {"moveAssign", "copyAssign"}
      BY DEF Finish, FinishMoveAssign, FinishCopyAssign
    <2>2. dst[t] \in Ptrs /\ live \subseteq Ptrs
      BY <2>1, CallerAlone DEF OwnerInv, CallInv, Shape
    <2>3. dst[t] # src[t] /\ src[t] \in live
      BY <2>1 DEF OwnerInv, CallInv, CallShape, Distinct, Releasing
    <2> QED BY <2>2, <2>3
  <1>2. \A s \in Threads : dst[s] = src[t] => pc[s] = "idle"
    BY <1>1 DEF OwnerInv, CallInv, NoConflict, Finish
  <1>3. ~GivenUp(src[t]) /\ \A m \in Nodes : ~Granted(src[t], m)
    BY <1>2 DEF GivenUp, Granted, Released
  <1> QED
    BY <1>1, <1>3, RefersIs, Zenon DEF Holders

\* A copy assignment ends with the target among the owners.
LEMMA FinishCopyOwners ==
  ASSUME OwnerInv, NEW t \in Threads, Finish(t), FinishCopyAssign(t)
  PROVE  \/ p_[src[t]] = Null /\ SameOwners
         \/ \E x \in Ptrs, n \in Nodes : x = dst[t] /\ n = p_[src[t]] /\ Gains(x, n)
  <1>1. PICK x \in Ptrs, y \in Ptrs : x = dst[t] /\ y = src[t]
    BY SourceOwns
  <1>2. /\ p_ \in [Ptrs -> Nodes \cup {Null}] /\ p_' = [p_ EXCEPT ![x] = p_[y]]
    BY <1>1 DEF FinishCopyAssign, OwnerInv, CallInv, Shape
  <1>3. \A m \in Nodes, z \in Ptrs : Refers(z, m)' <=> Refers(z, m) \/ (z = x /\ m = p_[y])
    BY <1>1, <1>2, FinisherOwnsNothing, RefersIs, RefersIsNext
  <1>4. CASE p_[y] = Null
    BY <1>1, <1>3, <1>4, NullAssumption DEF SameOwners, Holders
  <1>5. CASE p_[y] # Null
    <2>1. PICK n \in Nodes : n = p_[y]
      BY <1>2, <1>5
    <2>2. x \notin Holders(n)
      BY <1>1, FinisherOwnsNothing
    <2>3. Gains(x, n)
      BY <1>3, <2>1, <2>2 DEF Gains, Holders
    <2> QED BY <1>1, <2>1, <2>3
  <1> QED
    BY <1>4, <1>5

\* A move assignment ends with the target in the place of the source.
LEMMA FinishMoveOwners ==
  ASSUME OwnerInv, NEW t \in Threads, Finish(t), FinishMoveAssign(t)
  PROVE  \/ p_[src[t]] = Null /\ SameOwners
         \/ \E x, y \in Ptrs, n \in Nodes :
               x = dst[t] /\ y = src[t] /\ n = p_[y] /\ TakesOver(x, y, n)
  <1>1. PICK x \in Ptrs, y \in Ptrs : x = dst[t] /\ y = src[t]
    BY SourceOwns
  <1>2. /\ p_ \in [Ptrs -> Nodes \cup {Null}] /\ x # y
        /\ p_' = [p_ EXCEPT ![x] = p_[y], ![y] = Null]
    BY <1>1, SourceOwns, ZenonT(40) DEF FinishMoveAssign, OwnerInv, CallInv, Shape
  <1>3. /\ ~GivenUp(y)
        /\ \A m \in Nodes : ~Granted(y, m) /\ (y \in Holders(m) <=> p_[y] = m)
    BY <1>1, SourceOwns
  <1>4. \A m \in Nodes, z \in Ptrs :
          Refers(z, m)' <=> (Refers(z, m) /\ z # y) \/ (z = x /\ m = p_[y])
    <2>1. /\ GivenUp(x) /\ ~GivenUp(x)'
          /\ \A z \in Ptrs : z # x => (GivenUp(z)' <=> GivenUp(z))
          /\ \A z \in Ptrs, m \in Nodes : Granted(z, m)' <=> Granted(z, m)
          /\ \A m \in Nodes : ~Granted(x, m)
      BY <1>1, FinisherOwnsNothing
    <2>2. \A z \in Ptrs : p_'[z] = IF z = y THEN Null ELSE IF z = x THEN p_[y] ELSE p_[z]
      BY <1>2
    <2> QED
      BY <1>2, <1>3, <2>1, <2>2, RefersIs, RefersIsNext, NullAssumption
  <1>5. CASE p_[y] = Null
    BY <1>1, <1>3, <1>4, <1>5, NullAssumption DEF SameOwners, Holders
  <1>6. CASE p_[y] # Null
    <2>1. PICK n \in Nodes : n = p_[y]
      BY <1>2, <1>6
    <2>2. x \notin Holders(n) /\ y \in Holders(n)
      BY <1>1, <1>3, <2>1, FinisherOwnsNothing
    <2>3. TakesOver(x, y, n)
      BY <1>3, <1>4, <2>1, <2>2 DEF TakesOver, Holders
    <2> QED BY <1>1, <2>1, <2>3
  <1> QED
    BY <1>5, <1>6

-----------------------------------------------------------------------------
(* The counts follow the owners.                                            *)

\* Same owners, same counts.
LEMMA CountSame ==
  ASSUME RefsCountOwners, SameOwners, alloc \subseteq Nodes, alloc' \subseteq alloc,
         refs' = refs
  PROVE  RefsCountOwners'
  BY DEF RefsCountOwners, SameOwners

\* A handle more or less counts one more or less.
LEMMA OneMore ==
  ASSUME HandlesCounted, NEW S \in SUBSET Ptrs, NEW x \in Ptrs \ S
  PROVE  Cardinality(S) \in Nat /\ Cardinality(S \cup {x}) = Cardinality(S) + 1
  BY Zenon DEF HandlesCounted

LEMMA OneLess ==
  ASSUME HandlesCounted, NEW S \in SUBSET Ptrs, NEW x \in S
  PROVE  Cardinality(S) = Cardinality(S \ {x}) + 1 /\ Cardinality(S \ {x}) \in Nat
  <1>1. S \ {x} \in SUBSET Ptrs /\ x \in Ptrs \ (S \ {x}) /\ S = (S \ {x}) \cup {x}
    BY Zenon
  <1> QED
    BY <1>1, OneMore, Zenon

\* The counts of a step that changes the owners of n only.
LEMMA CountOf ==
  ASSUME RefsCountOwners, NEW n \in alloc, alloc \subseteq Nodes, alloc' = alloc,
         \A m \in Nodes : m # n => Holders(m)' = Holders(m) /\ refs'[m] = refs[m],
         refs'[n] = Cardinality(Holders(n)')
  PROVE  RefsCountOwners'
  <1>1. ASSUME NEW m \in alloc
        PROVE  refs'[m] = Cardinality(Holders(m)')
    <2>1. CASE m # n
      <3>1. refs[m] = Cardinality(Holders(m)) /\ m \in Nodes
        BY Zenon DEF RefsCountOwners
      <3> QED
        BY <2>1, <3>1, Zenon
    <2> QED
      BY <2>1, Zenon
  <1> QED
    BY <1>1, Zenon DEF RefsCountOwners

\* One owner more and an increment.
LEMMA CountGains ==
  ASSUME HandlesCounted, RefsCountOwners, NEW x \in Ptrs, NEW n \in alloc, Gains(x, n),
         alloc \subseteq Nodes, alloc' = alloc, refs \in [Nodes -> Int],
         refs' = [refs EXCEPT ![n] = @ + 1]
  PROVE  RefsCountOwners'
  <1>1. Holders(n) \in SUBSET Ptrs
    BY DEF Holders
  <1>2. Cardinality(Holders(n)') = Cardinality(Holders(n)) + 1
    BY <1>1, OneMore DEF Gains
  <1>3. refs[n] = Cardinality(Holders(n))
    BY Zenon DEF RefsCountOwners
  <1>4. refs'[n] = refs[n] + 1 /\ \A m \in Nodes : m # n => refs'[m] = refs[m]
    OBVIOUS
  <1>5. refs'[n] = Cardinality(Holders(n)')
    BY <1>2, <1>3, <1>4, Zenon
  <1> QED
    BY <1>4, <1>5, CountOf DEF Gains

\* One owner less and a decrement.
LEMMA CountLoses ==
  ASSUME HandlesCounted, RefsCountOwners, NEW x \in Ptrs, NEW n \in alloc, Loses(x, n),
         alloc \subseteq Nodes, alloc' = alloc, refs \in [Nodes -> Int],
         refs' = [refs EXCEPT ![n] = @ - 1]
  PROVE  RefsCountOwners'
  <1>1. Holders(n) \in SUBSET Ptrs
    BY DEF Holders
  <1>2. /\ Cardinality(Holders(n)) = Cardinality(Holders(n)') + 1
        /\ Cardinality(Holders(n)') \in Nat
    BY <1>1, OneLess DEF Loses
  <1>3. refs[n] = Cardinality(Holders(n))
    BY Zenon DEF RefsCountOwners
  <1>4. refs'[n] = refs[n] - 1 /\ \A m \in Nodes : m # n => refs'[m] = refs[m]
    OBVIOUS
  <1>5. refs'[n] = Cardinality(Holders(n)')
    BY <1>2, <1>3, <1>4
  <1> QED
    BY <1>4, <1>5, CountOf DEF Loses

\* As many owners as before.
LEMMA CountTakesOver ==
  ASSUME HandlesCounted, RefsCountOwners, NEW x \in Ptrs, NEW y \in Ptrs, NEW n \in alloc,
         TakesOver(x, y, n), alloc \subseteq Nodes, alloc' = alloc, refs' = refs
  PROVE  RefsCountOwners'
  <1>1. Holders(n) \in SUBSET Ptrs /\ y \in Holders(n) /\ x \notin Holders(n)
    BY DEF Holders, TakesOver
  <1>2. Cardinality(Holders(n)) = Cardinality(Holders(n) \ {y}) + 1
    BY <1>1, OneLess
  <1>3. Cardinality((Holders(n) \ {y}) \cup {x}) = Cardinality(Holders(n) \ {y}) + 1
    BY <1>1, OneMore
  <1>4. Holders(n)' = (Holders(n) \ {y}) \cup {x}
    BY DEF TakesOver
  <1>5. refs[n] = Cardinality(Holders(n))
    BY Zenon DEF RefsCountOwners
  <1>6. refs'[n] = Cardinality(Holders(n)')
    BY <1>2, <1>3, <1>4, <1>5, Zenon
  <1> QED
    BY <1>6, CountOf DEF TakesOver

\* A stored address is a node with a count, unless its handle gave it up.
LEMMA StoredIsCounted ==
  ASSUME OwnerInv, NEW x \in Ptrs, NEW n \in Nodes, x \in Holders(n)
  PROVE  n \in alloc /\ refs[n] # 0 /\ ~Free(n)
  <1>1. n \in alloc /\ RefsCountOwners /\ HandlesCounted
    BY OwnedIsAllocated DEF OwnerInv
  <1> QED
    BY <1>1, OwnedIffCounted DEF Free
=============================================================================
