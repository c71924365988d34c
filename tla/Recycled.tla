------------------------------ MODULE Recycled ------------------------------
(***************************************************************************)
(* grammar::recycled<T>, a thread-safe bin of reusable instances, and      *)
(* grammar::recycled_ptr<T>, the reference-counted handle on one instance. *)
(*                                                                         *)
(* Threads call the members of recycled_ptr.  A step makes at most one     *)
(* access to memory that another thread may touch at the same time: the    *)
(* mutex m_, the free list it protects, or an atomic count refs.           *)
(* Callers follow the usual rule for C++ objects: while one thread writes  *)
(* a recycled_ptr object, no other thread uses that object.                *)
(***************************************************************************)
EXTENDS Integers, FiniteSets

CONSTANTS
    Threads,        \* threads that use the bin
    Ptrs,           \* recycled_ptr objects
    Nodes,          \* addresses `new U` may return
    Null,           \* nullptr
    SelfAssign      \* whether callers also write  p = p

ASSUME NullAssumption == Null \notin Nodes /\ Null \notin Ptrs /\ Null \notin Threads
ASSUME PtrsAssumption == IsFiniteSet(Ptrs)
ASSUME SelfAssignAssumption == SelfAssign \in BOOLEAN

VARIABLES
    head_,          \* recycled::head_, top of the free list
    m_,             \* recycled::m_, the thread that holds it
    alloc,          \* nodes that `new U` returned and nobody deleted
    next,           \* U::next
    refs,           \* U::refs
    live,           \* recycled_ptr objects whose lifetime has begun
    p_,             \* recycled_ptr::p_
    pc,             \* where each thread is inside a call
    op,             \* the member it is executing
    dst,            \* *this
    src,            \* other
    u               \* the local U* of acquire / release

mem == <<head_, m_, alloc, next, refs>>
objs == <<live, p_>>
call == <<pc, op, dst, src, u>>
vars == <<mem, objs, call>>

Ops == {"none", "acquire", "release", "destroy", "moveAssign", "copyAssign"}
Labels == {"idle",
           "acqLock", "acqPop", "acqInc", "acqUnlock", "acqReturn",
           "relDec", "relLock", "relPush", "relUnlock", "finish"}

-----------------------------------------------------------------------------
(* Who may call what: no object is written while someone else uses it.      *)

InCall(t) == pc[t] # "idle"
Writes(t, x) == InCall(t) /\ (dst[t] = x \/ (op[t] = "moveAssign" /\ src[t] = x))
Reads(t, x) == InCall(t) /\ op[t] = "copyAssign" /\ src[t] = x
Readable(x) == x \in live /\ \A t \in Threads : ~Writes(t, x)
Writable(x) == Readable(x) /\ \A t \in Threads : ~Reads(t, x)

Begin(t, label, o, x, y) ==
    /\ pc' = [pc EXCEPT ![t] = label]
    /\ op' = [op EXCEPT ![t] = o]
    /\ dst' = [dst EXCEPT ![t] = x]
    /\ src' = [src EXCEPT ![t] = y]
    /\ UNCHANGED u

Goto(t, label) == pc' = [pc EXCEPT ![t] = label] /\ UNCHANGED <<op, dst, src, u>>

Return(t) ==
    /\ pc' = [pc EXCEPT ![t] = "idle"]
    /\ op' = [op EXCEPT ![t] = "none"]
    /\ dst' = [dst EXCEPT ![t] = Null]
    /\ src' = [src EXCEPT ![t] = Null]
    /\ u' = [u EXCEPT ![t] = Null]

-----------------------------------------------------------------------------
(* Members of recycled_ptr, up to the first shared access.                  *)

\* recycled_ptr(bin) and recycled_ptr(): begin life empty, then bin.acquire().
Construct(t, x) ==
    /\ ~InCall(t) /\ x \notin live /\ \A s \in Threads : ~Writes(s, x)
    /\ live' = live \cup {x}
    /\ Begin(t, "acqLock", "acquire", x, Null)
    /\ UNCHANGED <<mem, p_>>

\* recycled_ptr(bin, nullptr) and recycled_ptr(nullptr).
ConstructNull(t, x) ==
    /\ ~InCall(t) /\ x \notin live /\ \A s \in Threads : ~Writes(s, x)
    /\ live' = live \cup {x}
    /\ UNCHANGED <<mem, p_, call>>

\* A broken copy constructor: forgets ++p_->refs.
CopyConstructNoCount(t, x, y) ==
    /\ ~InCall(t) /\ x \notin live /\ \A s \in Threads : ~Writes(s, x)
    /\ Readable(y)
    /\ live' = live \cup {x}
    /\ p_' = [p_ EXCEPT ![x] = p_[y]]
    /\ UNCHANGED <<mem, call>>

\* recycled_ptr(recycled_ptr const&): the only shared access is ++refs.
CopyConstruct(t, x, y) ==
    /\ ~InCall(t) /\ x \notin live /\ \A s \in Threads : ~Writes(s, x)
    /\ Readable(y)
    /\ live' = live \cup {x}
    /\ p_' = [p_ EXCEPT ![x] = p_[y]]
    /\ refs' = IF p_[y] # Null THEN [refs EXCEPT ![p_[y]] = @ + 1] ELSE refs
    /\ UNCHANGED <<head_, m_, alloc, next, call>>

\* A broken move constructor: forgets other.p_ = nullptr.
MoveConstructNoReset(t, x, y) ==
    /\ ~InCall(t) /\ x \notin live /\ \A s \in Threads : ~Writes(s, x)
    /\ Writable(y)
    /\ live' = live \cup {x}
    /\ p_' = [p_ EXCEPT ![x] = p_[y]]
    /\ UNCHANGED <<mem, call>>

\* recycled_ptr(recycled_ptr&&).
MoveConstruct(t, x, y) ==
    /\ ~InCall(t) /\ x \notin live /\ \A s \in Threads : ~Writes(s, x)
    /\ Writable(y)
    /\ live' = live \cup {x}
    /\ p_' = [p_ EXCEPT ![x] = p_[y], ![y] = Null]
    /\ UNCHANGED <<mem, call>>

\* recycled_ptr::acquire() on an empty pointer; on a full one it only returns.
Acquire(t, x) ==
    /\ ~InCall(t) /\ Writable(x) /\ p_[x] = Null
    /\ Begin(t, "acqLock", "acquire", x, Null)
    /\ UNCHANGED <<mem, objs>>

\* release(), ~recycled_ptr() and the two assignments first release p_ if set.
BeginRelease(t, o, x, y) ==
    /\ Begin(t, IF p_[x] # Null THEN "relDec" ELSE "finish", o, x, y)
    /\ UNCHANGED <<mem, objs>>

Release(t, x) == ~InCall(t) /\ Writable(x) /\ BeginRelease(t, "release", x, Null)

Destroy(t, x) == ~InCall(t) /\ Writable(x) /\ BeginRelease(t, "destroy", x, Null)

MoveAssign(t, x, y) ==
    /\ ~InCall(t) /\ Writable(x) /\ Writable(y) /\ (x # y \/ SelfAssign)
    /\ BeginRelease(t, "moveAssign", x, y)

CopyAssign(t, x, y) ==
    /\ ~InCall(t) /\ Writable(x) /\ Readable(y) /\ (x # y \/ SelfAssign)
    /\ BeginRelease(t, "copyAssign", x, y)

-----------------------------------------------------------------------------
(* recycled::acquire()                                                      *)

Lock(t, from, to) ==
    /\ pc[t] = from /\ m_ = Null
    /\ m_' = t
    /\ Goto(t, to)
    /\ UNCHANGED <<head_, alloc, next, refs, objs>>

Unlock(t, from, to) ==
    /\ pc[t] = from
    /\ m_' = Null
    /\ Goto(t, to)
    /\ UNCHANGED <<head_, alloc, next, refs, objs>>

\* Entering the section without the lock_guard.
AcqLockUnguarded(t) ==
    /\ pc[t] = "acqLock"
    /\ Goto(t, "acqPop")
    /\ UNCHANGED <<mem, objs>>

AcqLock(t) == Lock(t, "acqLock", "acqPop")

\* A broken pop: leaves head_ where it was.
AcqPopKeepsHead(t) ==
    /\ pc[t] = "acqPop" /\ head_ # Null
    /\ u' = [u EXCEPT ![t] = head_]
    /\ pc' = [pc EXCEPT ![t] = "acqInc"]
    /\ UNCHANGED <<mem, objs, op, dst, src>>

\* p = head_; head_ = head_->next  when the list is not empty.
AcqPop(t) ==
    /\ pc[t] = "acqPop" /\ head_ # Null
    /\ u' = [u EXCEPT ![t] = head_]
    /\ head_' = next[head_]
    /\ pc' = [pc EXCEPT ![t] = "acqInc"]
    /\ UNCHANGED <<m_, alloc, next, refs, objs, op, dst, src>>

\* p = new U, with refs{1} and next = nullptr.
AcqNew(t) ==
    /\ pc[t] = "acqPop" /\ head_ = Null
    /\ \E n \in Nodes \ alloc :
          /\ alloc' = alloc \cup {n}
          /\ next' = [next EXCEPT ![n] = Null]
          /\ refs' = [refs EXCEPT ![n] = 1]
          /\ u' = [u EXCEPT ![t] = n]
    /\ pc' = [pc EXCEPT ![t] = "acqUnlock"]
    /\ UNCHANGED <<head_, m_, objs, op, dst, src>>

AcqInc(t) ==
    /\ pc[t] = "acqInc"
    /\ refs' = [refs EXCEPT ![u[t]] = @ + 1]
    /\ Goto(t, "acqUnlock")
    /\ UNCHANGED <<head_, m_, alloc, next, objs>>

\* The lock is never given back.
AcqUnlockForgotten(t) ==
    /\ pc[t] = "acqUnlock"
    /\ Goto(t, "acqReturn")
    /\ UNCHANGED <<mem, objs>>

AcqUnlock(t) == Unlock(t, "acqUnlock", "acqReturn")

\* BOOST_ASSERT(p->refs == 1), then p_ = bin_->acquire() in the caller.
AcqReturn(t) ==
    /\ pc[t] = "acqReturn"
    /\ p_' = [p_ EXCEPT ![dst[t]] = u[t]]
    /\ Return(t)
    /\ UNCHANGED <<mem, live>>

-----------------------------------------------------------------------------
(* recycled::release(u)                                                     *)

\* Off by one: recycles while one owner is left.
RelDecEarly(t) ==
    /\ pc[t] = "relDec"
    /\ LET n == p_[dst[t]] IN
          /\ refs' = [refs EXCEPT ![n] = @ - 1]
          /\ u' = [u EXCEPT ![t] = n]
          /\ pc' = [pc EXCEPT ![t] = IF refs[n] - 1 > 1 THEN "finish" ELSE "relLock"]
    /\ UNCHANGED <<head_, m_, alloc, next, objs, op, dst, src>>

\* The test inverted in the common case: the last owner never recycles.
RelDecLeaks(t) ==
    /\ pc[t] = "relDec"
    /\ refs' = [refs EXCEPT ![p_[dst[t]]] = @ - 1]
    /\ Goto(t, "finish")
    /\ UNCHANGED <<head_, m_, alloc, next, objs>>

\* if(--u->refs != 0) return;
RelDec(t) ==
    /\ pc[t] = "relDec"
    /\ LET n == p_[dst[t]] IN
          /\ refs' = [refs EXCEPT ![n] = @ - 1]
          /\ u' = [u EXCEPT ![t] = n]
          /\ pc' = [pc EXCEPT ![t] = IF refs[n] - 1 # 0 THEN "finish" ELSE "relLock"]
    /\ UNCHANGED <<head_, m_, alloc, next, objs, op, dst, src>>

RelLock(t) == Lock(t, "relLock", "relPush")

\* A broken push: forgets u->next = head_.
RelPushUnlinked(t) ==
    /\ pc[t] = "relPush"
    /\ head_' = u[t]
    /\ Goto(t, "relUnlock")
    /\ UNCHANGED <<m_, alloc, next, refs, objs>>

\* u->next = head_; head_ = u;
RelPush(t) ==
    /\ pc[t] = "relPush"
    /\ next' = [next EXCEPT ![u[t]] = head_]
    /\ head_' = u[t]
    /\ Goto(t, "relUnlock")
    /\ UNCHANGED <<m_, alloc, refs, objs>>

RelUnlock(t) == Unlock(t, "relUnlock", "finish")

-----------------------------------------------------------------------------
(* What the member does after bin_->release returned.                       *)

\* release(): p_ = nullptr.
FinishRelease(t) ==
    /\ op[t] = "release"
    /\ p_' = [p_ EXCEPT ![dst[t]] = Null]
    /\ UNCHANGED <<refs, live>>

\* ~recycled_ptr(): the lifetime ends, the stored address with it.
FinishDestroy(t) ==
    /\ op[t] = "destroy"
    /\ live' = live \ {dst[t]}
    /\ p_' = [p_ EXCEPT ![dst[t]] = Null]
    /\ UNCHANGED refs

\* p_ = other.p_; other.p_ = nullptr;
FinishMoveAssign(t) ==
    /\ op[t] = "moveAssign"
    /\ p_' = [p_ EXCEPT ![dst[t]] = p_[src[t]], ![src[t]] = Null]
    /\ UNCHANGED <<refs, live>>

\* A broken copy assignment: forgets ++p_->refs.
FinishCopyAssignNoCount(t) ==
    /\ op[t] = "copyAssign"
    /\ p_' = [p_ EXCEPT ![dst[t]] = p_[src[t]]]
    /\ UNCHANGED <<refs, live>>

\* p_ = other.p_; if(p_) ++p_->refs;
FinishCopyAssign(t) ==
    /\ op[t] = "copyAssign"
    /\ p_' = [p_ EXCEPT ![dst[t]] = p_[src[t]]]
    /\ refs' = IF p_[src[t]] # Null
               THEN [refs EXCEPT ![p_[src[t]]] = @ + 1]
               ELSE refs
    /\ UNCHANGED live

Finish(t) ==
    /\ pc[t] = "finish"
    /\ FinishRelease(t) \/ FinishDestroy(t) \/ FinishMoveAssign(t) \/ FinishCopyAssign(t)
    /\ Return(t)
    /\ UNCHANGED <<head_, m_, alloc, next>>

-----------------------------------------------------------------------------
(* ~recycled(): legal only when no recycled_ptr references the bin.  It     *)
(* deletes what it finds on the list; a new bin may be constructed after.   *)

\* The nodes the loop visits: head_, head_->next, and so on, that is the least
\* set with head_ that next does not leave.
ListClosed(S) ==
    /\ head_ # Null => head_ \in S
    /\ \A n \in S : next[n] # Null => next[n] \in S

OnList == {n \in Nodes : \A S \in SUBSET Nodes : ListClosed(S) => n \in S}

DestroyBin ==
    /\ live = {} /\ \A t \in Threads : ~InCall(t)
    /\ alloc # {}
    /\ alloc' = alloc \ OnList
    /\ head_' = Null
    /\ UNCHANGED <<m_, next, refs, objs, call>>

-----------------------------------------------------------------------------
Init ==
    /\ head_ = Null
    /\ m_ = Null
    /\ alloc = {}
    /\ next = [n \in Nodes |-> Null]
    /\ refs = [n \in Nodes |-> 0]
    /\ live = {}
    /\ p_ = [x \in Ptrs |-> Null]
    /\ pc = [t \in Threads |-> "idle"]
    /\ op = [t \in Threads |-> "none"]
    /\ dst = [t \in Threads |-> Null]
    /\ src = [t \in Threads |-> Null]
    /\ u = [t \in Threads |-> Null]

\* A caller enters a member of recycled_ptr.
Enter(t) ==
    \/ \E x \in Ptrs : Construct(t, x) \/ ConstructNull(t, x) \/ Acquire(t, x)
                         \/ Release(t, x) \/ Destroy(t, x)
    \/ \E x, y \in Ptrs : CopyConstruct(t, x, y) \/ MoveConstruct(t, x, y)
                            \/ MoveAssign(t, x, y) \/ CopyAssign(t, x, y)

\* A thread goes on with the call it is in.
Step(t) ==
    \/ AcqLock(t) \/ AcqPop(t) \/ AcqNew(t) \/ AcqInc(t) \/ AcqUnlock(t) \/ AcqReturn(t)
    \/ RelDec(t) \/ RelLock(t) \/ RelPush(t) \/ RelUnlock(t)
    \/ Finish(t)

Next == DestroyBin \/ \E t \in Threads : Enter(t) \/ Step(t)

Spec == Init /\ [][Next]_vars

\* Threads keep running: a call that can go on does.  Nothing is assumed about
\* which waiter a std::mutex wakes, nor that anyone ever makes a call.
FairSpec == Spec /\ \A t \in Threads : WF_vars(Step(t))

-----------------------------------------------------------------------------
(* Properties                                                               *)

Critical == {"acqPop", "acqInc", "acqUnlock", "relPush", "relUnlock"}
Released == {"relLock", "relPush", "relUnlock", "finish"}

TypeOK ==
    /\ head_ \in Nodes \cup {Null}
    /\ m_ \in Threads \cup {Null}
    /\ alloc \subseteq Nodes
    /\ next \in [Nodes -> Nodes \cup {Null}]
    /\ refs \in [Nodes -> Nat]
    /\ live \subseteq Ptrs
    /\ p_ \in [Ptrs -> Nodes \cup {Null}]
    /\ pc \in [Threads -> Labels]
    /\ op \in [Threads -> Ops]
    /\ dst \in [Threads -> Ptrs \cup {Null}]
    /\ src \in [Threads -> Ptrs \cup {Null}]
    /\ u \in [Threads -> Nodes \cup {Null}]

\* x owns a reference to n: it stores n and has not given it up inside a call
\* that is releasing, or the acquire that will store n there has taken it.
Refers(x, n) ==
    \/ p_[x] = n /\ \A t \in Threads : ~(dst[t] = x /\ pc[t] \in Released)
    \/ \E t \in Threads : dst[t] = x /\ u[t] = n /\ pc[t] \in {"acqUnlock", "acqReturn"}

Holders(n) == {x \in Ptrs : Refers(x, n)}

\* n is between its last reference and the list, or between the list and its
\* first reference.
InTransit(n) == \E t \in Threads : u[t] = n /\ pc[t] \in {"acqInc", "relLock", "relPush"}

\* Two threads are never inside the sections that m_ guards, and only the
\* holder of m_ is: head_ and next are never accessed by two threads at once.
MutualExclusion ==
    \A t \in Threads : (m_ = t) <=> (pc[t] \in Critical)

\* The reference count of an instance is the number of recycled_ptr objects
\* that own a reference to it, at every step of every call.
RefsCountOwners == \A n \in alloc : refs[n] = Cardinality(Holders(n))

\* BOOST_ASSERT(p->refs == 1) at the end of recycled::acquire: the instance
\* handed out belongs to the caller alone ("exclusive access to an object").
AcquireExclusive ==
    \A t \in Threads : pc[t] = "acqReturn" => refs[u[t]] = 1

\* Every instance that a recycled_ptr refers to is off the free list, and the
\* list holds only live allocations with refs == 0 (asserted by ~recycled).
FreeListUnowned ==
    /\ OnList \subseteq alloc
    /\ \A n \in OnList : refs[n] = 0 /\ Holders(n) = {} /\ ~InTransit(n)

\* No instance is lost: one with no owner is on the list or on its way, so
\* ~recycled deletes every instance the bin ever allocated.
NothingLost ==
    \A n \in alloc : Holders(n) = {} => n \in OnList \/ InTransit(n)

\* The bin allocates only when every instance is in use: it never holds more
\* instances than there are recycled_ptr objects.
PoolBounded == Cardinality(alloc) <= Cardinality(Ptrs)

\* Once callers stop entering members, every call that was running returns,
\* whatever order the mutex admits them in.
CallsReturn ==
    <>[][\A t \in Threads : ~Enter(t)]_vars => <>[](\A t \in Threads : ~InCall(t))

\* The instance each handle refers to, as the promise sees it: a handle that is
\* releasing has already dropped its instance, one that is acquiring has none.
Instances ==
    [x \in Ptrs |->
        IF \E t \in Threads : dst[t] = x /\ pc[t] \in Released THEN Null ELSE p_[x]]

Asking == {x \in Ptrs : \E t \in Threads : dst[t] = x /\ op[t] = "acquire"}

Shared == INSTANCE SharedInstances WITH inst <- Instances, asking <- Asking

\* recycled_ptr implements shared ownership: every interleaving of the members
\* looks like atomic acquire, share, move and drop steps.
ImplementsSharedInstances == Shared!Spec
=============================================================================
