-------------------------- MODULE SharedInstances --------------------------
(***************************************************************************)
(* What recycled_ptr promises, without bins, counts or threads: a handle   *)
(* refers to one instance or to none; acquiring gives an instance that no  *)
(* other handle refers to; copying shares it; moving hands it over.        *)
(***************************************************************************)
CONSTANTS Ptrs, Nodes, Null

VARIABLES
    inst,       \* the instance each handle refers to, or Null
    asking      \* handles whose acquire has been called and has not returned

vars == <<inst, asking>>

Init == inst = [x \in Ptrs |-> Null] /\ asking = {}

Ask(x) ==
    /\ inst[x] = Null
    /\ asking' = asking \cup {x}
    /\ UNCHANGED inst

\* The answer is an instance that no handle refers to.
Acquire(x, n) ==
    /\ x \in asking
    /\ \A y \in Ptrs : inst[y] # n
    /\ inst' = [inst EXCEPT ![x] = n]
    /\ asking' = asking \ {x}

Share(x, y) ==
    /\ inst[x] = Null /\ x \notin asking
    /\ inst' = [inst EXCEPT ![x] = inst[y]]
    /\ UNCHANGED asking

Move(x, y) ==
    /\ inst[x] = Null /\ x \notin asking
    /\ inst' = [inst EXCEPT ![x] = inst[y], ![y] = Null]
    /\ UNCHANGED asking

Drop(x) == inst' = [inst EXCEPT ![x] = Null] /\ UNCHANGED asking

Next ==
    \/ \E x \in Ptrs : Ask(x) \/ Drop(x)
    \/ \E x \in Ptrs, n \in Nodes : Acquire(x, n)
    \/ \E x, y \in Ptrs : Share(x, y) \/ Move(x, y)

Spec == Init /\ [][Next]_vars
=============================================================================
