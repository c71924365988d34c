----------------------------- MODULE MCRecycled -----------------------------
(* Recycled on small sets of threads, handles and nodes.                    *)
EXTENDS Recycled, TLC

Symmetric == Permutations(Threads) \cup Permutations(Ptrs) \cup Permutations(Nodes)
=============================================================================
