----------------------------- MODULE MCPageHeap -----------------------------
(* Two threads and four pages of address space with each tag. *)
EXTENDS PageHeap, TLC

MCAligned == {<<1, 2>>}
MCLimits == {[pages |-> 2, hard |-> TRUE]}
Symmetry == Permutations(Threads)
=============================================================================
