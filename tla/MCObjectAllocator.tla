------------------------- MODULE MCObjectAllocator -------------------------
(* Small instances of ObjectAllocator. *)
EXTENDS AllocatorRefinement, TLC

CONSTANTS t1, t2, c1, c2, k1

TwoThreads == {t1, t2}
TwoCPUs    == {c1, c2}
OneClass   == {k1}
SlabRange  == 1 .. NumSlabs

\* spawn_n(FIRST_N) with as many threads as CPUs: each thread has its own.
Pinned == (t1 :> {c1}) @@ (t2 :> {c2})

\* More threads than CPUs: the rest may run anywhere.
Anywhere == [t \in Threads |-> CPUs]

\* Threads and CPUs are exchanged together where each thread has its own CPU.
PinnedSymmetry == {(t1 :> t2) @@ (t2 :> t1) @@ (c1 :> c2) @@ (c2 :> c1)}

OneBlock == [k \in Classes |-> 1]
=============================================================================
