--------------------------- MODULE MCSlabProtocol ---------------------------
(* Small instances of SlabProtocol. *)
EXTENDS SlabProtocol, TLC

CONSTANTS t1, t2, t3, s1, k1

MCThreads == {t1, t2, t3}
MCSlabs   == {s1}
MCClasses == {k1}

\* Two vectors of two bits, the last one partly filled.
MCNBlocks == [k \in MCClasses |-> 3]

Symmetry == Permutations(Threads)
=============================================================================
