-------------------------- MODULE MCTransferCache ---------------------------
(* Two threads, two size classes that move two objects at a time, and two  *)
(* spans of two objects.                                                 *)
EXTENDS TransferCache, TLC

MCB == <<2, 2>>
MCFirst == <<2, 2>>
MCMax == <<4, 2>>
Symmetry == Permutations(Threads)
=============================================================================
