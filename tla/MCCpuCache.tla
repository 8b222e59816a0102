----------------------------- MODULE MCCpuCache -----------------------------
(* Two size classes with two objects and one, and two threads: both on one *)
(* CPU, or one that is moved between two CPUs.                             *)
EXTENDS CpuCache, TLC

CONSTANTS o1, o2, o3

MCObjectsOf == <<{o1, o2}, {o3}>>
MCSizeOf == <<1, 1>>
MCAffinities ==
    {[t \in Threads |-> {1}]}
        \union {[t \in Threads |-> IF t = only THEN {1, 2} ELSE {}] : only \in Threads}
Symmetry == {p @@ q : p \in Permutations(Threads), q \in Permutations({o1, o2})}
=============================================================================
