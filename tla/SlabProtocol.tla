---------------------------- MODULE SlabProtocol ----------------------------
(***************************************************************************)
(* The life of the slabs of obj_slab.h under the discipline the allocator  *)
(* is designed for: at any time at most one thread allocates from a slab   *)
(* and releases it, while every thread may free the slab's blocks.         *)
(*                                                                         *)
(* owns[t] is the set of slabs the thread t may allocate from (in          *)
(* object_allocator.h: the slabs linked in the lists of t's CPU, or held   *)
(* by t between two lists).  A thread becomes the owner by constructing a  *)
(* slab or by winning _set_owned(), and stops being it when                *)
(* _try_release() stores UNOWNED.  That this hands every slab to one       *)
(* thread at a time is not assumed, it is what OwnershipExact states.      *)
(*                                                                         *)
(* live is the set of the blocks that are handed out and not yet given     *)
(* back to _free(); any thread may free any of them.                       *)
(***************************************************************************)
EXTENDS ObjSlab

VARIABLES owns, live

vars == <<slabVars, pc, regVars, owns, live>>

\* A block: its slab, its vector and its bit.
Blocks == Slabs \X Vecs \X Bits

Made == {s \in Slabs : cls[s] # NoClass}

Init ==
    /\ SlabInit
    /\ pc = [t \in Threads |-> "idle"]
    /\ owns = [t \in Threads |-> {}]
    /\ live = {}

\* _allocate_inner(): a slab nobody has used yet is constructed.
Create(t, s, k) ==
    /\ pc[t] = "idle"
    /\ s \notin Made
    /\ Construct(s, k)
    /\ owns' = [owns EXCEPT ![t] = @ \union {s}]
    /\ UNCHANGED <<pc, regVars, live>>

\* The owner calls _allocate().
Allocate(t, s) ==
    /\ pc[t] = "idle"
    /\ s \in owns[t]
    /\ Call(t, "alloc", s, NoPos)
    /\ UNCHANGED <<slabVars, owns, live>>

AllocateReturn(t) ==
    /\ AllocCommit(t, "idle")
    /\ live' = live \union {AllocResult(t)}
    /\ UNCHANGED owns

AllocateStep(t) ==
    /\ AllocBegin(t) \/ AllocFull(t) \/ AllocClear(t) \/ AllocLoad(t) \/ AllocAbort(t)
    /\ UNCHANGED <<owns, live>>

\* After FULL the slab is unlinked and _try_release() called; if unlinking
\* fails _allocate_inner() starts over.
Full(t) ==
    /\ pc[t] = "full"
    /\ Return(t, "release", this[t]) \/ Return(t, "idle", NULL)
    /\ UNCHANGED <<slabVars, owns, live>>

ReleaseStep(t) ==
    /\ ReleaseRead(t) \/ ReleaseVecs(t) \/ ReleaseSlots(t) \/ ReleaseTake(t)
       \/ ReleaseDone(t, "idle", NULL)
    /\ UNCHANGED <<owns, live>>

\* _try_release() returns 1: the slab has no owner.
GiveUp(t) ==
    /\ ReleaseUnown(t, "idle")
    /\ owns' = [owns EXCEPT ![t] = @ \ {this[t]}]
    /\ UNCHANGED live

\* _free() of a block that is handed out.
Free(t, b) ==
    /\ pc[t] = "idle"
    /\ b \in live
    /\ live' = live \ {b}
    /\ Call(t, "free", b[1], <<b[2], b[3]>>)
    /\ UNCHANGED <<slabVars, owns>>

FreeStep(t) ==
    /\ FreeCheck(t) \/ FreeLater(t, "idle") \/ FreeFirst(t) \/ FreeVec(t)
       \/ FreeState(t, "idle") \/ SetOwnedLost(t, "idle")
    /\ UNCHANGED <<owns, live>>

\* _set_owned() returns 1: the freeing thread owns the slab.
Claim(t) ==
    /\ SetOwnedWon(t, "idle", NULL)
    /\ owns' = [owns EXCEPT ![t] = @ \union {this[t]}]
    /\ UNCHANGED live

Step(t) ==
    \/ \E s \in Slabs, k \in Classes : Create(t, s, k)
    \/ \E s \in Slabs : Allocate(t, s)
    \/ AllocateStep(t) \/ AllocateReturn(t)
    \/ Full(t) \/ ReleaseStep(t) \/ GiveUp(t)
    \/ \E b \in live : Free(t, b)
    \/ FreeStep(t) \/ Claim(t)

Next == \E t \in Threads : Step(t)

Spec == Init /\ [][Next]_vars

----------------------------------------------------------------------------
Labels == SlabLabels \union {"idle"}

\* The shapes of the variables.
TypeOK ==
    /\ SlabTypeOK
    /\ pc \in [Threads -> Labels]
    /\ owns \in [Threads -> SUBSET Slabs]
    /\ live \in SUBSET Blocks

Releasing(t) == pc[t] \in {"release_vecs", "release_slots", "release_take"}

Freeing(t) == pc[t] \in {"free", "free_later", "free_first"}

\* The thread t is in a _free() of the block p = <<v, i>> of the slab s and has
\* not set its bit yet.
Holds(t, s, p) == Freeing(t) /\ this[t] = s /\ pos[t] = p

\* The four places a block can be in, and what it is to be in one of them.
Available(s, p) == p[2] \in availSlots[s][p[1]]
Live(s, p)      == <<s, p[1], p[2]>> \in live
InFree(s, p)    == \E t \in Threads : Holds(t, s, p)
Freed(s, p)     == p[2] \in freedSlots[s][p[1]]

InOnePlace(s, p) ==
    /\ p \in BlocksOf(cls[s]) <=>
          Available(s, p) \/ Live(s, p) \/ InFree(s, p) \/ Freed(s, p)
    /\ Available(s, p) => ~ Live(s, p) /\ ~ InFree(s, p) /\ ~ Freed(s, p)
    /\ Live(s, p) => ~ InFree(s, p) /\ ~ Freed(s, p)
    /\ InFree(s, p) => ~ Freed(s, p)
    /\ \A t, u \in Threads : Holds(t, s, p) /\ Holds(u, s, p) => t = u

\* Every block of a constructed slab is in exactly one place: available to
\* the owner, handed out, in the hands of exactly one _free() that has not yet
\* set its bit, or in the freed bits.  No interleaving of _allocate(),
\* _try_release() and any number of _free() calls loses or duplicates a block,
\* although _try_release() is only "quasi atomic".  A position the constructor
\* left out, past the last block of the class, is nowhere.  A freed bit counts
\* whether or not _try_release() will look at it (see FreedReclaimable).
BlockConservation ==
    \A s \in Made, p \in Positions : InOnePlace(s, p)

\* The state word says exactly whether the slab has an owner, and no slab
\* has two: racing _free() calls that all see UNOWNED end in one claim, and a
\* slab nobody owns is never left OWNED, where no _free() could claim it.
OwnershipExact ==
    \A s \in Made :
        /\ state[s] = UNOWNED <=> \A t \in Threads : s \notin owns[t]
        /\ \A t, u \in Threads : s \in owns[t] /\ s \in owns[u] => t = u

\* No available block is hidden: a vector whose summary bit is clear has no
\* set bit, in every state in which the owner is not in the middle of
\* _try_release(), aborted critical sections included.
AvailableVisible ==
    \A s \in Made : (\A t \in Threads : ~ (Releasing(t) /\ this[t] = s)) =>
        \A v \in Vecs : availSlots[s][v] # {} => v \in availVecs[s]

\* The assertion in _try_release() (obj_slab.h:235) that the slab is OWNED
\* when it is given up.
ReleaseOwned ==
    \A t \in Threads : pc[t] = "release_unown" => state[this[t]] = OWNED

\* _allocate() never returns a block that is handed out, or one that a
\* _free() is still working on.
NoDoubleAllocation ==
    [][\A t \in Threads : AllocateReturn(t) =>
          /\ AllocResult(t) \notin live
          /\ ~ InFree(this[t], <<AllocResult(t)[2], AllocResult(t)[3]>>)]_vars

\* Freed bits leave the shared words only by the hand of the owner, so that no
\* _free() can undo another one.
OnlyOwnerReclaims ==
    [][\A s \in Slabs, v \in Vecs :
          ~ (freedSlots[s][v] \subseteq freedSlots'[s][v]) =>
             \E t \in Threads : s \in owns[t] /\ pc[t] = "release_take"]_vars

----------------------------------------------------------------------------
(***************************************************************************)
(* What makes the properties above inductive.                              *)
(***************************************************************************)
OwnerLabels == {"alloc", "alloc_vec", "alloc_commit", "full", "release",
                "release_unown", "release_vecs", "release_slots", "release_take"}

\* Operations work on constructed slabs, the owner's ones on slabs it owns.
BusyInv ==
    \A t \in Threads :
        /\ owns[t] \subseteq Made
        /\ pc[t] # "idle" => this[t] \in Made
        /\ pc[t] \in OwnerLabels => this[t] \in owns[t]

\* Nothing has happened to a slab that is not constructed, nobody has a block
\* of it.
FreshInv ==
    /\ \A s \in Slabs \ Made :
          /\ state[s] = OWNED
          /\ \A v \in Vecs : availSlots[s][v] = {} /\ freedSlots[s][v] = {}
    /\ \A b \in live : b[1] \in Made

\* What the owner's registers say of the slab: only the owner writes the
\* available words, so what it loaded is what they hold.
RegisterInv ==
    \A t \in Threads :
        /\ pc[t] = "alloc_vec" => vecs[t] = availVecs[this[t]]
        /\ pc[t] = "alloc_commit" =>
              /\ vecs[t] # {} /\ vecs[t] = availVecs[this[t]]
              /\ slots[t] # {} /\ slots[t] = availSlots[this[t]][LowestBit(vecs[t])]
        /\ pc[t] \in {"full", "release", "release_unown", "release_vecs",
                      "release_slots", "release_take"} => availVecs[this[t]] = {}
        /\ pc[t] \in {"release_slots", "release_take"} => iter[t] \subseteq vecs[t]
        /\ pc[t] = "release_take" =>
              iter[t] # {} /\ slots[t] \subseteq freedSlots[this[t]][LowestBit(iter[t])]

\* The owner t has just filled the vector v of s and not yet announced it.
Filling(t, s, v) ==
    /\ pc[t] \in {"release_slots", "release_take"}
    /\ this[t] = s
    /\ v \in vecs[t] \ iter[t]

Shown(s, v) == v \in availVecs[s] \/ \E t \in Threads : Filling(t, s, v)

\* A vector has available bits only under its summary bit, or if the releasing
\* owner has just filled it.
VisibleInv == \A s \in Made, v \in Vecs : availSlots[s][v] # {} => Shown(s, v)

IndInv ==
    /\ TypeOK
    /\ BusyInv
    /\ FreshInv
    /\ OwnershipExact
    /\ RegisterInv
    /\ VisibleInv
    /\ BlockConservation

----------------------------------------------------------------------------
(***************************************************************************)
(* What comments in the code say and the code does not keep.               *)
(***************************************************************************)

\* What obj_slab.h:232 says of a slab given up with nothing freed: "this is
\* unowned memory and will be claimed by first free".  So once no operation is
\* under way on an UNOWNED slab, no block of it is freed.
ClaimedByFirstFree ==
    \A s \in Made :
        /\ state[s] = UNOWNED
        /\ \A t \in Threads : this[t] # s
        => \A v \in Vecs : freedSlots[s][v] = {}

\* What obj_slab.h:291 says of a free that finds its vector's word non-zero: "definetly
\* not first free", that is, an earlier one sets the summary bit.  So once no
\* operation is under way on a slab, a vector all of whose blocks are freed, for which
\* no free is still to come, is under its summary bit, and the owner's next
\* _try_release() takes its blocks back.
FreedReclaimable ==
    \A s \in Made, v \in Vecs :
        /\ \A t \in Threads : this[t] # s
        /\ freedSlots[s][v] # {}
        /\ freedSlots[s][v] = InitSlots(NBlocks[cls[s]])[v]
        => v \in freedVecs[s]
=============================================================================
