------------------------------ MODULE ObjSlab ------------------------------
(***************************************************************************)
(* allocator/obj_slab.h: a slab of equally sized blocks, its two bit       *)
(* matrices and the steps of its four operations.                          *)
(*                                                                         *)
(*   - availVecs / availSlots: the allocation bits, meant for one owner;   *)
(*     a set bit is a block that can be handed out, and a vector whose     *)
(*     summary bit is clear is taken to have no set bit;                   *)
(*   - freedVecs / freedSlots / state: the shared part, updated with       *)
(*     locked instructions by every thread that frees a block.             *)
(*                                                                         *)
(* A 64-bit word is the set of the positions of its ones.  One action is   *)
(* one access to memory another thread may touch (a load, a store or a     *)
(* locked read-modify-write); accesses only the owner can make are joined  *)
(* to the next one.  x86 keeps stores in order and a locked instruction is *)
(* a fence, so interleaving these accesses loses no outcome: the only      *)
(* plain store to shared memory is state = UNOWNED, and a delay of it in a *)
(* store buffer is a delay of the action ReleaseUnown.                     *)
(*                                                                         *)
(* The module has no Next: which thread may call which operation on which  *)
(* slab is decided by SlabProtocol (one exclusive owner per slab, what the *)
(* design relies on) and by ObjectAllocator (what the code really does).   *)
(***************************************************************************)
EXTENDS Integers, FiniteSets

CONSTANTS
    Threads,    \* the threads of the program
    Slabs,      \* the slabs of the memory region
    NULL,       \* the null slab pointer
    Classes,    \* the size classes
    NumVecs,    \* obj_slab::num_vecs
    VecSize,    \* obj_slab::vec_size
    NBlocks     \* NBlocks[k]: payload_size / block_size for the class k

\* The class of a slab whose constructor has not run.
NoClass == "no_class"

ASSUME SlabAssumption ==
    /\ NULL \notin Slabs
    /\ NoClass \notin Classes
    /\ NumVecs \in Nat \ {0}
    /\ VecSize \in Nat \ {0}
    /\ NBlocks \in [Classes -> 1 .. NumVecs * VecSize]

VARIABLES
    availVecs,  \* available_vecs, per slab
    availSlots, \* available_slots[], per slab
    freedVecs,  \* freed_vecs, per slab
    freedSlots, \* freed_slots[], per slab
    state,      \* state, per slab
    cls,        \* block_size, per slab, as its size class; NoClass: no slab yet
    pc,         \* what each thread does next
    this,       \* the slab each thread works on
    vecs,       \* register: temp_av, or reclaimed_vecs
    iter,       \* register: index_iterator
    slots,      \* register: temp_as, or reclaimed_slots
    pos         \* register: <<vec_idx, slot_idx>> of the block being freed

slabVars == <<availVecs, availSlots, freedVecs, freedSlots, state, cls>>
regVars  == <<this, vecs, iter, slots, pos>>

OWNED   == 0
UNOWNED == 1

Vecs      == 0 .. NumVecs - 1
Bits      == 0 .. VecSize - 1
Positions == Vecs \X Bits
NoPos     == <<0, 0>>

\* tzcnt of a non-zero word.
LowestBit(S) == CHOOSE x \in S : \A y \in S : x <= y

(***************************************************************************)
(* The constructor.  nslots is the number of vectors in use, the last of   *)
(* which may be partly filled; the words above stay zero, as do the freed  *)
(* bits and the state (OWNED is 0): the memory is fresh from mmap or from  *)
(* the memset of reset().                                                  *)
(***************************************************************************)
NSlots(n) == (n + VecSize - 1) \div VecSize

InitVecs(n) == 0 .. NSlots(n) - 1

InitSlots(n) ==
    [v \in Vecs |->
        IF v < NSlots(n) - 1 THEN Bits
        ELSE IF v = NSlots(n) - 1
             THEN IF n % VecSize # 0 THEN 0 .. (n % VecSize) - 1 ELSE Bits
             ELSE {}]

Construct(s, k) ==
    /\ cls' = [cls EXCEPT ![s] = k]
    /\ availVecs' = [availVecs EXCEPT ![s] = InitVecs(NBlocks[k])]
    /\ availSlots' = [availSlots EXCEPT ![s] = InitSlots(NBlocks[k])]
    /\ UNCHANGED <<freedVecs, freedSlots, state>>

\* The positions that are blocks in a slab of class k.
BlocksOf(k) == {p \in Positions : p[2] \in InitSlots(NBlocks[k])[p[1]]}

----------------------------------------------------------------------------
Goto(t, l) == pc' = [pc EXCEPT ![t] = l]

\* Leave an operation for the label l with s as the slab still at hand; the
\* operation's registers are dead.
Return(t, l, s) ==
    /\ Goto(t, l)
    /\ this' = [this EXCEPT ![t] = s]
    /\ vecs' = [vecs EXCEPT ![t] = {}]
    /\ iter' = [iter EXCEPT ![t] = {}]
    /\ slots' = [slots EXCEPT ![t] = {}]
    /\ pos' = [pos EXCEPT ![t] = NoPos]

\* Enter the operation whose first label is l, on the slab s.
Call(t, l, s, p) ==
    /\ Goto(t, l)
    /\ this' = [this EXCEPT ![t] = s]
    /\ pos' = [pos EXCEPT ![t] = p]
    /\ UNCHANGED <<vecs, iter, slots>>

(***************************************************************************)
(* _allocate(): a restartable critical section from "alloc" to the commit. *)
(***************************************************************************)

\* Load available_vecs.
AllocBegin(t) ==
    /\ pc[t] = "alloc"
    /\ vecs' = [vecs EXCEPT ![t] = availVecs[this[t]]]
    /\ Goto(t, "alloc_vec")
    /\ UNCHANGED <<slabVars, this, iter, slots, pos>>

\* No summary bit left: FULL.
AllocFull(t) ==
    /\ pc[t] = "alloc_vec"
    /\ vecs[t] = {}
    /\ Return(t, "full", this[t])
    /\ UNCHANGED slabVars

\* The vector under the lowest summary bit is empty: clear that bit, store
\* the register to available_vecs and go round.
AllocClear(t) ==
    /\ pc[t] = "alloc_vec"
    /\ vecs[t] # {}
    /\ availSlots[this[t]][LowestBit(vecs[t])] = {}
    /\ vecs' = [vecs EXCEPT ![t] = @ \ {LowestBit(@)}]
    /\ availVecs' = [availVecs EXCEPT ![this[t]] = vecs[t] \ {LowestBit(vecs[t])}]
    /\ UNCHANGED <<availSlots, freedVecs, freedSlots, state, cls,
                   pc, this, iter, slots, pos>>

\* Load the vector that has a set bit.
AllocLoad(t) ==
    /\ pc[t] = "alloc_vec"
    /\ vecs[t] # {}
    /\ availSlots[this[t]][LowestBit(vecs[t])] # {}
    /\ slots' = [slots EXCEPT ![t] = availSlots[this[t]][LowestBit(vecs[t])]]
    /\ Goto(t, "alloc_commit")
    /\ UNCHANGED <<slabVars, this, vecs, iter, pos>>

\* What the commit returns: the block under the lowest bit of the register.
AllocResult(t) == <<this[t], LowestBit(vecs[t]), LowestBit(slots[t])>>

\* Mutant: the bit is not cleared.
AllocCommitKeep(t, ret) ==
    /\ pc[t] = "alloc_commit"
    /\ Return(t, ret, NULL)
    /\ UNCHANGED slabVars

\* Commit: store the vector without its lowest bit.
AllocCommit(t, ret) ==
    /\ pc[t] = "alloc_commit"
    /\ availSlots' = [availSlots EXCEPT
            ![this[t]][LowestBit(vecs[t])] = slots[t] \ {LowestBit(slots[t])}]
    /\ Return(t, ret, NULL)
    /\ UNCHANGED <<availVecs, freedVecs, freedSlots, state, cls>>

\* Preempted between label 1 and the commit: the kernel resumes the thread
\* at the abort handler, which jumps back to label 1.
AllocAbort(t) ==
    /\ pc[t] \in {"alloc_vec", "alloc_commit"}
    /\ Return(t, "alloc", this[t])
    /\ UNCHANGED slabVars

(***************************************************************************)
(* _try_release(): give the slab up, or take back what has been freed.     *)
(***************************************************************************)

\* Load freed_vecs.
ReleaseRead(t) ==
    /\ pc[t] = "release"
    /\ vecs' = [vecs EXCEPT ![t] = freedVecs[this[t]]]
    /\ Goto(t, IF freedVecs[this[t]] = {} THEN "release_unown" ELSE "release_vecs")
    /\ UNCHANGED <<slabVars, this, iter, slots, pos>>

\* Mutant: the state is left OWNED.
ReleaseUnownSilent(t, ret) ==
    /\ pc[t] = "release_unown"
    /\ Return(t, ret, NULL)
    /\ UNCHANGED slabVars

\* Nothing was freed: state = UNOWNED, return 1.
ReleaseUnown(t, ret) ==
    /\ pc[t] = "release_unown"
    /\ state' = [state EXCEPT ![this[t]] = UNOWNED]
    /\ Return(t, ret, NULL)
    /\ UNCHANGED <<availVecs, availSlots, freedVecs, freedSlots, cls>>

\* atomic_unset of the summary bits that were read.
ReleaseVecs(t) ==
    /\ pc[t] = "release_vecs"
    /\ freedVecs' = [freedVecs EXCEPT ![this[t]] = @ \ vecs[t]]
    /\ iter' = [iter EXCEPT ![t] = vecs[t]]
    /\ Goto(t, "release_slots")
    /\ UNCHANGED <<availVecs, availSlots, freedSlots, state, cls,
                   this, vecs, slots, pos>>

\* Load the freed bits of the next vector.
ReleaseSlots(t) ==
    /\ pc[t] = "release_slots"
    /\ iter[t] # {}
    /\ slots' = [slots EXCEPT ![t] = freedSlots[this[t]][LowestBit(iter[t])]]
    /\ Goto(t, "release_take")
    /\ UNCHANGED <<slabVars, this, vecs, iter, pos>>

\* Mutants: a plain store of zero, or no store, instead of the atomic_unset.
TakeLeaving(t, rest) ==
    /\ pc[t] = "release_take"
    /\ freedSlots' = [freedSlots EXCEPT ![this[t]][LowestBit(iter[t])] = rest]
    /\ availSlots' = [availSlots EXCEPT ![this[t]][LowestBit(iter[t])] = slots[t]]
    /\ iter' = [iter EXCEPT ![t] = @ \ {LowestBit(@)}]
    /\ slots' = [slots EXCEPT ![t] = {}]
    /\ Goto(t, "release_slots")
    /\ UNCHANGED <<availVecs, freedVecs, state, cls, this, vecs, pos>>
ReleaseTakeZero(t) == TakeLeaving(t, {})

\* atomic_unset of those bits, which become the vector's available bits.
ReleaseTake(t) ==
    /\ pc[t] = "release_take"
    /\ freedSlots' = [freedSlots EXCEPT
            ![this[t]][LowestBit(iter[t])] = @ \ slots[t]]
    /\ availSlots' = [availSlots EXCEPT
            ![this[t]][LowestBit(iter[t])] = slots[t]]
    /\ iter' = [iter EXCEPT ![t] = @ \ {LowestBit(@)}]
    /\ slots' = [slots EXCEPT ![t] = {}]
    /\ Goto(t, "release_slots")
    /\ UNCHANGED <<availVecs, freedVecs, state, cls, this, vecs, pos>>

\* Mutant: freed_vecs is read again instead of using reclaimed_vecs.
ReleaseDoneReread(t, ret, s) ==
    /\ pc[t] = "release_slots"
    /\ iter[t] = {}
    /\ availVecs' = [availVecs EXCEPT ![this[t]] = freedVecs[this[t]]]
    /\ Return(t, ret, s)
    /\ UNCHANGED <<availSlots, freedVecs, freedSlots, state, cls>>

\* All vectors taken: store available_vecs, return 0.
ReleaseDone(t, ret, s) ==
    /\ pc[t] = "release_slots"
    /\ iter[t] = {}
    /\ availVecs' = [availVecs EXCEPT ![this[t]] = vecs[t]]
    /\ Return(t, ret, s)
    /\ UNCHANGED <<availSlots, freedVecs, freedSlots, state, cls>>

(***************************************************************************)
(* _free() and _set_owned().                                               *)
(***************************************************************************)

\* The plain read that tells the first free of a vector from a later one.
FreeCheck(t) ==
    /\ pc[t] = "free"
    /\ Goto(t, IF freedSlots[this[t]][pos[t][1]] # {} THEN "free_later" ELSE "free_first")
    /\ UNCHANGED <<slabVars, regVars>>

\* Mutant: a plain store instead of the locked or.
SetFreedSlotStore(t) ==
    freedSlots' = [freedSlots EXCEPT ![this[t]][pos[t][1]] = {pos[t][2]}]

\* atomic_bit_set in the vector's word.
SetFreedSlot(t) ==
    freedSlots' = [freedSlots EXCEPT ![this[t]][pos[t][1]] = @ \union {pos[t][2]}]

\* Not the first free of the vector: return 0.
FreeLater(t, ret) ==
    /\ pc[t] = "free_later"
    /\ SetFreedSlot(t)
    /\ Return(t, ret, NULL)
    /\ UNCHANGED <<availVecs, availSlots, freedVecs, state, cls>>

FreeFirst(t) ==
    /\ pc[t] = "free_first"
    /\ SetFreedSlot(t)
    /\ Goto(t, "free_vec")
    /\ UNCHANGED <<availVecs, availSlots, freedVecs, state, cls, regVars>>

\* Mutant: the summary bit is off by one.
FreeVecOffByOne(t) ==
    /\ pc[t] = "free_vec"
    /\ freedVecs' = [freedVecs EXCEPT ![this[t]] = @ \union {pos[t][1] + 1}]
    /\ Goto(t, "free_state")
    /\ UNCHANGED <<availVecs, availSlots, freedSlots, state, cls, regVars>>

\* atomic_bit_set of the summary bit.
FreeVec(t) ==
    /\ pc[t] = "free_vec"
    /\ freedVecs' = [freedVecs EXCEPT ![this[t]] = @ \union {pos[t][1]}]
    /\ Goto(t, "free_state")
    /\ UNCHANGED <<availVecs, availSlots, freedSlots, state, cls, regVars>>

\* return state == UNOWNED: the caller goes on to _set_owned(), or is done.
FreeState(t, ret) ==
    /\ pc[t] = "free_state"
    /\ IF state[this[t]] = UNOWNED
       THEN Return(t, "set_owned", this[t])
       ELSE Return(t, ret, NULL)
    /\ UNCHANGED slabVars

\* Mutant: the old value of the bit is not looked at.
SetOwnedBlind(t, ret, s) ==
    /\ pc[t] = "set_owned"
    /\ state' = [state EXCEPT ![this[t]] = OWNED]
    /\ Return(t, ret, s)
    /\ UNCHANGED <<availVecs, availSlots, freedVecs, freedSlots, cls>>

\* atomic_bit_unset_ret won: this thread owns the slab now.
SetOwnedWon(t, ret, s) ==
    /\ pc[t] = "set_owned"
    /\ state[this[t]] = UNOWNED
    /\ state' = [state EXCEPT ![this[t]] = OWNED]
    /\ Return(t, ret, s)
    /\ UNCHANGED <<availVecs, availSlots, freedVecs, freedSlots, cls>>

\* Another thread claimed the slab first.
SetOwnedLost(t, ret) ==
    /\ pc[t] = "set_owned"
    /\ state[this[t]] = OWNED
    /\ Return(t, ret, NULL)
    /\ UNCHANGED slabVars

----------------------------------------------------------------------------
SlabLabels == {"alloc", "alloc_vec", "alloc_commit", "full",
               "release", "release_unown", "release_vecs", "release_slots",
               "release_take", "free", "free_later", "free_first", "free_vec",
               "free_state", "set_owned"}

SlabTypeOK ==
    /\ availVecs \in [Slabs -> SUBSET Vecs]
    /\ availSlots \in [Slabs -> [Vecs -> SUBSET Bits]]
    /\ freedVecs \in [Slabs -> SUBSET Vecs]
    /\ freedSlots \in [Slabs -> [Vecs -> SUBSET Bits]]
    /\ state \in [Slabs -> {OWNED, UNOWNED}]
    /\ cls \in [Slabs -> Classes \union {NoClass}]
    /\ this \in [Threads -> Slabs \union {NULL}]
    /\ vecs \in [Threads -> SUBSET Vecs]
    /\ iter \in [Threads -> SUBSET Vecs]
    /\ slots \in [Threads -> SUBSET Bits]
    /\ pos \in [Threads -> Positions]

SlabInit ==
    /\ availVecs = [s \in Slabs |-> {}]
    /\ availSlots = [s \in Slabs |-> [v \in Vecs |-> {}]]
    /\ freedVecs = [s \in Slabs |-> {}]
    /\ freedSlots = [s \in Slabs |-> [v \in Vecs |-> {}]]
    /\ state = [s \in Slabs |-> OWNED]
    /\ cls = [s \in Slabs |-> NoClass]
    /\ this = [t \in Threads |-> NULL]
    /\ vecs = [t \in Threads |-> {}]
    /\ iter = [t \in Threads |-> {}]
    /\ slots = [t \in Threads |-> {}]
    /\ pos = [t \in Threads |-> NoPos]
=============================================================================
