---------------------------- MODULE SlabLayout -----------------------------
(***************************************************************************)
(* The arithmetic of the object allocator: which size class serves a size  *)
(* (slab_size_classes.h), where in the region the slabs lie                *)
(* (calculate_start(), calculate_end()), which blocks a new slab has, and  *)
(* how a free finds the slab and the bit of a block from its address       *)
(* alone.  The other modules take this for granted: there a block is a     *)
(* pair of vector and slot.  Words wrap at WordSize.                       *)
(***************************************************************************)
EXTENDS Integers, FiniteSetsExt

CONSTANTS Regions,       \* <<address, size>> of the memory given to the constructor
          LayoutSize,    \* sizeof(memory_layout_t)
          WordSize,      \* 2^64
          Sizes,         \* sizes asked for
          SlotsProbed    \* bound: only blocks with these slots, and a slab's last ones

VARIABLES region,   \* mem and region_size, or "failed" after a failed assertion
          current,  \* current_slab
          slab,     \* the newest slab: where it is and the size it was made for
          block,    \* a block allocated from it; one is enough to follow
          found     \* what _free() made of its address

layoutVars == <<region, current, slab, block, found>>

num_vecs == 64
vec_size == 64
payload_size == num_vecs * vec_size * 8
payload_offset == 1280
SlabSize == payload_offset + payload_size

slab_sizes == <<8, 16, 24, 32, 48, 64, 80, 96, 112, 128, 144>>
idx_to_size(idx) == slab_sizes[idx + 1]

\* Mutant: 24 is in the classes of 16 bytes.
size_to_idx_below(size) ==
    IF size < 24 THEN ((size + 7) \div 8) - 1 ELSE ((size + 15) \div 16) + 1
size_to_idx(size) ==
    IF size <= 24 THEN ((size + 7) \div 8) - 1 ELSE ((size + 15) \div 16) + 1

roundup(a, b) == b * ((a + (b - 1)) \div b)
rounddown(a, b) == b * (a \div b)

calculate_start(mem) == roundup(mem, SlabSize)
calculate_end(mem, size) ==
    LET offset == calculate_start(mem) - mem
    IN (calculate_start(mem) + rounddown((size - offset) % WordSize, SlabSize)) % WordSize

End == calculate_end(region[1] + LayoutSize, (region[2] - LayoutSize) % WordSize)

NoBlock == [size |-> 0, addr |-> 0, at |-> <<>>]

LayoutInit ==
    /\ region \in Regions
    /\ current = calculate_start(region[1] + LayoutSize)
    /\ slab = <<>> /\ block = NoBlock /\ found = <<>>

\* The constructor's assertion: the end of the slabs is a multiple of their size.
AssertEnd ==
    /\ region # "failed" /\ End % SlabSize # 0
    /\ region' = "failed"
    /\ UNCHANGED <<current, slab, block, found>>

\* obj_slab(block_size): the vectors and slots that are available.
NewSlabBits(block_size) ==
    LET nblocks == payload_size \div block_size
        nslots == (nblocks + 63) \div 64
        last == IF nblocks % 64 # 0 THEN nblocks % 64 ELSE 64
    IN [v \in 0 .. nslots - 1 |-> IF v < nslots - 1 THEN 0 .. 63 ELSE 0 .. last - 1]

\* _new() and the construction of the slab, unless out_of_memory().
NewSlab(size) ==
    /\ region # "failed" /\ End % SlabSize = 0
    /\ current < End
    /\ slab' = [at |-> current, size |-> size]
    /\ current' = current + SlabSize
    /\ UNCHANGED <<region, block, found>>

\* The position _allocate() returns for an available bit, and the block's address.
AllocateBlock ==
    LET block_size == idx_to_size(size_to_idx(slab.size))
        avail == NewSlabBits(block_size)
    IN /\ slab # <<>> /\ block = NoBlock
       /\ \E v \in DOMAIN avail : \E s \in avail[v] :
            /\ s \in SlotsProbed \/ v + 1 \notin DOMAIN avail
            /\ block' = [size |-> slab.size, at |-> <<slab.at, v, s>>,
                         addr |-> slab.at + payload_offset + block_size * (vec_size * v + s)]
       /\ UNCHANGED <<region, current, slab, found>>

addr_to_slab(addr) == SlabSize * (addr \div SlabSize)

\* _free(addr): the slab, its block size, and obj_slab::_free()'s bit.
FreeBlock ==
    LET at == addr_to_slab(block.addr)
        position == (block.addr - at - payload_offset) \div idx_to_size(size_to_idx(slab.size))
    IN /\ block # NoBlock
       /\ found' = <<at, position \div num_vecs, position % vec_size>>
       /\ UNCHANGED <<region, current, slab, block>>

LayoutNext ==
    \/ AssertEnd
    \/ block = NoBlock /\ \E size \in Sizes : NewSlab(size)
    \/ AllocateBlock
    \/ FreeBlock

----------------------------------------------------------------------------
\* A block is of the smallest class that holds the size asked for, lies in the payload
\* of its slab, and the slab lies in the region, behind the layout: a region too small
\* for a slab, whose size wraps in calculate_end(), is not used at all.
BlocksFit ==
    block # NoBlock =>
        LET class == Min({c \in {slab_sizes[i] : i \in DOMAIN slab_sizes} : c >= block.size})
            start == slab.at + payload_offset
        IN /\ block.addr >= start /\ block.addr + class <= start + payload_size
           /\ (block.addr - start) % class = 0
           /\ idx_to_size(size_to_idx(block.size)) = class
           /\ region[1] + LayoutSize <= slab.at /\ slab.at + SlabSize <= region[1] + region[2]

\* From the address alone, a free finds the slab and the very bit that was allocated.
FreeFindsBlock == found # <<>> => found = block.at

\* A block fits, and a free finds it: what _allocate() and _free() agree on.
BlocksFound == BlocksFit /\ FreeFindsBlock
=============================================================================
