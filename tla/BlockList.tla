----------------------------- MODULE BlockList -----------------------------
(***************************************************************************)
(* lib/container/block_list.h: the container in which slab_test.cc keeps   *)
(* the regions it has allocated.  Nodes live in blocks of Width nodes; all *)
(* blocks that have nodes are meant to be in iter_list, all blocks that    *)
(* have room in available_list.  The last block with room is kept when it  *)
(* becomes empty, other empty blocks go back to the heap.                  *)
(*                                                                         *)
(* The container is sequential: an operation is one action.  A block is    *)
(* its address; node_slots is the set of its free nodes.  live is what the *)
(* program has inserted and neither removed nor popped.  fault records     *)
(* that an operation failed an assertion, went through NULL or to a block  *)
(* that is not allocated, or looked for a one bit in zero; the program is  *)
(* followed no further.                                                    *)
(***************************************************************************)
EXTENDS Integers, FiniteSets

CONSTANTS
    BlockPtrs,  \* the addresses calloc may return; bounds the number of blocks
    NULL,
    Width       \* nodes per block (64)

ASSUME BlockListAssumption ==
    /\ NULL \notin BlockPtrs
    /\ Width \in Nat \ {0, 1}

VARIABLES
    nodeSlots,                      \* node_slots, per block
    nextIter, prevIter,             \* next_iter, prev_iter, per block
    nextAvail, prevAvail,           \* next_available, prev_available, per block
    iterList, availList,            \* iter_list, available_list
    heap,                           \* the blocks that are allocated
    live,                           \* the nodes the program uses
    fault                           \* "none", "assert" or "access"

iterVars  == <<nextIter, prevIter, iterList>>
availVars == <<nextAvail, prevAvail, availList>>
vars == <<nodeSlots, iterVars, availVars, heap, live, fault>>

Nodes == 0 .. Width - 1
First(S) == CHOOSE i \in S : \A j \in S : i <= j

Init ==
    /\ nodeSlots = [b \in BlockPtrs |-> {}]
    /\ nextIter = [b \in BlockPtrs |-> NULL]
    /\ prevIter = [b \in BlockPtrs |-> NULL]
    /\ nextAvail = [b \in BlockPtrs |-> NULL]
    /\ prevAvail = [b \in BlockPtrs |-> NULL]
    /\ iterList = NULL
    /\ availList = NULL
    /\ heap = {}
    /\ live = {}
    /\ fault = "none"

\* The blocks of S that are not NULL may be accessed.
Readable(S) == S \ {NULL} \subseteq heap

Fails(how) ==
    /\ fault' = how
    /\ UNCHANGED <<nodeSlots, iterVars, availVars, heap, live>>

----------------------------------------------------------------------------
\* node_block::init(): every node but the first is free.
InitSlots == Nodes \ {0}

\* prev_available of the new head is left as it is.
LinkAvailable(b) ==
    /\ nextAvail' = [nextAvail EXCEPT ![b] = availList]
    /\ prevAvail' = [p \in BlockPtrs |-> IF p = availList THEN b ELSE prevAvail[p]]
    /\ availList' = b

\* Mutant: the next block keeps its prev_available.
UnlinkAvailableOneWay(b) ==
    /\ nextAvail' = [p \in BlockPtrs |-> IF p = prevAvail[b] THEN nextAvail[b] ELSE nextAvail[p]]
    /\ availList' = IF prevAvail[b] = NULL THEN nextAvail[b] ELSE availList
    /\ UNCHANGED prevAvail

UnlinkAvailable(b) ==
    /\ prevAvail' = [p \in BlockPtrs |-> IF p = nextAvail[b] THEN prevAvail[b] ELSE prevAvail[p]]
    /\ nextAvail' = [p \in BlockPtrs |-> IF p = prevAvail[b] THEN nextAvail[b] ELSE nextAvail[p]]
    /\ availList' = IF prevAvail[b] = NULL THEN nextAvail[b] ELSE availList

\* link_block() of a block calloc() has just filled with zeroes.
LinkBlock(b) ==
    /\ nextIter' = [nextIter EXCEPT ![b] = iterList]
    /\ prevIter' = [p \in BlockPtrs |-> IF p = b THEN NULL
                                        ELSE IF p = iterList THEN b ELSE prevIter[p]]
    /\ iterList' = b

UnlinkBlock(b) ==
    /\ prevIter' = [p \in BlockPtrs |-> IF p = nextIter[b] THEN prevIter[b] ELSE prevIter[p]]
    /\ nextIter' = [p \in BlockPtrs |-> IF p = prevIter[b] THEN nextIter[b] ELSE nextIter[p]]
    /\ iterList' = IF prevIter[b] = NULL THEN nextIter[b] ELSE iterList

\* An empty block goes back to the heap unless it is the only one with room.
FreeEmpty(b) ==
    IF nextAvail[availList] # NULL
    THEN UnlinkAvailable(b) /\ heap' = heap \ {b}
    ELSE UNCHANGED <<availVars, heap>>

----------------------------------------------------------------------------
\* _insert(), nothing has room: a new block, its node 0 used.  available_list
\* is NULL, so linking the block there makes it the only one.
InsertNew(b) ==
    /\ availList = NULL
    /\ b \notin heap
    /\ IF Readable({iterList})
       THEN /\ nodeSlots' = [nodeSlots EXCEPT ![b] = InitSlots]
            /\ LinkBlock(b)
            /\ nextAvail' = [nextAvail EXCEPT ![b] = NULL]
            /\ prevAvail' = [prevAvail EXCEPT ![b] = NULL]
            /\ availList' = b
            /\ heap' = heap \union {b}
            /\ live' = live \union {<<b, 0>>}
            /\ UNCHANGED fault
       ELSE Fails("access")

\* _insert(), iter_list is empty: the block kept in available_list is used again.
InsertRevive ==
    /\ availList # NULL
    /\ iterList = NULL
    /\ IF availList \notin heap THEN Fails("access")
       ELSE IF nodeSlots[availList] # Nodes THEN Fails("assert")
       ELSE /\ nodeSlots' = [nodeSlots EXCEPT ![availList] = InitSlots]
            /\ iterList' = availList
            /\ nextIter' = [nextIter EXCEPT ![availList] = NULL]
            /\ prevIter' = [prevIter EXCEPT ![availList] = NULL]
            /\ live' = live \union {<<availList, 0>>}
            /\ UNCHANGED <<availVars, heap, fault>>

\* _insert(), the usual case: the first free node of the first block with
\* room, which leaves available_list when that fills it.
InsertInto ==
    /\ availList # NULL
    /\ iterList # NULL
    /\ LET b == availList
           i == First(nodeSlots[b])
           n == nextAvail[b]
           filled == nodeSlots[b] = {i}
       IN  IF b \in heap /\ nodeSlots[b] # {} /\ (filled => Readable({n}))
           THEN /\ nodeSlots' = [nodeSlots EXCEPT ![b] = @ \ {i}]
                /\ availList' = IF filled THEN n ELSE b
                /\ prevAvail' = [p \in BlockPtrs |-> IF filled /\ p = n THEN NULL
                                                     ELSE prevAvail[p]]
                /\ live' = live \union {<<b, i>>}
                /\ UNCHANGED <<nextAvail, iterVars, heap, fault>>
           ELSE Fails("access")

Insert == InsertInto \/ InsertRevive \/ \E b \in BlockPtrs : InsertNew(b)

----------------------------------------------------------------------------
\* The end of pop(), remove() and remove_batch(): the nodes S of b are free
\* again, and the lists follow.
Drop(b, S, wasFull) ==
    LET new == nodeSlots[b] \union S
    IN  /\ nodeSlots' = [nodeSlots EXCEPT ![b] = new]
        /\ IF wasFull
           THEN LinkAvailable(b) /\ UNCHANGED <<iterVars, heap>>
           ELSE IF new = Nodes
           THEN UnlinkBlock(b) /\ FreeEmpty(b)
           ELSE UNCHANGED <<iterVars, availVars, heap>>

\* The blocks Drop accesses are allocated.
DropReadable(b, S, wasFull) ==
    /\ b \in heap
    /\ wasFull => Readable({availList})
    /\ ~ wasFull /\ nodeSlots[b] \union S = Nodes =>
          /\ availList \in heap
          /\ Readable({nextIter[b], prevIter[b]})
          /\ nextAvail[availList] # NULL => Readable({nextAvail[b], prevAvail[b]})

\* pop(): the first used node of the first block of iter_list.  The caller has
\* inserted something it has not taken out.
Pop ==
    /\ live # {}
    /\ LET b == iterList
           i == First(Nodes \ nodeSlots[b])
           wasFull == nodeSlots[b] = {}
       IN  IF b \in heap /\ nodeSlots[b] # Nodes /\ DropReadable(b, {i}, wasFull)
           THEN /\ Drop(b, {i}, wasFull)
                /\ live' = live \ {<<b, i>>}
                /\ UNCHANGED fault
           ELSE Fails("access")

\* remove(n), n a node in use.
Remove(n) ==
    LET b == n[1]
        S == {n[2]}
        wasFull == nodeSlots[b] \union S = S
    IN  /\ n \in live
        /\ IF DropReadable(b, S, wasFull)
           THEN /\ Drop(b, S, wasFull)
                /\ live' = live \ {n}
                /\ UNCHANGED fault
           ELSE Fails("access")

\* remove_batch(b, S), S nodes of b in use.  destroy_batch() also allows free
\* ones in the mask, but then ret == mask no longer says that b was full.
RemoveBatch(b, S) ==
    LET wasFull == nodeSlots[b] \union S = S
    IN  /\ S # {} /\ {b} \X S \subseteq live
        /\ IF DropReadable(b, S, wasFull)
           THEN /\ Drop(b, S, wasFull)
                /\ live' = live \ ({b} \X S)
                /\ UNCHANGED fault
           ELSE Fails("access")

----------------------------------------------------------------------------
\* slab_test.cc inserts and pops; block_list.test inserts and removes;
\* remove_batch() has no caller.
Next ==
    /\ fault = "none"
    /\ \/ Insert
       \/ Pop
       \/ \E n \in BlockPtrs \X Nodes : Remove(n)
       \/ \E b \in BlockPtrs, S \in SUBSET Nodes : RemoveBatch(b, S)

Spec == Init /\ [][Next]_vars

----------------------------------------------------------------------------
Pointers == BlockPtrs \union {NULL}

\* Every variable has its type.
TypeOK ==
    /\ nodeSlots \in [BlockPtrs -> SUBSET Nodes]
    /\ {nextIter, prevIter, nextAvail, prevAvail} \subseteq [BlockPtrs -> Pointers]
    /\ {iterList, availList} \subseteq Pointers
    /\ heap \subseteq BlockPtrs
    /\ live \subseteq BlockPtrs \X Nodes
    /\ fault \in {"none", "assert", "access"}

\* The k-th block of a chain (NULL from its end on), the blocks of the chain,
\* and whether it ends: a walk of as many steps as there are blocks is over.
ChainAt(next, first) ==
    LET at[k \in 0 .. Cardinality(BlockPtrs)] ==
            IF k = 0 THEN first
            ELSE IF at[k - 1] = NULL THEN NULL ELSE next[at[k - 1]]
    IN  at
ChainOf(next, first) ==
    {ChainAt(next, first)[k] : k \in 0 .. Cardinality(BlockPtrs)} \ {NULL}
ChainEnds(next, first) == ChainAt(next, first)[Cardinality(BlockPtrs)] = NULL

Available == ChainOf(nextAvail, availList)
Iterated  == ChainOf(nextIter, iterList)
Used(b)   == {i \in Nodes : <<b, i>> \in live}

\* available_list is a proper doubly linked list of exactly the allocated
\* blocks with room: no room is forgotten and no full or freed block offered,
\* whatever was inserted and dropped before.
AvailableSound ==
    /\ ChainEnds(nextAvail, availList)
    /\ Available = {b \in heap : nodeSlots[b] # {}}
    /\ \A b \in Available :
          nextAvail[b] # NULL => prevAvail[nextAvail[b]] = b
    /\ availList # NULL => prevAvail[availList] = NULL

\* No node the program still uses is in a freed block or counted as free, and
\* every other node of an allocated block is free: insert() hands out no node
\* twice and loses none.
NodesMatch ==
    /\ {n[1] : n \in live} \subseteq heap
    /\ \A b \in heap : nodeSlots[b] = Nodes \ Used(b)

\* available_list and the nodes agree: no block with room is forgotten or offered twice,
\* and no node is handed out twice or counted as free while in use.  Nothing is said of
\* iter_list, whose links are stale once LiveIterated has failed.
ContainerSound == AvailableSound /\ NodesMatch

\* Every node in use is in a block of iter_list: the iterators visit it, pop() comes to
\* it, and when iter_list is empty the block kept in available_list is empty too, as
\* _insert() asserts.
LiveIterated == {n[1] : n \in live} \subseteq Iterated
=============================================================================
