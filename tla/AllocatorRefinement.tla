------------------------ MODULE AllocatorRefinement ------------------------
(***************************************************************************)
(* With one pinned thread per CPU (spawn_n with FIRST_N or ROUND_ROBIN and *)
(* no more threads than CPUs) the allocator keeps every slab to the        *)
(* protocol SlabProtocol describes, in which a slab has one owner at a     *)
(* time: what is proved of the protocol holds for the allocator's slabs.   *)
(*                                                                         *)
(* The owner of a slab is the thread of the CPU in whose list it is        *)
(* linked, or the thread that holds it between two lists.  The protocol    *)
(* knows neither lists nor caches: a block in a free cache is, to its      *)
(* slab, still handed out, and a thread that works on a list is idle.      *)
(***************************************************************************)
EXTENDS ObjectAllocator

InSlab(t) == pc[t] \in SlabLabels

Owns ==
    [t \in Threads |-> {s \in Made :
        \/ \E k \in Classes, c \in Affinity[t] : s \in Chain(k, c)
        \/ Holds(t, s)}]

\* The block t is about to put into a free cache.
Pushing(t, b) == pc[t] = "push" /\ b = <<this[t], pos[t][1], pos[t][2]>>

HandedOut ==
    {b \in Blocks :
        \/ live[b] > 0
        \/ \E k \in Classes, c \in CPUs : b \in Range(cache[k][c])
        \/ \E t \in Threads : Pushing(t, b)}

SlabPc   == [t \in Threads |-> IF InSlab(t) THEN pc[t] ELSE "idle"]
SlabThis == [t \in Threads |-> IF InSlab(t) THEN this[t] ELSE NULL]
SlabPos  == [t \in Threads |-> IF InSlab(t) THEN pos[t] ELSE NoPos]

Protocol == INSTANCE SlabProtocol WITH
    owns <- Owns,
    live <- HandedOut,
    pc   <- SlabPc,
    this <- SlabThis,
    pos  <- SlabPos

\* Every step of the pinned allocator is a step of the protocol or leaves its
\* state alone: _allocate_inner() never allocates from, nor releases, a slab
\* that another CPU has claimed, whatever the cross-CPU frees do.
RefinesProtocol == Protocol!Spec

----------------------------------------------------------------------------
(***************************************************************************)
(* What makes the properties of the pinned allocator inductive.            *)
(***************************************************************************)

\* spawn_n() gave every thread a CPU of its own.
PinnedApart ==
    /\ \A t \in Threads : \E c \in CPUs : Affinity[t] = {c}
    /\ \A t, u \in Threads : Affinity[t] \intersect Affinity[u] # {} => t = u

\* A CPU runs only threads pinned to it.
ScheduleInv == \A c \in CPUs : on[c] \in Threads => c \in Affinity[on[c]]

CommitLabels == {"new_send_commit", "rel_send_commit", "free_send_commit"}

RegisterLabels == {"alloc_vec", "alloc_commit", "release_unown", "release_vecs",
                   "release_slots", "release_take"}

\* From get_start_cpu() to the end of the round of _allocate_inner().
InnerLabels == {"inner_head", "oom", "new", "construct", "new_send",
                "new_send_commit", "alloc", "alloc_vec", "alloc_commit", "full",
                "release", "release_unown", "release_vecs", "release_slots",
                "release_take", "rel_send", "rel_send_commit", "sent"}

\* The locals of an operation: start_cpu is the thread's CPU, size_idx a class
\* and that of the slab at hand, and no register outlives its operation.
LocalsInv ==
    \A t \in Threads :
        /\ pc[t] # "aborted"
        /\ pc[t] # "idle" => size[t] \in Classes
        /\ pc[t] \in InnerLabels => start[t] \in Affinity[t]
        /\ pc[t] \in SlabLabels \union SendLabels \union {"push", "sent"} =>
              this[t] \in Made /\ cls[this[t]] = size[t]
        /\ pc[t] \notin RegisterLabels => vecs[t] = {} /\ iter[t] = {} /\ slots[t] = {}
        /\ pc[t] = "full" => pos[t] = NoPos

\* Only slabs below current_slab are constructed, each by the thread that drew
\* it, and the next field of a fresh slab is NULL.
DrawnInv ==
    /\ \A s \in Slabs : s >= current => cls[s] = NoClass
    /\ \A s \in Slabs : cls[s] = NoClass => next[s] = NULL
    /\ \A t \in Threads : pc[t] = "construct" =>
          /\ this[t] \in Slabs
          /\ this[t] < current
          /\ cls[this[t]] = NoClass
    /\ \A t, u \in Threads :
          pc[t] = "construct" /\ pc[u] = "construct" /\ this[t] = this[u] => t = u
    /\ current + Cardinality({t \in Threads : pc[t] = "new"})
          <= NumSlabs + 1 + Cardinality(Threads)

\* A list ends and has no slab twice; its slabs are of its class; a CPU without
\* a thread has none.
ChainSound(k, c) ==
    LET w == Walk(k, c)
    IN  /\ w[NumSlabs] = NULL
        /\ \A i, j \in 0 .. NumSlabs : w[i] = w[j] /\ w[i] # NULL => i = j
        /\ \A i \in 0 .. NumSlabs : w[i] # NULL => cls[w[i]] = k
        /\ head[k][c] # NULL => \E t \in Threads : c \in Affinity[t]

ChainInv == \A k \in Classes, c \in CPUs : ChainSound(k, c)

\* The end of a list is its tail, unless a thread of its CPU holds it; and a
\* slab that is linked and held is the one after tail.
TailSound(k, c) ==
    LET w == Walk(k, c)
    IN  /\ \A n \in 0 .. NumSlabs - 1 : w[n] # NULL /\ w[n + 1] = NULL =>
              w[n] = tail[k][c] \/ \E t \in Threads : Holds(t, w[n])
        /\ \A n \in 0 .. NumSlabs, t \in Threads : w[n] # NULL /\ Holds(t, w[n]) =>
              /\ Linking(t, w[n])
              /\ c \in Affinity[t]
              /\ n > 0
              /\ w[n - 1] = tail[k][c]

TailInv == \A k \in Classes, c \in CPUs : TailSound(k, c)

\* A thread that sends a slab has cut it off; before the commit it is linked, or
\* the list is empty and tail names it.
SendSound(t) ==
    /\ pc[t] \in SendLabels => next[this[t]] = NULL
    /\ pc[t] \in CommitLabels => \A c \in Affinity[t] :
          IF head[size[t]][c] = NULL THEN tail[size[t]][c] = this[t]
          ELSE this[t] \in Chain(size[t], c)
    /\ pc[t] = "sent" => \E c \in Affinity[t] : this[t] \in Chain(size[t], c)

SendInv == \A t \in Threads : SendSound(t)

Cached(b, k, c, n) == n \in 1 .. Len(cache[k][c]) /\ cache[k][c][n] = b

\* A block that is handed out is with the program (once), or in one place of one
\* cache, or about to be put into one.
HandedSound(b) ==
    /\ live[b] <= 1
    /\ \A k \in Classes, c \in CPUs, n \in 1 .. CacheSize : Cached(b, k, c, n) =>
          /\ live[b] = 0
          /\ \A t \in Threads : ~ Pushing(t, b)
          /\ \A l \in Classes, d \in CPUs, m \in 1 .. CacheSize :
                Cached(b, l, d, m) => l = k /\ d = c /\ m = n
    /\ \A t \in Threads : Pushing(t, b) =>
          live[b] = 0 /\ \A u \in Threads : Pushing(u, b) => u = t

HandedInv == \A b \in Blocks : HandedSound(b)

\* Inductive together with the invariant IndInv of the protocol.
PinnedInv ==
    /\ TypeOK
    /\ ScheduleInv
    /\ LocalsInv
    /\ DrawnInv
    /\ ChainInv
    /\ TailInv
    /\ SendInv
    /\ HandedInv
    /\ CacheClass
=============================================================================
