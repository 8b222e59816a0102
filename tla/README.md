# NCMalloc in TLA+

NCMalloc is a slab allocator for Linux/x86-64 whose fast paths are
*restartable sequences* (rseq): short critical sections on per-CPU data that
the kernel restarts when the thread is preempted inside one. This directory
holds TLA+ models of its core, of the libraries its drivers use and of the
tcmalloc the repository carries for comparison, TLC configurations that check
them on small instances, and TLAPS proofs of the slab protocol, of the allocator
with pinned threads, and of tcmalloc's page heap and sampler for instances of any
size.

## 1. The system

### 1.1 Components

| component | state | operations |
|---|---|---|
| object slab (`allocator/obj_slab.h`) | two bit matrices with a summary word each: `available_vecs` / `available_slots[]` for the owner, `freed_vecs` / `freed_slots[]` for everybody; `state` (OWNED / UNOWNED); `block_size`; `next` | constructor, `_allocate`, `_try_release`, `_free`, `_set_owned` |
| slab manager (`allocator/slab_manager.h`) | per size class and CPU: head and tail of a list of slabs, and the free cache | `_cas_set_next_available_slab` |
| free cache (`allocator/free_cache.h`) | per size class and CPU: a stack of at most `cache_size` block addresses | `try_push`, `try_pop` (in `object_allocator.h`) |
| slab allocation (`allocator/slab_allocation.h`) | `current_slab`, the next unused slab of the region, shared by all CPUs | `out_of_memory`, `_new` |
| object allocator (`allocator/object_allocator.h`) | the memory region: managers, slab allocation, slabs | `_allocate`, `_allocate_inner`, `_free`, `_send_slab`, `reset` |
| restartable sequences (`lib/concurrency/rseq/`) | `__rseq_abi` per thread | registration, `get_start_cpu`, the section macros |
| size classes (`allocator/slab_size_classes.h`, `lib/optimized/const_math.h`) | none | size to class, class to size, rounding |
| thread helper (`lib/timing/thread_helper.*`) | the spawned threads | `spawn_n` with a pin policy, `join_all` |
| block list (`lib/container/block_list.h`) | blocks of 64 nodes in two linked lists | insert, remove, remove_batch, pop, iterators |
| argument parser (`lib/util/arg.*`) | the arguments added, those found, the variables | `add_argument`, `parse_arguments` |
| system information (`lib/system/sys_info.h`) | the generated header of constants | `compute_*`, `create_defs` |
| memory mapping, statistics, timers, error handling, back traces | mostly none | support for the test drivers in `src/` |

tcmalloc (`tcmalloc-src/tcmalloc/`), from the operating system up:

| component | state | operations |
|---|---|---|
| system allocation (`system-alloc.cc`) | a region per tag, cut from its end | `SystemAlloc`, `SystemRelease`, the region factory |
| page heap and page map (`page_heap.*`, `pagemap.*`, `page_allocator.*`) | spans in use, free and returned, in lists by length; page to span and size class | `New`, `NewAligned`, `Delete`, `ReleaseAtLeastNPages`, `set_limit` |
| huge-page-aware heap (`huge_page_aware_allocator.*`, `huge_page_filler.h`, `huge_region.h`, `huge_cache.*`, `internal/range_tracker.h`) | bit maps of the pages of hugepages, what of them is released, lists of hugepages by longest free range; regions; a cache of whole hugepages | the same |
| huge address map (`huge_address_map.*`, `huge_allocator.*`) | a treap of free ranges of hugepages | insert with merging, remove, best fit |
| span (`span.*`) | free objects, chained inside one another | `BuildFreelist`, `FreelistPush`, `FreelistPopBatch` |
| central freelist and transfer cache | spans with free objects; an array of batches | `InsertRange`, `RemoveRange`, slots taken from other classes |
| per-CPU cache (`percpu_tcmalloc.h`, `cpu_cache.*`) | per CPU and class a header word and an array; the bytes a CPU may still cache | push and pop as restartable sequences, grow, shrink, steal, refill, overflow, drain |
| thread cache (`thread_cache.*`) | lists per thread with limits, the unclaimed space | allocate, deallocate, scavenge, steal, create, delete |
| size map (`common.*`, `size_classes.cc`, ...) | class tables and the class array | `Init`, `GetSizeClass` |
| sampler, sampled and guarded allocation (`sampler.*`, `tcmalloc.cc`, `guarded_page_allocator.*`) | bytes until the next sample; guarded pages and their metadata | allocation and free of a sample, the fault handler |

### 1.2 Interaction

A thread that allocates first pops the free cache of its CPU. If that is empty
it reads the head of its CPU's list (outside any critical section), allocates
from that slab in a critical section that checks the thread is still on that
CPU, and on FULL unlinks the slab (a second critical section), then either
gives it up (`state = UNOWNED`, no list knows it any more) or takes back the
blocks freed so far and sends it to the list of the CPU it is on now (a third
section). A thread that frees pushes the block on its CPU's cache or, if that
is full, sets bits in the shared part of the slab with locked instructions; the
free that finds the slab UNOWNED claims it with `_set_owned` and sends it to
its own CPU's list.

In tcmalloc a request goes from the per-CPU (or thread) cache to the transfer
cache, the central freelist, the page heap (one of the two) and the system, a
batch or a span at a time. Each layer has its own lock, and drops it to call the
layer below; the page heaps drop theirs for system calls.

### 1.3 What is hard

* a thread can be preempted, and moved to another CPU, between any two
  instructions; inside a critical section it then restarts, but stores already
  made stay (`_allocate` stores a cleaned summary word, `_send_slab` links with
  two stores);
* frees come from any CPU, at any time, into a slab whose owner is in the middle
  of `_try_release`, which is atomic only bit by bit;
* values are read and used later: the list head, the FULL answer, the value of
  `freed_vecs`, the zero test in `_free`;
* ownership of a slab is implicit: nothing but the state word and list
  membership says who may touch the allocation bits;
* the end of the region and the limit of the cache are reached by races;
* tcmalloc's locks are dropped in the middle of operations: what was read before
  is stale after, and what is in nobody's list meanwhile must still be counted
  and must not be touched;
* a drain of another CPU's lists has nothing but a header word, a fence and the
  kernel's restart to stop the pushes and pops that are under way;
* counters are kept by increments on many paths, and wrong ones show only later.

`PROJECT.json` lists these hazards with their lines and the properties about
them.

### 1.4 What makes the components correct

* slab: no block is lost or handed out twice; a slab has at most one owner and
  the state word says whether it has one; no available block is hidden;
* lists: every list ends, in its tail; an OWNED slab is in exactly one list or
  in exactly one thread's hands, an UNOWNED one in none;
* cache: blocks stay with their class, the array is never overrun;
* allocator: the program never holds a block twice, what the code asserts of a slab
  it has unlinked or sent back is true (`object_allocator.h:437`, `:439`, `:444`,
  `obj_slab.h:235`), every operation returns;
* block list: the list of blocks with room holds exactly those and no node is
  handed out twice; every node in use is iterated, which the code does not keep
  (see 5);
* tcmalloc: at every layer an object, a page or a hugepage is in exactly one
  place; nothing the program holds is returned to the system; counters, lists
  and the page map say what there is; cache space is neither lost nor created.

## 2. Modules

| module | models | used by |
|---|---|---|
| `ObjSlab` | the slab: its words, and one action per shared access of its operations | all |
| `SlabProtocol` | the slab's life under the discipline the design relies on: one owner at a time, anybody frees. The abstract specification | proofs, refinement |
| `SlabProtocolProofs` | theorems about `SlabProtocol` | - |
| `SlabManager` | the lists, `_send_slab`, the unlinking compare-and-set, preemption and migration | `ObjectAllocator` |
| `ObjectAllocator` | the whole of `_allocate` and `_free` over caches, lists, slabs and region | refinement, `MCSingleThread` |
| `AllocatorRefinement` | the mapping under which the pinned allocator implements `SlabProtocol`, and the invariant its proof needs | `MCObjectAllocator`, proofs |
| `AllocatorLists`, `AllocatorSteps`, `AllocatorOwners`, `AllocatorBlocks`, `AllocatorProofs` | theorems about the pinned allocator, and the lemmas they rest on | - |
| `SlabLayout` | size classes, the place of slabs in the region, block addresses and their inverse in `_free` | `MCSingleThread` |
| `BlockList` | the container of `block_list.h`: its two lists of blocks under insert, pop, remove and remove_batch | `MCSingleThread` |
| `ArgParser` | adding arguments with the checks, parsing a command line word by word, the exits | `MCSingleThread` |
| `SysInfo` | the constants computed from a machine's files, the header written item by item, death at any point, the next build | `MCSingleThread` |
| `SizeClassTables`, `SizeMap` | all class tables of the source as data; their validation, the class array and the look-ups | `MCSingleThread` |
| `SystemAlloc`, `SystemRegions` | regions as operators; the allocator over them with release and its retries | `PageHeap`, `MCSingleThread` |
| `PageHeap` | page heap, page map and usage limit over `SystemAlloc` | `MCPageHeap` |
| `PageHeapProofs` | theorems about `PageHeap` and the part of `SystemAlloc` it uses | - |
| `RangeTracker`, `HugeRegion`, `HugePageFiller`, `HugeCache` | the parts of the huge-page-aware heap, each method as an operator on a record | `HugePageAware` |
| `HugePageAware` | their composition, with threads that drop the lock | `MCTcmalloc` |
| `HugeAddressMap` | the treap and the hugepage allocator on it (in `HugeCache` the free ranges are a set) | `MCSingleThread` |
| `SpanFreelist`, `SpanObjects` | a span's free objects as operators; a long span on its own | `TransferCache`, `MCSingleThread` |
| `TransferCache` | transfer caches and central lists over `SpanFreelist` | `MCTransferCache` |
| `TcmallocSlab`, `CpuCache` | headers and restartable sequences; the per-CPU cache over them | `MCCpuCache` |
| `Sampler` | what its name says | `MCSingleThread` |
| `ThreadCache`, `SampledAllocation` | what their names say | `MCTcmalloc` |
| `SamplerProofs` | the theorem about `Sampler` | - |
| `MC*` | the instances TLC checks | - |

`MCSingleThread` and `MCTcmalloc` are sums: the parts they hold share no state, so a
behaviour is a behaviour of one of them (`part` says of which). Each extends the
module of one part, whose variables do not change in the others, and the variables
`x1`, `x2`, ... are those of the part at hand. A property of the sum says
`part = ... =>` the part's property.

### 2.1 State and actions

A 64-bit word is the set of the positions of its ones; `tzcnt` is `LowestBit`.
A block is `<<slab, vector, bit>>`, its address the bijective image of it.
`pc[t]` is the next shared access of the thread `t`, and the registers
`this`, `vecs`, `iter`, `slots`, `pos` are the operation's locals. One action is
one access to memory another thread can touch. Consecutive accesses that only
threads of the same CPU can see, inside one critical section, are one action:
if such a thread ran in between, the section would be restarted. For the same
reason `try_push` and `try_pop` are one action each: their last instruction is
the only store that changes what the cache holds (the pointer `try_push` writes
first lies above `current_idx`).

x86 keeps stores in order and locked instructions are fences, so interleaving
accesses loses no outcome; the one plain store to shared memory,
`state = UNOWNED`, may be delayed in a store buffer, which is a delay of the
action `ReleaseUnown`.

`Switch(c, t)` is the kernel: it gives a CPU to another thread; the thread that
loses it resumes, later and perhaps elsewhere, at label 1 of the section it was
in. `Affinity` is what `spawn_n` pins threads to. `Abort` is a failed
assertion: the build does not define `NDEBUG`, so it ends the process. It happens
only where threads move: in `single_thread` and in `double_allocation`. Four
assertions are modelled, those on a slab that was unlinked or sent back
(`object_allocator.h:437`, `:439`, `:444`, `obj_slab.h:235`). Those at
`object_allocator.h:155`, `:422`, `:483` and the ones on alignment are not: they
read what the same thread has just stored, or addresses the model has no bits of.

`SlabProtocol` adds `owns` (who may allocate from and release which slab) and
`live` (the blocks the program holds); in `ObjectAllocator` ownership is what
the lists and program counters say and `live` counts how often the program
holds a block.

`BlockList` is sequential: an operation is one action on the pointers of the
blocks (`next_iter`, `prev_iter`, `next_available`, `prev_available`), the two
list heads, the free nodes of each block and the heap. `_insert` is three
actions, one per branch. Memory `calloc` returns is zero, freed memory keeps its
contents but must not be accessed. `fault` tells a failed assertion from an
access through NULL, to freed memory, or a search for a one bit in zero; the
program is followed no further. The node destructors are left out (they do not
touch the container); the iterators appear as the walk along `next_iter`.

The parts of tcmalloc under a lock are one action per critical section: a method
that holds the lock throughout is one action; one that drops it is cut there,
and what the thread carries over is its record in `th` (`thread` in
`SampledAllocation`). In `CpuCache` the loads and the store of a restartable
sequence are separate actions and a migration or a fence sends the thread back
to the start. Heuristics (which class to steal from, when the cache limit
shrinks, hashes, the geometric variable) are any choice.

The guarded pages of `SampledAllocation` have an action per window another thread
can see. `Deallocate()` is three steps under `guarded_page_lock`: the test for a
page already freed or a magic byte overwritten, with the flags it sets
(`detected`); `mprotect`; and then the fault it provokes if it has set a flag, or
the deallocation trace and `FreeSlot()`. The SEGV handler is two steps and takes no
lock, so flags and metadata can change between a wrong access and the report, and
between the handler's reads. The program's errors are actions: a write past an
allocation, an access outside it, to a freed one, and a second free, which goes
through the same `do_free_pages()` as the first. The fields `truth` and `twice` of a thread
remember what it really did. A page is not reserved again while a second free of it is
under way: beyond that the program frees somebody else's allocation, and nothing is
said of it.

`SlabLayout` keeps the real sizes of slabs and classes and wraps words at
`WordSize` (2^30 for 2^64, beyond any address in the instance). `SysInfo`
abstracts a file to its lines and a line to what the scanner makes of it.
`ArgParser` abstracts a word to its dashes, its name and the number it parses to.

### 2.2 Initial states

For the slab allocator: a region fresh from `mmap` (or after `reset()`): all words zero, no slab
constructed, caches and lists empty, threads idle, on any CPUs they are allowed
on. For the others: as their constructors or `Init()` leave them, nothing
allocated, and no header of system information.

## 3. Runs

Three blocks in two vectors of two bits (the second one partly filled) are the
least with a vector that is emptied while another is not, and three threads the
least for an owner and two racing frees. In the allocator one block per slab
makes every second allocation find a full slab, and a cache of one block makes
every second free reach the slab, so all the paths of `_allocate_inner` are
taken with two threads and two slabs. The bounds of these are `NumSlabs`,
`CacheSize`, `NumVecs`, `VecSize`, `NBlocks`; no other counter is bounded.

| run | instance | shows |
|---|---|---|
| `slab_protocol` | 3 threads, 1 slab, 3 blocks | types, `BlockConservation`, `OwnershipExact`, `AvailableVisible`, no double allocation, only the owner reclaims |
| `claimed_by_first_free`, `freed_reclaimable` | same | **violated**: see 5 |
| `pinned` | 2 threads, each on its CPU, preempted anywhere | sound lists, no slab or block lost or doubled, the four modelled assertions hold, no deadlock; every step is a step of `SlabProtocol` or stutters |
| `progress` | 2 undisturbed threads | every operation returns |
| `double_allocation` | 2 threads, 2 CPUs | **violated**: see 5 |
| `single_thread` | the allocator: 1 thread migrating anywhere, 2 CPUs, 2 classes | `BlocksAtHome`: blocks conserved and in the caches of their class, up to a failed assertion |
| | the libraries: 3 blocks of 2 nodes; 4 regions and all sizes 1 to 144; up to 3 arguments and 5 words; machines that differ in one file | `ContainerSound` (up to a failed assertion or access), `BlocksFound`, `ParsedWhole`, `HeaderTrusted` |
| | of tcmalloc: all tables of sizes; 16 pages of addresses; 6 hugepages; a span of 7 objects; 3 rates | `SizesServed`, `SystemMemorySound`, `TreapExact`, `FreelistExact`, `SamplesExact` |
| `live_iterated` | 3 blocks of 2 nodes, insert and pop only | **violated**: see 5 |
| `tcmalloc` | 2 threads, 2 hugepages of 4 pages | `LiveSpansKept`, `HugepagesInOnePlace`, `ReturnedIsUnbacked`, `FillerExact` |
| | 2 threads, 1 guarded page; 1 thread with 2, or with spans of other pages | `ObjectsHome`, `PagesLead`, `ReportsTrue` |
| | 2 threads with a cache each | `LimitsExact`, `CachesFound` |
| `page_heap` | 2 threads, 4 pages with each tag | `PageMapSound`, `FreeListsExact`, `InUseOnce`, `HeldSpansStay` (a user's span stays the same pages) |
| `per_cpu` | 2 threads on one CPU, or one moving between two; 2 classes, 3 objects | `ObjectsOnce`, `CapacitySound` |
| `transfer` | 2 threads, 2 classes, 2 spans of 2 objects | `ObjectsInOnePlace`, `CountsExact` |

`BlockConservation` says that no block is lost, not that each can be had again: a
block whose freed bit nobody will look at counts as conserved. That is the question
of `freed_reclaimable`. `ContainerSound` says which blocks are on the list of those
with room and that the nodes in use are the ones handed out; it says nothing of
`iter_list`, which in reachable states neither ends in NULL nor holds all nodes in
use. `ReportsTrue` says that a report of the guarded pages is never false: something
wrong did happen, with that slot, and a double free or an overwritten magic byte is
named only while some thread is in such a free. With several threads the error named
may be another thread's, so that the kind is exact only with one thread.

Several of these properties are conjunctions of named parts, which say more (for
example `FillerExact == FillerCountsExact /\ TrackersListed`).

**Bounds of the other instances.** In `BlockList` (`BlockPtrs`, `Width`) two nodes
are the least for which a block that was full is not empty after one pop, and
three blocks the least for a list with an inner element. `SlotsProbed` keeps the
first and the last slot of each vector and all of the last, partly filled one.
`MaxAdded` and `MaxWords` let two required arguments and an optional one all be
given with their values. Two hugepages of four pages (`kPages`, `HugePages`) are
the least for an allocation that spans one and donates the tail of the other;
`MaxSpans` bounds the spans in use, `MaxUnaccounted` the pages that `Put` has
unbacked and not yet accounted for when another `Delete` starts; `FewCandidates`
(an assumption TLC evaluates) says that one round of releases sees all hugepages. Four pages
(`AddressPages`, `TagMask`, `kMaxPages`, `kLeafLength`) are enough for a span
with two free neighbours, on the small lists and on the large one, across leaves
of the page map. In `CpuCache` one object per list makes every second operation
over- or underflow; `MaxBytes` is one object, so classes compete for it;
`Drained` is the CPU that is drained, `Affinities` where threads may run, and
`OneBatch` (an assumption TLC evaluates) says that a refill or spill is one batch.
In `TransferCache` `MaxSlots` lets one class grow by taking from the other. A
span of seven objects with `MaxEmbed` two has a host behind the first one. Six
hugepages (`HugePageSet`) make three nodes in the treap. `MaxGiven`, `MaxObjects`
bound what the program holds.

**Deadlock** is checked except in `slab_protocol` (the only slab can be lost for
good, see 5), `single_thread` (a failed assertion or the end of a parse ends the
program), and the two runs that ask one question of the same instances,
`freed_reclaimable` and `live_iterated`. In `tcmalloc` a report of the guarded pages
is the one way to end.

Symmetry is over threads, or over CPUs, or over (thread, CPU) pairs where each
thread has its own, over blocks of the container and over objects of a class;
`progress` uses none.

**Fairness.** `progress` assumes that each of two threads that keep their CPUs
goes on executing (weak fairness of its next step, not of starting another
operation). Nothing is assumed of preempted threads: a section that is
preempted every time it runs never ends, and rseq does not promise otherwise.

## 4. Proofs

### 4.1 The slab protocol

`SlabProtocolProofs` proves for any number of threads, slabs, classes, vectors
and bits, from `SlabAssumption` alone (at least one vector and one bit, every
class has between one block and as many as there are bits, NULL is no slab):
`TypeOK`, `OwnershipExact`, `BlockConservation`, `AvailableVisible`,
`ReleaseOwned` (the assertion of `_try_release`, which `pinned` checks among the
allocator's), and the action properties `NoDoubleAllocation` and
`OnlyOwnerReclaims`. A freed block that no release will find again is conserved in
the sense of `BlockConservation`, here and in 4.2; `freed_reclaimable` shows one.

The inductive invariant `IndInv` adds to `TypeOK`, `OwnershipExact` and
`BlockConservation`:

* `BusyInv`: an owner's operation is on a slab it owns. With
  `OwnershipExact` this makes two owner operations on one slab impossible
  (`OwnerAlone`), which every other conjunct rests on;
* `FreshInv`: nothing has happened to a slab that is not constructed;
* `RegisterInv`: what the owner loaded is what the words still hold, and the
  freed bits it has loaded are still set, since frees only add bits;
* `VisibleInv`: available bits are under a summary bit or in a vector the
  releasing owner has just filled. With `RegisterInv` it says that the word
  `_try_release` overwrites is empty, without which blocks would be lost there.

There is one lemma per conjunct with one case per action; frame lemmas
(`VisibleFrame`, `BlocksFrame`, `BlockFrame`) cover the actions that do not
touch what the conjunct speaks of. `LowestBitIn` rests on the well-foundedness
of the natural numbers; `ConstructorShape` on the arithmetic of `nslots`.

### 4.2 The whole allocator, pinned

`AllocatorProofs` proves for any number of threads, CPUs, classes, slabs, cache
entries, vectors and bits what `pinned` checks on its instance: `TypeOK`,
`ListsSound`, `SlabConservation`, `BlockConservation`, `AssertionsHold`, and
`RefinesProtocol`: the allocator with its lists, caches, preemptions and restarts
implements `SlabProtocol`. It also proves `NoDoubleAllocation`, and `BlocksAtHome`,
which says more only with several classes: `single_thread` checks it with two, for
a thread that changes CPU.

The assumptions are `SlabAssumption`, `AllocatorAssumption` (a region is an
initial segment of the numbers above NULL, a cache has room for a block, there
are finitely many threads) and the hypothesis `PinnedApart` of each theorem:
every thread has one CPU and no two share one. That is what `spawn_n` gives with
no more threads than CPUs, and it is necessary: `double_allocation` refutes the
conclusion of `PinnedNoDoubles` for threads that roam. `AssertionsHold` is the four
assertions named in 2.1. The kernel may still
preempt a thread anywhere, and then its critical section starts again.

Refinement and invariant are proved together, because each needs the other. The
allocator's slabs satisfy `IndInv` only because every step is a step of the
protocol; that it is one, is seen only from the lists. The invariant `Inv` is
`PinnedInv` (in `AllocatorRefinement`) and the protocol's `IndInv` under the
refinement mapping. A slab's owner is, in the mapping, the thread of the CPU in whose list it
is, or the thread that holds it (`Owns`); a block in a cache is handed out
(`HandedOut`); a thread at work on lists or caches is idle. `PinnedInv` has:

* `ScheduleInv`: a CPU runs only its thread, so that the `CPUOf` a thread reads
  in a section is always the same;
* `LocalsInv`: the locals at each label, above all that the slab at hand has
  the class of the request, and that registers are empty between operations (the
  protocol's `RegisterInv` speaks of them);
* `DrawnInv`: a slab that is drawn from the region and not yet constructed is in
  nobody else's hands; this also bounds `current_slab`;
* `ChainInv`: every list ends and has no slab twice. Without it `Owns` would not
  say who unlinks what;
* `TailInv`, `SendInv`: the end of a list is `tail`, except between the two
  stores of a `_send_slab`, restarted or not, where the slab it links is the one
  behind `tail`. This is why a restart of `_send_slab` on the same CPU links the
  slab once;
* `HandedInv`: a block that is handed out is with the program once, or in one
  place of one cache, or about to be put into one;
* `CacheClass`: a cache has only blocks of its class.

TLC checked `PinnedInv` on the instance of `pinned` before it was proved.

The proof is in five modules, each extending the one before:

1. `AllocatorLists`: what `WalkFrom`, the walk along `next`, is, and how it changes
   when a slab is appended, the head is cut off, or a slab outside the list
   changes. The recursive function is shown to exist, and facts along a list are shown, by taking a
   least counterexample among the natural numbers;
2. `AllocatorSteps`: the parts of `PinnedInv` that speak of one thread or one
   list, and how each store of the list operations changes the walks
   (`CommitsEmpty`, `CommitsLinked`);
3. `AllocatorOwners`: how `Owns` changes in each step, with `ChainInv`, `TailInv`
   and `SendInv` after it. A thread's step changes at most its own entry, and
   only unlinking, claiming and constructing change that;
4. `AllocatorBlocks`: the same for the caches and `HandedOut`;
5. `AllocatorProofs`: each step of a thread is a step of the protocol or a
   stutter, one lemma per kind of step, and `PinnedInv` holds after it; a
   preemption (`Switch`) is a stutter except during an allocation from a slab,
   where it is the protocol's `AllocAbort`; `Abort` cannot happen. `SameProtocol`
   says that the instance of `SlabProtocol` in the mapping and the one the
   protocol's lemmas are used through are the same. Then the theorems.

### 4.3 tcmalloc's sampler

`SamplerProofs` proves `SamplesExact` for all sets of rates, points and sizes
(`Numbers`: they are numbers, sizes not negative). `SamplerInv` says which of the
two counters is in use, the one of `was_on_fast_path_` and not of
`IsOnFastPath()`, that it is what is left to the point, and that the other is 0.
It speaks of the second point and later ones: after `Init()` the first point is
in both counters (see 5).

### 4.4 tcmalloc's page heap

`PageHeapProofs` proves for any number of threads, pages, lists and leaves of the
page map, any requests and limits, and any answers of the kernel: `InUseOnce`,
`PageMapSound`, `FreeListsExact` and the action property `HeldSpansStay`. The
assumptions are `SystemAssumption` and `PageHeapAssumption`: the sizes are positive
numbers, a span of at least one page is asked for, a limit is a number of pages
and hard or not. `MaxSpans`, the bound of the run, has no part in the proofs.

The inductive invariant `IInv` says:

* `Clean(heap, Flying(th))`: the heap is good. `Geometry`: descriptors in use are
  apart and within the address space, all their pages have a leaf in the page map,
  the entries of their ends lead to them, and no entry leads anywhere from a page
  outside all spans. The last part is what the properties do not say and the proof
  needs: `MergeIntoFreeList()` looks at the page before a span and trusts what it
  finds. Entries of inner pages may be stale; `SpanBefore` and `SpanAfter` show that
  it never sees one, because a page next to a span is an end of its own span.
  `Books`: lists and counts. `Merged`: no two free neighbours of a kind;
* `Shared`, `Once`, `Busy`: each span in use has one owner, a user, a `New()` that
  releases for the limit before it returns, or a thread at a system call;
* `Classed`: size classes and all entries of registered spans;
* `SystemFits`: the heap's pages are mapped, and what is left of the region is
  mapped too and disjoint from them. Without it a grown heap could overlap itself.

The functions of `page_heap.cc` break the invariant and mend it, so it has
parameters: in `Good(h, H, X, F)` the pages `H` are in no span (cut off by
`NewAligned`, or just given by the system), the spans `X` are free but on no list
and perhaps next to free ones of their kind, and the spans `F` are under release,
in use but counted as free. Each function has a lemma that says how it moves pages
and spans between these (`RemoveGood`, `JoinGood`, `SplitGood`, `CarveGood`,
`GrowGood`, `TrimGood`, `CutToGood`, `DropLockGood`, `ReturnedGood`, ...) and that it
keeps the descriptors and the entries of all others' spans (`Keeps`), whence
`HeldSpansStay`. That `Carve()` may skip coalescing is in `SplitGood`: the rest of a
free span has no neighbours of its kind, because the span had none.

The release loops are one lemma, `ReleaseNextGood`, for all values of
`release_index_` and of the thread's counters: nothing is assumed of what other
threads did to the lists between unlock and lock, only that they left the
invariant and the span under release alone.

TLC checked `IInv` on the instance of `page_heap` before it was proved.

### 4.5 Only model-checked

* Liveness (`OperationsReturn`): fairness is out of the prover's reach.
* The allocator with threads that roam or share a CPU (`single_thread`,
  `double_allocation`).
* Of the libraries and tcmalloc everything but the sampler and the page heap.
  `HugeAddressMap`, `ThreadCache` and others use recursive operators, about which
  this prover cannot reason; `BlockList`, `CpuCache` and `TransferCache` are within
  reach and next (see 6).

## 5. Where the code and its comments or tests disagree

* **A slab nobody will claim** (`claimed_by_first_free`). A free between the
  load of `freed_vecs` in `_try_release` and its store of UNOWNED reads OWNED
  and does not claim.
* **A slab in two lists** (`double_allocation`). `_send_slab`
  restarted on another CPU after its first store.
* **Freed blocks nobody takes back** (`freed_reclaimable`). A free reads a non-zero
  `freed_slots` word (`obj_slab.h:288`), `_try_release` empties it, having cleared
  the summary bit before, and the free sets its bit but no summary bit. All later
  frees of the vector find the word non-zero and do the same, and a release visits
  only vectors with a summary bit, so all blocks of the vector are stranded. The
  comment there takes the free for "definetly not first free".
* **Nodes no iteration visits** (`live_iterated`). `pop` takes the last block with
  room out of `iter_list` when it becomes empty and leaves it on the other list;
  inserts fill it there. `verify_all()` of `slab_test.cc` skips its nodes, and once
  the other blocks are popped the assertion at `block_list.h:218` fails.

Other behaviours met while modelling, which no run asks about:

* With two threads on one CPU the assertion at `object_allocator.h:444` can fail
  on a sound state: between `_send_slab` and it the other thread uses the slab up
  and gives it away. In `pinned` each thread has its CPU.
* `pop` of the block list returns a node of a block it has freed.
* Between `mprotect` and the record of the deallocation of a guarded page
  (`guarded_page_allocator.cc:119`, `:128`) another thread's use of the freed
  allocation faults, finds no deallocation trace, and is of unknown type; if a flag
  is set, it is reported as the other thread's double free or overflow. The type is
  only promised to be the likely one.
* Branch-free helpers without a caller (`round_size_nb`) and the median in
  `stats.cc:140` compute something other than their names say.
* After `Init()` on the fast path both counters of tcmalloc's sampler hold the
  first sampling point, which is counted down twice; `SamplesExact` speaks of the
  points after it. A thread cache made before `InitTSD()` is not found later;
  `CachesFound` excepts it.

## 6. Not modelled, and the plan

Planned:

1. `FreeCache`: the instructions of `try_push` and `try_pop` with restarts, as
   a refinement of the atomic stack used here; proof for any cache size.
2. Proofs: `ObjectsOnce` of `CpuCache`, from the header words a drain leaves; the
   list of blocks with room of `BlockList`; `SlotsBounded` of `TransferCache`.
3. The composition of `CpuCache` over `TransferCache` over `PageHeap`, which are
   now joined by abstract versions of one another (a set of objects, any unused
   span).
4. `ThreadHelper` (pin policies as the source of `Affinity`) and rseq
   registration; the loops of `slab_test.cc` over the container.
5. `remove_batch` with masks that name free nodes (it has no caller).

Left out: floating-point statistics, printing, NCMalloc's own signal handlers and
back traces (no state the allocators depend on; the SEGV handler of tcmalloc's guarded
pages is modelled, in `SampledAllocation`); of tcmalloc the extension interface,
statistics, logging, libc overrides, `realloc` and the C++ entry points, and the
time series behind the cache limit of `HugeCache` (its result is any value).
`reset()` and the destructor of the object allocator require that no other
thread uses it, and lead to the initial state.
