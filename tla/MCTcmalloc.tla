----------------------------- MODULE MCTcmalloc -----------------------------
(***************************************************************************)
(* Small instances of parts of tcmalloc that share no state with one       *)
(* another: the huge-page-aware heap, with two threads, two hugepages of   *)
(* four pages and regions of one hugepage; the thread caches; sampled and  *)
(* guarded allocations.  A behaviour is a behaviour of one part, part says *)
(* of which, and x1 .. x9 are the variables of the parts other than the    *)
(* heap, in the order their modules declare them.                          *)
(***************************************************************************)
EXTENDS HugePageAware, TLC

CONSTANTS t0, t1, t2, None

VARIABLES part, x1, x2, x3, x4, x5, x6, x7, x8, x9

xs == <<x1, x2, x3, x4, x5, x6, x7, x8, x9>>

TwoThreads == {t1, t2}
MCHugePages == 1 .. 2
MCLimits == {[pages |-> 5, hard |-> TRUE], [pages |-> 5, hard |-> FALSE]}

\* t0 runs alone.
Symmetry == Permutations({t1, t2})

----------------------------------------------------------------------------
\* Two threads that steal from each other, and one whose list outgrows its limits.
Caches == INSTANCE ThreadCache WITH
    cache <- x1, order <- x2, steal <- x3, space <- x4, tsd <- x5, tls <- x6, out <- x7,
    Threads <- {t1, t2}, MaxObjects <- 1,
    Classes <- {1}, Batch <- <<2>>, kMaxDynamicFreeListLength <- 5, kMaxOverages <- 1,
    kMinThreadCacheSize <- 2, kMaxThreadCacheSize <- 4, kStealAmount <- 1,
    OverallSizes <- {2, 4}
Lists == INSTANCE ThreadCache WITH
    cache <- x1, order <- x2, steal <- x3, space <- x4, tsd <- x5, tls <- x6, out <- x7,
    Threads <- {t0}, MaxObjects <- 5,
    Classes <- {1}, Batch <- <<2>>, kMaxDynamicFreeListLength <- 5, kMaxOverages <- 1,
    kMinThreadCacheSize <- 2, kMaxThreadCacheSize <- 4, kStealAmount <- 1,
    OverallSizes <- {2, 4}

\* Two threads and one guarded page; two guarded pages and no page spans; page spans
\* with and without a tag and requests of no class, of a class and of several pages.
R(size, align, returns) == [size |-> size, align |-> align, returns |-> returns]
Objects == {<<"object", 2, 1>>, <<"object", 4, 1>>}

Guarded == INSTANCE SampledAllocation WITH
    slots <- x1, allowed <- x2, freed <- x3, pagemap <- x4, spans <- x5, live <- x6,
    thread <- x7, report <- x8, detected <- x9,
    page_size <- 4, kAlignment <- 2, kMagicSize <- 2, ClassSizes <- {2, 4, 8},
    Threads <- {t1, t2}, total_pages <- 1, max_alloced_pages <- 1,
    PageSpans <- {<<"tagged", 1, 0>>}, Descriptors <- 1 .. 3,
    Requests <- {R(1, 1, TRUE), R(1, 4, FALSE)}
Slots == INSTANCE SampledAllocation WITH
    slots <- x1, allowed <- x2, freed <- x3, pagemap <- x4, spans <- x5, live <- x6,
    thread <- x7, report <- x8, detected <- x9,
    page_size <- 4, kAlignment <- 2, kMagicSize <- 2, ClassSizes <- {2, 4, 8},
    Threads <- {t0}, total_pages <- 2, max_alloced_pages <- 2,
    PageSpans <- {}, Descriptors <- 1 .. 3,
    Requests <- {R(0, 1, FALSE), R(1, 1, TRUE), R(3, 1, TRUE)}
Spanned == INSTANCE SampledAllocation WITH
    slots <- x1, allowed <- x2, freed <- x3, pagemap <- x4, spans <- x5, live <- x6,
    thread <- x7, report <- x8, detected <- x9,
    page_size <- 4, kAlignment <- 2, kMagicSize <- 2, ClassSizes <- {2, 4, 8},
    Threads <- {t0}, total_pages <- 1, max_alloced_pages <- 1,
    PageSpans <- {<<"tagged", 1, 0>>, <<"plain", 1, 0>>}, Descriptors <- 1 .. 4,
    Objects <- Objects \union {<<"object", 8, 1>>},
    Requests <- {R(3, 1, TRUE), R(6, 1, FALSE), R(9, 1, TRUE)}

----------------------------------------------------------------------------
\* In the other parts the heap stays as it is at the start.
PartsInit ==
    /\ Init
    /\ \/ /\ part = "hugepages"
          /\ x1 = 0 /\ x2 = 0 /\ x3 = 0 /\ x4 = 0 /\ x5 = 0 /\ x6 = 0 /\ x7 = 0 /\ x8 = 0 /\ x9 = 0
       \/ /\ filler.mode = "Return" /\ subrelease
          /\ \/ part = "caches" /\ Caches!ThreadInit /\ x8 = 0 /\ x9 = 0
             \/ part = "lists" /\ Lists!ThreadInit /\ x8 = 0 /\ x9 = 0
             \/ part = "guarded" /\ Guarded!SampledInit
             \/ part = "slots" /\ Slots!SampledInit
             \/ part = "spans" /\ Spanned!SampledInit

PartsNext ==
    \/ part = "hugepages" /\ Next /\ UNCHANGED <<part, xs>>
    \/ part = "caches" /\ Caches!ThreadNext /\ UNCHANGED <<part, vars, x8, x9>>
    \/ part = "lists" /\ Lists!ThreadNext /\ UNCHANGED <<part, vars, x8, x9>>
    \/ part = "guarded" /\ Guarded!SampledNext /\ UNCHANGED <<part, vars>>
    \/ part = "slots" /\ Slots!SampledNext /\ UNCHANGED <<part, vars>>
    \/ part = "spans" /\ Spanned!SampledNext /\ UNCHANGED <<part, vars>>
    \/ part = "guarded" /\ Guarded!Reported /\ UNCHANGED <<part, xs, vars>>
    \/ part \in {"slots", "spans"} /\ Slots!Reported /\ UNCHANGED <<part, xs, vars>>

PartsSpec == PartsInit /\ [][PartsNext]_<<part, xs, vars>>

----------------------------------------------------------------------------
\* The thread caches' limits and the unclaimed space add up to the overall size while
\* caches are made, deleted, grow, steal and are scaled down, and a free list's limit
\* stays a multiple of the batch.
LimitsExact ==
    /\ part = "caches" => Caches!SpaceExact /\ Caches!LimitsWhole
    /\ part = "lists" => Lists!SpaceExact /\ Lists!LimitsWhole

\* A thread has one cache, found through its thread-local pointer, even if malloc() is
\* called from inside pthread_setspecific() (caches from before InitTSD() excepted),
\* and nothing, next_memory_steal_ included, leads to a deleted cache.
CachesFound ==
    /\ part = "caches" => Caches!CachesFound /\ Caches!StealSound
    /\ part = "lists" => Lists!CachesFound /\ Lists!StealSound

\* Every object of a size class is free, the program's or a thread's, exactly once,
\* whether an allocation was sampled, guarded or neither.
ObjectsHome ==
    /\ part = "guarded" => Guarded!ObjectsHome
    /\ part = "slots" => Slots!ObjectsHome
    /\ part = "spans" => Spanned!ObjectsHome

\* The page map leads every page in use to a span of that very page, which knows the
\* capacity a size-returning new reported, and no span is forgotten, although a guarded
\* page is reused before its span is deleted.
PagesLead ==
    /\ part = "guarded" => Guarded!SpansOwned /\ Guarded!SizesAgree
    /\ part = "slots" => Slots!SpansOwned /\ Slots!SizesAgree
    /\ part = "spans" => Spanned!SpansOwned /\ Spanned!SizesAgree

\* The guarded page allocator reports no correct program, finds the slot concerned, tells
\* of a double free or an overwritten magic byte only if there is one, and names the
\* error itself where a single thread runs.
ReportsTrue ==
    /\ part = "guarded" => Guarded!ReportsTrue
    /\ part = "slots" => Slots!ReportsTrue
    /\ part = "spans" => Spanned!ReportsTrue
=============================================================================
