----------------------------- MODULE ThreadCache ----------------------------
(***************************************************************************)
(* ThreadCache (thread_cache.cc, thread_cache.h): the caches of threads    *)
(* where restartable sequences are not available.  A cache has a list per  *)
(* size class; the lists' length is all that matters here.  The space the  *)
(* caches may use is shared: what a cache may hold (max_size) is taken     *)
(* from the unclaimed space or stolen from the next cache in turn, under   *)
(* pageheap_lock.  A thread finds its cache through thread_local_data_,    *)
(* and a destructor of a thread-specific key deletes it at thread exit.    *)
(*                                                                         *)
(* What a thread does to its own lists is one step.  pthread_setspecific() *)
(* may call malloc(): the thread allocates while it is inside.             *)
(***************************************************************************)
EXTENDS Integers, Sequences, FiniteSets, SequencesExt, FiniteSetsExt

CONSTANTS Threads, Classes,
          Batch,            \* num_objects_to_move of each class
          kMaxDynamicFreeListLength, kMaxOverages,
          kMinThreadCacheSize, kMaxThreadCacheSize, kStealAmount, \* in objects' sizes
          OverallSizes,     \* given to set_overall_thread_cache_size()
          MaxObjects        \* bound on the objects outside the transfer cache

VARIABLES cache,  \* the ThreadCache objects
          order,  \* thread_heaps_
          steal,  \* next_memory_steal_
          space,  \* unclaimed_, overall_ and per_thread_cache_size_
          tsd,    \* tsd_inited_
          tls,    \* of each thread: thread_local_data_, the key's value, what it does
          out     \* objects of each class the program holds

threadVars == <<cache, order, steal, space, tsd, tls, out>>

NoCache == 0
CacheIds == 1 .. (Cardinality(Threads) + 1)
NewList == [length |-> 0, lowater |-> 0, max_length |-> 1, overages |-> 0]
Free == [tid |-> "none", max_size |-> 0, early |-> FALSE, list |-> [c \in Classes |-> NewList]]
NoTls == [local |-> NoCache, key |-> NoCache, at |-> "idle"]

\* size_, the objects of a cache: all classes have objects of size 1.
Size(h) == MapThenSumSet(LAMBDA c : h.list[c].length, Classes)
Claimed(ch) == MapThenSumSet(LAMBDA h : ch[h].max_size, ToSet(order))
NextOf(h) == LET i == CHOOSE i \in DOMAIN order : order[i] = h
             IN IF i = Len(order) THEN NoCache ELSE order[i + 1]

----------------------------------------------------------------------------
\* The loop of IncreaseCacheLimitLocked(): ten caches from next_memory_steal_ on.
\* The victim, NoCache for none, and where next_memory_steal_ is left.
RECURSIVE StealFrom(_, _, _)
StealFrom(ch, me, i) ==
    LET p == IF i.ptr = NoCache THEN Head(order) ELSE i.ptr
    IN IF i.n = 10 THEN [victim |-> NoCache, ptr |-> i.ptr]
       ELSE IF p # me /\ ch[p].max_size > kMinThreadCacheSize
       THEN [victim |-> p, ptr |-> NextOf(p)]
       ELSE StealFrom(ch, me, [n |-> i.n + 1, ptr |-> NextOf(p)])

\* IncreaseCacheLimitLocked() of cache me: the new caches, unclaimed and steal.
IncreaseCacheLimit(ch, me) ==
    LET s == StealFrom(ch, me, [n |-> 0, ptr |-> steal])
    IN IF space.unclaimed > 0
       THEN [cache |-> [ch EXCEPT ![me].max_size = @ + kStealAmount],
             unclaimed |-> space.unclaimed - kStealAmount, steal |-> steal]
       ELSE IF s.victim = NoCache
       THEN [cache |-> ch, unclaimed |-> space.unclaimed, steal |-> s.ptr]
       ELSE [cache |-> [ch EXCEPT ![s.victim].max_size = @ - kStealAmount,
                                  ![me].max_size = @ + kStealAmount],
             unclaimed |-> space.unclaimed, steal |-> s.ptr]

\* NewHeap(tid) with Init(): at least kMinThreadCacheSize, if need be from space
\* there is not.
Unused == Min({h \in CacheIds : cache[h] = Free})
NewHeap(t) ==
    LET h == Unused
        g == IncreaseCacheLimit([cache EXCEPT ![h].tid = t, ![h].early = ~tsd], h)
        poor == g.cache[h].max_size = 0
    IN /\ cache' = IF poor THEN [g.cache EXCEPT ![h].max_size = kMinThreadCacheSize] ELSE g.cache
       /\ space' = [space EXCEPT !.unclaimed =
                       IF poor THEN g.unclaimed - kMinThreadCacheSize ELSE g.unclaimed]
       /\ steal' = IF order = <<>> THEN h ELSE g.steal
       /\ order' = <<h>> \o order

\* DeleteCache(heap): its objects are released, its space is unclaimed again.
\* Mutants: the space is lost; next_memory_steal_ is not moved.
DeleteCacheLost(h) == UNCHANGED space
GiveBack(h) == space' = [space EXCEPT !.unclaimed = @ + cache[h].max_size]
MoveStealNot(h) == steal
MoveSteal(h) ==
    LET p == IF steal = h THEN NextOf(h) ELSE steal
        rest == Remove(order, h)
    IN IF p # NoCache THEN p ELSE IF rest = <<>> THEN NoCache ELSE Head(rest)
DeleteCache(h) ==
    /\ cache' = [cache EXCEPT ![h] = Free]
    /\ order' = Remove(order, h)
    /\ steal' = MoveSteal(h)
    /\ GiveBack(h)

----------------------------------------------------------------------------
\* GetCache(): thread_local_data_, or before InitTSD() the cache with the thread's
\* id in the list.
CacheOf(t) ==
    LET mine == {h \in ToSet(order) : cache[h].tid = t}
    IN IF tls[t].local # NoCache THEN tls[t].local
       ELSE IF ~tsd /\ mine # {} THEN Min(mine) ELSE NoCache

\* CreateCacheIfNecessary(): up to and into pthread_setspecific().
Entered(t, h) == [tls EXCEPT ![t] = [local |-> h, key |-> NoCache, at |-> "setspecific"]]
CreateCacheIfNecessary(t) ==
    /\ tls[t].at \in {"idle", "setspecific"}
    /\ CacheOf(t) = NoCache
    /\ \E h \in CacheIds : cache[h] = Free
    /\ NewHeap(t)
    /\ tls' = IF tsd THEN Entered(t, Unused) ELSE tls
    /\ UNCHANGED <<tsd, out>>
SetSpecificReturns(t) ==
    /\ tls[t].at = "setspecific"
    /\ tls' = [tls EXCEPT ![t].at = "idle", ![t].key = tls[t].local]
    /\ UNCHANGED <<cache, order, steal, space, tsd, out>>

InitTSD ==
    /\ ~tsd
    /\ tsd' = TRUE
    /\ UNCHANGED <<cache, order, steal, space, tls, out>>

\* FreeList::PopBatch() and TryPop() keep the low-water mark.
Pop(l, n) == [l EXCEPT !.length = @ - n, !.lowater = Min({@, l.length - n})]

\* ReleaseToCentralCache(N), in batches.
Released(l, n) == Pop(l, Min({n, l.length}))

\* Allocate(cl): from the list, else FetchFromCentralCache() of at most a batch,
\* less if the transfer cache has less.
GrownLength(l, b) ==
    LET n == Min({l.max_length + b, kMaxDynamicFreeListLength})
    IN IF l.max_length < b THEN l.max_length + 1 ELSE n - (n % b)
Objects == MapThenSumSet(LAMBDA h : Size(cache[h]), CacheIds)
           + MapThenSumSet(LAMBDA c : out[c], Classes)
Allocate(t, c) ==
    LET h == CacheOf(t)
        l == cache[h].list[c]
    IN /\ tls[t].at # "limit" /\ h # NoCache
       /\ IF l.length > 0
          THEN cache' = [cache EXCEPT ![h].list[c] = Pop(l, 1)]
          ELSE \E n \in 1 .. Min({l.max_length, Batch[c], MaxObjects - Objects}) :
                 cache' = [cache EXCEPT ![h].list[c].length = n - 1,
                                        ![h].list[c].max_length = GrownLength(l, Batch[c])]
       /\ out' = [out EXCEPT ![c] = @ + 1]
       /\ UNCHANGED <<order, steal, space, tsd, tls>>

\* Deallocate(ptr, cl) with ListTooLong() and the lists of Scavenge().
TooLong(l, b) ==
    LET r == Released(l, b)
    IN IF r.max_length < b THEN [r EXCEPT !.max_length = @ + 1]
       ELSE IF r.max_length = b THEN r
       ELSE IF r.overages + 1 > kMaxOverages
       THEN [r EXCEPT !.max_length = @ - b, !.overages = 0]
       ELSE [r EXCEPT !.overages = @ + 1]
Scavenged(l, b) ==
    LET drop == IF l.lowater > 1 THEN l.lowater \div 2 ELSE 1
        r == IF l.lowater = 0 THEN l
             ELSE [Released(l, drop) EXCEPT
                      !.max_length = IF @ > b THEN Max({@ - b, b}) ELSE @]
    IN [r EXCEPT !.lowater = r.length]
Deallocate(t, c) ==
    LET h == tls[t].local
        pushed == [cache[h].list[c] EXCEPT !.length = @ + 1]
        kept == IF pushed.length > pushed.max_length THEN TooLong(pushed, Batch[c]) ELSE pushed
        now == [cache[h] EXCEPT !.list[c] = kept]
        full == Size([now EXCEPT !.list[c] = kept]) >= now.max_size
    IN /\ tls[t].at = "idle" /\ h # NoCache /\ out[c] > 0
       /\ out' = [out EXCEPT ![c] = @ - 1]
       /\ cache' = [cache EXCEPT ![h] =
                       IF full THEN [now EXCEPT !.list = [d \in Classes |->
                                                             Scavenged(now.list[d], Batch[d])]]
                       ELSE now]
       /\ tls' = IF full THEN [tls EXCEPT ![t].at = "limit"] ELSE tls
       /\ UNCHANGED <<order, steal, space, tsd>>

\* Without a cache of its own a thread frees into the transfer cache (do_free).
DeallocateDirect(t, c) ==
    /\ tls[t].at = "idle" /\ tls[t].local = NoCache /\ out[c] > 0
    /\ out' = [out EXCEPT ![c] = @ - 1]
    /\ UNCHANGED <<cache, order, steal, space, tsd, tls>>

\* IncreaseCacheLimit() at the end of Scavenge().
ScavengeEnds(t) ==
    LET g == IncreaseCacheLimit(cache, CacheOf(t))
    IN /\ tls[t].at = "limit"
       /\ cache' = g.cache
       /\ space' = [space EXCEPT !.unclaimed = g.unclaimed]
       /\ steal' = g.steal
       /\ tls' = [tls EXCEPT ![t].at = "idle"]
       /\ UNCHANGED <<order, tsd, out>>

\* BecomeIdle(), through pthread_setspecific(heap_key_, nullptr), and the deletion.
BecomeIdle(t) ==
    /\ tsd /\ tls[t].at = "idle" /\ tls[t].local # NoCache
    /\ tls' = [tls EXCEPT ![t].at = "becoming_idle", ![t].key = NoCache]
    /\ UNCHANGED <<cache, order, steal, space, tsd, out>>
BecomeIdleEnds(t) ==
    /\ tls[t].at = "becoming_idle"
    /\ DeleteCache(tls[t].local)
    /\ tls' = [tls EXCEPT ![t] = NoTls]
    /\ UNCHANGED <<tsd, out>>

\* The thread exits: DestroyThreadCache() runs if the key has a value.  The next
\* thread has the same name.
DestroyThreadCache(t) ==
    /\ tls[t].at = "idle" /\ tls[t].key # NoCache
    /\ DeleteCache(tls[t].key)
    /\ tls' = [tls EXCEPT ![t] = NoTls]
    /\ UNCHANGED <<tsd, out>>

\* set_overall_thread_cache_size() with RecomputePerThreadCacheSize().
set_overall_thread_cache_size(new) ==
    LET overall == Max({new, kMinThreadCacheSize})
        share == Min({Max({overall \div Max({Len(order), 1}), kMinThreadCacheSize}),
                      kMaxThreadCacheSize})
        per == Max({1, space.per_thread})
        scaled(n) == IF share < per THEN (n * share) \div per ELSE n
        ch == [h \in CacheIds |-> [cache[h] EXCEPT !.max_size = scaled(@)]]
    IN /\ cache' = ch
       /\ space' = [overall |-> overall, per_thread |-> share,
                    unclaimed |-> overall - Claimed(ch)]
       /\ UNCHANGED <<order, steal, tsd, tls, out>>

ThreadInit ==
    /\ cache = [h \in CacheIds |-> Free]
    /\ order = <<>>
    /\ steal = NoCache
    /\ space = [unclaimed |-> Max(OverallSizes), overall |-> Max(OverallSizes),
                per_thread |-> kMaxThreadCacheSize]
    /\ tsd = FALSE
    /\ tls = [t \in Threads |-> NoTls]
    /\ out = [c \in Classes |-> 0]

ThreadNext ==
    \/ \E t \in Threads :
        \/ CreateCacheIfNecessary(t) \/ SetSpecificReturns(t)
        \/ \E c \in Classes : Allocate(t, c) \/ Deallocate(t, c) \/ DeallocateDirect(t, c)
        \/ ScavengeEnds(t)
        \/ BecomeIdle(t) \/ BecomeIdleEnds(t) \/ DestroyThreadCache(t)
    \/ InitTSD
    \/ \E n \in OverallSizes : set_overall_thread_cache_size(n)

----------------------------------------------------------------------------
\* The unclaimed space is the overall size less what the caches may use, though it
\* may be negative (thread_cache.h:240); and when there is none there is a cache to
\* look at (IncreaseCacheLimitLocked() asserts it).
SpaceExact ==
    /\ space.unclaimed
         = space.overall - Claimed(cache)
    /\ space.unclaimed <= 0 => order # <<>>

\* next_memory_steal_ never points to a deleted cache, and with no caches it is null
\* (NewHeap() asserts it).
StealSound ==
    /\ steal \in {NoCache} \cup ToSet(order)
    /\ order = <<>> => steal = NoCache

\* A list's limit is, from a batch on, a multiple of the batch ("must always be a
\* multiple of batch_size") and never 0; the low-water mark is never above the length.
LimitsWhole ==
    \A h \in ToSet(order), c \in Classes :
        LET l == cache[h].list[c]
        IN /\ l.lowater <= l.length
           /\ l.max_length \in 1 .. kMaxDynamicFreeListLength
           /\ l.max_length >= Batch[c] => l.max_length % Batch[c] = 0

\* A thread has one cache at most, which its thread_local_data_ leads to (but for
\* caches from before InitTSD()), even if malloc() is called from inside
\* pthread_setspecific(); and neither it nor the key leads to a deleted cache.
CachesFound ==
    /\ \A h \in ToSet(order) : ~cache[h].early => tls[cache[h].tid].local = h
    /\ \A t \in Threads : {tls[t].local, tls[t].key} \subseteq {NoCache} \cup ToSet(order)
=============================================================================
