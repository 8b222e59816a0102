----------------------------- MODULE HugeCache ------------------------------
(***************************************************************************)
(* HugeAllocator (huge_allocator.cc), the unbacked hugepages taken from    *)
(* the system, and HugeCache (huge_cache.cc), the backed ones kept for     *)
(* reuse.  A cache c is a record with the state of both.                   *)
(*                                                                         *)
(* Their HugeAddressMaps hold disjoint ranges that never touch, so each is *)
(* the set of its hugepages, and its ranges the maximal runs (HugeAddress- *)
(* Map models the tree).  Find() depends on the shape of the tree: it may  *)
(* return any range that is long enough.  The clock and the windows of     *)
(* the usage trackers are left out: a cache limit may be raised up to what *)
(* the current usage allows, and lowered at any time.                      *)
(***************************************************************************)
EXTENDS Integers, FiniteSets, FiniteSetsExt

CONSTANTS
    HugePages,      \* the hugepages the system has, numbered from 1
    MinCacheLimit   \* MinCacheLimit() and the limit at the start

NewCache == [free |-> {}, from_system |-> 0, in_use |-> 0,
             cached |-> {}, size |-> 0, limit |-> MinCacheLimit, usage |-> 0]

Run(start, len) == start .. start + len - 1

\* The ranges <<start, length>> of an address map.
Ranges(S) ==
    {<<a, n>> \in S \X (1 .. Cardinality(S)) :
        Run(a, n) \subseteq S /\ a - 1 \notin S /\ a + n \notin S}

Find(S, n) == {r \in Ranges(S) : r[2] >= n}

\* HugeAllocator::AllocateRange(n): the system may give more than it is asked
\* for, or nothing.
AllocateRange(c, n) ==
    {[c EXCEPT !.free = @ \union Run(c.from_system + 1, k),
               !.from_system = @ + k] :
        k \in {j \in n .. n + 1 : c.from_system + j \in HugePages}}

\* HugeAllocator::Get(n): the outcomes, each the cache afterwards and the first
\* hugepage of the range, 0 if there is no memory.
AllocatorGet(c, n) ==
    LET from == IF Find(c.free, n) # {} THEN {c} ELSE AllocateRange(c, n)
    IN  IF from = {} THEN {[c |-> c, start |-> 0]}
        ELSE UNION {{[c |-> [g EXCEPT !.free = @ \ Run(r[1], n), !.in_use = @ + n],
                      start |-> r[1]] : r \in Find(g.free, n)} : g \in from}

\* HugeAllocator::Release(r).
AllocatorRelease(c, r) ==
    [c EXCEPT !.free = @ \union Run(r[1], r[2]), !.in_use = @ - r[2]]

----------------------------------------------------------------------------
\* MaybeGrowCacheLimit(): the largest brief dip in usage, and a tenth of it.
GrownLimits(c) ==
    {c.limit} \union {lim \in {d + d \div 10 : d \in 0 .. c.usage} : lim > c.limit}

\* HugeCache::Get(n): also whether the range has to be backed (from_released).
CacheGet(c, n) ==
    IF Find(c.cached, n) # {}
    THEN {[c |-> [c EXCEPT !.cached = @ \ Run(r[1], n), !.size = @ - n, !.usage = @ + n],
           start |-> r[1], from_released |-> FALSE] : r \in Find(c.cached, n)}
    ELSE UNION {IF a.start = 0
                THEN {[c |-> a.c, start |-> 0, from_released |-> FALSE]}
                ELSE LET g == [a.c EXCEPT !.usage = @ + n]
                     IN  {[c |-> [g EXCEPT !.limit = lim], start |-> a.start,
                           from_released |-> TRUE] : lim \in GrownLimits(g)} :
                a \in AllocatorGet(c, n)}

\* HugeCache::Release(r), up to where it shrinks the cache.
CacheInsert(c, r) ==
    [c EXCEPT !.usage = @ - r[2], !.cached = @ \union Run(r[1], r[2]), !.size = @ + r[2]]

\* HugeCache::ReleaseUnbacked(r).
ReleaseUnbacked(c, r) == AllocatorRelease([c EXCEPT !.usage = @ - r[2]], r)

\* MaybeShrinkCacheLimit(): the limits it may leave and the sizes it then shrinks the
\* cache to, the present size where it returns early; min is the smallest size in the
\* window, without end if nothing was reported in it.
ShrunkLimits(c) ==
    LET lowered(min) == Max({c.limit - Max({min \div 2, 1}), MinCacheLimit})
    IN  {IF min < c.limit \div 5 THEN [limit |-> c.limit, target |-> c.size]
         ELSE [limit |-> lowered(min), target |-> lowered(min)] :
            min \in 0 .. 2 * Cardinality(HugePages)}

\* One round of ShrinkCache(target), up to where it drops the lock to unback:
\* the range taken, not more than there is too much.
ShrinkRanges(c, target) ==
    {<<r[1], Min({r[2], c.size - target})>> : r \in Find(c.cached, 1)}
\* Mutant: the range stays in the cache while it is unbacked.
ShrinkOneLate(c, r) == [c EXCEPT !.size = @ - r[2]]
ShrinkOne(c, r) == [c EXCEPT !.cached = @ \ Run(r[1], r[2]), !.size = @ - r[2]]
=============================================================================
