--------------------------- MODULE HugePageAware ----------------------------
(***************************************************************************)
(* HugePageAwareAllocator (huge_page_aware_allocator.cc), with the usage   *)
(* limit of PageAllocator (page_allocator.cc): threads allocate and free   *)
(* spans of pages from the filler, from regions or straight from the       *)
(* hugepage cache, and return memory to the system.                        *)
(*                                                                         *)
(* Everything happens under pageheap_lock, which is dropped around the     *)
(* system call that unbacks memory: in ShrinkCache() and in the filler's   *)
(* Put().  An action is what a thread does between two of these places.    *)
(***************************************************************************)
EXTENDS HugePageFiller

CONSTANTS
    Threads,
    MinCacheLimit,
    MinSlack,       \* the slack below which regions are not considered
    Requests,       \* lengths asked for, in pages
    AlignedRequests,\* lengths asked for with an alignment of more than a page
    ReleaseSizes,   \* pages asked to be released
    Limits,         \* usage limits that may be set, in pages
    NoLimit,
    MaxSpans,       \* bound: spans alive at once
    MaxUnaccounted  \* bound: pages unbacked by Put() and not yet accounted for

VARIABLES
    cache,          \* cache_ and alloc_
    filler,         \* filler_ and the trackers in the page map
    regions,        \* regions_
    info,           \* info_.small() and info_.slack()
    limit,          \* limit_ and limit_is_hard_
    subrelease,     \* Parameters::hpaa_subrelease()
    spans,          \* the spans <<page, length>> of the program
    backed,         \* the pages the system backs
    lock,           \* the holder of pageheap_lock
    th              \* where each thread is

heap == <<cache, filler, regions, info>>
vars == <<cache, filler, regions, info, limit, subrelease, spans, backed, lock, th>>

C == INSTANCE HugeCache

\* A thread outside the allocator.  stage, target, got, want and then belong to a
\* release in progress, span to an allocation, pages are the ones to be unbacked
\* without the lock, and put is the tracker, index and length of a Put() and the
\* hugepages to be released after it.
Idle == [pc |-> "idle", stage |-> "none", target |-> 0, got |-> 0, want |-> 0,
         then |-> "none", span |-> <<0, 0>>, pages |-> <<0, 0>>, put |-> <<>>]
NoThread == 0
HLFromPages(n) == (n + kPages - 1) \div kPages
SpanPages(s) == Items(s[1], s[2])
HugePageContaining(p) == p \div kPages
PagesOf(r) == Items(r[1] * kPages, r[2] * kPages)

Init ==
    /\ cache = C!NewCache
    /\ \E mode \in {"Return", "Retain"} : filler = NewFiller(mode)
    /\ regions = <<>>
    /\ info = [small |-> 0, slack |-> 0]
    /\ limit = [pages |-> NoLimit, hard |-> FALSE]
    /\ subrelease \in BOOLEAN
    /\ spans = {}
    /\ backed = {}
    /\ lock = NoThread
    /\ th = [t \in Threads |-> Idle]

----------------------------------------------------------------------------
(* Allocation.                                                             *)

\* PageAllocInfo::RecordAlloc() (d = 1) and RecordFree() (d = -1).
Record(i, n, d) ==
    IF n <= kPages \div 2 THEN [i EXCEPT !.small = @ + d * n]
    ELSE [i EXCEPT !.slack = @ + d * (HLFromPages(n) * kPages - n)]

\* Finalize(): the span exists; what is left is the usage limit.
Finalize(t, p, n) ==
    /\ info' = Record(info, n, 1)
    /\ th' = [th EXCEPT ![t] = [Idle EXCEPT !.pc = "limit", !.then = "final",
                                             !.span = <<p, n>>]]

NoMemory == UNCHANGED <<th, info>>

\* AllocAndContribute(): the tracker of hp with its first n pages in use.
AllocAndContribute(f, hp, n, donated) ==
    ContributeTracker([f EXCEPT !.trk[hp] = TrackerGet(NewTracker, n)], hp, donated)

\* AllocRawHugepages(n): the slack of the last hugepage goes to the filler.
AllocRawHugepages(t, n) ==
    \E g \in C!CacheGet(cache, HLFromPages(n)) :
        LET hl    == HLFromPages(n)
            slack == hl * kPages - n
            last  == g.start + hl - 1
        IN  /\ cache' = g.c
            /\ IF g.start = 0 THEN UNCHANGED filler /\ NoMemory
               ELSE /\ filler' = IF slack = 0 THEN filler
                                 ELSE AllocAndContribute(filler, last, kPages - slack, TRUE)
                    /\ Finalize(t, g.start * kPages, n)
            /\ UNCHANGED regions

FromFiller(t, n) ==
    \E hp \in TryGetChoices(filler, n) :
        /\ filler' = TryGet(filler, hp, n)
        /\ Finalize(t, hp * kPages + GetIndex(filler.trk[hp], n), n)
        /\ UNCHANGED <<cache, regions>>

\* AllocSmall(n): the filler, or RefillFiller() up to its look at the limit.
AllocSmall(t, n) ==
    \/ FromFiller(t, n)
    \/ /\ TryGetChoices(filler, n) = {}
       /\ \E g \in C!CacheGet(cache, 1) :
            /\ cache' = g.c
            /\ IF g.start = 0 THEN NoMemory
               ELSE /\ th' = [th EXCEPT ![t] = [Idle EXCEPT !.pc = "limit", !.then = "refill",
                                                !.span = <<g.start * kPages, n>>]]
                    /\ UNCHANGED info
       /\ UNCHANGED <<filler, regions>>

FromRegion(t, c, rs, n) ==
    LET r == rs[FirstFit(rs, n)]
    IN  /\ regions' = SetGet(rs, n)
        /\ cache' = c
        /\ Finalize(t, GetPage(r, n), n)
        /\ UNCHANGED filler

\* AllocLarge(n): the filler, a region, a new region or hugepages.
AllocLarge(t, n) ==
    IF n % kPages = 0 THEN AllocRawHugepages(t, n)
    ELSE IF n < kPages /\ TryGetChoices(filler, n) # {} THEN FromFiller(t, n)
    ELSE IF FirstFit(regions, n) # 0 THEN FromRegion(t, cache, regions, n)
    ELSE IF info.slack < MinSlack \/ info.slack < info.small THEN AllocRawHugepages(t, n)
    ELSE \E g \in C!AllocatorGet(cache, kNumHugePages) :
            IF g.start = 0 THEN AllocRawHugepages(t, n)
            ELSE FromRegion(t, g.c, Contribute(regions, Region(g.start)), n)

Start(t) == th[t] = Idle /\ lock = NoThread

\* New(n): LockAndAlloc() chooses by size.
New(t, n) ==
    /\ Start(t)
    /\ Cardinality(spans) < MaxSpans
    /\ IF n <= kPages \div 2 THEN AllocSmall(t, n)
       ELSE IF n <= RegionPages THEN AllocLarge(t, n)
       ELSE AllocRawHugepages(t, n)
    /\ lock' = IF th'[t] = Idle THEN NoThread ELSE t
    /\ UNCHANGED <<limit, subrelease, spans, backed>>

\* NewAligned(n, align), align more than one page.
NewAligned(t, n) ==
    /\ Start(t)
    /\ Cardinality(spans) < MaxSpans
    /\ AllocRawHugepages(t, n)
    /\ lock' = IF th'[t] = Idle THEN NoThread ELSE t
    /\ UNCHANGED <<limit, subrelease, spans, backed>>

----------------------------------------------------------------------------
(* Returning memory to the system.                                         *)

\* stats(): the pages the allocator believes to be backed.
BackedPages ==
    (cache.in_use * kPages) - filler.unmapped
        - FoldSeq(LAMBDA r, sum : sum + unmapped_pages(r), 0, regions)

\* ReleaseAtLeastNPages(want) with MaybeShrinkCacheLimit() of ReleaseCachedPages()
\* done; then is what the thread does with the result.
BeginRelease(t, want, then, span) ==
    \E new \in C!ShrunkLimits(cache) :
        /\ cache' = [cache EXCEPT !.limit = new.limit]
        /\ th' = [th EXCEPT ![t] =
                    [Idle EXCEPT !.pc = "shrink", !.stage = "limit", !.target = new.target,
                                 !.want = want, !.then = then, !.span = span]]

Release(t, n) ==
    /\ Start(t)
    /\ BeginRelease(t, n, "release", <<0, 0>>)
    /\ lock' = t
    /\ UNCHANGED <<filler, regions, info, limit, subrelease, spans, backed>>

\* The thread goes on after ShrinkToUsageLimit(): RefillFiller() contributes the
\* hugepage it holds and finalizes, Finalize() returns and the program has the
\* span, backed by BackSpan() or when it is touched.
Resume(t, f, pages) ==
    LET span == th[t].span
    IN  IF th[t].then = "refill"
        THEN /\ filler' = AllocAndContribute(f, HugePageContaining(span[1]), span[2], FALSE)
             /\ Finalize(t, span[1], span[2])
             /\ UNCHANGED <<spans, lock>>
             /\ backed' = backed \ pages
        ELSE /\ filler' = f
             /\ spans' = spans \union {span}
             /\ backed' = (backed \ pages) \union SpanPages(span)
             /\ th' = [th EXCEPT ![t] = Idle]
             /\ lock' = NoThread
             /\ UNCHANGED info

\* PageAllocator::ShrinkToUsageLimit().
ShrinkToUsageLimit(t) ==
    /\ th[t].pc = "limit"
    /\ IF limit.pages = NoLimit \/ BackedPages <= limit.pages
       THEN Resume(t, filler, {}) /\ UNCHANGED cache
       ELSE /\ BeginRelease(t, BackedPages - limit.pages, th[t].then, th[t].span)
            /\ UNCHANGED <<filler, info, spans, backed, lock>>
    /\ UNCHANGED <<regions, limit, subrelease>>

\* The pages a release takes from the trackers hps of the filler.
ReleasedFrom(hps) ==
    UNION {{hp * kPages + i : i \in FreeBacked(filler.trk[hp])} : hp \in hps}

\* ShrinkCache(target): another range, without the lock while it is unbacked, ...
ShrinkCache(t) ==
    /\ th[t].pc = "shrink"
    /\ cache.size > th[t].target
    /\ \E r \in C!ShrinkRanges(cache, th[t].target) :
        /\ cache' = C!ShrinkOne(cache, r)
        /\ th' = [th EXCEPT ![t].pc = "unback", ![t].pages = <<r[1] * kPages, r[2] * kPages>>]
    /\ lock' = NoThread
    /\ UNCHANGED <<filler, regions, info, limit, subrelease, spans, backed>>

\* ... or no more.  Release() of the cache shrinks it to the limit after the limit
\* itself was lowered; ReleaseCachedPages() by what is still missing.
ShrinkDone(t) ==
    LET x    == th[t]
        left == HLFromPages(x.want) - x.got
    IN  /\ x.pc = "shrink"
        /\ cache.size <= x.target
        /\ th' = [th EXCEPT ![t] =
                    IF x.then = "freed"
                    THEN IF x.stage = "limit"
                         THEN [x EXCEPT !.stage = "target", !.target = cache.limit]
                         ELSE Idle
                    ELSE IF x.stage = "limit" /\ left > 0
                    THEN [x EXCEPT !.stage = "target",
                                   !.target = IF left > cache.size THEN 0
                                              ELSE cache.size - left]
                    ELSE [x EXCEPT !.pc = "filler"]]
        /\ lock' = IF th'[t] = Idle THEN NoThread ELSE t
        /\ UNCHANGED <<cache, filler, regions, info, limit, subrelease, spans, backed>>

\* The end of ReleaseAtLeastNPages(): the filler, if it may break hugepages.
ReleaseFromFiller(t) ==
    LET x    == th[t]
        need == x.want - x.got * kPages
    IN  /\ x.pc = "filler"
        /\ \E o \in IF subrelease /\ need > 0 THEN ReleasePages(filler, need)
                    ELSE {[f |-> filler, got |-> 0, from |-> {}]} :
            /\ filler' = o.f
            /\ backed' = backed \ ReleasedFrom(o.from)
            /\ th' = [th EXCEPT ![t] =
                        IF x.then = "release" THEN Idle
                        ELSE [x EXCEPT !.pc = "hard", !.want = need - o.got]]
        /\ lock' = IF th'[t] = Idle THEN NoThread ELSE t
        /\ UNCHANGED <<cache, regions, info, limit, subrelease, spans>>

\* The rest of ShrinkHardBy(): break hugepages in any case, unless the limit is
\* hard and that was turned off.  A hard limit that is still exceeded is the end.
ShrinkHardBy(t) ==
    LET x == th[t]
    IN  /\ x.pc = "hard"
        /\ \E o \in IF x.want > 0 /\ (subrelease \/ ~ limit.hard)
                    THEN ReleasePages(filler, x.want)
                    ELSE {[f |-> filler, got |-> 0, from |-> {}]} :
            IF limit.hard /\ o.got < x.want
            THEN /\ filler' = o.f
                 /\ backed' = backed \ ReleasedFrom(o.from)
                 /\ th' = [th EXCEPT ![t].pc = "crashed"]
                 /\ UNCHANGED <<info, spans, lock>>
            ELSE Resume(t, o.f, ReleasedFrom(o.from))
        /\ UNCHANGED <<cache, regions, limit, subrelease>>

\* SystemRelease() without the lock.
Unback(t) ==
    /\ th[t].pc = "unback"
    /\ backed' = backed \ SpanPages(th[t].pages)
    /\ th' = [th EXCEPT ![t].pc = "relock"]
    /\ UNCHANGED <<cache, filler, regions, info, limit, subrelease, spans, lock>>

\* PageAllocator::set_limit().
set_limit(lim) ==
    /\ lock = NoThread
    /\ limit' = lim
    /\ UNCHANGED <<cache, filler, regions, info, subrelease, spans, backed, lock, th>>

----------------------------------------------------------------------------
(* Freeing.                                                                *)

\* HugeCache::Release(r), with a lower limit first if the last change was long ago.
CacheRelease(t, c, r) ==
    LET g == C!CacheInsert(c, r)
    IN  \/ /\ cache' = g
           /\ th' = [th EXCEPT ![t] = [Idle EXCEPT !.pc = "shrink", !.stage = "target",
                                                   !.target = g.limit, !.then = "freed"]]
        \/ \E new \in C!ShrunkLimits(g) :
           /\ cache' = [g EXCEPT !.limit = new.limit]
           /\ th' = [th EXCEPT ![t] = [Idle EXCEPT !.pc = "shrink", !.stage = "limit",
                                                   !.target = new.target, !.then = "freed"]]

\* What follows a Put() that emptied hp: ReleaseHugepage(), and for the slack of a
\* larger allocation the release of the rest of it, with hp if that is backed.
AfterEmpty(t, f, hp, range) ==
    LET unbacked == f.trk[hp].released_count > 0
        c        == IF unbacked THEN C!ReleaseUnbacked(cache, <<hp, 1>>) ELSE cache
    IN  /\ filler' = [f EXCEPT !.trk[hp] = NoTracker]
        /\ IF ~ unbacked
           THEN CacheRelease(t, c, IF range = <<>> THEN <<hp, 1>> ELSE range)
           ELSE IF range = <<>>
           THEN cache' = c /\ th' = [th EXCEPT ![t] = Idle]
           ELSE CacheRelease(t, c, <<range[1], range[2] - 1>>)

\* Put() after its early release.  An empty hugepage that is partly released is
\* unbacked as a whole, without the lock.
AfterPut(t, put) ==
    LET hp == put[1]
        f  == FinishPut(filler, hp, put[2], put[3])
        pt == f.trk[hp]
    IN  IF pt.t.longest = kPages
        THEN IF pt.released_count \in 1 .. kPages - 1
             THEN /\ filler' = f
                  /\ th' = [th EXCEPT ![t] = [Idle EXCEPT !.pc = "unback", !.then = "empty",
                                                          !.pages = <<hp * kPages, kPages>>,
                                                          !.put = put]]
                  /\ UNCHANGED cache
             ELSE AfterEmpty(t, f, hp, put[4])
        ELSE /\ filler' = f
             /\ IF put[4] = <<>> THEN th' = [th EXCEPT ![t] = Idle] /\ UNCHANGED cache
                ELSE CacheRelease(t, cache, <<put[4][1], put[4][2] - 1>>)

\* Put(): a hugepage that was broken gives up everything that is freed, before it
\* is marked as free.
BeginPut(t, put) ==
    LET hp == put[1]
    IN  IF filler.mode = "Return" /\ filler.trk[hp].released_count > 0
        THEN /\ filler' = [filler EXCEPT !.trk[hp] = MarkReleased(@, put[2], put[3])]
             /\ th' = [th EXCEPT ![t] = [Idle EXCEPT !.pc = "unback", !.then = "put",
                                            !.pages = <<hp * kPages + put[2], put[3]>>,
                                            !.put = put]]
             /\ UNCHANGED cache
        ELSE AfterPut(t, put)

Unlocked(t) == th'[t].pc \in {"idle", "unback"}

\* Delete(span): it came from the filler, from a region or from the cache.
Delete(t, s) ==
    LET p     == s[1]
        n     == s[2]
        hp    == HugePageContaining(p)
        hl    == HLFromPages(n)
        slack == hl * kPages - n
        i     == Home(regions, p)
    IN  /\ Start(t)
        /\ filler.unmapping_unaccounted <= MaxUnaccounted
        /\ spans' = spans \ {s}
        /\ info' = Record(info, n, -1)
        /\ IF filler.trk[hp] # NoTracker
           THEN BeginPut(t, <<hp, p % kPages, n, <<>>>>) /\ UNCHANGED <<regions, backed>>
           ELSE IF i # 0
           THEN /\ regions' = SetPut(regions, p, n)
                /\ backed' = backed \ UNION {PagesOf(<<regions[i].start + j, 1>>) :
                                                j \in Emptied(regions[i], p, n)}
                /\ UNCHANGED <<cache, filler, th>>
           ELSE IF slack = 0
           THEN CacheRelease(t, cache, <<hp, hl>>) /\ UNCHANGED <<filler, regions, backed>>
           ELSE /\ BeginPut(t, <<hp + hl - 1, 0, kPages - slack, <<hp, hl>>>>)
                /\ UNCHANGED <<regions, backed>>
        /\ lock' = IF Unlocked(t) THEN NoThread ELSE t
        /\ UNCHANGED <<limit, subrelease>>

\* The lock again after SystemRelease().  More than want is as good as want: a
\* ShrinkCache() whose cache is filled meanwhile may release without end.
Relock(t) ==
    LET x == th[t]
        r == <<HugePageContaining(x.pages[1]), x.pages[2] \div kPages>>
    IN  /\ x.pc = "relock"
        /\ lock = NoThread
        /\ CASE x.then = "put" -> AfterPut(t, x.put)
             [] x.then = "empty" ->
                  AfterEmpty(t, [filler EXCEPT !.unmapping_unaccounted =
                                   @ + kPages - filler.trk[x.put[1]].released_count],
                             x.put[1], x.put[4])
             [] OTHER -> /\ cache' = C!AllocatorRelease(cache, r)
                         /\ th' = [th EXCEPT ![t].pc = "shrink", ![t].pages = <<0, 0>>,
                                             ![t].got = Min({@ + r[2], HLFromPages(x.want)})]
                         /\ UNCHANGED filler
        /\ lock' = IF Unlocked(t) THEN NoThread ELSE t
        /\ UNCHANGED <<regions, info, limit, subrelease, spans, backed>>

Crashed == (\E t \in Threads : th[t].pc = "crashed") /\ UNCHANGED vars

Next ==
    \/ \E t \in Threads :
        \/ \E n \in Requests : New(t, n)
        \/ \E n \in AlignedRequests : NewAligned(t, n)
        \/ \E n \in ReleaseSizes : Release(t, n)
        \/ \E s \in spans : Delete(t, s)
        \/ ShrinkToUsageLimit(t)
        \/ ShrinkCache(t)
        \/ ShrinkDone(t)
        \/ ReleaseFromFiller(t)
        \/ ShrinkHardBy(t)
        \/ Unback(t)
        \/ Relock(t)
    \/ \E lim \in Limits : set_limit(lim)
    \/ Crashed

Spec == Init /\ [][Next]_vars

----------------------------------------------------------------------------
\* The spans the program has and the ones being returned to it.
Live == spans \union {th[t].span : t \in {u \in Threads : th[u].then = "final"}}

\* A hugepage of a span that came straight from the cache; its last one is shared
\* with the filler if the span does not fill it.
Raw(hp) ==
    /\ Home(regions, hp * kPages) = 0
    /\ \E s \in Live : /\ PagesOf(<<hp, 1>>) \intersect SpanPages(s) # {}
                       /\ filler.trk[HugePageContaining(s[1])] = NoTracker

\* A hugepage only a thread knows of: RefillFiller() between the cache and the
\* filler, ShrinkCache() between the cache and the allocator, and the rest of a
\* large span while its last hugepage is put back.
InHand(hp) ==
    \E t \in Threads :
        \/ th[t].then = "refill" /\ hp = HugePageContaining(th[t].span[1])
        \/ /\ th[t].pc \in {"unback", "relock"} /\ th[t].then \notin {"put", "empty"}
           /\ PagesOf(<<hp, 1>>) \subseteq SpanPages(th[t].pages)
        \/ /\ th[t].put # <<>> /\ th[t].put[4] # <<>>
           /\ hp \in th[t].put[4][1] .. th[t].put[4][1] + th[t].put[4][2] - 2

\* The memory of a span is never given back to the system under the program's
\* feet: no unback, with the lock (ReleaseFree(), regions) or without it
\* (ShrinkCache(), Put()), reaches a page of a live span.
LivePagesKept == \A s \in spans : SpanPages(s) \subseteq backed

\* Every hugepage taken from the system is in one place: free in the allocator,
\* cached, in the filler, in a region, part of a large span or in one thread's
\* hands.  Neither a range dropped between two places nor one listed twice.
HugepagesInOnePlace ==
    \A hp \in 1 .. cache.from_system :
        LET places == <<hp \in cache.free, hp \in cache.cached,
                        filler.trk[hp] # NoTracker, Home(regions, hp * kPages) # 0,
                        Raw(hp) /\ filler.trk[hp] = NoTracker, InHand(hp)>>
        IN  Cardinality({i \in DOMAIN places : places[i]}) = 1

\* No page belongs to two live spans, and the pages of the live spans of a
\* hugepage of the filler are in use there.
SpansDisjoint ==
    /\ \A a, b \in Live : a # b => SpanPages(a) \intersect SpanPages(b) = {}
    /\ \A hp \in HugePages : filler.trk[hp] # NoTracker =>
         \A s \in Live : \A p \in SpanPages(s) \intersect PagesOf(<<hp, 1>>) :
            p % kPages \in filler.trk[hp].t.bits

\* What the statistics count as returned to the system is not backed: free
\* hugepages, released pages of the filler (but the ones being unbacked right
\* now) and unbacked hugepages of regions.
ReturnedIsUnbacked ==
    LET unbacking == UNION {SpanPages(th[t].pages) : t \in {u \in Threads : th[u].pc = "unback"}}
    IN  /\ \A hp \in cache.free : PagesOf(<<hp, 1>>) \intersect backed = {}
        /\ \A hp \in HugePages : filler.trk[hp] # NoTracker =>
             \A i \in filler.trk[hp].released :
                hp * kPages + i \notin backed \/ hp * kPages + i \in unbacking
        /\ \A r \in ToSet(regions) : \A j \in (0 .. kNumHugePages - 1) \ r.backed :
             PagesOf(<<r.start + j, 1>>) \intersect backed = {}

Trackers == {hp \in HugePages : filler.trk[hp] # NoTracker}
Sum(f(_), S) == MapThenSumSet(f, S)

\* The counters of the filler, which are kept by increments over steps the lock is
\* dropped between, are what a count of its trackers gives.  A page a Put() has
\* marked as released and not yet freed is not counted as unmapped.
FillerCountsExact ==
    LET emptied == {th[t].put[1] : t \in {u \in Threads : th[u].then = "empty"}}
        inPut   == Sum(LAMBDA t : th[t].put[3], {u \in Threads : th[u].then = "put"})
        listed  == Trackers \ emptied
    IN  /\ filler.size = Cardinality(listed)
        /\ filler.allocated = Sum(LAMBDA hp : Cardinality(filler.trk[hp].t.bits), listed)
        /\ filler.unmapped + inPut =
             Sum(LAMBDA hp : Cardinality(filler.trk[hp].released), listed)
        /\ filler.n_used_released =
             Sum(LAMBDA hp : filler.trk[hp].t.nused, On(filler, "released", 0))
        /\ filler.n_used_partial_released =
             Sum(LAMBDA hp : filler.trk[hp].t.nused, On(filler, "partial", 0))
        /\ cache.in_use = cache.from_system - Cardinality(cache.free)
        /\ cache.size = Cardinality(cache.cached)

\* A tracker is on the list it would be removed from, although its released count
\* changes while it is on one, and the length of its longest free range is right:
\* later lists can serve all that earlier ones can.
TrackersListed ==
    \A hp \in Trackers :
        LET pt == filler.trk[hp]
        IN  /\ pt.on = IF \E t \in Threads : th[t].then = "empty" /\ th[t].put[1] = hp
                       THEN Off ELSE RemovalList(filler, pt)
            /\ pt.t.longest = LongestFree(pt.t.bits, kPages)
            /\ pt.released_count = Cardinality(pt.released)

\* What the program has is its own and stays: no page of a live span is unbacked, free
\* in its hugepage or part of another span.
LiveSpansKept == LivePagesKept /\ SpansDisjoint

\* The filler's counters and lists are what its trackers say.
FillerExact == FillerCountsExact /\ TrackersListed
=============================================================================
