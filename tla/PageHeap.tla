----------------------------- MODULE PageHeap -------------------------------
(***************************************************************************)
(* The page heap (page_heap.cc) with the page map (pagemap.h), the page    *)
(* allocator's usage limit and the system allocator under it.              *)
(*                                                                         *)
(* The heap divides the pages the system gave it into spans.  A span is in *)
(* use, on a normal free list or on a returned one.  The page map leads    *)
(* from the first and the last page of a span to its descriptor and is     *)
(* never cleared, so what it holds for inner pages may be stale.           *)
(*                                                                         *)
(* All operations hold pageheap_lock and are one step each, except that    *)
(* ReleaseLastNormalSpan() drops the lock for the system call: a thread    *)
(* releases in two steps, and other threads change the heap in between.  *)
(***************************************************************************)
EXTENDS SystemAlloc, Sequences, SequencesExt

CONSTANTS Threads,
          kMaxPages,        \* spans of this many pages or more are on one list
          kLeafLength,      \* pages a leaf of the page map covers
          Requests,         \* the lengths asked of New()
          AlignedRequests,  \* <<n, align>> asked of NewAligned()
          ReleaseSizes,     \* asked of ReleaseAtLeastNPages()
          Limits,           \* [pages, hard], given to set_limit()
          NoLimit,
          MaxSpans          \* bound on the spans in users' hands

ASSUME PageHeapAssumption ==
    /\ kMaxPages \in Nat \ {0} /\ kLeafLength \in Nat \ {0}
    /\ Requests \subseteq Nat \ {0}
    /\ AlignedRequests \subseteq (Nat \ {0}) \X (Nat \ {0})
    /\ ReleaseSizes \subseteq Nat
    /\ Limits \subseteq [pages : Nat, hard : BOOLEAN]

VARIABLES heap,   \* the page heap and the page map, see InitHeap
          sys,    \* the system allocator
          live,   \* descriptors of the spans users hold
          class,  \* the size class of each page in the page map, 0 or 1
          limit,
          th      \* what each thread is doing

vars == <<heap, sys, live, class, limit, th>>

Pages == 0 .. AddressPages
Ids == 1 .. (AddressPages + 1)
NoSpan == 0
Unused == [first |-> 0, n |-> 0, loc |-> "DELETED"]
EmptyPair == [normal |-> <<>>, returned |-> <<>>]

\* span: the descriptors; map: the span pointers of the leaves the page map has;
\* lists: free_[0 .. kMaxPages - 1] and, at kMaxPages, large_; free, unmapped,
\* system: stats_ in pages; index: release_index_.
InitHeap ==
    [span |-> [i \in Ids |-> Unused], map |-> [p \in {} |-> NoSpan],
     lists |-> [n \in 0 .. kMaxPages |-> EmptyPair],
     free |-> 0, unmapped |-> 0, system |-> 0, index |-> kMaxPages]

----------------------------------------------------------------------------
\* The page map: leaves are made when they are ensured, and a page without a leaf
\* has no descriptor.  Mutant: only the leaf of the first page.
GetDescriptor(h, p) == IF p \in DOMAIN h.map THEN h.map[p] ELSE NoSpan
Set(h, p, s) == [h EXCEPT !.map = [q \in DOMAIN @ |-> IF q = p THEN s ELSE @[q]]]
EnsureFirst(h, p, n) ==
    LET leaf == p \div kLeafLength
    IN [h EXCEPT !.map = [q \in DOMAIN @ \cup {q \in Pages : q \div kLeafLength = leaf}
                             |-> GetDescriptor(h, q)]]
Ensure(h, p, n) ==
    LET leaves == {q \div kLeafLength : q \in Run(p, n)}
    IN [h EXCEPT !.map = [q \in DOMAIN @ \cup {q \in Pages : q \div kLeafLength \in leaves}
                             |-> GetDescriptor(h, q)]]

\* Span::New() and Span::Delete() reuse descriptors; which one is reused is not
\* told apart beyond that a stale pointer may lead to it: the lowest.
FirstPage(h, s) == h.span[s].first
LastPage(h, s) == h.span[s].first + h.span[s].n - 1
SpanPages(h, s) == Run(h.span[s].first, h.span[s].n)
FreshSpan(h) == CHOOSE s \in Ids : h.span[s] = Unused /\ \A r \in 1 .. (s - 1) : h.span[r] # Unused
SpanNew(h, p, n, loc) ==
    [h EXCEPT !.span[FreshSpan(h)] = [first |-> p, n |-> n, loc |-> loc]]
SpanDelete(h, s) == [h EXCEPT !.span[s] = Unused]

RecordSpan(h, s) == Set(Set(h, FirstPage(h, s), s), LastPage(h, s), s)

\* The free lists and their statistics.  A span is a node of the list it is on.
Unlink(list, s) == RemoveAt(list, CHOOSE i \in DOMAIN list : list[i] = s)
ListOf(n) == IF n < kMaxPages THEN n ELSE kMaxPages
PrependToFreeList(h, s) ==
    LET d == h.span[s]
    IN IF d.loc = "NORMAL"
       THEN [h EXCEPT !.free = @ + d.n, !.lists[ListOf(d.n)].normal = <<s>> \o @]
       ELSE [h EXCEPT !.unmapped = @ + d.n, !.lists[ListOf(d.n)].returned = <<s>> \o @]
RemoveFromFreeList(h, s) ==
    LET d == h.span[s]
    IN IF d.loc = "NORMAL"
       THEN [h EXCEPT !.free = @ - d.n, !.lists[ListOf(d.n)].normal = Unlink(@, s)]
       ELSE [h EXCEPT !.unmapped = @ - d.n, !.lists[ListOf(d.n)].returned = Unlink(@, s)]

\* MergeIntoFreeList(): the span takes in the neighbours that are free in the same
\* way, the one before it and then the one behind it.  Mutant: the neighbour behind
\* it is taken in whatever it is.
MergePrev(h, s) ==
    LET prev == GetDescriptor(h, FirstPage(h, s) - 1)
    IN IF prev = NoSpan \/ h.span[prev].loc # h.span[s].loc THEN h
       ELSE LET len == h.span[prev].n
                g == SpanDelete(RemoveFromFreeList(h, prev), prev)
                k == [g EXCEPT !.span[s].first = @ - len, !.span[s].n = @ + len]
            IN Set(k, FirstPage(k, s), s)
MergeAnyNext(h, s) ==
    LET next == GetDescriptor(h, LastPage(h, s) + 1)
        len == h.span[next].n
        g == IF h.span[next].loc = "IN_USE" THEN h ELSE RemoveFromFreeList(h, next)
    IN IF next = NoSpan THEN h
       ELSE [SpanDelete(g, next) EXCEPT !.span[s].n = @ + len]
MergeNext(h, s) ==
    LET next == GetDescriptor(h, LastPage(h, s) + 1)
    IN IF next = NoSpan \/ h.span[next].loc # h.span[s].loc THEN h
       ELSE LET len == h.span[next].n
                g == SpanDelete(RemoveFromFreeList(h, next), next)
                k == [g EXCEPT !.span[s].n = @ + len]
            IN Set(k, LastPage(k, s), s)
MergeIntoFreeList(h, s) == PrependToFreeList(MergeNext(MergePrev(h, s), s), s)

\* A new span that goes straight to the free lists.
Extra(h, p, n, loc) ==
    LET s == FreshSpan(h)
    IN MergeIntoFreeList(RecordSpan(SpanNew(h, p, n, loc), s), s)

----------------------------------------------------------------------------
\* Carve(): the first n pages of a free span, or the last n where the heap grows
\* down towards it.  The rest skips coalescing.
GrowsDown(h, s) ==
    /\ GetDescriptor(h, FirstPage(h, s) - 1) = NoSpan
    /\ GetDescriptor(h, LastPage(h, s) + 1) # NoSpan
Carve(h0, s, n) ==
    LET d == h0.span[s]
        h == [RemoveFromFreeList(h0, s) EXCEPT !.span[s].loc = "IN_USE"]
        extra == d.n - n
        r == FreshSpan(h)
        down == GrowsDown(h, s)
        g == IF down
             THEN LET k == SpanNew([h EXCEPT !.span[s].first = @ + extra], d.first, extra, d.loc)
                  IN Set(k, FirstPage(k, s), s)
             ELSE SpanNew(h, d.first + n, extra, d.loc)
        k == [PrependToFreeList(RecordSpan(g, r), r) EXCEPT !.span[s].n = n]
    IN IF extra = 0 THEN h ELSE Set(k, LastPage(k, s), s)

\* AllocLarge(): in large_ the shortest span that is long enough, the lowest first.
IsSpanBetter(h, s, r) ==
    \/ h.span[s].n < h.span[r].n
    \/ h.span[s].n = h.span[r].n /\ FirstPage(h, s) <= FirstPage(h, r)
AllocLarge(h, n) ==
    LET large == {s \in Range(h.lists[kMaxPages].normal)
                        \cup Range(h.lists[kMaxPages].returned) : h.span[s].n >= n}
    IN IF large = {} THEN NoSpan
       ELSE CHOOSE s \in large : \A r \in large : IsSpanBetter(h, s, r)

\* SearchFreeAndLargeLists(): the shortest list that has a long enough span, normal
\* spans before returned ones.
Search(h, n) ==
    LET full == {s \in n .. (kMaxPages - 1) : h.lists[s] # EmptyPair}
        shortest == CHOOSE s \in full : \A r \in full : s <= r
    IN IF full # {} THEN Head(h.lists[shortest].normal \o h.lists[shortest].returned)
       ELSE AllocLarge(h, n)

\* GrowHeap(): new memory is unbacked, so its span is a returned one.
GrowHeap(h, got) ==
    LET g == Ensure([h EXCEPT !.system = @ + got.n], got.ptr - 1, got.n + 2)
    IN Extra(g, got.ptr, got.n, "RETURNED")

\* AllocateSpan(): outcomes [heap, sys, s], s being NoSpan when it fails.
AllocateSpan(n) ==
    LET found(h, y) == [heap |-> Carve(h, Search(h, n), n), sys |-> y, s |-> Search(h, n)]
    IN IF Search(heap, n) # NoSpan THEN {found(heap, sys)}
       ELSE {IF o.got = NoPages THEN [heap |-> heap, sys |-> o.sys, s |-> NoSpan]
             ELSE found(GrowHeap(heap, o.got), o.sys) :
                o \in SystemAllocate(sys, n, 1, FALSE)}

----------------------------------------------------------------------------
\* What a thread is doing: nothing, releasing the span s without the lock on its way
\* through ReleaseAtLeastNPages(want), or it has crashed.
\* result is the span New() has allocated when it releases for the usage limit.
Idle == [at |-> "idle", s |-> NoSpan, want |-> 0, released |-> 0, prev |-> 0, i |-> 0,
         result |-> NoSpan]
Crashed == \E t \in Threads : th[t].at = "crashed"

Hand(s) == live' = IF s = NoSpan THEN live ELSE live \cup {s}

\* ReleaseLastNormalSpan() up to the unlock.  Mutant: the span keeps its location.
DropLockNormal(h, k, s) ==
    LET g == RemoveFromFreeList(h, s) IN [g EXCEPT !.free = @ + h.span[s].n, !.index = k]
DropLock(h, k, s) ==
    LET g == RemoveFromFreeList(h, s)
    IN [g EXCEPT !.free = @ + h.span[s].n, !.index = k, !.span[s].loc = "IN_USE"]

\* The loops of ReleaseAtLeastNPages(): i counts the lists visited in this round.
\* release_index_ is shared by the threads that release; past kMaxPages it is 0.
Around(k) == k % (kMaxPages + 1)
Steps(h, i) == {d \in 0 .. (kMaxPages - i) : h.lists[Around(h.index + d)].normal # <<>>}
Least(S) == CHOOSE d \in S : \A e \in S : d <= e
ReleaseNext(h, r) ==
    LET round == IF r.released # r.prev /\ Steps(h, r.i) = {}
                 THEN [r EXCEPT !.i = 0, !.prev = r.released] ELSE r
        start == IF round = r THEN h
                 ELSE [h EXCEPT !.index = Around(@ + kMaxPages + 1 - r.i)]
        d == Least(Steps(start, round.i))
        k == Around(start.index + d)
        s == Last(start.lists[k].normal)
    IN IF r.released < r.want /\ Steps(start, round.i) # {}
       THEN [heap |-> DropLock(start, k, s),
             th |-> [round EXCEPT !.at = "release", !.s = s, !.i = @ + d]]
       ELSE [heap |-> IF r.released < r.want
                      THEN [start EXCEPT !.index = Around(@ + kMaxPages + 1 - round.i)] ELSE h,
             th |-> [r EXCEPT !.at = "done", !.s = NoSpan]]
ReleaseAtLeastNPages(h, want, result) ==
    ReleaseNext(h, [Idle EXCEPT !.want = want, !.prev = -1, !.i = kMaxPages + 1,
                                !.result = result])

\* What follows the release: a hard limit that is still exceeded ends the process;
\* New() returns its span.
Finish(t, o) ==
    /\ heap' = o.heap
    /\ IF o.th.at # "done"
       THEN th' = [th EXCEPT ![t] = o.th] /\ UNCHANGED <<live, limit>>
       ELSE IF o.th.result # NoSpan /\ o.th.released < o.th.want /\ limit.hard
       THEN /\ th' = [th EXCEPT ![t] = [o.th EXCEPT !.at = "crashed"]]
            /\ limit' = NoLimit
            /\ UNCHANGED live
       ELSE /\ th' = [th EXCEPT ![t] = Idle]
            /\ Hand(o.th.result)
            /\ UNCHANGED limit

----------------------------------------------------------------------------
\* New(n), with PageAllocator::ShrinkToUsageLimit() while the lock is held.
Overage(h) == h.system - h.unmapped - limit.pages
New(t, n) ==
    /\ th[t] = Idle
    /\ Cardinality(live) < MaxSpans
    /\ \E o \in AllocateSpan(n) :
        /\ sys' = o.sys
        /\ IF o.s = NoSpan \/ limit = NoLimit \/ Overage(o.heap) <= 0
           THEN heap' = o.heap /\ Hand(o.s) /\ UNCHANGED <<th, limit>>
           ELSE Finish(t, ReleaseAtLeastNPages(o.heap, Overage(o.heap), o.s))
    /\ UNCHANGED class

\* NewAligned(n, align), align > 1: a longer span, cut to its aligned part.  It
\* does not look at the usage limit.
CutTo(h, s, p, n, extra, loc) ==
    LET q == FirstPage(h, s)
        g == RecordSpan([h EXCEPT !.span[s].first = p, !.span[s].n = n], s)
        b == IF p > q THEN Extra(g, q, p - q, loc) ELSE g
        after == extra - (p - q)
    IN IF after > 0 THEN Extra(b, p + n, after, loc) ELSE b
NewAligned(t, n, align) ==
    /\ th[t] = Idle
    /\ Cardinality(live) < MaxSpans
    /\ \E o \in AllocateSpan(n + align - 1) :
        LET grown == o.heap.system # heap.system
            loc == IF grown THEN "RETURNED" ELSE heap.span[o.s].loc
            h == CutTo(o.heap, o.s, RoundUp(FirstPage(o.heap, o.s), align), n, align - 1, loc)
        IN /\ sys' = o.sys
           /\ heap' = IF o.s = NoSpan THEN o.heap ELSE h
           /\ Hand(o.s)
    /\ UNCHANGED <<class, limit, th>>

\* Delete(span), of a span that has no size class (any more).
Delete(s) ==
    /\ s \in live
    /\ class[FirstPage(heap, s)] = 0
    /\ heap' = MergeIntoFreeList([heap EXCEPT !.span[s].loc = "NORMAL"], s)
    /\ live' = live \ {s}
    /\ UNCHANGED <<sys, class, limit, th>>

\* RegisterSizeClass(span, sc) and UnregisterSizeClass(span): not under the lock,
\* but the page map's boundary entries keep their value, and only the owner of the
\* span looks at the others.
Register(h, s) ==
    [h EXCEPT !.map = [p \in DOMAIN @ |-> IF p \in SpanPages(h, s) THEN s ELSE @[p]]]
RegisterSizeClass(s) ==
    /\ s \in live
    /\ class[FirstPage(heap, s)] = 0
    /\ heap' = Register(heap, s)
    /\ class' = [p \in Pages |-> IF p \in SpanPages(heap, s) THEN 1 ELSE class[p]]
    /\ UNCHANGED <<sys, live, limit, th>>
UnregisterPages(s) == SpanPages(heap, s)
UnregisterSizeClass(s) ==
    /\ s \in live
    /\ class[FirstPage(heap, s)] = 1
    /\ class' = [p \in Pages |-> IF p \in UnregisterPages(s) THEN 0 ELSE class[p]]
    /\ UNCHANGED <<heap, sys, live, limit, th>>

\* ReleaseAtLeastNPages(), from MallocExtension, ...
Release(t, want) ==
    /\ th[t] = Idle
    /\ Finish(t, ReleaseAtLeastNPages(heap, want, NoSpan))
    /\ UNCHANGED <<sys, class>>

\* ... and back from SystemRelease(), which may fail and then only counts that, to
\* the lock and the loop.
\* Mutant: the fix-up of the statistics stays.
ReturnedCounted(h, s) == MergeIntoFreeList([h EXCEPT !.span[s].loc = "RETURNED"], s)
Returned(h, s) ==
    MergeIntoFreeList([h EXCEPT !.free = @ - h.span[s].n, !.span[s].loc = "RETURNED"], s)
Relock(t) ==
    /\ th[t].at = "release"
    /\ LET s == th[t].s
           h == [Returned(heap, s) EXCEPT !.index = Around(@ + 1)]
           r == [th[t] EXCEPT !.released = @ + heap.span[s].n, !.i = @ + 1]
       IN Finish(t, ReleaseNext(h, r))
    /\ UNCHANGED <<sys, class>>

set_limit(l) ==
    /\ limit # l
    /\ limit' = l
    /\ UNCHANGED <<heap, sys, live, class, th>>

Init ==
    /\ heap = InitHeap
    /\ sys = InitSystem
    /\ live = {}
    /\ class = [p \in Pages |-> 0]
    /\ limit = NoLimit
    /\ th = [t \in Threads |-> Idle]

Next ==
    \/ /\ ~Crashed
       /\ \/ \E t \in Threads :
               \/ \E n \in Requests : New(t, n)
               \/ \E a \in AlignedRequests : NewAligned(t, a[1], a[2])
               \/ \E n \in ReleaseSizes : Release(t, n)
               \/ Relock(t)
          \/ \E s \in live : Delete(s) \/ RegisterSizeClass(s) \/ UnregisterSizeClass(s)
          \/ \E l \in Limits : set_limit(l)
    \/ Crashed /\ UNCHANGED vars

Spec == Init /\ [][Next]_vars

----------------------------------------------------------------------------
Spans == {s \in Ids : heap.span[s] # Unused}
InFlight == {th[t].s : t \in Threads} \ {NoSpan}
Pending == {th[t].result : t \in Threads} \ {NoSpan}
Of(loc) == {s \in Spans : heap.span[s].loc = loc}
PagesOf(S) == UNION {SpanPages(heap, s) : s \in S}

\* The spans divide the pages of the heap, none is in two of them, and the page map
\* leads from both ends of a span to it: so a neighbour found through the map is
\* never stale (MergeIntoFreeList(): "we only care about the pagemap entries for
\* the boundaries").
SpansTile ==
    /\ Cardinality(PagesOf(Spans)) = heap.system
    /\ \A s, r \in Spans : s # r => SpanPages(heap, s) \cap SpanPages(heap, r) = {}
    /\ \A s \in Spans : /\ GetDescriptor(heap, FirstPage(heap, s)) = s
                        /\ GetDescriptor(heap, LastPage(heap, s)) = s

\* Every free span is once on the list of its length and kind and nothing else is;
\* the statistics count them, the spans being released among the free ones
\* (ReleaseLastNormalSpan(): "we fix up the stats during the unlocked period").
ListsExact ==
    /\ \A n \in 0 .. kMaxPages :
        /\ IsInjective(heap.lists[n].normal) /\ IsInjective(heap.lists[n].returned)
        /\ Range(heap.lists[n].normal) = {s \in Of("NORMAL") : ListOf(heap.span[s].n) = n}
        /\ Range(heap.lists[n].returned) = {s \in Of("RETURNED") : ListOf(heap.span[s].n) = n}
    /\ heap.free = Cardinality(PagesOf(Of("NORMAL") \cup InFlight))
    /\ heap.unmapped = Cardinality(PagesOf(Of("RETURNED")))

\* No two neighbours are free in the same way, though Carve() skips coalescing and a
\* span under release cannot be merged ("Skip coalescing - no candidates possible").
Coalesced ==
    \A s, r \in Of("NORMAL") \cup Of("RETURNED") :
        LastPage(heap, s) + 1 = FirstPage(heap, r) => heap.span[s].loc # heap.span[r].loc

\* The spans in use are the users', the ones New() is about to return and the ones
\* under release, and no span is two of these: memory is never released under a
\* user, nor a span under release found through the page map and handed out.
InUseOnce ==
    /\ Of("IN_USE") = live \cup Pending \cup InFlight
    /\ live \cap (Pending \cup InFlight) = {} /\ Pending \cap InFlight = {}
    /\ \A t, u \in Threads : t # u /\ th[t].s # NoSpan => th[t].s # th[u].s

\* A page has a size class exactly when it is in a registered span, and then every
\* page of that span leads to it: what free() relies on.
ClassesCurrent ==
    /\ {p \in Pages : class[p] # 0}
         = PagesOf({s \in live : class[FirstPage(heap, s)] # 0})
    /\ \A s \in live : class[FirstPage(heap, s)] # 0 =>
          \A p \in SpanPages(heap, s) : GetDescriptor(heap, p) = s

\* What the page map says of the boundaries of spans and of the pages of registered
\* ones is never stale.
PageMapSound == SpansTile /\ ClassesCurrent

\* The free lists and their counts are exact, and free neighbours are merged.
FreeListsExact == ListsExact /\ Coalesced

\* While a user holds a span it is the same pages, whatever the heap carves, merges,
\* cuts and releases around it: no operation rewrites or reuses the descriptor of a
\* span that is not its own (MergeIntoFreeList() takes in free neighbours only).
HeldSpansStay ==
    [][\A s \in live \cap live' : heap'.span[s] = heap.span[s]]_vars
=============================================================================
