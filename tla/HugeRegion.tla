----------------------------- MODULE HugeRegion -----------------------------
(***************************************************************************)
(* HugeRegion and HugeRegionSet (huge_region.h): fixed runs of hugepages   *)
(* for allocations too large for the filler and too small to be rounded up *)
(* to hugepages, and the list of them, most fragmented first.  The pages   *)
(* of the program are numbered from 0; hugepage h holds the kPages pages   *)
(* from h * kPages on.                                                     *)
(***************************************************************************)
EXTENDS RangeTracker, Sequences, SequencesExt

CONSTANTS
    kPages,         \* kPagesPerHugePage
    kNumHugePages   \* the hugepages of a region

RegionPages == kNumHugePages * kPages

\* HugeRegion(r), r the range of unbacked hugepages from start on.
Region(start) ==
    [start |-> start, tracker |-> Tracker(RegionPages),
     pages_used |-> [i \in 0 .. kNumHugePages - 1 |-> 0],
     backed |-> {}, nbacked |-> 0]

\* The pages of [p, p + n) in hugepage i of the region.
Here(r, i, p, n) ==
    Cardinality(Items(p, n) \intersect Items((r.start + i) * kPages, kPages))

Touched(r, p, n) == {i \in 0 .. kNumHugePages - 1 : Here(r, i, p, n) > 0}

contains(r, p) == p \div kPages \in r.start .. r.start + kNumHugePages - 1

\* The hugepages Inc() has to back.
Unbacked(r, p, n) == {i \in Touched(r, p, n) : r.pages_used[i] = 0} \ r.backed

\* MaybeGet(n) of a region with a long enough free range: the first page, ...
GetPage(r, n) == r.start * kPages + BestFit(r.tracker.bits, RegionPages, n)[1]

\* ... and the region afterwards.
Get(r, n) ==
    LET p     == GetPage(r, n)
        fresh == Unbacked(r, p, n)
    IN  [r EXCEPT !.tracker = FindAndMark(@, RegionPages, n),
                  !.pages_used = [i \in DOMAIN @ |-> @[i] + Here(r, i, p, n)],
                  !.backed = @ \union fresh,
                  !.nbacked = @ + Cardinality(fresh)]

UnbackHugepages(r, should) ==
    [r EXCEPT !.backed = @ \ should, !.nbacked = @ - Cardinality(should)]

\* Put(p, n, release = true); the hugepages Dec() releases are Emptied(r, p, n).
Emptied(r, p, n) == {i \in Touched(r, p, n) : r.pages_used[i] = Here(r, i, p, n)}
Put(r, p, n) ==
    UnbackHugepages(
        [r EXCEPT !.tracker = Unmark(@, RegionPages, p - r.start * kPages, n),
                  !.pages_used = [i \in DOMAIN @ |-> @[i] - Here(r, i, p, n)]],
        Emptied(r, p, n))

\* Release(): unback what is backed and unused.
Unused(r) == {i \in r.backed : r.pages_used[i] = 0}
ReleaseUnused(r) == UnbackHugepages(r, Unused(r))

unmapped_pages(r) == (kNumHugePages - r.nbacked) * kPages

----------------------------------------------------------------------------
BetterToAllocThan(a, b) == a.tracker.longest < b.tracker.longest

\* Rise(): a region more fragmented than the one before it goes behind the last
\* one that is no worse.
Rise(list, i) ==
    LET r == list[i]
        k == Max({0} \union {j \in 1 .. i - 1 : ~ BetterToAllocThan(r, list[j])})
    IN  IF i = 1 \/ ~ BetterToAllocThan(r, list[i - 1]) THEN list
        ELSE InsertAt(RemoveAt(list, i), k + 1, r)

\* Fall(): one less fragmented than the next goes before the first no better.
Fall(list, i) ==
    LET r == list[i]
        k == Min({Len(list) + 1} \union
                 {j \in i + 1 .. Len(list) : ~ BetterToAllocThan(list[j], r)})
    IN  IF i = Len(list) \/ ~ BetterToAllocThan(list[i + 1], r) THEN list
        ELSE InsertAt(RemoveAt(list, i), k - 1, r)

\* Fix(): the region at i has changed.
Fix(list, i) ==
    LET risen == Rise(list, i)
    IN  Fall(risen, CHOOSE j \in DOMAIN risen : risen[j].start = list[i].start)

\* Contribute(): before the first region it is better than.
Contribute(list, r) ==
    LET k == Min({Len(list) + 1} \union {j \in DOMAIN list : BetterToAllocThan(r, list[j])})
    IN  InsertAt(list, k, r)

\* HugeRegionSet::MaybeGet(n): the regions are tried in list order; 0 if none fits.
FirstFit(list, n) ==
    LET fits == {i \in DOMAIN list : n <= list[i].tracker.longest}
    IN  IF fits = {} THEN 0 ELSE Min(fits)
SetGet(list, n) == LET i == FirstFit(list, n) IN Fix([list EXCEPT ![i] = Get(@, n)], i)

\* HugeRegionSet::MaybePut(p, n): the region p is in; 0 if there is none.
Home(list, p) ==
    LET at == {i \in DOMAIN list : contains(list[i], p)}
    IN  IF at = {} THEN 0 ELSE Min(at)
SetPut(list, p, n) == LET i == Home(list, p) IN Fix([list EXCEPT ![i] = Put(@, p, n)], i)
=============================================================================
