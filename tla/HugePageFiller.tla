--------------------------- MODULE HugePageFiller ---------------------------
(***************************************************************************)
(* HugePageFiller and PageTracker (huge_page_filler.h): the hugepages that *)
(* small allocations share.  A filler f is a record; f.trk maps a hugepage *)
(* to its tracker or to NoTracker.  Each operator is what one method does  *)
(* under pageheap_lock; Put() is cut in two where it drops the lock.       *)
(*                                                                         *)
(* A tracker records the list it was put on and its index there (on).  The *)
(* order of the trackers of one list is left out: GetLeast() takes any.    *)
(***************************************************************************)
EXTENDS HugeRegion

CONSTANTS
    HugePages,      \* the hugepages the system has, numbered from 1
    NoTracker

kChunks == 8
Off == <<"off", 0>>

NewTracker == [t |-> Tracker(kPages), released |-> {}, released_count |-> 0,
               donated |-> FALSE, on |-> Off]

NewFiller(mode) ==
    [trk |-> [hp \in HugePages |-> NoTracker], mode |-> mode, size |-> 0,
     allocated |-> 0, unmapped |-> 0, unmapping_unaccounted |-> 0,
     n_used_released |-> 0, n_used_partial_released |-> 0]

free_pages(pt) == kPages - pt.t.nused

CeilLog2(n) == Min({k \in 0 .. n : 2 ^ k >= n})

\* IndexFor() and ListFor(): the more allocations, the earlier the chunk.
IndexFor(pt) == Max({0, kChunks - 1 - CeilLog2(pt.t.nallocs)})
ListFor(longest, chunk) == longest * kChunks + chunk

----------------------------------------------------------------------------
\* PageTracker::Get(n) and the pages of it that were not backed.
GetIndex(pt, n) == BestFit(pt.t.bits, kPages, n)[1]
GetUnbacked(pt, n) == pt.released \intersect Items(GetIndex(pt, n), n)
\* Mutant: pages stay marked as released when they are handed out.
TrackerGetStale(pt, n) == [pt EXCEPT !.t = FindAndMark(@, kPages, n)]
TrackerGet(pt, n) ==
    [pt EXCEPT !.t = FindAndMark(@, kPages, n),
               !.released = @ \ GetUnbacked(pt, n),
               !.released_count = @ - Cardinality(GetUnbacked(pt, n))]

\* PageTracker::MaybeRelease(index, n), up to where it drops the lock.
MarkReleased(pt, index, n) ==
    [pt EXCEPT !.released = @ \union Items(index, n), !.released_count = @ + n]

\* PageTracker::ReleaseFree(): the free pages that are still backed.
\* Mutant: pages in use are released with the free ones.
FreeBackedAny(pt) == (0 .. kPages - 1) \ pt.released
FreeBacked(pt) == (0 .. kPages - 1) \ (pt.t.bits \union pt.released)
ReleaseFree(pt) ==
    [pt EXCEPT !.released = @ \union FreeBacked(pt),
               !.released_count = @ + Cardinality(FreeBacked(pt))]

----------------------------------------------------------------------------
\* The list RemoveFromFillerList() takes a tracker from.
RemovalList(f, pt) ==
    IF pt.donated THEN <<"donated", pt.t.longest>>
    ELSE <<IF pt.released_count = 0 THEN "regular"
           ELSE IF f.mode = "Return" \/ free_pages(pt) <= pt.released_count
           THEN "released" ELSE "partial",
           ListFor(pt.t.longest, IndexFor(pt))>>

\* The pages in use of a tracker leave (-1) or join (1) the count of its list.
CountUsed(f, list, used) ==
    [f EXCEPT !.n_used_released = IF list = "released" THEN @ + used ELSE @,
              !.n_used_partial_released = IF list = "partial" THEN @ + used ELSE @]

RemoveFromFillerList(f, hp) ==
    LET pt == f.trk[hp]
    IN  CountUsed([f EXCEPT !.trk[hp].on = Off], RemovalList(f, pt)[1], - pt.t.nused)

\* AddToFillerList(): a tracker that is used in any way is no longer donated.
AddToFillerList(f, hp) ==
    LET pt   == f.trk[hp]
        list == IF pt.released_count = 0 THEN "regular"
                ELSE IF f.mode = "Return" \/ free_pages(pt) = pt.released_count
                THEN "released" ELSE "partial"
    IN  CountUsed([f EXCEPT !.trk[hp].donated = FALSE,
                            !.trk[hp].on = <<list, ListFor(pt.t.longest, IndexFor(pt))>>],
                  list, pt.t.nused)

\* Contribute(pt, donated), with DonateToFillerList().
ContributeTracker(f, hp, donated) ==
    LET g == [f EXCEPT !.allocated = @ + f.trk[hp].t.nused, !.size = @ + 1]
    IN  IF donated
        THEN [g EXCEPT !.trk[hp].donated = TRUE,
                       !.trk[hp].on = <<"donated", g.trk[hp].t.longest>>]
        ELSE AddToFillerList(g, hp)

On(f, list, from) ==
    {hp \in HugePages : /\ f.trk[hp] # NoTracker
                        /\ f.trk[hp].on[1] = list
                        /\ f.trk[hp].on[2] >= from}

\* GetLeast(from): the trackers of the first list that is not empty.
Least(f, list, from) ==
    {hp \in On(f, list, from) : \A o \in On(f, list, from) : f.trk[hp].on[2] <= f.trk[o].on[2]}

\* The trackers TryGet(n) may use: regular before donated before released ones.
TryGetChoices(f, n) ==
    LET regular  == Least(f, "regular", ListFor(n, 0))
        donated  == Least(f, "donated", n)
        partial  == Least(f, "partial", ListFor(n, 0))
        released == Least(f, "released", ListFor(n, 0))
    IN  IF n >= kPages THEN {}
        ELSE IF regular # {} THEN regular
        ELSE IF donated # {} THEN donated
        ELSE IF f.mode = "Retain" /\ partial # {} THEN partial
        ELSE released

\* TryGet(n) with the tracker of hp; the page is hp * kPages + GetIndex(..., n).
TryGet(f, hp, n) ==
    LET pt == f.trk[hp]
        g  == CountUsed(f, pt.on[1], - pt.t.nused)
        a  == AddToFillerList([g EXCEPT !.trk[hp] = TrackerGet(pt, n)], hp)
    IN  [a EXCEPT !.allocated = @ + n,
                  !.unmapped = @ - Cardinality(GetUnbacked(pt, n))]

\* Mutant: released pages of a hugepage that leaves the filler stay counted.
FinishPutStale(f, hp, index, n) ==
    LET g  == RemoveFromFillerList(f, hp)
        pt == [g.trk[hp] EXCEPT !.t = Unmark(@, kPages, index, n)]
        rel  == IF f.mode = "Return" /\ pt.released_count > 0 THEN n ELSE 0
        done == [g EXCEPT !.trk[hp] = pt, !.allocated = @ - n, !.unmapped = @ + rel]
    IN  IF pt.t.longest = kPages THEN [done EXCEPT !.size = @ - 1]
        ELSE AddToFillerList(done, hp)

\* Put(pt, p, n) from where pages released early are unbacked: the whole of it
\* if there are none.  The tracker of an empty hugepage stays off the lists.
FinishPut(f, hp, index, n) ==
    LET g    == RemoveFromFillerList(f, hp)
        pt   == [g.trk[hp] EXCEPT !.t = Unmark(@, kPages, index, n)]
        rel  == IF f.mode = "Return" /\ pt.released_count > 0 THEN n ELSE 0
        done == [g EXCEPT !.trk[hp] = pt,
                          !.allocated = @ - n,
                          !.unmapped = @ + rel,
                          !.unmapping_unaccounted = @ + rel]
    IN  IF pt.t.longest = kPages
        THEN [done EXCEPT !.size = @ - 1,
                          !.unmapped = @ - pt.released_count]
        ELSE AddToFillerList(done, hp)

----------------------------------------------------------------------------
BackedSum(f, S) == MapThenSumSet(LAMBDA hp : Cardinality(FreeBacked(f.trk[hp])), S)

\* SelectCandidates() keeps the kPages best candidates: all of them, which is assumed.
ASSUME FewCandidates == Cardinality(HugePages) <= kPages

\* CompareForSubrelease(): the trackers S come before the other candidates C.
EmptiestFirst(f, C, S) ==
    \A a \in S, b \in C \ S : f.trk[a].t.nused <= f.trk[b].t.nused

\* The sets of trackers ReleaseCandidates(C, target) may release from: the
\* emptiest first, until target pages are released.
Candidates(f, C, target) ==
    IF target <= 0 THEN {{}}
    ELSE {S \in SUBSET C :
            /\ EmptiestFirst(f, C, S)
            /\ S = C \/ BackedSum(f, S) >= target
            /\ S # {} => \E last \in S : /\ EmptiestFirst(f, S, S \ {last})
                                         /\ BackedSum(f, S \ {last}) < target}

ReleaseOne(f, hp) ==
    LET g == RemoveFromFillerList(f, hp)
    IN  AddToFillerList([g EXCEPT !.trk[hp] = ReleaseFree(@),
                                  !.unmapped = @ + Cardinality(FreeBacked(f.trk[hp]))], hp)

ReleaseCandidates(f, S) == FoldSet(LAMBDA hp, g : ReleaseOne(g, hp), f, S)

\* ReleasePages(desired): the filler afterwards, the pages it says it released
\* and the trackers it released from.  What Put() released early comes first,
\* then trackers that are partly released, then the others.
ReleasePages(f, desired) ==
    LET credit == f.unmapping_unaccounted
        g      == [f EXCEPT !.unmapping_unaccounted = 0]
        parts  == IF f.mode = "Retain" THEN On(f, "partial", kChunks) ELSE {}
        whole  == On(f, "regular", kChunks) \union On(f, "donated", 0)
    IN  UNION {{[f |-> ReleaseCandidates(ReleaseCandidates(g, A), B),
                 got |-> credit + BackedSum(f, A) + BackedSum(f, B),
                 from |-> A \union B] :
                    B \in Candidates(f, whole, desired - credit - BackedSum(f, A))} :
               A \in Candidates(f, parts, desired - credit)}
=============================================================================
