---------------------------- MODULE RangeTracker ----------------------------
(***************************************************************************)
(* RangeTracker<N> (internal/range_tracker.h): which of the items          *)
(* 0 .. N - 1 are allocated, with the longest free range, the number of    *)
(* items in use and the number of allocations kept beside the bitmap.      *)
(***************************************************************************)
EXTENDS Integers, FiniteSets, FiniteSetsExt

Tracker(N) == [bits |-> {}, longest |-> N, nused |-> 0, nallocs |-> 0]

\* The items [index, index + n).
Items(index, n) == index .. index + n - 1

\* Bitmap: the first set bit at or after index, N if there is none.
FindSet(bits, N, index) == Min({N} \union {i \in index .. N - 1 : i \in bits})
FindClear(bits, N, index) == Min({N} \union {i \in index .. N - 1 : i \notin bits})

\* Bitmap: the last set bit at or before index, -1 if there is none.
FindSetBackwards(bits, index) == Max({-1} \union {i \in 0 .. index : i \in bits})

\* Everything NextFreeRange() returns when it is called until it fails: the
\* maximal free ranges <<index, length>>.
FreeRanges(bits, N) ==
    {<<i, FindSet(bits, N, i) - i>> :
        i \in {j \in 0 .. N - 1 : j \notin bits /\ (j = 0 \/ j - 1 \in bits)}}

LongestFree(bits, N) == Max({0} \union {r[2] : r \in FreeRanges(bits, N)})

\* The range FindAndMark(n) takes: the shortest that fits, the lowest of those.
BestFit(bits, N, n) ==
    LET fits == {r \in FreeRanges(bits, N) : r[2] >= n}
        len  == Min({r[2] : r \in fits})
    IN  <<Min({r[1] : r \in {f \in fits : f[2] = len}}), len>>

\* FindAndMark(n); the index it returns is BestFit(t.bits, N, n)[1].
FindAndMark(t, N, n) ==
    LET ranges  == FreeRanges(t.bits, N)
        best    == BestFit(t.bits, N, n)
        longest == LongestFree(t.bits, N)
        second  == IF Cardinality({r \in ranges : r[2] = longest}) > 1 THEN longest
                   ELSE Max({0} \union {r[2] : r \in {f \in ranges : f[2] < longest}})
    IN  [bits    |-> t.bits \union Items(best[1], n),
         longest |-> IF best[2] = longest THEN Max({longest - n, second}) ELSE longest,
         nused   |-> t.nused + n,
         nallocs |-> t.nallocs + 1]

\* Unmark(index, n): the longest range can only grow.
Unmark(t, N, index, n) ==
    LET bits == t.bits \ Items(index, n)
        len  == FindSet(bits, N, index + n - 1) - (FindSetBackwards(bits, index) + 1)
    IN  [bits    |-> bits,
         longest |-> Max({t.longest, len}),
         nused   |-> t.nused - n,
         nallocs |-> t.nallocs - 1]
=============================================================================
