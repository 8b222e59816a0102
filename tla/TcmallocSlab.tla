---------------------------- MODULE TcmallocSlab ----------------------------
(***************************************************************************)
(* TcmallocSlab (percpu_tcmalloc.h): the free lists of one CPU, an array   *)
(* per size class and a header of four 16-bit fields for it.               *)
(*                                                                         *)
(* Push, Pop, Grow and Shrink are restartable sequences: a thread that is  *)
(* preempted, migrated or fenced starts its sequence again, and only the   *)
(* last store of a sequence commits it.  Lock() writes begin and end, one  *)
(* half of the header, while a sequence may be under way.                  *)
(***************************************************************************)
EXTENDS Integers, Sequences

\* Header.  Offsets are counted from 1, the first word of the array: 0 is in the
\* part of the region in front of all arrays.
Base == 1
kLocked == 65535
Header(begin, current, end) ==
    [current |-> current, end_copy |-> end, begin |-> begin, end |-> end]
EmptyHeader == Header(Base, Base, Base)
ZeroHeader == Header(0, 0, 0)

IsLocked(h) == h.begin = kLocked
Lock(h) == [h EXCEPT !.begin = kLocked, !.end = 0]

Length(h) == IF IsLocked(h) THEN 0 ELSE h.current - h.begin
Capacity(h) == IF IsLocked(h) THEN 0 ELSE h.end - h.begin

AtMost(a, b) == IF a < b THEN a ELSE b

\* Mutant: the copy of end is not kept.
ResizedEndOnly(h, n) == [h EXCEPT !.end = @ + n]

\* How far Grow(len, max_cap) and Shrink(len) may change a header they have
\* loaded, and the header CompareAndSwapHeader() then stores.
GrowBy(h, len, max_cap) ==
    IF IsLocked(h) \/ h.end - h.begin = max_cap THEN 0
    ELSE AtMost(len, max_cap - (h.end - h.begin))
ShrinkBy(h, len) ==
    IF IsLocked(h) \/ h.current = h.end THEN 0 ELSE AtMost(len, h.end - h.current)
Resized(h, n) == [h EXCEPT !.end = @ + n, !.end_copy = @ + n]

----------------------------------------------------------------------------
\* A restartable sequence.  kind is push, pop or cas, stage counts the loads done;
\* items are the ones to push or the ones popped, n how many are asked for, done
\* how many are moved.
Sequence(kind, cl, items, n) ==
    [kind |-> kind, stage |-> 0, cl |-> cl, items |-> items, n |-> n, done |-> 0,
     current |-> 0, old |-> ZeroHeader, new |-> ZeroHeader]
CompareAndSwapHeader(cl, old, new) ==
    [Sequence("cas", cl, <<>>, 0) EXCEPT !.old = old, !.new = new]

Restart(s) ==
    [s EXCEPT !.stage = 0, !.current = 0, !.done = 0,
              !.items = IF s.kind = "pop" THEN <<>> ELSE @]

\* The loads of current, of end (push) or begin (pop), the comparison, and how
\* many items fit.  Push(n = 1) and PushBatch() push from the end of the batch.
LoadCurrent(s, h) == [s EXCEPT !.stage = 1, !.current = h.current]
Overflows(s, h) == s.current >= h.end
Underflows(s, h) == s.current <= h.begin
PushCount(s, h) == AtMost(s.n, h.end - s.current)
PopCount(s, h) == AtMost(s.n, s.current - h.begin)

\* The items in front of current, last first, and the array with the items of a
\* push behind current: until the commit they are in nobody's sight, so they are
\* stored with it.  Cells that are not in use are cleared.
LoadItems(s, h, mem) ==
    [i \in 1 .. PopCount(s, h) |-> mem[s.current - i]]
StoreItems(s, mem, empty) ==
    [i \in DOMAIN mem |->
        IF s.kind = "push" /\ i \in s.current .. s.current + s.done - 1
        THEN s.items[Len(s.items) - (i - s.current)]
        ELSE IF s.kind = "pop" /\ i \in s.current - s.done .. s.current - 1
        THEN empty ELSE mem[i]]

\* The store that commits: Pop() decrements what is there, the others store what
\* they have computed, Grow() and Shrink() the whole header.
Commit(s, h) ==
    CASE s.kind = "push" -> [h EXCEPT !.current = s.current + s.done]
      [] s.kind = "pop"  -> [h EXCEPT !.current = IF s.n = 1 THEN @ - 1 ELSE s.current - s.done]
      [] s.kind = "cas"  -> s.new
=============================================================================
