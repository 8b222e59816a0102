--------------------------- MODULE TransferCache ----------------------------
(***************************************************************************)
(* TransferCache (transfer_cache.cc) and CentralFreeList                   *)
(* (central_freelist.cc): threads insert and remove batches of objects of  *)
(* a size class.  A full transfer cache takes slots from another class,    *)
(* and drops its lock for that; the central list drops its lock to get a   *)
(* span from the page heap, and returns spans that are free.               *)
(*                                                                         *)
(* An object is <<span, index>>.  The page heap (page_allocator) gives out *)
(* any span that is not in use, or none.                                   *)
(***************************************************************************)
EXTENDS SpanFreelist

CONSTANTS
    Threads,
    Spans,
    B,              \* num_objects_to_move() of each class 1 .. Len(B)
    PerSpan,        \* objects_per_span_
    FirstSlots,     \* cache_slots_ at the start
    MaxSlots,       \* max_cache_slots_
    NoThread

Classes == DOMAIN B

VARIABLES
    arbitrary,      \* arbitrary_transfer_
    slots,          \* slots_[0, used_slots_) of each class
    cache_slots,    \* cache_slots_
    lock,           \* lock_ of each transfer cache
    nonempty,       \* nonempty_ of each central list
    counter,        \* counter_ of each central list
    span,           \* the spans: their free objects, ...
    class,          \* ... and their class in the page map; 0 with the page heap
    hands,          \* the objects that are neither here nor in a thread's batch
    th

vars == <<arbitrary, slots, cache_slots, lock, nonempty, counter, span, class, hands, th>>

used(cl) == Len(slots[cl])

\* Mutant: k objects from GetSlot(0).
BottomSlots(cl, k) == SubSeq(slots[cl], 1, k)

\* The k objects from GetSlot(used_slots - k).
TopSlots(cl, k) == SubSeq(slots[cl], used(cl) - k + 1, used(cl))
ObjectsOf(s) == {<<s, i>> : i \in 1 .. PerSpan}
NoSpan == BuildFreelist(0)

\* pc is where the thread is, cl the class it works for and batch the objects it
\* inserts or has removed.  force, from and got belong to MakeCacheSpace(), n to
\* RemoveRange().  freeing are the objects on the way to the central list of fcl,
\* spare the spans on the way to the page heap, and then what follows.
Idle == [pc |-> "idle", cl |-> 0, batch |-> <<>>, n |-> 0, full |-> FALSE,
         force |-> FALSE, from |-> 0, got |-> FALSE,
         freeing |-> <<>>, fcl |-> 0, spare |-> {}, then |-> "none"]

Init ==
    /\ arbitrary \in BOOLEAN
    /\ slots = [cl \in Classes |-> <<>>]
    /\ cache_slots = FirstSlots
    /\ lock = [cl \in Classes |-> NoThread]
    /\ nonempty = [cl \in Classes |-> <<>>]
    /\ counter = [cl \in Classes |-> 0]
    /\ span = [s \in Spans |-> NoSpan]
    /\ class = [s \in Spans |-> 0]
    /\ hands = {}
    /\ th = [t \in Threads |-> Idle]

tc == <<slots, cache_slots, lock>>
cfl == <<nonempty, counter, span, class>>

\* The thread goes on with x; what it has removed is the caller's.
Go(t, x) ==
    IF x.pc = "removed"
    THEN th' = [th EXCEPT ![t] = Idle] /\ hands' = hands \union ToSet(x.batch)
    ELSE th' = [th EXCEPT ![t] = IF x.pc = "idle" THEN Idle ELSE x] /\ UNCHANGED hands

\* CentralFreeList::InsertRange(objs) and then something else.
ToCentral(x, cl, objs, then) ==
    [x EXCEPT !.pc = "central", !.fcl = cl, !.freeing = objs, !.then = then]

----------------------------------------------------------------------------
(* TransferCache::InsertRange().                                           *)

\* The look at used_slots_ without the lock.
InsertRange(t, objs) ==
    LET cl == class[objs[1][1]]
        N  == Len(objs)
        x  == [Idle EXCEPT !.cl = cl, !.batch = objs]
        full == N = B[cl] /\ used(cl) + N <= MaxSlots[cl]
    IN  /\ th[t] = Idle
        /\ hands' = hands \ ToSet(objs)
        /\ th' = [th EXCEPT ![t] =
                    IF full \/ arbitrary THEN [x EXCEPT !.pc = "lock", !.full = full]
                    ELSE ToCentral([x EXCEPT !.batch = <<>>], cl, objs, "idle")]
        /\ UNCHANGED <<arbitrary, tc, cfl>>

\* lock_ and the first part of MakeCacheSpace().
MakeCacheSpace(t) ==
    LET x == th[t]
        N == Len(x.batch)
    IN  /\ x.pc = "lock"
        /\ lock[x.cl] = NoThread
        /\ lock' = [lock EXCEPT ![x.cl] = t]
        /\ Go(t, IF used(x.cl) + N <= cache_slots[x.cl] THEN [x EXCEPT !.pc = "space", !.got = TRUE]
                 ELSE IF cache_slots[x.cl] + N > MaxSlots[x.cl] THEN [x EXCEPT !.pc = "space"]
                 ELSE [x EXCEPT !.pc = "evict"])
        /\ UNCHANGED <<arbitrary, slots, cache_slots, cfl>>

\* Eviction has failed: once more with force, or there is no space.
NoLuck(x) == IF x.force THEN [x EXCEPT !.pc = "space", !.force = FALSE, !.from = 0]
             ELSE [x EXCEPT !.pc = "evict", !.force = TRUE, !.from = 0]

\* EvictRandomSizeClass(), which takes any class, and ShrinkCache() up to where it
\* releases the lock it came with.
EvictRandomSizeClass(t) ==
    LET x == th[t]
    IN  /\ x.pc = "evict"
        /\ \E from \in Classes :
             IF \/ from = x.cl
                \/ cache_slots[from] = 0
                \/ ~ x.force /\ used(from) + B[from] >= cache_slots[from]
             THEN Go(t, NoLuck(x)) /\ UNCHANGED lock
             ELSE /\ Go(t, [x EXCEPT !.pc = "shrink", !.from = from])
                  /\ lock' = [lock EXCEPT ![x.cl] = NoThread]
        /\ UNCHANGED <<arbitrary, slots, cache_slots, cfl>>

\* The rest of ShrinkCache(): under the other lock, then the central list with
\* neither lock.
ShrinkCache(t) ==
    LET x      == th[t]
        c      == x.from
        N      == Min({B[c], cache_slots[c]})
        unused == cache_slots[c] - used(c)
        excess == N - unused
    IN  /\ x.pc = "shrink"
        /\ lock[c] = NoThread
        /\ IF \/ cache_slots[c] = 0
              \/ ~ arbitrary /\ cache_slots[c] < B[c]
              \/ excess > 0 /\ ~ x.force
           THEN Go(t, [x EXCEPT !.pc = "relock"]) /\ UNCHANGED <<slots, cache_slots>>
           ELSE /\ cache_slots' = [cache_slots EXCEPT ![c] = @ - N]
                /\ IF excess <= 0
                   THEN Go(t, [x EXCEPT !.pc = "relock", !.got = TRUE]) /\ UNCHANGED slots
                   ELSE /\ slots' = [slots EXCEPT ![c] = SubSeq(@, 1, Len(@) - excess)]
                        /\ Go(t, ToCentral([x EXCEPT !.got = TRUE], c,
                                    TopSlots(c, excess), "relock"))
        /\ UNCHANGED <<arbitrary, lock, cfl>>

\* Mutant: cache_slots_ is not looked at again after the lock was dropped.
GrowsUnchecked(x) == x.got

\* Eviction has succeeded, and the cache may still grow.
Grows(x) == x.got /\ cache_slots[x.cl] + Len(x.batch) <= MaxSlots[x.cl]

\* Its own lock again; the cache may have changed meanwhile.
Relock(t) ==
    LET x == th[t]
        N == Len(x.batch)
    IN  /\ x.pc = "relock"
        /\ lock[x.cl] = NoThread
        /\ lock' = [lock EXCEPT ![x.cl] = t]
        /\ cache_slots' = IF Grows(x) THEN [cache_slots EXCEPT ![x.cl] = @ + N] ELSE cache_slots
        /\ Go(t, IF x.got THEN [x EXCEPT !.pc = "space", !.got = Grows(x), !.force = FALSE, !.from = 0]
                 ELSE NoLuck(x))
        /\ UNCHANGED <<arbitrary, slots, cfl>>

\* The end of InsertRange() under the lock: the slots, or the central list, in
\* arbitrary mode with as many objects of the cache as fill up the batch.
Insert(t) ==
    LET x      == th[t]
        cl     == x.cl
        N      == Len(x.batch)
        unused == cache_slots[cl] - used(cl)
        extra  == IF ~ x.full /\ N > 1 THEN Min({B[cl] - N, used(cl)}) ELSE 0
    IN  /\ x.pc = "space"
        /\ IF IF x.full THEN x.got ELSE N < unused
           THEN /\ slots' = [slots EXCEPT ![cl] = @ \o x.batch]
                /\ Go(t, Idle)
           ELSE /\ slots' = [slots EXCEPT ![cl] = SubSeq(@, 1, Len(@) - extra)]
                /\ Go(t, ToCentral(Idle, cl,
                            x.batch \o TopSlots(cl, extra), "idle"))
        /\ lock' = [lock EXCEPT ![cl] = NoThread]
        /\ UNCHANGED <<arbitrary, cache_slots, cfl>>

----------------------------------------------------------------------------
(* TransferCache::RemoveRange().                                           *)

RemoveRange(t, cl, N) ==
    LET x == [Idle EXCEPT !.cl = cl, !.n = N]
        full == N = B[cl] /\ used(cl) >= N
    IN  /\ th[t] = Idle
        /\ Go(t, IF full \/ arbitrary THEN [x EXCEPT !.pc = "take", !.full = full]
                 ELSE [x EXCEPT !.pc = "fetch"])
        /\ UNCHANGED <<arbitrary, tc, cfl>>

\* Under the lock, with used_slots_ fetched again.
Take(t) ==
    LET x  == th[t]
        cl == x.cl
        k  == IF x.full /\ used(cl) < x.n THEN 0 ELSE Min({x.n, used(cl)})
        y  == [x EXCEPT !.batch = TopSlots(cl, k), !.n = @ - k]
    IN  /\ x.pc = "take"
        /\ lock[cl] = NoThread
        /\ slots' = [slots EXCEPT ![cl] = SubSeq(@, 1, Len(@) - k)]
        /\ Go(t, [y EXCEPT !.pc = IF y.n = 0 THEN "removed" ELSE "fetch"])
        /\ UNCHANGED <<arbitrary, cache_slots, lock, cfl>>

----------------------------------------------------------------------------
(* CentralFreeList.                                                        *)

\* ReleaseToSpans(obj): a span without free objects comes to the list, and one
\* with no other object in use leaves it.  c is the list, its counter and spans.
ReleaseToSpans(c, obj) ==
    LET s    == obj[1]
        list == IF FreelistEmpty(c.span[s]) THEN <<s>> \o c.nonempty ELSE c.nonempty
    IN  IF Pushes(c.span[s])
        THEN [c EXCEPT !.span[s] = FreelistPush(@, obj[2]), !.nonempty = list]
        ELSE [c EXCEPT !.nonempty = SelectSeq(list, LAMBDA o : o # s),
                       !.counter = @ - PerSpan, !.spare = @ \union {s}]

\* InsertRange() under lock_.
InsertCentral(t) ==
    LET x  == th[t]
        cl == x.fcl
        c  == FoldLeft(ReleaseToSpans,
                       [nonempty |-> nonempty[cl], counter |-> counter[cl], span |-> span,
                        spare |-> {}], x.freeing)
        y  == [x EXCEPT !.freeing = <<>>, !.fcl = 0]
    IN  /\ x.pc = "central"
        /\ nonempty' = [nonempty EXCEPT ![cl] = c.nonempty]
        /\ counter' = [counter EXCEPT ![cl] = c.counter + Len(x.freeing)]
        /\ span' = c.span
        /\ Go(t, IF c.spare = {} THEN [y EXCEPT !.pc = x.then, !.then = "none"]
                 ELSE [y EXCEPT !.pc = "delete", !.spare = c.spare])
        /\ UNCHANGED <<arbitrary, tc, class>>

\* UnregisterSizeClass() and PageAllocator::Delete() of the spans that are free.
DeleteSpans(t) ==
    LET x == th[t]
    IN  /\ x.pc = "delete"
        /\ span' = [s \in Spans |-> IF s \in x.spare THEN NoSpan ELSE span[s]]
        /\ class' = [s \in Spans |-> IF s \in x.spare THEN 0 ELSE class[s]]
        /\ Go(t, [x EXCEPT !.pc = x.then, !.then = "none", !.spare = {}])
        /\ UNCHANGED <<arbitrary, tc, nonempty, counter>>

\* The loop of RemoveRange(): spans of the list until there are N objects.
PopSpans(c, N) ==
    FoldLeft(LAMBDA d, i :
        IF Len(d.batch) >= N \/ d.nonempty = <<>> THEN d
        ELSE LET s == Head(d.nonempty)
                 p == FreelistPopBatch(d.span[s], N - Len(d.batch))
             IN  [span |-> [d.span EXCEPT ![s] = p.span],
                  nonempty |-> IF FreelistEmpty(p.span) THEN Tail(d.nonempty) ELSE d.nonempty,
                  batch |-> d.batch \o [k \in DOMAIN p.batch |-> <<s, p.batch[k]>>]],
        [span |-> c.span, nonempty |-> c.nonempty, batch |-> <<>>], [i \in 1 .. N |-> i])

\* RemoveRange() once there is a span, or no hope of one.
RemoveCentral(t, sp, list, added) ==
    LET x == th[t]
        d == PopSpans([span |-> sp, nonempty |-> list], x.n)
    IN  /\ span' = d.span
        /\ nonempty' = [nonempty EXCEPT ![x.cl] = d.nonempty]
        /\ counter' = [counter EXCEPT ![x.cl] = @ + added - Len(d.batch)]
        /\ Go(t, [x EXCEPT !.pc = "removed", !.batch = @ \o d.batch])

Fetch(t) ==
    LET x == th[t]
    IN  /\ x.pc = "fetch"
        /\ IF nonempty[x.cl] # <<>> THEN RemoveCentral(t, span, nonempty[x.cl], 0)
           ELSE Go(t, [x EXCEPT !.pc = "populate"]) /\ UNCHANGED <<nonempty, counter, span>>
        /\ UNCHANGED <<arbitrary, tc, class>>

\* Populate() without the lock: PageAllocator::New() and RegisterSizeClass(), ...
Populate(t) ==
    LET x == th[t]
    IN  /\ x.pc = "populate"
        /\ \/ \E s \in Spans : /\ class[s] = 0
                               /\ class' = [class EXCEPT ![s] = x.cl]
                               /\ Go(t, [x EXCEPT !.pc = "populated", !.spare = {s}])
           \/ /\ \A s \in Spans : class[s] # 0
              /\ Go(t, [x EXCEPT !.pc = "populated"])
              /\ UNCHANGED class
        /\ UNCHANGED <<arbitrary, tc, nonempty, counter, span>>

\* ... and BuildFreelist() and the rest with the lock.
Populated(t) ==
    LET x == th[t]
        s == CHOOSE o \in x.spare : TRUE
    IN  /\ x.pc = "populated"
        /\ IF x.spare = {} THEN RemoveCentral(t, span, nonempty[x.cl], 0)
           ELSE RemoveCentral(t, [span EXCEPT ![s] = BuildFreelist(PerSpan)],
                              <<s>> \o nonempty[x.cl], PerSpan)
        /\ UNCHANGED <<arbitrary, tc, class>>

Next ==
    \E t \in Threads :
        \/ \E cl \in Classes : \E k \in 1 .. B[cl] :
             \/ RemoveRange(t, cl, k)
             \/ \E objs \in kSubset(k, {o \in hands : class[o[1]] = cl}) :
                  InsertRange(t, SetToSeq(objs))
        \/ MakeCacheSpace(t) \/ EvictRandomSizeClass(t) \/ ShrinkCache(t) \/ Relock(t)
        \/ Insert(t) \/ Take(t)
        \/ InsertCentral(t) \/ DeleteSpans(t) \/ Fetch(t) \/ Populate(t) \/ Populated(t)

Spec == Init /\ [][Next]_vars

----------------------------------------------------------------------------
\* A span has come out of the list of its class and is on its way to the page heap,
\* or the other way.
InTransit(s) == \E t \in Threads : s \in th[t].spare

FreeIn(s) == {<<s, i>> : i \in ToSet(FreeObjects(span[s]))}

\* Each object of a span in use is in one place: with the caller, in a slot, in a
\* thread's batch or on the list of its span, although batches are moved over
\* points where locks are dropped and the list lies in the objects themselves.
BatchesKept ==
    \A s \in Spans : (class[s] # 0 /\ ~ InTransit(s)) =>
        LET cl   == class[s]
            free == FreeIn(s)
        IN  \A obj \in ObjectsOf(s) :
            LET held == {t \in Threads : obj \in ToSet(th[t].batch) \union ToSet(th[t].freeing)}
                at   == {i \in DOMAIN slots[cl] : slots[cl][i] = obj}
            IN  Cardinality(held) + Cardinality(at)
                  + (IF obj \in hands THEN 1 ELSE 0)
                  + (IF obj \in free THEN 1 ELSE 0) = 1

\* A span goes back to the page heap only when nobody has an object of it.
SpansReturnedFree ==
    \A s \in Spans : (class[s] = 0 \/ InTransit(s)) =>
        /\ ObjectsOf(s) \intersect hands = {}
        /\ \A cl \in Classes : ObjectsOf(s) \intersect ToSet(slots[cl]) = {}
        /\ \A t \in Threads :
             ObjectsOf(s) \intersect (ToSet(th[t].batch) \union ToSet(th[t].freeing)) = {}

\* The central list has exactly the spans with free objects, each once, the
\* counter is their number, and a span knows how many of its objects are out.
CentralExact ==
    \A cl \in Classes :
        LET in == {s \in Spans : class[s] = cl /\ ~ InTransit(s)}
        IN  /\ Len(nonempty[cl]) = Cardinality(ToSet(nonempty[cl]))
            /\ ToSet(nonempty[cl]) = {s \in in : ~ FreelistEmpty(span[s])}
            /\ counter[cl] = MapThenSumSet(LAMBDA s : Cardinality(FreeIn(s)), in)
            /\ \A s \in in : span[s].allocated = PerSpan - Len(FreeObjects(span[s]))

\* MakeCacheSpace() may trust what it finds after it had dropped its lock: the
\* slots in use never exceed the slots a cache has, nor those the array has.
SlotsBounded ==
    \A cl \in Classes : used(cl) <= cache_slots[cl] /\ cache_slots[cl] <= MaxSlots[cl]

\* An object is in one place while its span is in use, and in none when the span goes
\* back to the page heap.
ObjectsInOnePlace == BatchesKept /\ SpansReturnedFree

\* What InsertRange(), RemoveRange() and MakeCacheSpace() count is what there is.
CountsExact == CentralExact /\ SlotsBounded
=============================================================================
