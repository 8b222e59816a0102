------------------------- MODULE SampledAllocation --------------------------
(***************************************************************************)
(* What happens to an allocation once it is to be sampled, and when it is  *)
(* freed (tcmalloc.cc), with the allocator of guarded pages                *)
(* (guarded_page_allocator.h, .cc) that some samples come from.  A sampled *)
(* small object is replaced by a guarded page or a tagged page span.  The  *)
(* object is then kept as the sample's proxy, or given back at once if it  *)
(* was alone on its span.  Guarded pages lie between inaccessible ones,    *)
(* and the SEGV handler tells what a faulting access was.                  *)
(*                                                                         *)
(* A step is a critical section of pageheap_lock or of guarded_page_lock,  *)
(* or what runs between two of them.  Deallocate(), which changes under    *)
(* guarded_page_lock what the handler of another thread reads without it,  *)
(* is three steps, and the handler two.  Addresses are bytes of small      *)
(* pages.                                                                  *)
(***************************************************************************)
EXTENDS Integers, FiniteSets, FiniteSetsExt

CONSTANTS Threads,
          page_size,         \* bytes in a page
          kAlignment,
          kMagicSize,
          total_pages,       \* guarded pages
          max_alloced_pages, \* that may be in use at once
          ClassSizes,        \* class_to_size() of the size classes
          Objects,           \* <<"object", class size, number>>
          PageSpans,         \* page spans: <<"tagged" or "plain", number, 0>>
          Descriptors,       \* Span structs
          Requests,          \* [size, align, returns]: returns for a size-returning new
          None

VARIABLES slots,   \* the guarded pages and their SlotMetadata
          allowed, \* allow_allocations_
          freed,   \* the objects free in each size class
          pagemap, \* the page map's descriptor of each guarded page and page span
          spans,   \* the Span structs
          live,    \* what the program has: pointer, request, capacity returned
          thread,  \* what each thread is doing
          report,  \* what the SEGV handler told, and what was the case
          detected \* double_free_detected_, write_overflow_detected_

sampledVars == <<slots, allowed, freed, pagemap, spans, live, thread, report, detected>>

Slots == 0 .. total_pages - 1
GuardedPage(s) == <<"guarded", s, 0>>
Places == {GuardedPage(s) : s \in Slots} \cup PageSpans

pages(bytes) == (bytes + page_size - 1) \div page_size
\* GetSizeClass(): 0 when the size is too large for the classes.  A class is named by
\* its size.
GetSizeClass(size, align) ==
    LET fits == {c \in ClassSizes : c >= size /\ c % align = 0}
    IN IF fits = {} THEN 0 ELSE Min(fits)

\* fault is the address of an access that faults, truth what was wrong with it; twice is
\* set while the thread frees a page that another free has been given too.
Idle == [pc |-> "idle", req |-> None, obj |-> None, place |-> None, span |-> None,
         size |-> 0, proxy |-> None, lock |-> FALSE, fault |-> None, truth |-> None,
         twice |-> FALSE]
Quiet == [slot |-> None, type |-> None, truth |-> None]

----------------------------------------------------------------------------
(* Guarded pages                                                           *)

FirstPage == page_size
SlotToAddr(s) == FirstPage + 2 * s * page_size
AddrToSlot(addr) == ((addr - FirstPage) \div page_size) \div 2
GetPageAddr(addr) == addr - (addr % page_size)
\* Mutant: a guard page belongs to the slot before it.
NearestBelow(addr) ==
    IF addr < FirstPage THEN FirstPage
    ELSE IF ((addr - FirstPage) \div page_size) % 2 = 0 THEN addr ELSE addr - page_size
GetNearestValidPage(addr) ==
    LET last   == FirstPage + 2 * (total_pages - 1) * page_size
        offset == addr - FirstPage
        half   == page_size \div 2
    IN IF addr < FirstPage THEN FirstPage
       ELSE IF addr > last THEN last
       ELSE IF (offset \div page_size) % 2 = 0 THEN addr
       ELSE IF (offset \div half) % 2 = 0 THEN addr - half ELSE addr + half
GetNearestSlot(addr) == AddrToSlot(GetPageAddr(GetNearestValidPage(addr)))

ShouldRightAlign(s) == s % 2 = 0
AllocEnd(d) == d.start + d.size

\* ReserveFreeSlot(): any free slot, at random.
Reservable ==
    IF allowed /\ Cardinality({s \in Slots : ~slots[s].free}) < max_alloced_pages
    THEN {s \in Slots : slots[s].free} ELSE {}
FreeSlot(d) == [d EXCEPT !.free = TRUE]

Log2Ceiling(size) == CHOOSE n \in 0 .. size : 2 ^ n >= size /\ \A m \in 0 .. n - 1 : 2 ^ m < size
SmallerOf(a, b) == IF a < b THEN a ELSE b
LargerOf(a, b) == IF a < b THEN b ELSE a
\* MaybeRightAlign(): where the allocation starts, and the magic bytes in the padding.
Padding(s, size, align) ==
    LET default == SmallerOf(2 ^ Log2Ceiling(size), kAlignment)
    IN (SlotToAddr(s) + page_size - size) % LargerOf(align, default)
RightAligned(s, size, align) ==
    IF ShouldRightAlign(s) THEN SlotToAddr(s) + page_size - size - Padding(s, size, align)
    ELSE SlotToAddr(s)
\* Mutant: one magic byte fewer.
MagicShort(s, size, align) ==
    LET end == RightAligned(s, size, align) + size
    IN IF ShouldRightAlign(s)
       THEN end .. end + SmallerOf(Padding(s, size, align), kMagicSize) - 2 ELSE {}
Magic(s, size, align) ==
    LET end == RightAligned(s, size, align) + size
    IN IF ShouldRightAlign(s)
       THEN end .. end + SmallerOf(Padding(s, size, align), kMagicSize) - 1 ELSE {}

\* The metadata of an allocation.  The program then writes over all of it: what
\* remains of the magic bytes of this and earlier allocations is what lies outside.
SlotMetadata(s, req) ==
    LET start == RightAligned(s, req.size, req.align)
    IN [slots[s] EXCEPT
          !.open = TRUE, !.allocated = TRUE, !.deallocated = FALSE, !.past = FALSE,
          !.start = start, !.size = req.size,
          !.magic = (@ \cup Magic(s, req.size, req.align)) \ (start .. start + req.size - 1)]

WriteOverflowOccurred(s) ==
    LET d    == slots[s]
        last == SmallerOf(SlotToAddr(s) + page_size, AllocEnd(d) + kMagicSize) - 1
    IN ShouldRightAlign(s) /\ ~(AllocEnd(d) .. last \subseteq d.magic)

\* GetErrorType(): first the flags, which any thread's Deallocate() may have set, then
\* the metadata of the slot.
FlaggedType(d) ==
    CASE ~d.allocated      -> "Unknown"
      [] detected.double   -> "DoubleFree"
      [] detected.overflow -> "BufferOverflowOnDealloc"
      [] OTHER             -> None
GetErrorType(addr, d) ==
    IF d.deallocated THEN "UseAfterFree"
    ELSE IF addr < d.start THEN "BufferUnderflow"
    ELSE IF addr >= AllocEnd(d) THEN "BufferOverflow"
    ELSE "Unknown"

----------------------------------------------------------------------------
(* Allocation                                                              *)

Go(t, state) == thread' = [thread EXCEPT ![t] = state]
At(t, pc) == thread[t].pc = pc /\ report = Quiet
guarded_page_lock_free == \A u \in Threads : ~thread[u].lock
FreeSmall(lists, obj, cl) == IF obj = None THEN lists ELSE [lists EXCEPT ![cl] = @ \cup {obj}]
Returns(ptr, req, capacity) == live' = live \cup {[ptr |-> ptr, req |-> req, cap |-> capacity]}

NewSpan(place, num_pages, sp) ==
    /\ sp = Min({x \in DOMAIN spans : ~spans[x].used})
    /\ spans' = [spans EXCEPT ![sp] = [used |-> TRUE, place |-> place, stack |-> None,
                                             bytes |-> num_pages * page_size]]
    /\ pagemap' = [pagemap EXCEPT ![place] = sp]

\* AllocSmall() takes an object; ShouldSampleAllocation() says what becomes of it.
AllocSmall(t, req, sampled) ==
    LET cl == GetSizeClass(req.size, req.align)
    IN /\ At(t, "idle") /\ cl # 0
       /\ \E obj \in freed[cl] :
            /\ freed' = [freed EXCEPT ![cl] = @ \ {obj}]
            /\ IF sampled
               THEN Go(t, [Idle EXCEPT !.pc = "sampleify", !.req = req, !.obj = obj]) /\ UNCHANGED live
               ELSE Returns(obj, req, cl) /\ UNCHANGED thread
       /\ UNCHANGED <<slots, allowed, pagemap, spans, report, detected>>

Class(t) == GetSizeClass(thread[t].req.size, thread[t].req.align)

\* A thread is in Deallocate() of the page, or about to be.
Freeing(u, s) == /\ thread[u].place = GuardedPage(s)
                 /\ thread[u].pc \in {"deallocate", "close", "record", "fault", "metadata"}

\* SampleifyAllocation() tries a guarded page for an object of one page at most.  That a
\* page is reserved for a new allocation while a second free of the old one has yet to
\* reach Deallocate(), which then frees the new one, is not followed.
TrySampleGuardedAllocation(t) ==
    /\ At(t, "sampleify") /\ pages(Class(t)) = 1 /\ thread[t].req.size # 0
    /\ guarded_page_lock_free
    /\ \E s \in Reservable :
        /\ ~\E u \in Threads : Freeing(u, s) /\ thread[u].twice
        /\ slots' = [slots EXCEPT ![s].free = FALSE]
        /\ Go(t, [thread[t] EXCEPT !.pc = "protect", !.place = GuardedPage(s)])
    /\ UNCHANGED <<allowed, freed, pagemap, spans, live, report, detected>>

\* The slot is reserved: mprotect() may fail, which gives it back.
Allocate(t) ==
    LET s == thread[t].place[2]
    IN /\ At(t, "protect")
       /\ \/ /\ slots' = [slots EXCEPT ![s] = SlotMetadata(s, thread[t].req)]
             /\ Go(t, [thread[t] EXCEPT !.pc = "register"])
          \/ /\ guarded_page_lock_free
             /\ slots' = [slots EXCEPT ![s] = FreeSlot(@)]
             /\ Go(t, [thread[t] EXCEPT !.pc = "pages", !.place = None])
       /\ UNCHANGED <<allowed, freed, pagemap, spans, live, report, detected>>

\* allocated_size and the proxy: an object alone on its span has none, and goes back.
\* Mutant: the requested size always stands for a guarded allocation.
AllocatedAlways(req, cl, guarded) == IF guarded THEN req.size ELSE cl
AllocatedSize(req, cl, guarded) == IF guarded /\ req.returns THEN req.size ELSE cl
HasProxy(cl, allocated) == (pages(cl) * page_size) \div allocated # 1
Represented(t, guarded, place, sp) ==
    LET allocated == AllocatedSize(thread[t].req, Class(t), guarded)
        obj       == thread[t].obj
    IN [thread[t] EXCEPT !.pc = "sample", !.place = place, !.span = sp, !.size = allocated,
                         !.proxy = IF HasProxy(Class(t), allocated) THEN obj ELSE None,
                         !.obj = IF HasProxy(Class(t), allocated) THEN None ELSE obj]

RegisterGuarded(t) ==
    /\ At(t, "register")
    /\ \E sp \in Descriptors :
        /\ NewSpan(thread[t].place, pages(Class(t)), sp)
        /\ Go(t, Represented(t, TRUE, thread[t].place, sp))
    /\ UNCHANGED <<slots, allowed, freed, live, report, detected>>

\* Without a guarded page: a tagged span, or the object itself if there is none.
Unmapped(kind) == {p \in PageSpans : p[1] = kind /\ ~\E sp \in Descriptors :
                                     spans[sp].used /\ spans[sp].place = p}
SamplePages(t) ==
    /\ At(t, "sampleify") \/ At(t, "pages")
    /\ \/ \E place \in Unmapped("tagged"), sp \in Descriptors :
            /\ NewSpan(place, pages(Class(t)), sp)
            /\ Go(t, Represented(t, FALSE, place, sp))
            /\ UNCHANGED live
       \/ /\ Returns(thread[t].obj, thread[t].req, Class(t))
          /\ Go(t, Idle)
          /\ UNCHANGED <<pagemap, spans>>
    /\ UNCHANGED <<slots, allowed, freed, report, detected>>

SpanSample(sp, stack) == [spans[sp] EXCEPT !.stack = stack]
Unsample(sp) == [spans[sp] EXCEPT !.stack = None]

\* Span::Sample() under the lock; then the object goes back to the transfer cache.
Sample(t) ==
    LET me == thread[t]
    IN /\ At(t, "sample")
       /\ spans' = [spans EXCEPT ![me.span] =
                        SpanSample(me.span, [proxy |-> me.proxy, allocated |-> me.size])]
       /\ freed' = FreeSmall(freed, me.obj, Class(t))
       /\ Returns(me.place, me.req, me.size)
       /\ Go(t, Idle)
       /\ UNCHANGED <<slots, allowed, pagemap, report, detected>>

\* do_malloc_pages(): a size without a class.
do_malloc_pages(t, req, sampled) ==
    LET num_pages == LargerOf(pages(req.size), 1)
        bytes     == num_pages * page_size
    IN /\ At(t, "idle") /\ GetSizeClass(req.size, req.align) = 0
       /\ \E place \in Unmapped("plain"), sp \in Descriptors :
            /\ NewSpan(place, num_pages, sp)
            /\ IF sampled
               THEN /\ Go(t, [Idle EXCEPT !.pc = "sample", !.req = req, !.place = place,
                                          !.span = sp, !.size = bytes])
                    /\ UNCHANGED live
               ELSE Returns(place, req, bytes) /\ UNCHANGED thread
       /\ UNCHANGED <<slots, allowed, freed, report, detected>>

----------------------------------------------------------------------------
(* Free                                                                    *)

\* The sizes a sized delete may be given.
SizesOf(h) == {h.req.size} \cup (IF h.req.returns THEN {h.cap} ELSE {})

\* An object of a class that is known from its page or computed from the size.
FreeObject(t, h) ==
    /\ At(t, "idle") /\ h.ptr \in Objects
    /\ \E cl \in {h.ptr[2]} \cup {GetSizeClass(z, h.req.align) : z \in SizesOf(h)} :
        freed' = FreeSmall(freed, h.ptr, cl)
    /\ live' = live \ {h}
    /\ UNCHANGED <<slots, allowed, pagemap, spans, thread, report, detected>>

\* do_free_pages(): unsample; a page span is deleted under the same lock, a guarded page
\* is given back without it.
do_free_pages(t, h) ==
    LET sp    == pagemap[h.ptr]
        stack == spans[sp].stack
        proxy == IF stack = None THEN None ELSE stack.proxy
        size  == IF stack = None THEN 0 ELSE stack.allocated
    IN /\ At(t, "idle") /\ h.ptr \in Places
       /\ live' = live \ {h}
       /\ IF h.ptr[1] = "guarded"
          THEN /\ spans' = [spans EXCEPT ![sp] = Unsample(sp)]
               /\ Go(t, [Idle EXCEPT !.pc = "deallocate", !.place = h.ptr, !.span = sp,
                                     !.proxy = proxy, !.size = size])
               /\ UNCHANGED freed
          ELSE /\ spans' = [spans EXCEPT ![sp] = [Unsample(sp) EXCEPT !.used = FALSE]]
               /\ freed' = FreeSmall(freed, proxy, GetSizeClass(size, 1))
               /\ UNCHANGED thread
       /\ UNCHANGED <<slots, allowed, pagemap, report, detected>>

\* Deallocate() takes guarded_page_lock and looks for what is wrong.
Deallocate(t) ==
    LET s == thread[t].place[2]
    IN /\ At(t, "deallocate") /\ guarded_page_lock_free
       /\ detected' = [double   |-> detected.double \/ slots[s].free,
                       overflow |-> detected.overflow
                                      \/ (~slots[s].free /\ WriteOverflowOccurred(s))]
       /\ Go(t, [thread[t] EXCEPT !.pc = "close", !.lock = TRUE])
       /\ UNCHANGED <<slots, allowed, freed, pagemap, spans, live, report>>

\* mprotect(PROT_NONE).
DeallocateClose(t) ==
    /\ At(t, "close")
    /\ slots' = [slots EXCEPT ![thread[t].place[2]].open = FALSE]
    /\ Go(t, [thread[t] EXCEPT !.pc = "record"])
    /\ UNCHANGED <<allowed, freed, pagemap, spans, live, report, detected>>

\* The access the SEGV handler is entered for.
Fault(me, addr, slot, type) ==
    [me EXCEPT !.pc = "fault", !.fault = addr, !.truth = [slot |-> slot, type |-> type]]

\* A write to the closed page if a flag is set; else the trace, FreeSlot(), and the lock.
DeallocateRecord(t) ==
    LET s  == thread[t].place[2]
        me == thread[t]
    IN /\ At(t, "record")
       /\ IF detected.double \/ detected.overflow
          THEN /\ Go(t, Fault(me, slots[s].start, s,
                              CASE me.twice      -> "DoubleFree"
                                [] slots[s].past -> "BufferOverflowOnDealloc"
                                [] OTHER         -> None))
               /\ UNCHANGED slots
          ELSE /\ slots' = [slots EXCEPT ![s] = [FreeSlot(@) EXCEPT !.deallocated = TRUE]]
               /\ Go(t, [me EXCEPT !.pc = "delete", !.lock = FALSE])
       /\ UNCHANGED <<allowed, freed, pagemap, spans, live, report, detected>>

\* The lock again, Span::Delete(), and the proxy.  Mutant: the page's span is looked up
\* again.
DeleteSpanOf(t) == pagemap[thread[t].place]
DeletedSpan(t) == thread[t].span
DeleteSpan(t) ==
    /\ At(t, "delete")
    /\ spans' = [spans EXCEPT ![DeletedSpan(t)].used = FALSE]
    /\ freed' = FreeSmall(freed, thread[t].proxy, GetSizeClass(thread[t].size, 1))
    /\ Go(t, Idle)
    /\ UNCHANGED <<slots, allowed, pagemap, live, report, detected>>

----------------------------------------------------------------------------
(* What the program may do wrong, and the SEGV handler                     *)

\* A write of the byte after the allocation, on its page.
WritePast(t, h) ==
    LET s == h.ptr[2]
    IN /\ At(t, "idle") /\ h.ptr[1] = "guarded"
       /\ AllocEnd(slots[s]) < SlotToAddr(s) + page_size
       /\ slots' = [slots EXCEPT ![s].past = TRUE, ![s].magic = @ \ {AllocEnd(slots[s])}]
       /\ UNCHANGED <<allowed, freed, pagemap, spans, live, thread, report, detected>>

\* The bytes of the guard pages that are nearer to the page than to another one.
Below(s) == SlotToAddr(s) - page_size \div 2 .. SlotToAddr(s) - 1
Above(s) == SlotToAddr(s) + page_size .. SlotToAddr(s) + page_size + page_size \div 2 - 1

\* An access to an allocation that was freed, while the page is closed.
UseAfterFree(t, s) ==
    /\ At(t, "idle") /\ slots[s].allocated /\ ~slots[s].open
    /\ \E addr \in slots[s].start .. AllocEnd(slots[s]) - 1 :
        Go(t, Fault(Idle, addr, s, "UseAfterFree"))
    /\ UNCHANGED <<slots, allowed, freed, pagemap, spans, live, report, detected>>
\* An access to the guard pages around an allocation.
OutOfBounds(t, h) ==
    LET s == h.ptr[2]
    IN /\ At(t, "idle") /\ h.ptr[1] = "guarded"
       /\ \/ \E addr \in Below(s) : Go(t, Fault(Idle, addr, s, "BufferUnderflow"))
          \/ \E addr \in Above(s) : Go(t, Fault(Idle, addr, s, "BufferOverflow"))
       /\ UNCHANGED <<slots, allowed, freed, pagemap, spans, live, report, detected>>

\* A second free of a guarded page while the first is under way or after it: the same
\* do_free_pages(), on the descriptor the page map still leads to (as an opt build
\* does, memory_errors_test.cc:187).
DoubleFree(t, s) ==
    LET sp    == pagemap[GuardedPage(s)]
        stack == spans[sp].stack
    IN /\ At(t, "idle") /\ slots[s].allocated
       /\ slots[s].free \/ \E u \in Threads : Freeing(u, s)
       /\ spans' = [spans EXCEPT ![sp] = Unsample(sp)]
       /\ thread' = [u \in Threads |->
             IF u = t THEN [Idle EXCEPT !.pc = "deallocate", !.place = GuardedPage(s),
                                        !.span = sp, !.twice = TRUE,
                                        !.proxy = IF stack = None THEN None ELSE stack.proxy,
                                        !.size = IF stack = None THEN 0 ELSE stack.allocated]
             ELSE [thread[u] EXCEPT !.twice = @ \/ Freeing(u, s)]]
       /\ UNCHANGED <<slots, allowed, freed, pagemap, live, report, detected>>

\* HandleSegvAndForward(), which takes no lock and ends the program.  A report of type
\* "Unknown" is none: nothing is printed.
Tells(t, type) == report' = [slot |-> GetNearestSlot(thread[t].fault), type |-> type,
                             truth |-> thread[t].truth]
SegvHandler(t) ==
    LET type == FlaggedType(slots[GetNearestSlot(thread[t].fault)])
    IN /\ At(t, "fault")
       /\ IF type # None THEN Tells(t, type) /\ UNCHANGED thread
          ELSE Go(t, [thread[t] EXCEPT !.pc = "metadata"]) /\ UNCHANGED report
       /\ UNCHANGED <<slots, allowed, freed, pagemap, spans, live, detected>>
SegvHandlerReport(t) ==
    LET addr == thread[t].fault
    IN /\ At(t, "metadata")
       /\ Tells(t, GetErrorType(addr, slots[GetNearestSlot(addr)]))
       /\ UNCHANGED <<slots, allowed, freed, pagemap, spans, live, thread, detected>>

\* AllowAllocations(), once the handler is installed.
ActivateGuardedSampling ==
    /\ report = Quiet /\ ~allowed /\ guarded_page_lock_free
    /\ allowed' = TRUE
    /\ UNCHANGED <<slots, freed, pagemap, spans, live, thread, report, detected>>

SampledInit ==
    /\ slots = [s \in Slots |-> [free |-> TRUE, open |-> FALSE, allocated |-> FALSE,
                                 deallocated |-> FALSE, start |-> 0, size |-> 0,
                                 magic |-> {}, past |-> FALSE]]
    /\ allowed = FALSE
    /\ freed = [c \in ClassSizes |-> {o \in Objects : o[2] = c}]
    /\ pagemap = [p \in Places |-> None]
    /\ spans = [sp \in Descriptors |-> [used |-> FALSE, place |-> None, stack |-> None,
                                         bytes |-> 0]]
    /\ live = {}
    /\ thread = [t \in Threads |-> Idle]
    /\ report = Quiet
    /\ detected = [double |-> FALSE, overflow |-> FALSE]

\* A report ends the program.
Reported == report # Quiet

SampledNext ==
    \/ \E t \in Threads :
        \/ \E req \in Requests, sampled \in BOOLEAN :
            AllocSmall(t, req, sampled) \/ do_malloc_pages(t, req, sampled)
        \/ TrySampleGuardedAllocation(t) \/ Allocate(t) \/ RegisterGuarded(t)
        \/ SamplePages(t) \/ Sample(t)
        \/ \E h \in live : FreeObject(t, h) \/ do_free_pages(t, h)
        \/ Deallocate(t) \/ DeallocateClose(t) \/ DeallocateRecord(t) \/ DeleteSpan(t)
        \/ \E h \in live : WritePast(t, h) \/ OutOfBounds(t, h)
        \/ \E s \in Slots : UseAfterFree(t, s) \/ DoubleFree(t, s)
        \/ SegvHandler(t) \/ SegvHandlerReport(t)
    \/ ActivateGuardedSampling

----------------------------------------------------------------------------
\* The program has freed no page a second time that is not yet told.
FreedOnce == \A t \in Threads : ~thread[t].twice

\* Objects replaced by a sample are never lost, used twice or freed to another class:
\* each is free in its own class, with the program, a thread, or one sample's proxy.
Holders(o) ==
    Cardinality({c \in ClassSizes : o \in freed[c]}) + Cardinality({h \in live : h.ptr = o})
      + Cardinality({t \in Threads : o \in {thread[t].obj, thread[t].proxy}})
      + Cardinality({sp \in Descriptors : spans[sp].stack # None /\ spans[sp].stack.proxy = o})
ObjectsHome ==
    FreedOnce =>
    /\ \A o \in Objects : Holders(o) = 1
    /\ \A c \in ClassSizes : \A o \in freed[c] : o[2] = c

\* GetSize().
GetSize(ptr) ==
    IF ptr \in Objects THEN ptr[2]
    ELSE LET span == spans[pagemap[ptr]]
         IN IF span.stack # None
            THEN IF ptr[1] = "guarded" THEN slots[ptr[2]].size ELSE span.stack.allocated
            ELSE span.bytes
\* CorrectSize().
CorrectSize(h, size) ==
    LET cl == GetSizeClass(size, h.req.align)
        rounded == IF h.ptr[1] = "guarded" THEN slots[h.ptr[2]].size
                   ELSE IF cl # 0 THEN cl ELSE pages(size) * page_size
    IN size = 0 \/ GetSize(h.ptr) = rounded

\* "We maintain the invariant that GetAllocatedSize() must match the returned size"
\* (tcmalloc.cc:1392): the capacity a size-returning new reports is what the pointer's
\* page leads to, and a sized delete may pass the size asked for or the one returned.
SizesAgree ==
    FreedOnce => \A h \in live :
        /\ h.req.returns => GetSize(h.ptr) = h.cap
        /\ \A size \in SizesOf(h) : CorrectSize(h, size)

\* Although a guarded page is reused before the thread that freed it has the lock again,
\* the page map leads every page the program has to a span in use of that very page, and
\* no span is in use that is neither the program's nor a thread's.
SpansOwned ==
    FreedOnce =>
    /\ \A h \in live : h.ptr \in Places =>
        spans[pagemap[h.ptr]].used /\ spans[pagemap[h.ptr]].place = h.ptr
    /\ \A sp \in Descriptors : spans[sp].used =>
        \/ \E t \in Threads : thread[t].span = sp
        \/ \E h \in live : h.ptr \in Places /\ pagemap[h.ptr] = sp

\* No false report: the program ends in the SEGV handler only after an access or a free
\* that was wrong, the slot the handler finds is the one concerned, and it speaks of a
\* double free or an overwritten magic byte only if a thread really is in such a free.
\* With a single thread it names the error itself.
ReportsTrue ==
    Reported =>
        /\ report.truth.type # None /\ report.truth.slot = report.slot
        /\ report.type = "DoubleFree" => ~FreedOnce
        /\ report.type = "BufferOverflowOnDealloc" =>
             \E t \in Threads : thread[t].lock /\ slots[thread[t].place[2]].past
        /\ Cardinality(Threads) = 1 => report.type = report.truth.type
=============================================================================
