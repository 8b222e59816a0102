---------------------------- MODULE SystemAlloc -----------------------------
(***************************************************************************)
(* The system allocator (system-alloc.cc): address space reserved from the *)
(* kernel in regions and handed to the page heaps from the end of a region *)
(* downwards.  Memory is counted in pages; an address is a page number.    *)
(* Every operator takes and returns the allocator's state: the region of   *)
(* untagged and of tagged memory, the address hinted to the next mmap() of *)
(* each, and the pages the process has mapped.                             *)
(***************************************************************************)
EXTENDS Integers, FiniteSets

CONSTANTS AddressPages,     \* page numbers are below this
          TagMask,          \* kTagMask in pages: this address bit is clear in tagged memory
          kMinSystemAlloc,  \* every allocation is a multiple of it
          kMinMmapAlloc     \* the size of a region

ASSUME SystemAssumption ==
    /\ AddressPages \in Nat \ {0} /\ TagMask \in Nat \ {0}
    /\ kMinSystemAlloc \in Nat \ {0} /\ kMinMmapAlloc \in Nat \ {0}

NoRegion == [start |-> 0, free |-> 0]
NoPages == [ptr |-> 0, n |-> 0]
InitSystem ==
    [region |-> [tagged \in BOOLEAN |-> NoRegion],
     next |-> [tagged \in BOOLEAN |-> 0], mapped |-> {}]

IsTaggedMemory(p) == (p \div TagMask) % 2 = 0
RoundDown(p, align) == (p \div align) * align
RoundUp(p, align) == RoundDown(p + align - 1, align)
IsPow2(n) == \E i \in 0 .. 16 : n = 2 ^ i
RoundUpPowerOf2(n) == CHOOSE q \in n .. 2 * n : IsPow2(q) /\ \A r \in n .. (q - 1) : ~IsPow2(r)
Largest(a, b) == IF a > b THEN a ELSE b
Run(p, n) == p .. (p + n - 1)

----------------------------------------------------------------------------
\* RandomMmapHint(): the addresses it may return.  An address of 0 hints nothing.
RandomMmapHint(n, align, tagged) ==
    LET a == RoundUpPowerOf2(Largest(align, n))
    IN {p \in 1 .. (AddressPages - 1) : p % a = 0 /\ IsTaggedMemory(p) = tagged}

\* MmapAligned() first tries to continue where it mapped last.  The kernel may put
\* the mapping elsewhere, which is undone and tried again at a random hint, or
\* refuse it.  Outcomes: the address, 0 for none, and the new state.
Hints(sys, n, align, tagged) ==
    LET next == sys.next[tagged]
    IN IF \/ next = 0 \/ next % align # 0
          \/ IsTaggedMemory(next) # tagged \/ IsTaggedMemory(next + n - 1) # tagged
       THEN {} ELSE {next}
MmapAligned(sys, n, align, tagged) ==
    LET random == RandomMmapHint(n, align, tagged)
        free == {p \in Hints(sys, n, align, tagged) \cup random :
                    Run(p, n) \subseteq (1 .. (AddressPages - 1)) \ sys.mapped}
        last == IF random = {} THEN {sys.next[tagged]} ELSE random
    IN {[ptr |-> p, sys |-> [sys EXCEPT !.next[tagged] = p + n,
                                        !.mapped = @ \cup Run(p, n)]] : p \in free}
       \cup {[ptr |-> 0, sys |-> [sys EXCEPT !.next[tagged] = p]] : p \in last}

\* MmapRegion::Alloc(): the end of the region, if it is large enough and mprotect()
\* does not fail.  Mutant: the pages lost to alignment stay free.
TakeSizeOnly(r, p, n) == [r EXCEPT !.free = @ - n]
Take(r, p, n) == [r EXCEPT !.free = p - r.start]
RegionAlloc(r, n, align) ==
    LET size == RoundUp(n, kMinSystemAlloc)
        end == r.start + r.free
        p == RoundDown(end - size, Largest(align, kMinSystemAlloc))
    IN IF size > end \/ p < r.start THEN {[got |-> NoPages, region |-> r]}
       ELSE {[got |-> NoPages, region |-> r],
             [got |-> [ptr |-> p, n |-> end - p], region |-> Take(r, p, size)]}

\* RegionManager::Allocate(): from the current region, else from a new one; what
\* is left of the old one is not used again.
FromRegion(sys, n, align, tagged) ==
    IF sys.region[tagged] = NoRegion THEN {[got |-> NoPages, sys |-> sys]}
    ELSE {[got |-> o.got, sys |-> [sys EXCEPT !.region[tagged] = o.region]] :
             o \in RegionAlloc(sys.region[tagged], n, align)}
NewRegion(sys, tagged) ==
    {IF m.ptr = 0 THEN m
     ELSE [m EXCEPT !.sys.region[tagged] = [start |-> m.ptr, free |-> kMinMmapAlloc]] :
        m \in MmapAligned(sys, kMinMmapAlloc, kMinMmapAlloc, tagged)}
Allocate(sys, n, align, tagged) ==
    LET first == FromRegion(sys, n, align, tagged)
    IN {o \in first : o.got # NoPages}
       \cup UNION {UNION {IF m.ptr = 0 THEN {[got |-> NoPages, sys |-> m.sys]}
                          ELSE FromRegion(m.sys, n, align, tagged) :
                             m \in NewRegion(o.sys, tagged)} :
                      o \in {f \in first : f.got = NoPages}}

\* A request larger than a region gets a mapping of its own.
OwnMapping(sys, n, align, tagged) ==
    LET size == RoundUp(n, kMinSystemAlloc)
    IN UNION {IF m.ptr = 0 THEN {[got |-> NoPages, sys |-> m.sys]}
              ELSE {[got |-> o.got, sys |-> m.sys] :
                       o \in RegionAlloc([start |-> m.ptr, free |-> size], size, align)} :
                 m \in MmapAligned(sys, size, Largest(align, kMinSystemAlloc), tagged)}

\* RegionManager::Alloc() for SystemAlloc().
SystemAllocate(sys, n, align, tagged) ==
    IF n > TagMask \/ align > TagMask THEN {[got |-> NoPages, sys |-> sys]}
    ELSE IF n > kMinMmapAlloc \/ align > kMinMmapAlloc
    THEN OwnMapping(sys, n, align, tagged)
    ELSE Allocate(sys, n, align, tagged)

\* SetRegionFactory(): the regions in use are forgotten.
DiscardMappedRegions(sys) == [sys EXCEPT !.region = [tagged \in BOOLEAN |-> NoRegion]]
=============================================================================
