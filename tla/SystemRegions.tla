--------------------------- MODULE SystemRegions ----------------------------
(***************************************************************************)
(* SystemAlloc() and SystemRelease() (system-alloc.cc) as a page heap for  *)
(* untagged and one for tagged memory call them, with any answer the       *)
(* kernel may give.  Releasing is a chain of system calls: MADV_REMOVE,    *)
(* else MADV_DONTNEED; if both fail, munlock() and both once more.         *)
(***************************************************************************)
EXTENDS SystemAlloc

CONSTANTS SystemRequests,   \* <<n, align>>, asked for in pages
          MaxGiven          \* bound on the allocations

VARIABLES system,   \* the state of SystemAlloc
          given,    \* the ranges handed out
          release   \* a SystemRelease() under way, or its end

systemVars == <<system, given, release>>

NoRelease == [range |-> NoPages, call |-> "none", unlocked |-> FALSE, dropped |-> FALSE,
              failed |-> FALSE]

RegionsInit == system = InitSystem /\ given = {} /\ release = NoRelease

SystemAllocCall(q, tagged) ==
    /\ Cardinality(given) < MaxGiven
    /\ release = NoRelease
    /\ \E o \in SystemAllocate(system, q[1], Largest(q[2], 1), tagged) :
        /\ system' = o.sys
        /\ given' = IF o.got = NoPages THEN given
                    ELSE given \cup {[ptr |-> o.got.ptr, n |-> o.got.n, asked |-> q,
                                      tagged |-> tagged]}
    /\ UNCHANGED release

SetRegionFactory ==
    /\ release = NoRelease
    /\ system # DiscardMappedRegions(system)
    /\ system' = DiscardMappedRegions(system)
    /\ UNCHANGED <<given, release>>

\* ReleasePages(): a call that the kernel asks to repeat (EAGAIN) is repeated.
AfterFailure(r) ==
    CASE r.call = "MADV_REMOVE" -> [r EXCEPT !.call = "MADV_DONTNEED"]
      [] r.call = "MADV_DONTNEED" /\ ~r.unlocked -> [r EXCEPT !.call = "munlock"]
      [] r.call \in {"munlock", "MADV_DONTNEED"} -> [r EXCEPT !.call = "done", !.failed = TRUE]
AfterSuccess(r) ==
    IF r.call = "munlock" THEN [r EXCEPT !.call = "MADV_REMOVE", !.unlocked = TRUE]
    ELSE [r EXCEPT !.call = "done", !.dropped = TRUE]

SystemRelease(g) ==
    /\ release = NoRelease
    /\ release' = [NoRelease EXCEPT !.range = [ptr |-> g.ptr, n |-> g.n], !.call = "MADV_REMOVE"]
    /\ UNCHANGED <<system, given>>
KernelAnswers ==
    /\ release.call \notin {"none", "done"}
    /\ release' \in {AfterFailure(release), AfterSuccess(release)}
    /\ UNCHANGED <<system, given>>
ReleaseReturns ==
    /\ release.call = "done"
    /\ release' = NoRelease
    /\ UNCHANGED <<system, given>>

RegionsNext ==
    \/ \E q \in SystemRequests, tagged \in BOOLEAN : SystemAllocCall(q, tagged)
    \/ SetRegionFactory
    \/ \E g \in given : SystemRelease(g)
    \/ KernelAnswers
    \/ ReleaseReturns

----------------------------------------------------------------------------
\* What is handed out is long enough, aligned, of the asked tag from end to end and
\* mapped, and no page is handed out twice, not even after regions were discarded or
\* pages at the end of a region skipped for alignment.
RangesApart ==
    /\ \A g \in given :
        /\ g.n >= g.asked[1]
        /\ g.ptr % g.asked[2] = 0 /\ g.ptr % kMinSystemAlloc = 0
        /\ \A p \in Run(g.ptr, g.n) : IsTaggedMemory(p) = g.tagged
        /\ Run(g.ptr, g.n) \subseteq system.mapped
    /\ \A g, h \in given : g # h => Run(g.ptr, g.n) \cap Run(h.ptr, h.n) = {}
    /\ \A g \in given, tagged \in BOOLEAN :
          LET r == system.region[tagged] IN Run(g.ptr, g.n) \cap Run(r.start, r.free) = {}

\* A release that ends has dropped the memory or counted an error, never neither.
ReleaseAccounted == release.call = "done" => release.dropped # release.failed
=============================================================================
