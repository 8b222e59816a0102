---------------------------- MODULE SpanFreelist ----------------------------
(***************************************************************************)
(* The free objects of a Span of small objects (span.cc, span.h): a small  *)
(* array in the span (cache) and arrays inside the free objects            *)
(* themselves.  A host object holds in slot 0 the next host and in the     *)
(* other slots indices of free objects; only the first host, freelist, may *)
(* have fewer than MaxEmbed of them (embed_count).  An object that is not  *)
(* free belongs to the program, which writes into it what it likes, and a  *)
(* slot above embed_count is as good as written by it.                     *)
(***************************************************************************)
EXTENDS Integers, Sequences, FiniteSets, SequencesExt, FiniteSetsExt

CONSTANTS
    kCacheSize,
    MaxEmbed,       \* size / sizeof(ObjIdx) - 1
    Garbage         \* what the program writes

kListEnd == 0
Written == [slot \in 0 .. MaxEmbed |-> Garbage]

FreelistEmpty(s) == s.cache = <<>> /\ s.freelist = kListEnd

\* Mutant: a new host keeps the count of the one before.
PutFreeKeeps(s, obj) ==
    IF Len(s.cache) # kCacheSize THEN [s EXCEPT !.cache = Append(@, obj)]
    ELSE IF s.freelist # kListEnd /\ s.embed_count # MaxEmbed
    THEN [s EXCEPT !.embed_count = @ + 1,
                   !.mem[s.freelist][s.embed_count + 1] = obj]
    ELSE [s EXCEPT !.mem[obj][0] = s.freelist, !.freelist = obj]

\* An object that becomes free, in the cache, in the first host or as a host.
PutFree(s, obj) ==
    IF Len(s.cache) # kCacheSize THEN [s EXCEPT !.cache = Append(@, obj)]
    ELSE IF s.freelist # kListEnd /\ s.embed_count # MaxEmbed
    THEN [s EXCEPT !.embed_count = @ + 1,
                   !.mem[s.freelist][s.embed_count + 1] = obj]
    ELSE [s EXCEPT !.mem[obj][0] = s.freelist, !.freelist = obj, !.embed_count = 0]

\* FreelistPush() pushes unless this is the last object; pushes says which.
Pushes(s) == s.allocated # 1
FreelistPush(s, obj) ==
    IF ~ Pushes(s) THEN s ELSE PutFree([s EXCEPT !.allocated = @ - 1], obj)

\* The first host itself is popped: the next one is full.
TakeHost(s) == [s EXCEPT !.freelist = s.mem[s.freelist][0], !.embed_count = MaxEmbed]

\* The object popped next, and the span without it.
NextFree(s) ==
    IF s.cache # <<>> THEN Last(s.cache)
    ELSE IF s.embed_count > 0 THEN s.mem[s.freelist][s.embed_count] ELSE s.freelist
TakeFree(s) ==
    LET taken == IF s.cache # <<>> THEN [s EXCEPT !.cache = Front(@)]
                 ELSE IF s.embed_count > 0
                 THEN [s EXCEPT !.embed_count = @ - 1,
                                !.mem[s.freelist][s.embed_count] = Garbage]
                 ELSE TakeHost(s)
    IN  [taken EXCEPT !.allocated = @ + 1, !.mem[NextFree(s)] = Written]

\* FreelistPopBatch(N): the span and the objects, popped one by one.
FreelistPopBatch(s, N) ==
    FoldLeft(LAMBDA p, i : IF FreelistEmpty(p.span) THEN p
                           ELSE [span |-> TakeFree(p.span),
                                 batch |-> Append(p.batch, NextFree(p.span))],
             [span |-> s, batch |-> <<>>], [i \in 1 .. N |-> i])

\* BuildFreelist(count), one object a step: the cache, then hosts from the front
\* (idx) and objects in them from the back (end).
BuildFreelist(count) ==
    LET start == [cache |-> <<>>, freelist |-> kListEnd, embed_count |-> 0, allocated |-> 0,
                  mem |-> [obj \in 1 .. count |-> Written]]
        step(b, i) ==
            LET s == b.span
            IN  IF Len(s.cache) < kCacheSize
                THEN [b EXCEPT !.span.cache = Append(@, b.idx), !.idx = @ + 1]
                ELSE IF s.freelist # kListEnd /\ s.embed_count # MaxEmbed
                THEN [b EXCEPT !.span.embed_count = @ + 1, !.end = @ - 1,
                               !.span.mem[s.freelist][s.embed_count + 1] = b.end]
                ELSE [b EXCEPT !.span.mem[b.idx][0] = s.freelist, !.span.freelist = b.idx,
                               !.span.embed_count = 0, !.idx = @ + 1]
    IN  FoldLeft(step, [span |-> start, idx |-> 1, end |-> count],
                 [i \in 1 .. count |-> i]).span

----------------------------------------------------------------------------
\* All free objects in the order in which they would be popped.
FreeObjects(s) == FreelistPopBatch(s, Cardinality(DOMAIN s.mem) + 1).batch
=============================================================================
