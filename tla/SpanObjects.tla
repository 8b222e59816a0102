---------------------------- MODULE SpanObjects ----------------------------
(***************************************************************************)
(* One span of small objects with more objects than SpanFreelist's cache   *)
(* and first host hold: the lists of hosts that TransferCache's spans are  *)
(* too short for.  The central freelist pops batches and pushes objects in *)
(* any order, under its lock; the object whose return empties the span is  *)
(* not pushed, the span goes back to the page heap and may come again.     *)
(***************************************************************************)
EXTENDS SpanFreelist

CONSTANTS SpanSize,     \* objects in the span
          BatchSizes    \* N of FreelistPopBatch()

VARIABLES span,   \* the Span
          used    \* the objects popped and not pushed

spanVars == <<span, used>>

SpanInit == span = BuildFreelist(SpanSize) /\ used = {}

PopBatch(N) ==
    LET p == FreelistPopBatch(span, N)
    IN /\ ~ FreelistEmpty(span)
       /\ span' = p.span
       /\ used' = used \union ToSet(p.batch)

Push(obj) ==
    /\ span' = IF Pushes(span) THEN FreelistPush(span, obj) ELSE BuildFreelist(SpanSize)
    /\ used' = IF Pushes(span) THEN used \ {obj} ELSE {}

SpanNext == (\E N \in BatchSizes : PopBatch(N)) \/ (\E obj \in used : Push(obj))

----------------------------------------------------------------------------
\* However the hosts are chained, every object is free exactly once or popped, the
\* count of allocated objects is right, and no pop follows what the program wrote.
FreelistExact ==
    LET free == FreeObjects(span)
    IN /\ IsInjective(free)
       /\ ToSet(free) = (1 .. SpanSize) \ used
       /\ span.allocated = Cardinality(used)
=============================================================================
