--------------------------- MODULE PageHeapProofs ---------------------------
(***************************************************************************)
(* The safety of the page heap, for every number of threads, pages, lists  *)
(* and leaves of the page map, and for every answer of the kernel.         *)
(*                                                                         *)
(* An operation takes the heap through states in which its invariant does  *)
(* not hold: a span is off its list, or cut, and its pages are in no span. *)
(* Good(h, H, X, F) is the invariant with these written down: the pages H  *)
(* are in no span, the spans X are free but on no list and may have free   *)
(* neighbours, and the spans F are under release, in use but counted as    *)
(* free.  Between two operations H and X are empty (Clean), and F is what  *)
(* the threads hold that have dropped pageheap_lock for the system call.   *)
(*                                                                         *)
(* The module has a lemma for each function of page_heap.cc, from the      *)
(* entries of the page map up to New() and the release loops, then one for *)
(* each action, and ends with the theorems.                                *)
(***************************************************************************)
EXTENDS PageHeap, FiniteSetTheorems, SequenceTheorems, TLAPS

\* The types of the heap's parts.
Locations == {"NORMAL", "RETURNED", "IN_USE", "DELETED"}
Descriptors == [first : Nat, n : Nat, loc : Locations]
SpanTables == [Ids -> Descriptors]
SpanIds == Ids \cup {NoSpan}
PageMaps == UNION {[D -> SpanIds] : D \in SUBSET Pages}
ListPairs == [normal : Seq(Ids), returned : Seq(Ids)]
ListTables == [0 .. kMaxPages -> ListPairs]
Heaps == [span : SpanTables, map : PageMaps, lists : ListTables,
          free : Int, unmapped : Int, system : Int, index : 0 .. kMaxPages]

----------------------------------------------------------------------------
(***************************************************************************)
(* Sequences as lists of spans.                                            *)
(***************************************************************************)

\* A list holds each of the spans in S once, and no other.
Exactly(list, S) == IsInjective(list) /\ Range(list) = S

\* What is left when the i-th element is taken out.
LEMMA RemoveAtElements ==
    ASSUME NEW S, NEW q \in Seq(S), NEW i \in 1 .. Len(q)
    PROVE  /\ RemoveAt(q, i) \in Seq(S)
           /\ Len(RemoveAt(q, i)) = Len(q) - 1
           /\ \A j \in 1 .. (Len(q) - 1) :
                RemoveAt(q, i)[j] = IF j < i THEN q[j] ELSE q[j + 1]
<1> DEFINE a == SubSeq(q, 1, i - 1)
           b == SubSeq(q, i + 1, Len(q))
<1>1. Len(q) \in Nat /\ i \in Int /\ 1 <= i /\ i <= Len(q)
  OBVIOUS
<1>2. /\ a \in Seq(S) /\ Len(a) = i - 1
      /\ \A j \in 1 .. (i - 1) : a[j] = q[j]
  <2>1. \A j \in 1 .. (i - 1) : q[j] \in S
    BY <1>1, ElementOfSeq
  <2>2. /\ SubSeq(q, 1, i - 1) \in Seq(S)
        /\ Len(SubSeq(q, 1, i - 1)) = IF 1 <= i - 1 THEN (i - 1) - 1 + 1 ELSE 0
        /\ \A j \in 1 .. (i - 1) - 1 + 1 : SubSeq(q, 1, i - 1)[j] = q[1 + j - 1]
    BY <1>1, <2>1, SubSeqProperties
  <2> QED
    BY <1>1, <2>2
<1>3. /\ b \in Seq(S) /\ Len(b) = Len(q) - i
      /\ \A j \in 1 .. (Len(q) - i) : b[j] = q[i + j]
  <2>1. \A j \in (i + 1) .. Len(q) : q[j] \in S
    BY <1>1, ElementOfSeq
  <2>2. /\ SubSeq(q, i + 1, Len(q)) \in Seq(S)
        /\ Len(SubSeq(q, i + 1, Len(q))) = IF i + 1 <= Len(q) THEN Len(q) - (i + 1) + 1 ELSE 0
        /\ \A j \in 1 .. Len(q) - (i + 1) + 1 :
             SubSeq(q, i + 1, Len(q))[j] = q[(i + 1) + j - 1]
    BY <1>1, <2>1, SubSeqProperties
  <2> QED
    BY <1>1, <2>2
<1> HIDE DEF a, b
<1>4. /\ a \o b \in Seq(S)
      /\ Len(a \o b) = Len(a) + Len(b)
      /\ \A j \in 1 .. Len(a) + Len(b) :
           (a \o b)[j] = IF j <= Len(a) THEN a[j] ELSE b[j - Len(a)]
  BY <1>2, <1>3, ConcatProperties
<1>5. RemoveAt(q, i) = a \o b
  BY DEF RemoveAt, a, b
<1>6. \A j \in 1 .. (Len(q) - 1) : (a \o b)[j] = IF j < i THEN q[j] ELSE q[j + 1]
  <2> TAKE j \in 1 .. (Len(q) - 1)
  <2>1. CASE j < i
    BY <1>1, <1>2, <1>3, <1>4, <2>1
  <2>2. CASE ~ (j < i)
    <3>1. j - (i - 1) \in 1 .. (Len(q) - i)
      BY <1>1, <2>2
    <3>2. (a \o b)[j] = b[j - (i - 1)]
      BY <1>1, <1>2, <1>3, <1>4, <2>2
    <3>3. b[j - (i - 1)] = q[i + (j - (i - 1))] /\ i + (j - (i - 1)) = j + 1
      BY <1>1, <1>3, <3>1
    <3> QED
      BY <2>2, <3>2, <3>3
  <2> QED
    BY <2>1, <2>2
<1>7. Len(a \o b) = Len(q) - 1
  BY <1>1, <1>2, <1>3, <1>4
<1> QED
  BY <1>4, <1>5, <1>6, <1>7, Zenon

\* A span that is unlinked is no longer on the list, and the others are.
LEMMA UnlinkExact ==
    ASSUME NEW T, NEW q \in Seq(T), NEW S, Exactly(q, S), NEW s \in S
    PROVE  Unlink(q, s) \in Seq(T) /\ Exactly(Unlink(q, s), S \ {s})
<1>1. PICK i \in DOMAIN q : i = CHOOSE j \in DOMAIN q : q[j] = s
  BY DEF Exactly, Range
<1>2. q[i] = s
  BY <1>1 DEF Exactly, Range
<1>3. Len(q) \in Nat /\ DOMAIN q = 1 .. Len(q)
  OBVIOUS
<1> DEFINE u == RemoveAt(q, i)
<1>4. Unlink(q, s) = u
  BY <1>1 DEF Unlink
<1>5. /\ u \in Seq(T) /\ DOMAIN u = 1 .. (Len(q) - 1)
      /\ \A j \in 1 .. (Len(q) - 1) : u[j] = IF j < i THEN q[j] ELSE q[j + 1]
  <2>1. i \in 1 .. Len(q)
    BY <1>3
  <2> QED
    BY <2>1, RemoveAtElements, LenProperties
<1> HIDE DEF u
<1>6. \A j, k \in 1 .. Len(q) : q[j] = q[k] => j = k
  BY <1>3 DEF Exactly, IsInjective
<1>7. IsInjective(u)
  <2> SUFFICES ASSUME NEW j \in 1 .. (Len(q) - 1), NEW k \in 1 .. (Len(q) - 1), u[j] = u[k]
               PROVE  j = k
    BY <1>5 DEF IsInjective
  <2> QED
    BY <1>3, <1>5, <1>6
<1>8. Range(u) = S \ {s}
  <2>1. \A x \in Range(u) : x \in S \ {s}
    <3> SUFFICES ASSUME NEW j \in 1 .. (Len(q) - 1)
                 PROVE  u[j] \in S \ {s}
      BY <1>5 DEF Range
    <3> DEFINE m == IF j < i THEN j ELSE j + 1
    <3>1. m \in 1 .. Len(q) /\ m # i /\ u[j] = q[m]
      BY <1>3, <1>5
    <3>2. q[m] # s
      BY <1>2, <1>3, <1>6, <3>1
    <3> QED
      BY <1>3, <3>1, <3>2 DEF Exactly, Range
  <2>2. \A x \in S \ {s} : x \in Range(u)
    <3> SUFFICES ASSUME NEW x \in S, x # s
                 PROVE  x \in Range(u)
      OBVIOUS
    <3>1. PICK m \in 1 .. Len(q) : q[m] = x
      BY <1>3 DEF Exactly, Range
    <3> DEFINE j == IF m < i THEN m ELSE m - 1
    <3>2. j \in 1 .. (Len(q) - 1) /\ u[j] = x
      BY <1>2, <1>3, <1>5, <3>1
    <3> QED
      BY <1>5, <3>2 DEF Range
  <2> QED
    BY <2>1, <2>2
<1> QED
  BY <1>4, <1>5, <1>7, <1>8 DEF Exactly

\* A span that is prepended is on the list with the others.
LEMMA PrependExact ==
    ASSUME NEW T, NEW q \in Seq(T), NEW S, Exactly(q, S), NEW s \in T, s \notin S
    PROVE  <<s>> \o q \in Seq(T) /\ Exactly(<<s>> \o q, S \cup {s})
<1> DEFINE u == <<s>> \o q
<1>1. Len(q) \in Nat /\ DOMAIN q = 1 .. Len(q) /\ <<s>> \in Seq(T) /\ Len(<<s>>) = 1
  OBVIOUS
<1>2. /\ u \in Seq(T) /\ Len(u) = Len(q) + 1
      /\ \A j \in 1 .. (Len(q) + 1) : u[j] = IF j = 1 THEN s ELSE q[j - 1]
  BY <1>1, ConcatProperties
<1>3. DOMAIN u = 1 .. (Len(q) + 1)
  BY <1>2, LenProperties
<1> HIDE DEF u
<1>4. Range(u) = S \cup {s}
  <2>1. \A x \in Range(u) : x \in S \cup {s}
    <3> SUFFICES ASSUME NEW j \in 1 .. (Len(q) + 1)
                 PROVE  u[j] \in S \cup {s}
      BY <1>3 DEF Range
    <3> QED
      BY <1>1, <1>2 DEF Exactly, Range
  <2>2. s \in Range(u)
    BY <1>1, <1>2, <1>3 DEF Range
  <2>3. \A x \in S : x \in Range(u)
    <3> SUFFICES ASSUME NEW m \in 1 .. Len(q)
                 PROVE  q[m] \in Range(u)
      BY <1>1 DEF Exactly, Range
    <3>1. m + 1 \in 1 .. (Len(q) + 1) /\ u[m + 1] = q[m]
      BY <1>1, <1>2
    <3> QED
      BY <1>3, <3>1 DEF Range
  <2> QED
    BY <2>1, <2>2, <2>3
<1>5. IsInjective(u)
  <2> SUFFICES ASSUME NEW j \in 1 .. (Len(q) + 1), NEW k \in 1 .. (Len(q) + 1), u[j] = u[k]
               PROVE  j = k
    BY <1>3 DEF IsInjective
  <2>1. \A m \in 1 .. Len(q) : q[m] # s
    BY <1>1 DEF Exactly, Range
  <2>2. \A m, l \in 1 .. Len(q) : q[m] = q[l] => m = l
    BY <1>1 DEF Exactly, IsInjective
  <2> QED
    BY <1>1, <1>2, <2>1, <2>2
<1> QED
  BY <1>2, <1>4, <1>5 DEF Exactly, u

----------------------------------------------------------------------------
(***************************************************************************)
(* Pages and spans: sp is a table of descriptors, mp a page map.           *)
(***************************************************************************)

\* The pages of descriptors, and the descriptors by their location.
FreeLocs == {"NORMAL", "RETURNED"}
End(sp, s) == sp[s].first + sp[s].n
RunOf(sp, s) == Run(sp[s].first, sp[s].n)
Used(sp) == {s \in Ids : sp[s].loc # "DELETED"}
InUse(sp) == {s \in Ids : sp[s].loc = "IN_USE"}
Cover(sp, S) == UNION {RunOf(sp, s) : s \in S}
Weight(sp, S) == Cardinality(Cover(sp, S))

\* A descriptor in use describes pages the system may give out.
Placed(sp) ==
    \A s \in Ids : IF sp[s].loc = "DELETED" THEN sp[s] = Unused
                   ELSE sp[s].n >= 1 /\ sp[s].first >= 1 /\ End(sp, s) <= AddressPages
Clear(sp, s, r) == End(sp, s) <= sp[r].first \/ End(sp, r) <= sp[s].first
Apart(sp) == \A s, r \in Used(sp) : s # r => Clear(sp, s, r)

\* The pages of spans and those in H, which have left one span and are on the way to
\* another, have a leaf; only they lead to a span, and the ends of a span to it.
Leads(mp, p) == IF p \in DOMAIN mp THEN mp[p] ELSE NoSpan
Mapped(sp, mp, H) ==
    /\ H \subseteq DOMAIN mp
    /\ \A s \in Used(sp) : RunOf(sp, s) \subseteq DOMAIN mp /\ RunOf(sp, s) \cap H = {}
    /\ \A s \in Used(sp) : mp[sp[s].first] = s /\ mp[End(sp, s) - 1] = s
    /\ \A p \in DOMAIN mp : mp[p] # NoSpan => p \in H \/ \E s \in Used(sp) : p \in RunOf(sp, s)

\* Descriptors and page map agree.
Geometry(sp, mp, H) == Placed(sp) /\ Apart(sp) /\ Mapped(sp, mp, H)

\* The descriptors that are free and not in X, ...
Free(sp, X, loc) == {s \in Ids \ X : sp[s].loc = loc}

\* ... are on the lists of their length, and ...
Listed(sp, ls, X) ==
    \A k \in 0 .. kMaxPages :
        /\ Exactly(ls[k].normal, {s \in Free(sp, X, "NORMAL") : ListOf(sp[s].n) = k})
        /\ Exactly(ls[k].returned, {s \in Free(sp, X, "RETURNED") : ListOf(sp[s].n) = k})

\* ... are counted, the ones in F too.
Counted(h, X, F) ==
    /\ h.free = Weight(h.span, Free(h.span, X, "NORMAL") \cup F)
    /\ h.unmapped = Weight(h.span, Free(h.span, X, "RETURNED"))

\* The lists and the counts are those of the free spans.
Books(h, X, F) == Listed(h.span, h.lists, X) /\ Counted(h, X, F)

\* No neighbours are free in the same way.
Merged(sp, X) ==
    \A s, r \in Used(sp) \ X :
        sp[s].loc \in FreeLocs /\ End(sp, s) = sp[r].first => sp[s].loc # sp[r].loc

\* The heap with pages H and spans X in the hands of the operation under way, and
\* the spans F under release.
Good(h, H, X, F) ==
    /\ h \in Heaps
    /\ Geometry(h.span, h.map, H)
    /\ Books(h, X, F)
    /\ Merged(h.span, X)
    /\ h.system = Cardinality(Cover(h.span, Used(h.span)) \cup H)
    /\ F \subseteq InUse(h.span)

\* What the holders of the spans U see of the heap is the same in h and g.
Keeps(h, g, U) ==
    \A r \in U : /\ g.span[r] = h.span[r]
                 /\ \A p \in RunOf(h.span, r) : Leads(g.map, p) = Leads(h.map, p)

----------------------------------------------------------------------------
\* A run of n pages has n of them.
LEMMA RunFinite ==
    ASSUME NEW p \in Nat, NEW n \in Nat
    PROVE  IsFiniteSet(Run(p, n)) /\ Cardinality(Run(p, n)) = n
<1>1. p + n - 1 \in Int
  OBVIOUS
<1>2. /\ IsFiniteSet(p .. (p + n - 1))
      /\ Cardinality(p .. (p + n - 1)) = IF p > p + n - 1 THEN 0 ELSE (p + n - 1) - p + 1
  BY <1>1, FS_Interval
<1> QED
  BY <1>2 DEF Run

\* Descriptors are finitely many numbers.
LEMMA IdsFinite ==
    ASSUME NEW S \in SUBSET Ids
    PROVE  IsFiniteSet(S) /\ S \subseteq Nat
<1>1. IsFiniteSet(Ids)
  BY SystemAssumption, FS_Interval DEF Ids
<1>2. IsFiniteSet(S)
  BY <1>1, FS_Subset
<1>3. \A s \in Ids : s \in Nat
  BY SystemAssumption DEF Ids
<1> QED
  BY <1>2, <1>3

\* The pages of any spans are finitely many.
LEMMA CoverFinite ==
    ASSUME NEW sp \in SpanTables, NEW S \in SUBSET Ids
    PROVE  IsFiniteSet(Cover(sp, S)) /\ Weight(sp, S) \in Nat
<1>1. \A s \in Ids : sp[s].first \in Nat /\ sp[s].n \in Nat
  BY DEF SpanTables, Descriptors
<1> DEFINE B == {RunOf(sp, s) : s \in S}
<1>2. \A T \in B : IsFiniteSet(T)
  BY <1>1, RunFinite DEF RunOf
<1>3. IsFiniteSet(B)
  <2> DEFINE Op(s) == RunOf(sp, s)
  <2>1. IsFiniteSet(S)
    BY IdsFinite
  <2>2. PICK f : f = [s \in S |-> RunOf(sp, s)]
    OBVIOUS
  <2>3. f \in Surjection(S, B)
    BY <2>2 DEF Surjection
  <2> QED
    BY <2>1, <2>3, FS_Surjection
<1>4. IsFiniteSet(UNION B)
  BY <1>2, <1>3, FS_UNION
<1> QED
  BY <1>4, FS_CardinalityType DEF Cover, Weight

\* One more span, apart from the others, adds its pages.
LEMMA WeightAdd ==
    ASSUME NEW sp \in SpanTables, NEW S \in SUBSET Ids, NEW s \in Ids, s \notin S,
           \A r \in S : Clear(sp, s, r)
    PROVE  Weight(sp, S \cup {s}) = Weight(sp, S) + sp[s].n
<1>1. \A r \in Ids : sp[r].first \in Nat /\ sp[r].n \in Nat
  BY DEF SpanTables, Descriptors
<1>2. Cover(sp, S \cup {s}) = Cover(sp, S) \cup RunOf(sp, s)
  BY DEF Cover
<1>3. Cover(sp, S) \cap RunOf(sp, s) = {}
  <2> SUFFICES ASSUME NEW r \in S, NEW p \in RunOf(sp, r), p \in RunOf(sp, s)
               PROVE  FALSE
    BY DEF Cover
  <2> QED
    BY <1>1 DEF Clear, RunOf, Run, End
<1>4. IsFiniteSet(RunOf(sp, s)) /\ Cardinality(RunOf(sp, s)) = sp[s].n
  BY <1>1, RunFinite DEF RunOf
<1>5. IsFiniteSet(Cover(sp, S)) /\ Cardinality(Cover(sp, S)) \in Nat
  BY CoverFinite DEF Weight
<1>6. Cardinality(Cover(sp, S) \cup RunOf(sp, s))
        = Cardinality(Cover(sp, S)) + Cardinality(RunOf(sp, s)) - Cardinality({})
  BY <1>3, <1>4, <1>5, FS_Union, ZenonT(30)
<1>7. Cardinality({}) = 0
  BY FS_EmptySet
<1>8. Weight(sp, S \cup {s}) = Cardinality(Cover(sp, S) \cup RunOf(sp, s))
  BY <1>2 DEF Weight
<1>9. Weight(sp, S) = Cardinality(Cover(sp, S)) /\ Weight(sp, S) \in Nat
  BY <1>5 DEF Weight
<1>10. Weight(sp, S \cup {s}) = Weight(sp, S) + sp[s].n - 0
  BY <1>4, <1>6, <1>7, <1>8, <1>9, Zenon
<1> QED
  BY <1>1, <1>9, <1>10

\* The pages of spans that are the same are the same.
LEMMA WeightSame ==
    ASSUME NEW sp, NEW sq, NEW S, \A s \in S : sq[s] = sp[s]
    PROVE  Cover(sq, S) = Cover(sp, S) /\ Weight(sq, S) = Weight(sp, S)
<1>1. Cover(sq, S) = Cover(sp, S)
  BY DEF Cover, RunOf
<1> QED
  BY <1>1 DEF Weight

----------------------------------------------------------------------------
(***************************************************************************)
(* The page map finds the neighbours of a span.                            *)
(***************************************************************************)

\* The fields of a descriptor, and those of one in use.
LEMMA SpanNumbers ==
    ASSUME NEW sp \in SpanTables, Placed(sp)
    PROVE  /\ \A s \in Ids : sp[s].first \in Nat /\ sp[s].n \in Nat /\ sp[s].loc \in Locations
           /\ \A s \in Used(sp) : /\ s \in Ids /\ s # NoSpan
                                  /\ sp[s].n >= 1 /\ sp[s].first >= 1 /\ End(sp, s) <= AddressPages
BY SystemAssumption DEF SpanTables, Descriptors, Placed, Used, Ids, NoSpan

\* MergeIntoFreeList() finds the neighbour before a span: what the page map holds for
\* the page before it is that neighbour, or there is none; never a stale descriptor.
LEMMA SpanBefore ==
    ASSUME NEW sp \in SpanTables, NEW mp, NEW H, Geometry(sp, mp, H),
           NEW s \in Used(sp), sp[s].first - 1 \notin H,
           NEW r, r = Leads(mp, sp[s].first - 1)
    PROVE  /\ r # NoSpan => r \in Used(sp) /\ r # s /\ End(sp, r) = sp[s].first
           /\ r = NoSpan => \A t \in Used(sp) : End(sp, t) # sp[s].first
<1> USE SpanNumbers DEF Geometry
<1>1. CASE r # NoSpan
  <2>1. sp[s].first - 1 \in DOMAIN mp /\ mp[sp[s].first - 1] = r
    BY <1>1 DEF Leads
  <2>2. PICK t \in Used(sp) : sp[s].first - 1 \in RunOf(sp, t)
    BY <1>1, <2>1 DEF Mapped
  <2>3. t # s
    BY <2>2 DEF RunOf, Run
  <2>4. End(sp, t) = sp[s].first
    BY <2>2, <2>3 DEF RunOf, Run, End, Apart, Clear
  <2>5. mp[End(sp, t) - 1] = t
    BY DEF Mapped
  <2> QED
    BY <1>1, <2>1, <2>3, <2>4, <2>5
<1>2. CASE r = NoSpan
  <2> SUFFICES ASSUME NEW t \in Used(sp), End(sp, t) = sp[s].first
               PROVE  FALSE
    BY <1>2
  <2>1. mp[sp[s].first - 1] = t
    BY DEF Mapped
  <2>2. sp[s].first - 1 \in RunOf(sp, t)
    BY DEF RunOf, Run, End
  <2>3. sp[s].first - 1 \in DOMAIN mp
    BY <2>2 DEF Mapped
  <2> QED
    BY <1>2, <2>1, <2>3 DEF Leads
<1> QED
  BY <1>1, <1>2

\* The same for the neighbour behind a span.
LEMMA SpanAfter ==
    ASSUME NEW sp \in SpanTables, NEW mp, NEW H, Geometry(sp, mp, H),
           NEW s \in Used(sp), End(sp, s) \notin H,
           NEW r, r = Leads(mp, End(sp, s))
    PROVE  /\ r # NoSpan => r \in Used(sp) /\ r # s /\ sp[r].first = End(sp, s)
           /\ r = NoSpan => \A t \in Used(sp) : sp[t].first # End(sp, s)
<1> USE SpanNumbers DEF Geometry
<1>1. CASE r # NoSpan
  <2>1. End(sp, s) \in DOMAIN mp /\ mp[End(sp, s)] = r
    BY <1>1 DEF Leads
  <2>2. PICK t \in Used(sp) : End(sp, s) \in RunOf(sp, t)
    BY <1>1, <2>1 DEF Mapped
  <2>3. t # s
    BY <2>2 DEF RunOf, Run, End
  <2>4. sp[t].first = End(sp, s)
    BY <2>2, <2>3 DEF RunOf, Run, End, Apart, Clear
  <2>5. mp[sp[t].first] = t
    BY DEF Mapped
  <2> QED
    BY <1>1, <2>1, <2>3, <2>4, <2>5
<1>2. CASE r = NoSpan
  <2> SUFFICES ASSUME NEW t \in Used(sp), sp[t].first = End(sp, s)
               PROVE  FALSE
    BY <1>2
  <2>1. mp[End(sp, s)] = t
    BY DEF Mapped
  <2>2. End(sp, s) \in RunOf(sp, t)
    BY DEF RunOf, Run, End
  <2>3. End(sp, s) \in DOMAIN mp
    BY <2>2 DEF Mapped
  <2> QED
    BY <1>2, <2>1, <2>3 DEF Leads
<1> QED
  BY <1>1, <1>2

----------------------------------------------------------------------------
(***************************************************************************)
(* How the tables change: a span takes in its neighbour, ...               *)
(***************************************************************************)

\* s and gone are neighbours that start at f, and e is the end of gone away from s.
Joins(sp, s, gone, f, e) ==
    /\ s \in Used(sp) /\ gone \in Used(sp) /\ s # gone /\ f \in Nat /\ e \in Nat
    /\ \/ End(sp, gone) = sp[s].first /\ f = sp[gone].first /\ e = f
       \/ /\ End(sp, s) = sp[gone].first /\ f = sp[s].first
          /\ e = f + sp[s].n + sp[gone].n - 1

\* In sq, s has the pages of both and the descriptor gone is free for another span.
Joined(sp, sq, s, gone, f) ==
    /\ sp \in SpanTables /\ sq \in SpanTables
    /\ sq[gone] = Unused
    /\ sq[s].first = f /\ sq[s].n = sp[s].n + sp[gone].n /\ sq[s].loc = sp[s].loc
    /\ \A t \in Ids : t # s /\ t # gone => sq[t] = sp[t]

\* In sq, s has n pages from f on.
Covers(sp, sq, s, f, n) ==
    /\ sp \in SpanTables /\ sq \in SpanTables
    /\ sq[s].first = f /\ sq[s].n = n /\ sq[s].loc # "DELETED"
    /\ \A t \in Ids : t # s => sq[t] = sp[t]

\* n pages from f on that are in H, or in the span s.
Fits(H, f, n) ==
    f \in Nat /\ n \in Nat /\ n >= 1 /\ f >= 1 /\ f + n <= AddressPages /\ Run(f, n) \subseteq H
Within(sp, s, f, n) ==
    f \in Nat /\ n \in Nat /\ n >= 1 /\ sp[s].first <= f /\ f + n <= End(sp, s)

\* The page map with s at one page, at both ends of n pages, or at all pages of s.
Pointing(mp, e, s) == [q \in DOMAIN mp |-> IF q = e THEN s ELSE mp[q]]
Ending(mp, f, n, s) == [q \in DOMAIN mp |-> IF q = f \/ q = f + n - 1 THEN s ELSE mp[q]]
Filling(mp, sp, s) == [q \in DOMAIN mp |-> IF q \in RunOf(sp, s) THEN s ELSE mp[q]]

\* s is no span's descriptor, and becomes one; the pages of H that are left.
Spare(sp, s) == s \in Ids /\ s \notin Used(sp)
Gains(sp, sq, s) == Used(sq) = Used(sp) \cup {s}
Without(H, f, n) == H \ Run(f, n)

\* The pages in H and no span's are now those in G.
Handed(sp, sq, mq, H, G) ==
    Geometry(sq, mq, G) /\ Cover(sq, Used(sq)) \cup G = Cover(sp, Used(sp)) \cup H

\* A span takes in its neighbour, whose descriptor is deleted: one entry of the page
\* map is enough.
LEMMA GeometryJoin ==
    ASSUME NEW sp, NEW sq, NEW mp, NEW mq, NEW H, Geometry(sp, mp, H),
           NEW s, NEW gone, NEW f, NEW e,
           Joins(sp, s, gone, f, e), Joined(sp, sq, s, gone, f), mq = Pointing(mp, e, s)
    PROVE  /\ Geometry(sq, mq, H)
           /\ Used(sq) = Used(sp) \ {gone}
           /\ Cover(sq, Used(sq)) = Cover(sp, Used(sp))
           /\ InUse(sq) = InUse(sp) \ {gone}
<1> USE SpanNumbers DEF Geometry, Joins, Joined, Pointing
<1>1. Used(sq) = Used(sp) \ {gone} /\ InUse(sq) = InUse(sp) \ {gone}
  BY DEF Used, InUse, Unused
<1>2. Placed(sq)
  <2> SUFFICES ASSUME NEW t \in Ids
               PROVE  IF sq[t].loc = "DELETED" THEN sq[t] = Unused
                      ELSE sq[t].n >= 1 /\ sq[t].first >= 1 /\ End(sq, t) <= AddressPages
    BY DEF Placed
  <2>1. CASE t = gone
    BY <2>1 DEF Unused
  <2>2. CASE t = s
    BY <2>2 DEF End, Used
  <2>3. CASE t # s /\ t # gone
    BY <2>3 DEF Placed, End
  <2> QED
    BY <2>1, <2>2, <2>3
<1>3. RunOf(sq, s) = RunOf(sp, s) \cup RunOf(sp, gone)
  BY DEF RunOf, Run, End
<1>4. \A t \in Used(sq) : t # s => RunOf(sq, t) = RunOf(sp, t)
  BY <1>1 DEF RunOf, Used
<1>5. Cover(sq, Used(sq)) = Cover(sp, Used(sp))
  <2>1. \A p \in Cover(sp, Used(sp)) : p \in Cover(sq, Used(sq))
    BY <1>1, <1>3, <1>4 DEF Cover
  <2>2. \A p \in Cover(sq, Used(sq)) : p \in Cover(sp, Used(sp))
    BY <1>1, <1>3, <1>4 DEF Cover
  <2> QED
    BY <2>1, <2>2
<1>6. Apart(sq)
  <2>1. \A t \in Used(sq) : t # s => Clear(sq, s, t)
    <3> SUFFICES ASSUME NEW t \in Used(sq), t # s
                 PROVE  Clear(sq, s, t)
      OBVIOUS
    <3>1. sq[t] = sp[t] /\ t \in Used(sp) /\ t # gone
      BY <1>1 DEF Used
    <3>2. Clear(sp, s, t) /\ Clear(sp, gone, t) /\ sp[t].n >= 1 /\ sp[t].first \in Nat /\ sp[t].n \in Nat
      BY <3>1 DEF Apart, Used
    <3> QED
      BY <3>1, <3>2 DEF Clear, End
  <2>2. \A t, u \in Used(sq) : t # u /\ t # s /\ u # s => Clear(sq, t, u)
    BY <1>1 DEF Apart, Clear, End, Used
  <2> QED
    BY <2>1, <2>2 DEF Apart, Clear
<1>7. Mapped(sq, mq, H)
  <2>1. DOMAIN mq = DOMAIN mp
    OBVIOUS
  <2>2. \A t \in Used(sq) : RunOf(sq, t) \subseteq DOMAIN mp /\ RunOf(sq, t) \cap H = {}
    BY <1>1, <1>3, <1>4 DEF Mapped
  <2>3. \A t \in Used(sp) : /\ sp[t].first \in DOMAIN mp /\ End(sp, t) - 1 \in DOMAIN mp
                            /\ mp[sp[t].first] = t /\ mp[End(sp, t) - 1] = t
    <3> SUFFICES ASSUME NEW t \in Used(sp)
                 PROVE  sp[t].first \in DOMAIN mp /\ End(sp, t) - 1 \in DOMAIN mp
      BY DEF Mapped
    <3>1. sp[t].first \in RunOf(sp, t) /\ End(sp, t) - 1 \in RunOf(sp, t)
      BY DEF RunOf, Run, End, Used
    <3> QED
      BY <3>1 DEF Mapped
  <2>4. mq[sq[s].first] = s /\ mq[End(sq, s) - 1] = s
    BY <2>3 DEF End
  <2>5. \A t \in Used(sq) : t # s => mq[sq[t].first] = t /\ mq[End(sq, t) - 1] = t
    <3> SUFFICES ASSUME NEW t \in Used(sq), t # s
                 PROVE  mq[sq[t].first] = t /\ mq[End(sq, t) - 1] = t
      OBVIOUS
    <3>1. sq[t] = sp[t] /\ t \in Used(sp) /\ End(sq, t) = End(sp, t)
      BY <1>1 DEF Used, End
    <3>2. e \in RunOf(sq, s)
      BY DEF RunOf, Run, End
    <3>3. sq[t].first # e /\ End(sq, t) - 1 # e
      BY <1>6, <3>1, <3>2, <1>1 DEF Apart, Clear, RunOf, Run, End
    <3> QED
      BY <2>3, <3>1, <3>3
  <2>6. \A p \in DOMAIN mp : mq[p] # NoSpan => p \in H \/ \E t \in Used(sq) : p \in RunOf(sq, t)
    <3> SUFFICES ASSUME NEW p \in DOMAIN mp, mq[p] # NoSpan, p \notin H
                 PROVE  \E t \in Used(sq) : p \in RunOf(sq, t)
      OBVIOUS
    <3>1. CASE p = e
      BY <1>1, <3>1 DEF RunOf, Run, End
    <3>2. CASE p # e
      <4>1. PICK t \in Used(sp) : p \in RunOf(sp, t)
        BY <3>2 DEF Mapped
      <4> QED
        BY <1>1, <1>3, <1>4, <4>1
    <3> QED
      BY <3>1, <3>2
  <2> QED
    BY <2>1, <2>2, <2>4, <2>5, <2>6 DEF Mapped
<1> QED
  BY <1>1, <1>2, <1>5, <1>6, <1>7

(***************************************************************************)
(* ... a span is made of pages that have left another, ...                 *)
(***************************************************************************)
LEMMA GeometryAdd ==
    ASSUME NEW sp, NEW sq, NEW mp, NEW mq, NEW H, Geometry(sp, mp, H),
           NEW s, Spare(sp, s), NEW f, NEW n,
           Fits(H, f, n), Covers(sp, sq, s, f, n), mq = Ending(mp, f, n, s)
    PROVE  Handed(sp, sq, mq, H, Without(H, f, n)) /\ Gains(sp, sq, s)
<1> USE SpanNumbers DEF Geometry, Fits, Covers, Ending, Spare, Without, Gains
<1>1. Used(sq) = Used(sp) \cup {s}
  BY DEF Used
<1>2. Placed(sq)
  <2> SUFFICES ASSUME NEW t \in Ids
               PROVE  IF sq[t].loc = "DELETED" THEN sq[t] = Unused
                      ELSE sq[t].n >= 1 /\ sq[t].first >= 1 /\ End(sq, t) <= AddressPages
    BY DEF Placed
  <2>1. CASE t = s
    BY <2>1 DEF End
  <2>2. CASE t # s
    BY <2>2 DEF Placed, End
  <2> QED
    BY <2>1, <2>2
<1>3. RunOf(sq, s) = Run(f, n)
  BY DEF RunOf
<1>4. \A t \in Used(sp) : t # s /\ sq[t] = sp[t] /\ RunOf(sq, t) = RunOf(sp, t) /\ End(sq, t) = End(sp, t)
  BY DEF RunOf, Used, End
<1>5. \A t \in Used(sp) : RunOf(sp, t) \cap Run(f, n) = {}
  BY DEF Mapped
<1>6. Cover(sq, Used(sq)) \cup (H \ Run(f, n)) = Cover(sp, Used(sp)) \cup H
  <2>1. \A p \in Cover(sq, Used(sq)) : p \in Cover(sp, Used(sp)) \cup H
    BY <1>1, <1>3, <1>4 DEF Cover
  <2>2. \A p \in Cover(sp, Used(sp)) : p \in Cover(sq, Used(sq))
    BY <1>1, <1>4 DEF Cover
  <2>3. \A p \in Run(f, n) : p \in Cover(sq, Used(sq))
    BY <1>1, <1>3 DEF Cover
  <2> QED
    BY <2>1, <2>2, <2>3
<1>7. Apart(sq)
  <2>2. \A t \in Used(sp) : End(sp, t) <= f \/ f + n <= sp[t].first
    <3> SUFFICES ASSUME NEW t \in Used(sp), sp[t].first < f + n, f < End(sp, t)
                 PROVE  FALSE
      BY DEF Used, End
    <3>1. CASE sp[t].first <= f
      <4>1. f \in RunOf(sp, t) /\ f \in Run(f, n)
        BY <3>1 DEF RunOf, Run, End, Used
      <4> QED
        BY <4>1, <1>5
    <3>2. CASE f < sp[t].first
      <4>1. sp[t].first \in RunOf(sp, t) /\ sp[t].first \in Run(f, n)
        BY <3>2 DEF RunOf, Run, End, Used
      <4> QED
        BY <4>1, <1>5
    <3> QED
      BY <3>1, <3>2 DEF Used
  <2>3. \A t \in Used(sp) : Clear(sq, s, t) /\ Clear(sq, t, s)
    BY <1>4, <2>2 DEF Clear, End
  <2>4. \A t, u \in Used(sp) : t # u => Clear(sq, t, u)
    BY <1>4 DEF Apart, Clear
  <2> QED
    BY <1>1, <2>3, <2>4 DEF Apart
<1>8. Mapped(sq, mq, H \ Run(f, n))
  <2>1. DOMAIN mq = DOMAIN mp /\ H \subseteq DOMAIN mp
    BY DEF Mapped
  <2>2. \A t \in Used(sq) : RunOf(sq, t) \subseteq DOMAIN mp /\ RunOf(sq, t) \cap (H \ Run(f, n)) = {}
    BY <1>1, <1>3, <1>4, <2>1 DEF Mapped
  <2>3. f \in Run(f, n) /\ f + n - 1 \in Run(f, n)
    BY DEF Run
  <2>4. mq[sq[s].first] = s /\ mq[End(sq, s) - 1] = s
    BY <2>1, <2>3 DEF End
  <2>5. \A t \in Used(sp) : mq[sq[t].first] = t /\ mq[End(sq, t) - 1] = t
    <3> SUFFICES ASSUME NEW t \in Used(sp)
                 PROVE  mq[sp[t].first] = t /\ mq[End(sp, t) - 1] = t
      BY <1>4
    <3>1. sp[t].first \in RunOf(sp, t) /\ End(sp, t) - 1 \in RunOf(sp, t)
      BY DEF RunOf, Run, End, Used
    <3>2. sp[t].first \notin Run(f, n) /\ End(sp, t) - 1 \notin Run(f, n)
      BY <1>5, <3>1
    <3> QED
      BY <2>3, <3>1, <3>2 DEF Mapped
  <2>6. \A p \in DOMAIN mp : mq[p] # NoSpan =>
            p \in H \ Run(f, n) \/ \E t \in Used(sq) : p \in RunOf(sq, t)
    <3> SUFFICES ASSUME NEW p \in DOMAIN mp, mq[p] # NoSpan, p \notin H \ Run(f, n)
                 PROVE  \E t \in Used(sq) : p \in RunOf(sq, t)
      OBVIOUS
    <3>1. CASE p \in Run(f, n)
      BY <1>1, <1>3, <3>1
    <3>2. CASE p \notin Run(f, n)
      <4>1. mp[p] # NoSpan /\ p \notin H
        BY <2>3, <3>2
      <4>2. PICK t \in Used(sp) : p \in RunOf(sp, t)
        BY <4>1 DEF Mapped
      <4> QED
        BY <1>1, <1>4, <4>2
    <3> QED
      BY <3>1, <3>2
  <2> QED
    BY <1>1, <2>1, <2>2, <2>4, <2>5, <2>6 DEF Mapped
<1> QED
  BY <1>1, <1>2, <1>6, <1>7, <1>8 DEF Handed

(***************************************************************************)
(* ... a span is cut to some of its pages, ...                             *)
(***************************************************************************)
LEMMA GeometryCut ==
    ASSUME NEW sp, NEW sq, NEW mp, NEW mq, NEW H, Geometry(sp, mp, H),
           NEW s, s \in Used(sp), NEW f, NEW n,
           Within(sp, s, f, n), Covers(sp, sq, s, f, n), mq = Ending(mp, f, n, s),
           NEW D, D = RunOf(sp, s) \ Run(f, n)
    PROVE  Handed(sp, sq, mq, H, H \cup D) /\ Used(sq) = Used(sp)
<1> USE SpanNumbers DEF Geometry, Within, Covers, Ending
<1>1. Used(sq) = Used(sp)
  BY DEF Used
<1>2. Placed(sq)
  <2> SUFFICES ASSUME NEW t \in Ids
               PROVE  IF sq[t].loc = "DELETED" THEN sq[t] = Unused
                      ELSE sq[t].n >= 1 /\ sq[t].first >= 1 /\ End(sq, t) <= AddressPages
    BY DEF Placed
  <2>1. CASE t = s
    BY <2>1, SystemAssumption DEF End, Used
  <2>2. CASE t # s
    BY <2>2 DEF Placed, End
  <2> QED
    BY <2>1, <2>2
<1>3. RunOf(sq, s) = Run(f, n) /\ Run(f, n) \subseteq RunOf(sp, s)
  BY DEF RunOf, Run, End, Used
<1>4. \A t \in Used(sp) : t # s => sq[t] = sp[t] /\ RunOf(sq, t) = RunOf(sp, t) /\ End(sq, t) = End(sp, t)
  BY DEF RunOf, Used, End
<1>5. \A t \in Used(sp) : t # s => RunOf(sp, t) \cap RunOf(sp, s) = {}
  BY DEF Apart, Clear, RunOf, Run, End, Used
<1>6. Cover(sq, Used(sq)) \cup (H \cup D) = Cover(sp, Used(sp)) \cup H
  <2>1. \A p \in Cover(sq, Used(sq)) \cup D : p \in Cover(sp, Used(sp))
    BY <1>1, <1>3, <1>4 DEF Cover
  <2>2. \A p \in Cover(sp, Used(sp)) : p \in Cover(sq, Used(sq)) \cup D
    BY <1>1, <1>3, <1>4 DEF Cover
  <2> QED
    BY <2>1, <2>2
<1>7. Apart(sq)
  <2>1. \A t \in Used(sp) : t # s => Clear(sp, s, t)
    BY DEF Apart
  <2>2. \A t \in Used(sp) : t # s => Clear(sq, s, t) /\ Clear(sq, t, s)
    BY <1>4, <2>1 DEF Clear, End, Used
  <2>3. \A t, u \in Used(sp) : t # u /\ t # s /\ u # s => Clear(sq, t, u)
    BY <1>4 DEF Apart, Clear
  <2> QED
    BY <1>1, <2>2, <2>3 DEF Apart
<1>8. Mapped(sq, mq, H \cup D)
  <2>1. DOMAIN mq = DOMAIN mp /\ H \cup D \subseteq DOMAIN mp
    BY DEF Mapped
  <2>2. \A t \in Used(sq) : RunOf(sq, t) \subseteq DOMAIN mp /\ RunOf(sq, t) \cap (H \cup D) = {}
    BY <1>1, <1>3, <1>4, <1>5, <2>1 DEF Mapped
  <2>3. f \in Run(f, n) /\ f + n - 1 \in Run(f, n)
    BY DEF Run
  <2>4. mq[sq[s].first] = s /\ mq[End(sq, s) - 1] = s
    BY <1>1, <1>3, <2>1, <2>2, <2>3 DEF End
  <2>5. \A t \in Used(sp) : t # s => mq[sq[t].first] = t /\ mq[End(sq, t) - 1] = t
    <3> SUFFICES ASSUME NEW t \in Used(sp), t # s
                 PROVE  mq[sp[t].first] = t /\ mq[End(sp, t) - 1] = t
      BY <1>4
    <3>1. sp[t].first \in RunOf(sp, t) /\ End(sp, t) - 1 \in RunOf(sp, t)
      BY DEF RunOf, Run, End, Used
    <3>2. sp[t].first \notin Run(f, n) /\ End(sp, t) - 1 \notin Run(f, n)
      BY <1>3, <1>5, <3>1
    <3> QED
      BY <2>3, <3>1, <3>2 DEF Mapped
  <2>6. \A p \in DOMAIN mp : mq[p] # NoSpan =>
            p \in H \cup D \/ \E t \in Used(sq) : p \in RunOf(sq, t)
    <3> SUFFICES ASSUME NEW p \in DOMAIN mp, mq[p] # NoSpan, p \notin H \cup D
                 PROVE  \E t \in Used(sq) : p \in RunOf(sq, t)
      OBVIOUS
    <3>1. CASE p \in Run(f, n)
      BY <1>1, <1>3, <3>1
    <3>2. CASE p \notin Run(f, n)
      <4>1. mp[p] # NoSpan /\ p \notin H
        BY <2>3, <3>2
      <4>2. PICK t \in Used(sp) : p \in RunOf(sp, t)
        BY <4>1 DEF Mapped
      <4> QED
        BY <1>1, <1>3, <1>4, <3>2, <4>2
    <3> QED
      BY <3>1, <3>2
  <2> QED
    BY <1>1, <2>1, <2>2, <2>4, <2>5, <2>6 DEF Mapped
<1> QED
  BY <1>1, <1>2, <1>6, <1>7, <1>8 DEF Handed

(***************************************************************************)
(* ... only the location of spans changes, ...                             *)
(***************************************************************************)
LEMMA GeometryLoc ==
    ASSUME NEW sp, NEW sq, NEW mp, NEW H, Geometry(sp, mp, H), NEW s, s \in Used(sp),
           NEW f, NEW n, f = sp[s].first, n = sp[s].n, Covers(sp, sq, s, f, n)
    PROVE  /\ Geometry(sq, mp, H)
           /\ Used(sq) = Used(sp)
           /\ Cover(sq, Used(sq)) = Cover(sp, Used(sp))
<1> USE DEF Covers
<1>1. Used(sq) = Used(sp)
  BY DEF Used
<1>2. \A t \in Used(sp) : /\ sq[t].first = sp[t].first /\ sq[t].n = sp[t].n
                          /\ End(sq, t) = End(sp, t) /\ RunOf(sq, t) = RunOf(sp, t)
  BY DEF Used, End, RunOf
<1>3. Placed(sq)
  BY <1>2 DEF Geometry, Placed, Used
<1>4. Apart(sq)
  BY <1>1, <1>2 DEF Geometry, Apart, Clear
<1>5. Mapped(sq, mp, H)
  BY <1>1, <1>2 DEF Geometry, Mapped
<1>6. Cover(sq, Used(sq)) = Cover(sp, Used(sp))
  BY <1>1, <1>2 DEF Cover
<1> QED
  BY <1>1, <1>3, <1>4, <1>5, <1>6 DEF Geometry

(***************************************************************************)
(* ... and the page map gets leaves for new pages, or leads from all pages *)
(* of a span to it.                                                        *)
(***************************************************************************)
LEMMA GeometryGrow ==
    ASSUME NEW sp \in SpanTables, NEW mp, NEW mq, NEW H, NEW D,
           Geometry(sp, mp, H), D \cap Cover(sp, Used(sp)) = {},
           DOMAIN mp \cup D \subseteq DOMAIN mq,
           \A q \in DOMAIN mq : mq[q] = Leads(mp, q)
    PROVE  Geometry(sp, mq, H \cup D)
<1> USE SpanNumbers DEF Geometry
<1>1. \A s \in Used(sp) : RunOf(sp, s) \subseteq DOMAIN mp /\ RunOf(sp, s) \cap (H \cup D) = {}
  BY DEF Mapped, Cover
<1>2. \A s \in Used(sp) : mq[sp[s].first] = s /\ mq[End(sp, s) - 1] = s
  <2> SUFFICES ASSUME NEW s \in Used(sp)
               PROVE  mq[sp[s].first] = s /\ mq[End(sp, s) - 1] = s
    OBVIOUS
  <2>1. sp[s].first \in RunOf(sp, s) /\ End(sp, s) - 1 \in RunOf(sp, s)
    BY DEF RunOf, Run, End, Used
  <2> QED
    BY <1>1, <2>1 DEF Mapped, Leads
<1>3. Mapped(sp, mq, H \cup D)
  BY <1>1, <1>2 DEF Mapped, Leads
<1> QED
  BY <1>3

\* RegisterSizeClass() enters every page of a span in the page map.
LEMMA GeometryRegister ==
    ASSUME NEW sp \in SpanTables, NEW mp, NEW mq, NEW H,
           Geometry(sp, mp, H), NEW s \in Used(sp),
           mq = Filling(mp, sp, s)
    PROVE  /\ Geometry(sp, mq, H)
           /\ \A p \in RunOf(sp, s) : p \in DOMAIN mq /\ mq[p] = s
           /\ \A t \in Used(sp) : t # s => \A p \in RunOf(sp, t) : Leads(mq, p) = Leads(mp, p)
<1> USE SpanNumbers DEF Geometry, Filling
<1>1. \A t \in Used(sp) : t # s => RunOf(sp, t) \cap RunOf(sp, s) = {}
  BY DEF Apart, Clear, RunOf, Run, End, Used
<1>2. \A t \in Used(sp) : mq[sp[t].first] = t /\ mq[End(sp, t) - 1] = t
  <2> SUFFICES ASSUME NEW t \in Used(sp)
               PROVE  mq[sp[t].first] = t /\ mq[End(sp, t) - 1] = t
    OBVIOUS
  <2>1. sp[t].first \in RunOf(sp, t) /\ End(sp, t) - 1 \in RunOf(sp, t)
    BY DEF RunOf, Run, End, Used
  <2> QED
    BY <1>1, <2>1 DEF Mapped
<1>3. Mapped(sp, mq, H)
  BY <1>2 DEF Mapped
<1>4. \A t \in Used(sp) : t # s => \A p \in RunOf(sp, t) : Leads(mq, p) = Leads(mp, p)
  BY <1>1 DEF Leads
<1> QED
  BY <1>3, <1>4 DEF Mapped

----------------------------------------------------------------------------
(***************************************************************************)
(* The books: the lists and the counts.                                    *)
(***************************************************************************)

\* The fields of a heap.
LEMMA HeapFields ==
    ASSUME NEW h \in Heaps
    PROVE  /\ h.span \in SpanTables /\ h.map \in PageMaps /\ h.lists \in ListTables
           /\ h.free \in Int /\ h.unmapped \in Int /\ h.system \in Int
           /\ h.index \in 0 .. kMaxPages
BY DEF Heaps

\* The lists with another one of length k.
Lengths == 0 .. kMaxPages
PutNormal(l, k, x) == [l EXCEPT ![k].normal = x]
PutReturned(l, k, x) == [l EXCEPT ![k].returned = x]
HasNormal(l, k, x, m) ==
    /\ m \in ListTables /\ m[k].normal = x
    /\ \A j \in 0 .. kMaxPages : j # k => m[j].normal = l[j].normal
    /\ \A j \in 0 .. kMaxPages : m[j].returned = l[j].returned
HasReturned(l, k, x, m) ==
    /\ m \in ListTables /\ m[k].returned = x
    /\ \A j \in 0 .. kMaxPages : j # k => m[j].returned = l[j].returned
    /\ \A j \in 0 .. kMaxPages : m[j].normal = l[j].normal

\* Replacing a normal list leaves the others.
LEMMA WithNormal ==
    ASSUME NEW l, l \in ListTables, NEW k, k \in Lengths, NEW x, x \in Seq(Ids)
    PROVE  HasNormal(l, k, x, PutNormal(l, k, x))
BY DEF ListTables, ListPairs, Lengths, PutNormal, HasNormal

\* Replacing a returned list leaves the others.
LEMMA WithReturned ==
    ASSUME NEW l, l \in ListTables, NEW k, k \in Lengths, NEW x, x \in Seq(Ids)
    PROVE  HasReturned(l, k, x, PutReturned(l, k, x))
BY DEF ListTables, ListPairs, Lengths, PutReturned, HasReturned

\* Books that say nothing of the spans that change stay right.
LEMMA BooksFrame ==
    ASSUME NEW h \in Heaps, NEW g \in Heaps, NEW X, NEW Y, NEW F \in SUBSET Ids,
           Books(h, X, F),
           g.lists = h.lists, g.free = h.free, g.unmapped = h.unmapped,
           \A t \in F : g.span[t] = h.span[t],
           \A t \in Ids : t \notin X /\ h.span[t].loc \in FreeLocs =>
                              t \notin Y /\ g.span[t] = h.span[t],
           \A t \in Ids : t \notin Y /\ g.span[t].loc \in FreeLocs =>
                              t \notin X /\ g.span[t] = h.span[t]
    PROVE  Books(g, Y, F)
<1> DEFINE sp == h.span
           sq == g.span
<1>1. /\ Free(sq, Y, "NORMAL") = Free(sp, X, "NORMAL")
      /\ Free(sq, Y, "RETURNED") = Free(sp, X, "RETURNED")
  BY DEF Free, FreeLocs
<1>2. \A t \in Free(sp, X, "NORMAL") \cup F \cup Free(sp, X, "RETURNED") : sq[t] = sp[t]
  BY DEF Free, FreeLocs
<1>3. /\ Weight(sq, Free(sp, X, "NORMAL") \cup F) = Weight(sp, Free(sp, X, "NORMAL") \cup F)
      /\ Weight(sq, Free(sp, X, "RETURNED")) = Weight(sp, Free(sp, X, "RETURNED"))
  <2>1. \A S : (\A t \in S : sq[t] = sp[t]) => Weight(sq, S) = Weight(sp, S)
    BY WeightSame, Zenon
  <2> HIDE DEF sp, sq
  <2> QED
    BY <1>2, <2>1
<1>4. Counted(g, Y, F)
  BY <1>1, <1>3 DEF Books, Counted
<1>5. Listed(sq, g.lists, Y)
  <2> SUFFICES ASSUME NEW k \in 0 .. kMaxPages
               PROVE  /\ Exactly(g.lists[k].normal, {s \in Free(sq, Y, "NORMAL") : ListOf(sq[s].n) = k})
                      /\ Exactly(g.lists[k].returned, {s \in Free(sq, Y, "RETURNED") : ListOf(sq[s].n) = k})
    BY DEF Listed
  <2>1. /\ {s \in Free(sq, Y, "NORMAL") : ListOf(sq[s].n) = k}
             = {s \in Free(sp, X, "NORMAL") : ListOf(sp[s].n) = k}
        /\ {s \in Free(sq, Y, "RETURNED") : ListOf(sq[s].n) = k}
             = {s \in Free(sp, X, "RETURNED") : ListOf(sp[s].n) = k}
    BY <1>1, <1>2
  <2> QED
    BY <2>1 DEF Books, Listed
<1> QED
  BY <1>4, <1>5 DEF Books

\* Every length has a list.
LEMMA ListOfRange ==
    ASSUME NEW n \in Nat
    PROVE  ListOf(n) \in 0 .. kMaxPages
BY PageHeapAssumption DEF ListOf

\* s is apart from the spans that are counted.
ClearOf(sp, s, F) ==
    \A t \in Ids : t # s /\ (t \in F \/ sp[t].loc \in FreeLocs) => Clear(sp, s, t)

\* RemoveFromFreeList() takes a span off the books ...
LEMMA RemoveBooks ==
    ASSUME NEW h \in Heaps, NEW X, NEW F \in SUBSET Ids, Books(h, X, F),
           NEW s \in Ids, s \notin X, s \notin F, h.span[s].loc \in FreeLocs,
           ClearOf(h.span, s, F),
           NEW g, g = RemoveFromFreeList(h, s)
    PROVE  /\ g \in Heaps /\ Books(g, X \cup {s}, F)
           /\ g.span = h.span /\ g.map = h.map /\ g.system = h.system /\ g.index = h.index
           /\ h.span[s].loc = "NORMAL" => g.free = h.free - h.span[s].n
<1> USE DEF ClearOf
<1> DEFINE sp == h.span
           d == h.span[s]
           k == ListOf(d.n)
<1>1. /\ sp \in SpanTables /\ h.lists \in ListTables /\ h.free \in Int /\ h.unmapped \in Int
      /\ d.n \in Nat /\ k \in 0 .. kMaxPages
      /\ h.lists[k].normal \in Seq(Ids) /\ h.lists[k].returned \in Seq(Ids)
  BY HeapFields, ListOfRange DEF SpanTables, Descriptors, ListTables, ListPairs
<1> DEFINE N == Free(sp, X, "NORMAL")
           R == Free(sp, X, "RETURNED")
<1>2. N \subseteq Ids /\ R \subseteq Ids
  BY DEF Free
<1>3. CASE d.loc = "NORMAL"
  <2> DEFINE q == Unlink(h.lists[k].normal, s)
             l == [h.lists EXCEPT ![k].normal = q]
  <2>1. s \in N /\ s \notin R
    BY <1>3 DEF Free
  <2>2. Exactly(h.lists[k].normal, {t \in N : ListOf(sp[t].n) = k})
    BY <1>1 DEF Books, Listed
  <2>3. q \in Seq(Ids) /\ Exactly(q, {t \in N : ListOf(sp[t].n) = k} \ {s})
    BY <1>1, <2>1, <2>2, UnlinkExact
  <2>5. g = [h EXCEPT !.free = h.free - d.n, !.lists = l]
    BY <1>3 DEF RemoveFromFreeList, Heaps
  <2>0. l = PutNormal(h.lists, k, q)
    BY DEF PutNormal
  <2> HIDE DEF q, l
  <2>4. /\ l \in ListTables /\ l[k].normal = q
        /\ \A j \in 0 .. kMaxPages : j # k => l[j].normal = h.lists[j].normal
        /\ \A j \in 0 .. kMaxPages : l[j].returned = h.lists[j].returned
    <3>1. h.lists \in ListTables /\ k \in Lengths /\ q \in Seq(Ids)
      BY <1>1, <2>3 DEF Lengths
    <3>2. HasNormal(h.lists, k, q, l)
      BY <2>0, <3>1, WithNormal, Zenon
    <3> QED
      BY <3>2 DEF HasNormal
  <2>6. /\ g \in Heaps /\ g.free = h.free - d.n /\ g.lists = l
        /\ g.span = h.span /\ g.map = h.map
        /\ g.unmapped = h.unmapped /\ g.system = h.system /\ g.index = h.index
    <3>1. PICK x \in Int : x = h.free - d.n
      BY <1>1
    <3>2. g = [h EXCEPT !.free = x, !.lists = l]
      BY <2>5, <3>1
    <3>3. l \in ListTables
      BY <2>4
    <3>4. /\ g \in Heaps /\ g.free = x /\ g.lists = l
          /\ g.span = h.span /\ g.map = h.map
          /\ g.unmapped = h.unmapped /\ g.system = h.system /\ g.index = h.index
      BY <3>2, <3>3 DEF Heaps
    <3> QED
      BY <3>1, <3>4
  <2>7. Free(sp, X \cup {s}, "NORMAL") = N \ {s} /\ Free(sp, X \cup {s}, "RETURNED") = R
    BY <1>3 DEF Free
  <2>8. Listed(sp, l, X \cup {s})
    <3> SUFFICES ASSUME NEW j \in 0 .. kMaxPages
                 PROVE  /\ Exactly(l[j].normal, {t \in N \ {s} : ListOf(sp[t].n) = j})
                        /\ Exactly(l[j].returned, {t \in R : ListOf(sp[t].n) = j})
      BY <2>7 DEF Listed
    <3>1. Exactly(l[j].returned, {t \in R : ListOf(sp[t].n) = j})
      BY <2>4 DEF Books, Listed
    <3>2. CASE j = k
      <4>1. {t \in N \ {s} : ListOf(sp[t].n) = k} = {t \in N : ListOf(sp[t].n) = k} \ {s}
        OBVIOUS
      <4> QED
        BY <2>3, <2>4, <3>1, <3>2, <4>1
    <3>3. CASE j # k
      <4>1. {t \in N \ {s} : ListOf(sp[t].n) = j} = {t \in N : ListOf(sp[t].n) = j}
        BY <3>3
      <4>2. Exactly(h.lists[j].normal, {t \in N : ListOf(sp[t].n) = j})
        BY DEF Books, Listed
      <4> QED
        BY <2>4, <3>1, <3>3, <4>1, <4>2
    <3> QED
      BY <3>2, <3>3
  <2>9. Weight(sp, N \cup F) = Weight(sp, (N \ {s}) \cup F) + d.n
    <3> DEFINE S == (N \ {s}) \cup F
    <3>1. S \subseteq Ids /\ s \notin S /\ N \cup F = S \cup {s}
      BY <1>2, <2>1
    <3>2. \A t \in S : Clear(sp, s, t)
      BY <3>1 DEF Free, FreeLocs
    <3> HIDE DEF S
    <3>3. Weight(sp, S \cup {s}) = Weight(sp, S) + sp[s].n
      BY <1>1, <3>1, <3>2, WeightAdd
    <3> QED
      BY <3>1, <3>3 DEF S
  <2>10. Weight(sp, (N \ {s}) \cup F) \in Nat
    BY <1>1, <1>2, CoverFinite
  <2>11. Counted(g, X \cup {s}, F)
    <3>1. h.free = Weight(sp, N \cup F) /\ h.unmapped = Weight(sp, R)
      BY DEF Books, Counted
    <3>2. h.free - d.n = Weight(sp, (N \ {s}) \cup F)
      BY <1>1, <2>9, <2>10, <3>1
    <3> QED
      BY <2>6, <2>7, <3>1, <3>2 DEF Counted
  <2> QED
    BY <2>6, <2>8, <2>11 DEF Books
<1>4. CASE d.loc = "RETURNED"
  <2> DEFINE q == Unlink(h.lists[k].returned, s)
             l == [h.lists EXCEPT ![k].returned = q]
  <2>1. s \in R /\ s \notin N
    BY <1>4 DEF Free
  <2>2. Exactly(h.lists[k].returned, {t \in R : ListOf(sp[t].n) = k})
    BY <1>1 DEF Books, Listed
  <2>3. q \in Seq(Ids) /\ Exactly(q, {t \in R : ListOf(sp[t].n) = k} \ {s})
    BY <1>1, <2>1, <2>2, UnlinkExact
  <2>5. g = [h EXCEPT !.unmapped = h.unmapped - d.n, !.lists = l]
    BY <1>4 DEF RemoveFromFreeList, Heaps
  <2>0. l = PutReturned(h.lists, k, q)
    BY DEF PutReturned
  <2> HIDE DEF q, l
  <2>4. /\ l \in ListTables /\ l[k].returned = q
        /\ \A j \in 0 .. kMaxPages : j # k => l[j].returned = h.lists[j].returned
        /\ \A j \in 0 .. kMaxPages : l[j].normal = h.lists[j].normal
    <3>1. h.lists \in ListTables /\ k \in Lengths /\ q \in Seq(Ids)
      BY <1>1, <2>3 DEF Lengths
    <3>2. HasReturned(h.lists, k, q, l)
      BY <2>0, <3>1, WithReturned, Zenon
    <3> QED
      BY <3>2 DEF HasReturned
  <2>6. /\ g \in Heaps /\ g.unmapped = h.unmapped - d.n /\ g.lists = l
        /\ g.span = h.span /\ g.map = h.map
        /\ g.free = h.free /\ g.system = h.system /\ g.index = h.index
    <3>1. PICK x \in Int : x = h.unmapped - d.n
      BY <1>1
    <3>2. g = [h EXCEPT !.unmapped = x, !.lists = l]
      BY <2>5, <3>1
    <3>3. l \in ListTables
      BY <2>4
    <3>4. /\ g \in Heaps /\ g.unmapped = x /\ g.lists = l
          /\ g.span = h.span /\ g.map = h.map
          /\ g.free = h.free /\ g.system = h.system /\ g.index = h.index
      BY <3>2, <3>3 DEF Heaps
    <3> QED
      BY <3>1, <3>4
  <2>7. Free(sp, X \cup {s}, "RETURNED") = R \ {s} /\ Free(sp, X \cup {s}, "NORMAL") = N
    BY <1>4 DEF Free
  <2>8. Listed(sp, l, X \cup {s})
    <3> SUFFICES ASSUME NEW j \in 0 .. kMaxPages
                 PROVE  /\ Exactly(l[j].returned, {t \in R \ {s} : ListOf(sp[t].n) = j})
                        /\ Exactly(l[j].normal, {t \in N : ListOf(sp[t].n) = j})
      BY <2>7 DEF Listed
    <3>1. Exactly(l[j].normal, {t \in N : ListOf(sp[t].n) = j})
      BY <2>4 DEF Books, Listed
    <3>2. CASE j = k
      <4>1. {t \in R \ {s} : ListOf(sp[t].n) = k} = {t \in R : ListOf(sp[t].n) = k} \ {s}
        OBVIOUS
      <4> QED
        BY <2>3, <2>4, <3>1, <3>2, <4>1
    <3>3. CASE j # k
      <4>1. {t \in R \ {s} : ListOf(sp[t].n) = j} = {t \in R : ListOf(sp[t].n) = j}
        BY <3>3
      <4>2. Exactly(h.lists[j].returned, {t \in R : ListOf(sp[t].n) = j})
        BY DEF Books, Listed
      <4> QED
        BY <2>4, <3>1, <3>3, <4>1, <4>2
    <3> QED
      BY <3>2, <3>3
  <2>9. Weight(sp, R) = Weight(sp, R \ {s}) + d.n
    <3> DEFINE S == R \ {s}
    <3>1. S \subseteq Ids /\ s \notin S /\ R = S \cup {s}
      BY <1>2, <2>1
    <3>2. \A t \in S : Clear(sp, s, t)
      BY <3>1 DEF Free, FreeLocs
    <3> HIDE DEF S
    <3>3. Weight(sp, S \cup {s}) = Weight(sp, S) + sp[s].n
      BY <1>1, <3>1, <3>2, WeightAdd
    <3> QED
      BY <3>1, <3>3 DEF S
  <2>10. Weight(sp, R \ {s}) \in Nat
    BY <1>1, <1>2, CoverFinite
  <2>11. Counted(g, X \cup {s}, F)
    <3>1. h.free = Weight(sp, N \cup F) /\ h.unmapped = Weight(sp, R)
      BY DEF Books, Counted
    <3>2. h.unmapped - d.n = Weight(sp, R \ {s})
      BY <1>1, <2>9, <2>10, <3>1
    <3> QED
      BY <2>6, <2>7, <3>1, <3>2 DEF Counted
  <2> QED
    BY <1>4, <2>6, <2>8, <2>11 DEF Books
<1> QED
  BY <1>3, <1>4 DEF FreeLocs

\* ... and PrependToFreeList() enters one.
LEMMA PrependBooks ==
    ASSUME NEW h \in Heaps, NEW Y, NEW F \in SUBSET Ids, NEW s \in Ids,
           Books(h, Y, F), s \in Y, NEW X, X = Y \ {s}, s \notin F, h.span[s].loc \in FreeLocs,
           ClearOf(h.span, s, F),
           NEW g, g = PrependToFreeList(h, s)
    PROVE  /\ g \in Heaps /\ Books(g, X, F)
           /\ g.span = h.span /\ g.map = h.map /\ g.system = h.system /\ g.index = h.index
           /\ h.span[s].loc = "NORMAL" => g.free = h.free + h.span[s].n
<1> USE DEF ClearOf
<1> DEFINE sp == h.span
           d == h.span[s]
           k == ListOf(d.n)
<1>1. /\ sp \in SpanTables /\ h.lists \in ListTables /\ h.free \in Int /\ h.unmapped \in Int
      /\ d.n \in Nat /\ k \in 0 .. kMaxPages
      /\ h.lists[k].normal \in Seq(Ids) /\ h.lists[k].returned \in Seq(Ids)
  BY HeapFields, ListOfRange DEF SpanTables, Descriptors, ListTables, ListPairs
<1> DEFINE N == Free(sp, Y, "NORMAL")
           R == Free(sp, Y, "RETURNED")
<1>2. N \subseteq Ids /\ R \subseteq Ids
  BY DEF Free
<1>3. CASE d.loc = "NORMAL"
  <2> DEFINE q == <<s>> \o h.lists[k].normal
             l == [h.lists EXCEPT ![k].normal = q]
  <2>1. s \notin N /\ s \notin R
    BY <1>3 DEF Free
  <2>2. Exactly(h.lists[k].normal, {t \in N : ListOf(sp[t].n) = k})
    BY <1>1 DEF Books, Listed
  <2>3. q \in Seq(Ids) /\ Exactly(q, {t \in N : ListOf(sp[t].n) = k} \cup {s})
    BY <1>1, <2>1, <2>2, PrependExact
  <2>5. g = [h EXCEPT !.free = h.free + d.n, !.lists = l]
    BY <1>3 DEF PrependToFreeList, Heaps
  <2>0. l = PutNormal(h.lists, k, q)
    BY DEF PutNormal
  <2> HIDE DEF q, l
  <2>4. /\ l \in ListTables /\ l[k].normal = q
        /\ \A j \in 0 .. kMaxPages : j # k => l[j].normal = h.lists[j].normal
        /\ \A j \in 0 .. kMaxPages : l[j].returned = h.lists[j].returned
    <3>1. h.lists \in ListTables /\ k \in Lengths /\ q \in Seq(Ids)
      BY <1>1, <2>3 DEF Lengths
    <3>2. HasNormal(h.lists, k, q, l)
      BY <2>0, <3>1, WithNormal, Zenon
    <3> QED
      BY <3>2 DEF HasNormal
  <2>6. /\ g \in Heaps /\ g.free = h.free + d.n /\ g.lists = l
        /\ g.span = h.span /\ g.map = h.map
        /\ g.unmapped = h.unmapped /\ g.system = h.system /\ g.index = h.index
    <3>1. PICK x \in Int : x = h.free + d.n
      BY <1>1
    <3>2. g = [h EXCEPT !.free = x, !.lists = l]
      BY <2>5, <3>1
    <3>3. l \in ListTables
      BY <2>4
    <3>4. /\ g \in Heaps /\ g.free = x /\ g.lists = l
          /\ g.span = h.span /\ g.map = h.map
          /\ g.unmapped = h.unmapped /\ g.system = h.system /\ g.index = h.index
      BY <3>2, <3>3 DEF Heaps
    <3> QED
      BY <3>1, <3>4
  <2>7. Free(sp, X, "NORMAL") = N \cup {s} /\ Free(sp, X, "RETURNED") = R
    BY <1>3 DEF Free
  <2>8. Listed(sp, l, X)
    <3> SUFFICES ASSUME NEW j \in 0 .. kMaxPages
                 PROVE  /\ Exactly(l[j].normal, {t \in N \cup {s} : ListOf(sp[t].n) = j})
                        /\ Exactly(l[j].returned, {t \in R : ListOf(sp[t].n) = j})
      BY <2>7 DEF Listed
    <3>1. Exactly(l[j].returned, {t \in R : ListOf(sp[t].n) = j})
      BY <2>4 DEF Books, Listed
    <3>2. CASE j = k
      <4>1. {t \in N \cup {s} : ListOf(sp[t].n) = k} = {t \in N : ListOf(sp[t].n) = k} \cup {s}
        OBVIOUS
      <4> QED
        BY <2>3, <2>4, <3>1, <3>2, <4>1
    <3>3. CASE j # k
      <4>1. {t \in N \cup {s} : ListOf(sp[t].n) = j} = {t \in N : ListOf(sp[t].n) = j}
        BY <3>3
      <4>2. Exactly(h.lists[j].normal, {t \in N : ListOf(sp[t].n) = j})
        BY DEF Books, Listed
      <4> QED
        BY <2>4, <3>1, <3>3, <4>1, <4>2
    <3> QED
      BY <3>2, <3>3
  <2>9. Weight(sp, (N \cup {s}) \cup F) = Weight(sp, N \cup F) + d.n
    <3> DEFINE S == N \cup F
    <3>1. S \subseteq Ids /\ s \notin S /\ (N \cup {s}) \cup F = S \cup {s}
      BY <1>2, <2>1
    <3>2. \A t \in S : Clear(sp, s, t)
      BY <3>1 DEF Free, FreeLocs
    <3> HIDE DEF S
    <3>3. Weight(sp, S \cup {s}) = Weight(sp, S) + sp[s].n
      BY <1>1, <3>1, <3>2, WeightAdd
    <3> QED
      BY <3>1, <3>3 DEF S
  <2>10. Weight(sp, N \cup F) \in Nat
    BY <1>1, <1>2, CoverFinite
  <2>11. Counted(g, X, F)
    <3>1. h.free = Weight(sp, N \cup F) /\ h.unmapped = Weight(sp, R)
      BY DEF Books, Counted
    <3>2. h.free + d.n = Weight(sp, (N \cup {s}) \cup F)
      BY <1>1, <2>9, <2>10, <3>1
    <3> QED
      BY <2>6, <2>7, <3>1, <3>2 DEF Counted
  <2> QED
    BY <2>6, <2>8, <2>11 DEF Books
<1>4. CASE d.loc = "RETURNED"
  <2> DEFINE q == <<s>> \o h.lists[k].returned
             l == [h.lists EXCEPT ![k].returned = q]
  <2>1. s \notin R /\ s \notin N
    BY <1>4 DEF Free
  <2>2. Exactly(h.lists[k].returned, {t \in R : ListOf(sp[t].n) = k})
    BY <1>1 DEF Books, Listed
  <2>3. q \in Seq(Ids) /\ Exactly(q, {t \in R : ListOf(sp[t].n) = k} \cup {s})
    BY <1>1, <2>1, <2>2, PrependExact
  <2>5. g = [h EXCEPT !.unmapped = h.unmapped + d.n, !.lists = l]
    BY <1>4 DEF PrependToFreeList, Heaps
  <2>0. l = PutReturned(h.lists, k, q)
    BY DEF PutReturned
  <2> HIDE DEF q, l
  <2>4. /\ l \in ListTables /\ l[k].returned = q
        /\ \A j \in 0 .. kMaxPages : j # k => l[j].returned = h.lists[j].returned
        /\ \A j \in 0 .. kMaxPages : l[j].normal = h.lists[j].normal
    <3>1. h.lists \in ListTables /\ k \in Lengths /\ q \in Seq(Ids)
      BY <1>1, <2>3 DEF Lengths
    <3>2. HasReturned(h.lists, k, q, l)
      BY <2>0, <3>1, WithReturned, Zenon
    <3> QED
      BY <3>2 DEF HasReturned
  <2>6. /\ g \in Heaps /\ g.unmapped = h.unmapped + d.n /\ g.lists = l
        /\ g.span = h.span /\ g.map = h.map
        /\ g.free = h.free /\ g.system = h.system /\ g.index = h.index
    <3>1. PICK x \in Int : x = h.unmapped + d.n
      BY <1>1
    <3>2. g = [h EXCEPT !.unmapped = x, !.lists = l]
      BY <2>5, <3>1
    <3>3. l \in ListTables
      BY <2>4
    <3>4. /\ g \in Heaps /\ g.unmapped = x /\ g.lists = l
          /\ g.span = h.span /\ g.map = h.map
          /\ g.free = h.free /\ g.system = h.system /\ g.index = h.index
      BY <3>2, <3>3 DEF Heaps
    <3> QED
      BY <3>1, <3>4
  <2>7. Free(sp, X, "RETURNED") = R \cup {s} /\ Free(sp, X, "NORMAL") = N
    BY <1>4 DEF Free
  <2>8. Listed(sp, l, X)
    <3> SUFFICES ASSUME NEW j \in 0 .. kMaxPages
                 PROVE  /\ Exactly(l[j].returned, {t \in R \cup {s} : ListOf(sp[t].n) = j})
                        /\ Exactly(l[j].normal, {t \in N : ListOf(sp[t].n) = j})
      BY <2>7 DEF Listed
    <3>1. Exactly(l[j].normal, {t \in N : ListOf(sp[t].n) = j})
      BY <2>4 DEF Books, Listed
    <3>2. CASE j = k
      <4>1. {t \in R \cup {s} : ListOf(sp[t].n) = k} = {t \in R : ListOf(sp[t].n) = k} \cup {s}
        OBVIOUS
      <4> QED
        BY <2>3, <2>4, <3>1, <3>2, <4>1
    <3>3. CASE j # k
      <4>1. {t \in R \cup {s} : ListOf(sp[t].n) = j} = {t \in R : ListOf(sp[t].n) = j}
        BY <3>3
      <4>2. Exactly(h.lists[j].returned, {t \in R : ListOf(sp[t].n) = j})
        BY DEF Books, Listed
      <4> QED
        BY <2>4, <3>1, <3>3, <4>1, <4>2
    <3> QED
      BY <3>2, <3>3
  <2>9. Weight(sp, R \cup {s}) = Weight(sp, R) + d.n
    <3> DEFINE S == R
    <3>1. S \subseteq Ids /\ s \notin S /\ R \cup {s} = S \cup {s}
      BY <1>2, <2>1
    <3>2. \A t \in S : Clear(sp, s, t)
      BY <3>1 DEF Free, FreeLocs
    <3> HIDE DEF S
    <3>3. Weight(sp, S \cup {s}) = Weight(sp, S) + sp[s].n
      BY <1>1, <3>1, <3>2, WeightAdd
    <3> QED
      BY <3>1, <3>3 DEF S
  <2>10. Weight(sp, R) \in Nat
    BY <1>1, <1>2, CoverFinite
  <2>11. Counted(g, X, F)
    <3>1. h.free = Weight(sp, N \cup F) /\ h.unmapped = Weight(sp, R)
      BY DEF Books, Counted
    <3>2. h.unmapped + d.n = Weight(sp, R \cup {s})
      BY <1>1, <2>9, <2>10, <3>1
    <3> QED
      BY <2>6, <2>7, <3>1, <3>2 DEF Counted
  <2> QED
    BY <1>4, <2>6, <2>8, <2>11 DEF Books
<1> QED
  BY <1>3, <1>4 DEF FreeLocs

----------------------------------------------------------------------------
(***************************************************************************)
(* Updates of one descriptor or of one entry of the page map.              *)
(***************************************************************************)

\* g is h with another table of descriptors, or with another page map.
NewSpans(h, g) ==
    /\ g \in Heaps /\ g.map = h.map /\ g.lists = h.lists /\ g.free = h.free
    /\ g.unmapped = h.unmapped /\ g.system = h.system /\ g.index = h.index
NewMap(h, g) ==
    /\ g \in Heaps /\ g.span = h.span /\ g.lists = h.lists /\ g.free = h.free
    /\ g.unmapped = h.unmapped /\ g.system = h.system /\ g.index = h.index

\* Set() changes one entry of the page map and nothing else.
LEMMA SetFields ==
    ASSUME NEW h \in Heaps, NEW p, NEW s \in SpanIds, NEW g, g = Set(h, p, s)
    PROVE  /\ NewMap(h, g)
           /\ g.map = Pointing(h.map, p, s)
BY DEF Pointing, Heaps, Set, PageMaps, NewMap

\* The heap with one descriptor rewritten, as a whole or in part.
Described(h, s, d) == [h EXCEPT !.span[s] = d]
Located(h, s, l) == [h EXCEPT !.span[s].loc = l]
Covering(h, s, f, n) == [h EXCEPT !.span[s].first = f, !.span[s].n = n]
Starting(h, s, f) == [h EXCEPT !.span[s].first = f]
Lasting(h, s, n) == [h EXCEPT !.span[s].n = n]

\* Writing one descriptor leaves the others.
LEMMA SpanUpdate ==
    ASSUME NEW h \in Heaps, NEW s \in Ids, NEW d \in Descriptors,
           NEW g, g = Described(h, s, d)
    PROVE  /\ NewSpans(h, g) /\ g.span[s] = d
           /\ \A t \in Ids : t # s => g.span[t] = h.span[t]
<1>1. PICK x : x = [h.span EXCEPT ![s] = d]
  OBVIOUS
<1>2. x \in SpanTables /\ x[s] = d /\ \A t \in Ids : t # s => x[t] = h.span[t]
  BY <1>1, HeapFields DEF SpanTables
<1>3. g = [h EXCEPT !.span = x]
  BY <1>1 DEF Described
<1>4. NewSpans(h, g) /\ g.span = x
  BY <1>2, <1>3 DEF Heaps, NewSpans
<1> QED
  BY <1>2, <1>4

\* The fields of a descriptor of a heap.
LEMMA DescriptorFields ==
    ASSUME NEW h \in Heaps, NEW s \in Ids
    PROVE  /\ h.span[s] \in Descriptors
           /\ h.span[s].first \in Nat /\ h.span[s].n \in Nat /\ h.span[s].loc \in Locations
BY HeapFields DEF SpanTables, Descriptors

\* set_location() changes that field only.
LEMMA LocUpdate ==
    ASSUME NEW h \in Heaps, NEW s \in Ids, NEW l \in Locations,
           NEW g, g = Located(h, s, l)
    PROVE  /\ NewSpans(h, g)
           /\ g.span[s].first = h.span[s].first /\ g.span[s].n = h.span[s].n /\ g.span[s].loc = l
           /\ \A t \in Ids : t # s => g.span[t] = h.span[t]
<1>1. PICK d : d = [h.span[s] EXCEPT !.loc = l]
  OBVIOUS
<1>2. d \in Descriptors /\ d.first = h.span[s].first /\ d.n = h.span[s].n /\ d.loc = l
  BY <1>1, DescriptorFields DEF Descriptors
<1>3. g = Described(h, s, d)
  BY <1>1 DEF Described, Located
<1> QED
  BY <1>2, <1>3, SpanUpdate

\* A span that is given other pages keeps its location.
LEMMA RunUpdate ==
    ASSUME NEW h \in Heaps, NEW s \in Ids, NEW f \in Nat, NEW n \in Nat,
           NEW g, g = Covering(h, s, f, n)
    PROVE  /\ NewSpans(h, g)
           /\ g.span[s].first = f /\ g.span[s].n = n /\ g.span[s].loc = h.span[s].loc
           /\ \A t \in Ids : t # s => g.span[t] = h.span[t]
<1>1. PICK d : d = [h.span[s] EXCEPT !.first = f, !.n = n]
  OBVIOUS
<1>2. d \in Descriptors /\ d.first = f /\ d.n = n /\ d.loc = h.span[s].loc
  BY <1>1, DescriptorFields DEF Descriptors
<1>3. g = Described(h, s, d)
  BY <1>1, HeapFields DEF Heaps, SpanTables, Described, Covering
<1> QED
  BY <1>2, <1>3, SpanUpdate

\* set_first_page() changes that field only.
LEMMA FirstUpdate ==
    ASSUME NEW h \in Heaps, NEW s \in Ids, NEW f \in Nat,
           NEW g, g = Starting(h, s, f)
    PROVE  /\ NewSpans(h, g)
           /\ g.span[s].first = f /\ g.span[s].n = h.span[s].n /\ g.span[s].loc = h.span[s].loc
           /\ \A t \in Ids : t # s => g.span[t] = h.span[t]
<1>1. PICK d : d = [h.span[s] EXCEPT !.first = f]
  OBVIOUS
<1>2. d \in Descriptors /\ d.first = f /\ d.n = h.span[s].n /\ d.loc = h.span[s].loc
  BY <1>1, DescriptorFields DEF Descriptors
<1>3. g = Described(h, s, d)
  BY <1>1 DEF Described, Starting
<1> QED
  BY <1>2, <1>3, SpanUpdate

\* set_num_pages() changes that field only.
LEMMA LengthUpdate ==
    ASSUME NEW h \in Heaps, NEW s \in Ids, NEW n \in Nat,
           NEW g, g = Lasting(h, s, n)
    PROVE  /\ NewSpans(h, g)
           /\ g.span[s].first = h.span[s].first /\ g.span[s].n = n /\ g.span[s].loc = h.span[s].loc
           /\ \A t \in Ids : t # s => g.span[t] = h.span[t]
<1>1. PICK d : d = [h.span[s] EXCEPT !.n = n]
  OBVIOUS
<1>2. d \in Descriptors /\ d.first = h.span[s].first /\ d.n = n /\ d.loc = h.span[s].loc
  BY <1>1, DescriptorFields DEF Descriptors
<1>3. g = Described(h, s, d)
  BY <1>1 DEF Described, Lasting
<1> QED
  BY <1>2, <1>3, SpanUpdate

\* Span::Delete().
LEMMA DeleteFields ==
    ASSUME NEW h \in Heaps, NEW s \in Ids, NEW g, g = SpanDelete(h, s)
    PROVE  /\ NewSpans(h, g) /\ g.span[s] = Unused
           /\ \A t \in Ids : t # s => g.span[t] = h.span[t]
<1>1. Unused \in Descriptors
  BY DEF Unused, Descriptors, Locations
<1>2. g = Described(h, s, Unused)
  BY DEF SpanDelete, Described
<1> QED
  BY <1>1, <1>2, SpanUpdate

----------------------------------------------------------------------------
(***************************************************************************)
(* There is always a descriptor to be had.                                 *)
(***************************************************************************)

\* A nonempty set of natural numbers has a least one.
LEMMA LeastExists ==
    ASSUME NEW S \in SUBSET Nat, S # {}
    PROVE  \E x \in S : \A y \in S : x <= y
<1>1. PICK x \in S : \A y \in S : ~ (<<y, x>> \in OpToRel(<, Nat))
  BY NatLessThanWellFounded, WFMin, Zenon
<1>2. \A y \in S : ~ (y < x)
  BY <1>1 DEF OpToRel
<1> QED
  BY <1>2

\* The spans are apart and there are fewer pages than descriptors.
LEMMA FreshSpanUnused ==
    ASSUME NEW h \in Heaps, Placed(h.span), Apart(h.span)
    PROVE  /\ FreshSpan(h) \in Ids /\ h.span[FreshSpan(h)] = Unused
           /\ FreshSpan(h) \notin Used(h.span)
<1> DEFINE sp == h.span
<1>1. sp \in SpanTables
  BY HeapFields
<1>2. PICK f : f = [s \in Used(sp) |-> sp[s].first]
  OBVIOUS
<1>3. f \in Injection(Used(sp), 1 .. (AddressPages - 1))
  <2>1. \A s \in Used(sp) : sp[s].first \in 1 .. (AddressPages - 1)
    BY <1>1, SpanNumbers, SystemAssumption DEF End
  <2>2. \A s, r \in Used(sp) : sp[s].first = sp[r].first => s = r
    BY <1>1, SpanNumbers DEF Apart, Clear, End
  <2> QED
    BY <1>2, <2>1, <2>2 DEF Injection, IsInjective
<1>4. /\ IsFiniteSet(1 .. (AddressPages - 1))
      /\ Cardinality(1 .. (AddressPages - 1)) = AddressPages - 1
  <2>1. AddressPages - 1 \in Int /\ AddressPages - 1 >= 0
    BY SystemAssumption
  <2>2. /\ IsFiniteSet(1 .. (AddressPages - 1))
        /\ Cardinality(1 .. (AddressPages - 1))
             = IF 1 > AddressPages - 1 THEN 0 ELSE (AddressPages - 1) - 1 + 1
    BY <2>1, FS_Interval
  <2> QED
    BY <2>1, <2>2
<1>5. Cardinality(Used(sp)) <= AddressPages - 1
  BY <1>3, <1>4, FS_Injection
<1>6. Cardinality(Ids) = AddressPages + 1
  <2>1. AddressPages + 1 \in Int /\ AddressPages + 1 >= 1
    BY SystemAssumption
  <2>2. Cardinality(1 .. (AddressPages + 1))
          = IF 1 > AddressPages + 1 THEN 0 ELSE (AddressPages + 1) - 1 + 1
    BY <2>1, FS_Interval
  <2> QED
    BY <2>1, <2>2 DEF Ids
<1>7. Used(sp) # Ids
  BY <1>5, <1>6, SystemAssumption
<1> DEFINE S == {s \in Ids : sp[s] = Unused}
<1>8. S \in SUBSET Nat /\ S # {}
  BY <1>7, IdsFinite DEF Used, Placed
<1>9. PICK x \in S : \A y \in S : x <= y
  BY <1>8, LeastExists
<1>10. \A r \in 1 .. (x - 1) : sp[r] # Unused
  <2> SUFFICES ASSUME NEW r \in 1 .. (x - 1), sp[r] = Unused
               PROVE  FALSE
    OBVIOUS
  <2>1. x \in 1 .. (AddressPages + 1)
    BY DEF Ids
  <2>2. r \in Ids
    BY <2>1, SystemAssumption DEF Ids
  <2> QED
    BY <1>9, <2>1, <2>2
<1>11. FreshSpan(h) \in Ids /\ h.span[FreshSpan(h)] = Unused
  BY <1>9, <1>10 DEF FreshSpan
<1> QED
  BY <1>11 DEF Used, Unused

----------------------------------------------------------------------------
(***************************************************************************)
(* MergeIntoFreeList().                                                    *)
(***************************************************************************)

\* What is always known of a good heap.
LEMMA GoodFacts ==
    ASSUME NEW h, NEW H, NEW X, NEW F, Good(h, H, X, F)
    PROVE  /\ h \in Heaps /\ h.span \in SpanTables /\ h.map \in PageMaps
           /\ Geometry(h.span, h.map, H) /\ Placed(h.span) /\ Apart(h.span)
           /\ Mapped(h.span, h.map, H) /\ Books(h, X, F) /\ Merged(h.span, X)
           /\ F \in SUBSET Ids /\ F \subseteq InUse(h.span)
           /\ InUse(h.span) \subseteq Used(h.span) /\ Used(h.span) \subseteq Ids
           /\ \A s \in Ids : h.span[s].loc \in FreeLocs => s \in Used(h.span) /\ s \notin InUse(h.span)
           /\ \A s \in Used(h.span) : s # NoSpan /\ s \in SpanIds
BY HeapFields, SpanNumbers DEF Good, Geometry, InUse, Used, FreeLocs, SpanIds

\* Taking a free span off its list leaves the heap good.
LEMMA RemoveGood ==
    ASSUME NEW h, NEW H, NEW X, NEW F, Good(h, H, X, F),
           NEW s \in Ids, s \notin X, h.span[s].loc \in FreeLocs,
           NEW g, g = RemoveFromFreeList(h, s)
    PROVE  /\ Good(g, H, X \cup {s}, F)
           /\ g.span = h.span /\ g.map = h.map /\ g.system = h.system /\ g.index = h.index
           /\ h.span[s].loc = "NORMAL" => g.free = h.free - h.span[s].n
<1> USE GoodFacts
<1>1. s \in Used(h.span) /\ s \notin F
  OBVIOUS
<1>2. ClearOf(h.span, s, F)
  BY <1>1 DEF Apart, ClearOf
<1>3. /\ g \in Heaps /\ Books(g, X \cup {s}, F)
      /\ g.span = h.span /\ g.map = h.map /\ g.system = h.system /\ g.index = h.index
      /\ h.span[s].loc = "NORMAL" => g.free = h.free - h.span[s].n
  BY <1>1, <1>2, RemoveBooks
<1>4. Merged(h.span, X \cup {s})
  BY DEF Merged
<1> QED
  BY <1>3, <1>4 DEF Good

\* Putting one on its list does, when its neighbours are not free in the same way.
LEMMA PrependGood ==
    ASSUME NEW h, NEW H, NEW Y, NEW F, NEW s \in Ids,
           Good(h, H, Y, F), s \in Y, NEW X, X = Y \ {s}, h.span[s].loc \in FreeLocs, Merged(h.span, X),
           NEW g, g = PrependToFreeList(h, s)
    PROVE  /\ Good(g, H, X, F)
           /\ g.span = h.span /\ g.map = h.map /\ g.system = h.system /\ g.index = h.index
<1>0. h \in Heaps /\ Books(h, Y, F) /\ F \in SUBSET Ids
  BY GoodFacts
<1>1. s \in Used(h.span) /\ s \notin F
  BY GoodFacts
<1>2. ClearOf(h.span, s, F)
  BY <1>1, GoodFacts DEF Apart, ClearOf
<1>3. /\ g \in Heaps /\ Books(g, X, F)
      /\ g.span = h.span /\ g.map = h.map /\ g.system = h.system /\ g.index = h.index
  BY <1>0, <1>1, <1>2, PrependBooks
<1> QED
  BY <1>3 DEF Good

----------------------------------------------------------------------------
(***************************************************************************)
(* Coalescing.                                                             *)
(***************************************************************************)

\* g is h with the descriptor s rewritten.
Respan(h, g, s, f, n, l) ==
    /\ NewSpans(h, g)
    /\ g.span[s].first = f /\ g.span[s].n = n /\ g.span[s].loc = l
    /\ \A t \in Ids : t # s => g.span[t] = h.span[t]

\* No neighbour of s could be merged with it.
NoneBefore(sp, s) ==
    \A t \in Used(sp) : End(sp, t) = sp[s].first => sp[t].loc # sp[s].loc
NoneAfter(sp, s) ==
    \A t \in Used(sp) : sp[t].first = End(sp, s) => sp[t].loc # sp[s].loc

\* The pages of all spans.
Land(h) == Cover(h.span, Used(h.span))

\* The span s is free and in the operation's hands.
Loose(h, H, s, F) == Good(h, H, {s}, F) /\ s \in Used(h.span) /\ h.span[s].loc \in FreeLocs

\* g is h after s, which is in the operation's hands, may have grown.
Grown(h, g, H, s, F) ==
    /\ Loose(g, H, s, F) /\ g.span[s].loc = h.span[s].loc /\ g.span[s].n >= h.span[s].n
    /\ InUse(g.span) = InUse(h.span) /\ Keeps(h, g, InUse(h.span))
    /\ g.system = h.system /\ g.index = h.index /\ Land(g) \subseteq Land(h)

\* g is h after s has taken in gone.
Took(h, g, s, gone, f) ==
    /\ g.span[s].first = f /\ g.span[s].n = h.span[s].n + h.span[gone].n
    /\ Used(g.span) = Used(h.span) \ {gone}
    /\ \A t \in Ids : t # s /\ t # gone => g.span[t] = h.span[t]

\* Either half of MergeIntoFreeList(): the neighbour leaves its list, its descriptor is
\* deleted and the span grows over its pages.
LEMMA JoinGood ==
    ASSUME NEW h, NEW H, NEW F, NEW s, Loose(h, H, s, F),
           NEW gone, h.span[gone].loc = h.span[s].loc,
           NEW f, NEW e, Joins(h.span, s, gone, f, e),
           NEW a, a = RemoveFromFreeList(h, gone), NEW b, b = SpanDelete(a, gone),
           NEW n, n = h.span[s].n + h.span[gone].n, NEW l, l = h.span[s].loc,
           NEW k, Respan(b, k, s, f, n, l),
           NEW g, g = Set(k, e, s)
    PROVE  Grown(h, g, H, s, F) /\ Took(h, g, s, gone, f)
<1> USE DEF Loose
<1>j. s \in Used(h.span) /\ gone \in Used(h.span) /\ s # gone
  BY DEF Joins
<1>0. /\ h \in Heaps /\ h.span \in SpanTables /\ F \in SUBSET Ids /\ s \in Ids /\ gone \in Ids
      /\ s \in SpanIds /\ Geometry(h.span, h.map, H) /\ Merged(h.span, {s})
      /\ F \subseteq InUse(h.span) /\ Used(h.span) \subseteq Ids
      /\ h.system = Cardinality(Cover(h.span, Used(h.span)) \cup H)
  BY <1>j, GoodFacts DEF Good
<1>1. /\ Good(a, H, {s} \cup {gone}, F)
      /\ a.span = h.span /\ a.map = h.map /\ a.system = h.system /\ a.index = h.index
  <2>1. PICK X : X = {s}
    OBVIOUS
  <2>2. gone \notin X /\ Good(h, H, X, F) /\ h.span[gone].loc \in FreeLocs
    BY <1>j, <2>1
  <2>3. /\ Good(a, H, X \cup {gone}, F)
        /\ a.span = h.span /\ a.map = h.map /\ a.system = h.system /\ a.index = h.index
    BY <1>0, <2>2, RemoveGood
  <2> QED
    BY <2>1, <2>3
<1>2. a \in Heaps /\ Books(a, {s} \cup {gone}, F)
  BY <1>1, GoodFacts
<1>3. /\ NewSpans(a, b) /\ b.span[gone] = Unused
      /\ \A t \in Ids : t # gone => b.span[t] = a.span[t]
  BY <1>0, <1>2, DeleteFields
<1>4. /\ NewMap(k, g)
      /\ g.map = Pointing(k.map, e, s)
  BY <1>0, SetFields DEF Respan, NewSpans
<1>5. /\ g \in Heaps /\ g.span \in SpanTables
      /\ g.map = Pointing(h.map, e, s)
      /\ g.lists = a.lists /\ g.free = a.free /\ g.unmapped = a.unmapped
      /\ g.system = h.system /\ g.index = h.index
  BY <1>1, <1>3, <1>4, HeapFields DEF Respan, NewSpans, NewMap
<1>6. /\ g.span[gone] = Unused
      /\ g.span[s].first = f /\ g.span[s].n = h.span[s].n + h.span[gone].n
      /\ g.span[s].loc = h.span[s].loc
      /\ \A t \in Ids : t # s /\ t # gone => g.span[t] = h.span[t]
  <2>1. g.span = k.span
    BY <1>4 DEF NewMap
  <2> QED
    BY <1>0, <1>j, <1>1, <1>3, <2>1 DEF Respan
<1>7. /\ Geometry(g.span, g.map, H)
      /\ Used(g.span) = Used(h.span) \ {gone}
      /\ Cover(g.span, Used(g.span)) = Cover(h.span, Used(h.span))
      /\ InUse(g.span) = InUse(h.span) \ {gone}
  <2>1. Joined(h.span, g.span, s, gone, f)
    BY <1>0, <1>5, <1>6 DEF Joined
  <2>2. Geometry(h.span, h.map, H) /\ g.map = Pointing(h.map, e, s)
    BY <1>0, <1>5
  <2> QED
    BY <2>1, <2>2, GeometryJoin
<1>8. InUse(g.span) = InUse(h.span)
  BY <1>7 DEF InUse, FreeLocs
<1>9. Books(g, {s}, F)
  <2>1. \A t \in F : t # s /\ t # gone
    BY <1>0 DEF InUse, FreeLocs
  <2>2. g.span[gone].loc \notin FreeLocs
    BY <1>6 DEF Unused, FreeLocs
  <2>3. \A t \in F : g.span[t] = a.span[t]
    BY <1>0, <1>1, <1>6, <2>1
  <2>4. \A t \in Ids : t \notin {s} \cup {gone} /\ a.span[t].loc \in FreeLocs =>
                               t \notin {s} /\ g.span[t] = a.span[t]
    BY <1>1, <1>6
  <2>5. \A t \in Ids : t \notin {s} /\ g.span[t].loc \in FreeLocs =>
                               t \notin {s} \cup {gone} /\ g.span[t] = a.span[t]
    BY <1>1, <1>6, <2>2
  <2>6. PICK X : X = {s} \cup {gone}
    OBVIOUS
  <2>7. PICK Y : Y = {s}
    OBVIOUS
  <2>8. Books(a, X, F)
    BY <1>2, <2>6
  <2>9. Books(g, Y, F)
    BY <1>0, <1>2, <1>5, <2>3, <2>4, <2>5, <2>6, <2>7, <2>8, BooksFrame
  <2> QED
    BY <2>7, <2>9
<1>10. Merged(g.span, {s})
  BY <1>0, <1>6, <1>7 DEF Merged, End
<1>11. Good(g, H, {s}, F)
  BY <1>0, <1>5, <1>7, <1>8, <1>9, <1>10 DEF Good
<1>12. Keeps(h, g, InUse(h.span))
  <2> SUFFICES ASSUME NEW r \in InUse(h.span)
               PROVE  /\ g.span[r] = h.span[r]
                      /\ \A p \in RunOf(h.span, r) : Leads(g.map, p) = Leads(h.map, p)
    BY DEF Keeps
  <2>1. r \in Used(h.span) /\ r # s /\ r # gone /\ r \in Ids
    BY <1>0, <1>j DEF InUse, Used, FreeLocs
  <2>2. e \notin RunOf(h.span, r)
    <3>1. e \in RunOf(h.span, gone)
      BY <1>0, <1>j, SpanNumbers DEF Geometry, Joins, RunOf, Run, End
    <3>2. Clear(h.span, r, gone)
      BY <1>0, <1>j, <2>1 DEF Geometry, Apart
    <3> QED
      BY <1>0, <1>j, <2>1, <3>1, <3>2, SpanNumbers DEF Geometry, RunOf, Run, Clear, End
  <2> QED
    BY <1>5, <1>6, <2>1, <2>2 DEF Leads, Pointing
<1>13. g.span[s].n >= h.span[s].n
  BY <1>0, <1>6, DescriptorFields
<1> QED
  BY <1>j, <1>5, <1>6, <1>7, <1>8, <1>11, <1>12, <1>13 DEF Grown, Took, Land

\* A span without such a neighbour stays as it is.
LEMMA GrownStays ==
    ASSUME NEW h, NEW H, NEW F, NEW s, Loose(h, H, s, F)
    PROVE  Grown(h, h, H, s, F)
<1> USE DEF Loose
<1>1. h.span[s].n \in Nat
  BY GoodFacts, DescriptorFields
<1> QED
  BY <1>1 DEF Grown, Keeps

\* What the page map leads to depends on nothing else of the heap.
LEMMA GetLeads ==
    ASSUME NEW h, NEW p
    PROVE  GetDescriptor(h, p) = Leads(h.map, p)
BY DEF GetDescriptor, Leads

\* The span in front of s is taken in.
LEMMA MergePrevGood ==
    ASSUME NEW h, NEW H, NEW F, NEW s, Loose(h, H, s, F), h.span[s].first - 1 \notin H,
           NEW g, g = MergePrev(h, s)
    PROVE  Grown(h, g, H, s, F) /\ NoneBefore(g.span, s) /\ End(g.span, s) = End(h.span, s)
<1>l. Good(h, H, {s}, F) /\ s \in Used(h.span) /\ h.span[s].loc \in FreeLocs
  BY DEF Loose
<1>0. /\ h \in Heaps /\ h.span \in SpanTables /\ s \in Ids /\ Used(h.span) \subseteq Ids
      /\ Geometry(h.span, h.map, H) /\ Placed(h.span) /\ Apart(h.span) /\ Merged(h.span, {s})
  BY <1>l, GoodFacts
<1>1. PICK prev : prev = Leads(h.map, h.span[s].first - 1)
  OBVIOUS
<1>2. /\ prev # NoSpan => prev \in Used(h.span) /\ prev # s /\ End(h.span, prev) = h.span[s].first
      /\ prev = NoSpan => \A t \in Used(h.span) : End(h.span, t) # h.span[s].first
  BY <1>l, <1>0, <1>1, SpanBefore
<1>n. /\ \A t \in Ids : h.span[t].first \in Nat /\ h.span[t].n \in Nat
      /\ \A t \in Used(h.span) : h.span[t].n >= 1
  BY <1>0, SpanNumbers
<1>3. CASE prev = NoSpan \/ h.span[prev].loc # h.span[s].loc
  <2>1. g = h
    BY <1>1, <1>3, GetLeads DEF MergePrev, FirstPage
  <2>2. NoneBefore(h.span, s)
    <3> SUFFICES ASSUME NEW t \in Used(h.span), End(h.span, t) = h.span[s].first,
                        h.span[t].loc = h.span[s].loc
                 PROVE  FALSE
      BY DEF NoneBefore
    <3>1. prev \in Used(h.span) /\ prev # t /\ End(h.span, prev) = h.span[s].first
      BY <1>2, <1>3
    <3>2. Clear(h.span, prev, t)
      BY <1>0, <3>1 DEF Apart
    <3> QED
      BY <1>l, <1>0, <1>n, <3>1, <3>2 DEF Clear, End
  <2> QED
    BY <2>1, <2>2, GrownStays
<1>4. CASE ~ (prev = NoSpan \/ h.span[prev].loc # h.span[s].loc)
  <2>1. PICK a : a = RemoveFromFreeList(h, prev)
    OBVIOUS
  <2>2. PICK b : b = SpanDelete(a, prev)
    OBVIOUS
  <2>3. PICK k : k = Covering(b, s, h.span[prev].first, h.span[s].n + h.span[prev].n)
    OBVIOUS
  <2>p. /\ prev \in Used(h.span) /\ prev # s /\ End(h.span, prev) = h.span[s].first
        /\ prev \in Ids /\ h.span[prev].loc = h.span[s].loc
    BY <1>l, <1>0, <1>2, <1>4
  <2>4. a \in Heaps /\ a.span = h.span
    <3>1. PICK X : X = {s}
      OBVIOUS
    <3>2. prev \notin X /\ Good(h, H, X, F) /\ h.span[prev].loc \in FreeLocs
      BY <1>l, <2>p, <3>1
    <3>3. Good(a, H, X \cup {prev}, F) /\ a.span = h.span
      BY <2>p, <2>1, <3>2, RemoveGood
    <3> QED
      BY <3>3 DEF Good
  <2>5. b \in Heaps /\ b.span[s] = h.span[s]
    <3>1. NewSpans(a, b) /\ \A t \in Ids : t # prev => b.span[t] = a.span[t]
      BY <2>p, <2>2, <2>4, DeleteFields
    <3> QED
      BY <1>l, <1>0, <2>p, <2>4, <3>1 DEF NewSpans
  <2>6. /\ h.span[prev].first \in Nat /\ h.span[s].n + h.span[prev].n \in Nat
        /\ h.span[s].first - h.span[prev].n = h.span[prev].first
    BY <1>l, <1>0, <1>n, <2>p DEF End
  <2>7. Respan(b, k, s, h.span[prev].first, h.span[s].n + h.span[prev].n, h.span[s].loc)
    <3>1. PICK n : n = h.span[s].n + h.span[prev].n
      OBVIOUS
    <3>2. PICK f : f = h.span[prev].first
      OBVIOUS
    <3>3. f \in Nat /\ n \in Nat /\ k = Covering(b, s, f, n)
      BY <2>3, <2>6, <3>1, <3>2
    <3>4. /\ NewSpans(b, k)
          /\ k.span[s].first = f /\ k.span[s].n = n /\ k.span[s].loc = b.span[s].loc
          /\ \A t \in Ids : t # s => k.span[t] = b.span[t]
      BY <1>l, <1>0, <2>5, <3>3, RunUpdate
    <3> QED
      BY <2>5, <3>1, <3>2, <3>4 DEF Respan
  <2>8. g = Set(k, h.span[prev].first, s)
    <3>1. k.span[s].first = h.span[prev].first
      BY <2>7 DEF Respan
    <3>2. PICK x : x = b.span[s].first - h.span[prev].n
      OBVIOUS
    <3>3. PICK y : y = b.span[s].n + h.span[prev].n
      OBVIOUS
    <3>4. x = h.span[prev].first /\ y = h.span[s].n + h.span[prev].n
      BY <2>5, <2>6, <3>2, <3>3
    <3>5. [b EXCEPT !.span[s].first = @ - h.span[prev].n, !.span[s].n = @ + h.span[prev].n]
            = Covering(b, s, x, y)
      BY <1>l, <1>0, <2>5, <3>2, <3>3 DEF Covering, Heaps, SpanTables, Descriptors
    <3>6. k = Covering(b, s, x, y)
      BY <2>3, <3>4
    <3>7. g = Set(k, FirstPage(k, s), s)
      BY <1>1, <1>4, <2>1, <2>2, <3>5, <3>6, GetLeads DEF MergePrev, FirstPage
    <3> QED
      BY <3>1, <3>7 DEF FirstPage
  <2>9. Joins(h.span, s, prev, h.span[prev].first, h.span[prev].first)
    BY <1>l, <2>p, <2>6 DEF Joins
  <2>10. /\ Grown(h, g, H, s, F)
         /\ g.span[s].first = h.span[prev].first /\ g.span[s].n = h.span[s].n + h.span[prev].n
         /\ Used(g.span) = Used(h.span) \ {prev}
         /\ \A t \in Ids : t # s /\ t # prev => g.span[t] = h.span[t]
    <3>1. PICK n : n = h.span[s].n + h.span[prev].n
      OBVIOUS
    <3>2. PICK f : f = h.span[prev].first
      OBVIOUS
    <3>3. PICK l : l = h.span[s].loc
      OBVIOUS
    <3>4. Respan(b, k, s, f, n, l) /\ g = Set(k, f, s) /\ Joins(h.span, s, prev, f, f)
      BY <2>7, <2>8, <2>9, <3>1, <3>2, <3>3
    <3>5. Grown(h, g, H, s, F) /\ Took(h, g, s, prev, f)
      BY <2>p, <2>1, <2>2, <3>1, <3>3, <3>4, JoinGood
    <3> QED
      BY <3>2, <3>5 DEF Took
  <2>11. End(g.span, s) = End(h.span, s)
    BY <1>l, <1>0, <1>n, <2>p, <2>10 DEF End
  <2>12. NoneBefore(g.span, s)
    <3> SUFFICES ASSUME NEW t \in Used(g.span), End(g.span, t) = g.span[s].first,
                        g.span[t].loc = g.span[s].loc
                 PROVE  FALSE
      BY DEF NoneBefore
    <3>0. g.span[s].loc = h.span[s].loc /\ t \in Ids /\ t # prev
      BY <1>l, <1>0, <2>10 DEF Grown
    <3>1. t # s
      BY <1>l, <1>0, <1>n, <2>p, <2>10, <2>11 DEF End
    <3>2. g.span[t] = h.span[t] /\ t \in Used(h.span)
      BY <2>10, <3>0, <3>1
    <3>3. End(h.span, t) = h.span[prev].first /\ h.span[t].loc = h.span[prev].loc
      BY <2>p, <2>10, <3>0, <3>2 DEF End
    <3> QED
      BY <1>l, <1>0, <2>p, <3>1, <3>2, <3>3 DEF Merged
  <2> QED
    BY <2>10, <2>11, <2>12
<1> QED
  BY <1>3, <1>4

\* The span behind s is taken in.
LEMMA MergeNextGood ==
    ASSUME NEW h, NEW H, NEW F, NEW s, Loose(h, H, s, F), End(h.span, s) \notin H,
           NoneBefore(h.span, s), NEW g, g = MergeNext(h, s)
    PROVE  Grown(h, g, H, s, F) /\ NoneBefore(g.span, s) /\ NoneAfter(g.span, s)
<1>l. Good(h, H, {s}, F) /\ s \in Used(h.span) /\ h.span[s].loc \in FreeLocs
  BY DEF Loose
<1>0. /\ h \in Heaps /\ h.span \in SpanTables /\ s \in Ids /\ Used(h.span) \subseteq Ids
      /\ Geometry(h.span, h.map, H) /\ Placed(h.span) /\ Apart(h.span) /\ Merged(h.span, {s})
  BY <1>l, GoodFacts
<1>n. /\ \A t \in Ids : h.span[t].first \in Nat /\ h.span[t].n \in Nat
      /\ \A t \in Used(h.span) : h.span[t].n >= 1
  BY <1>0, SpanNumbers
<1>1. PICK next : next = Leads(h.map, End(h.span, s))
  OBVIOUS
<1>2. /\ next # NoSpan => next \in Used(h.span) /\ next # s /\ h.span[next].first = End(h.span, s)
      /\ next = NoSpan => \A t \in Used(h.span) : h.span[t].first # End(h.span, s)
  BY <1>l, <1>0, <1>1, SpanAfter
<1>m. GetDescriptor(h, LastPage(h, s) + 1) = next
  <2>1. LastPage(h, s) + 1 = End(h.span, s)
    BY <1>0, <1>n DEF LastPage, End
  <2> QED
    BY <1>1, <2>1, GetLeads
<1>3. CASE next = NoSpan \/ h.span[next].loc # h.span[s].loc
  <2>1. g = h
    BY <1>m, <1>3 DEF MergeNext
  <2>2. NoneAfter(h.span, s)
    <3> SUFFICES ASSUME NEW t \in Used(h.span), h.span[t].first = End(h.span, s),
                        h.span[t].loc = h.span[s].loc
                 PROVE  FALSE
      BY DEF NoneAfter
    <3>1. next \in Used(h.span) /\ next # t /\ h.span[next].first = End(h.span, s)
      BY <1>2, <1>3
    <3>2. Clear(h.span, next, t)
      BY <1>0, <3>1 DEF Apart
    <3> QED
      BY <1>l, <1>0, <1>n, <3>1, <3>2 DEF Clear, End
  <2> QED
    BY <2>1, <2>2, GrownStays
<1>4. CASE ~ (next = NoSpan \/ h.span[next].loc # h.span[s].loc)
  <2>1. PICK a : a = RemoveFromFreeList(h, next)
    OBVIOUS
  <2>2. PICK b : b = SpanDelete(a, next)
    OBVIOUS
  <2>n. PICK n : n = h.span[s].n + h.span[next].n
    OBVIOUS
  <2>f. PICK f : f = h.span[s].first
    OBVIOUS
  <2>3. PICK k : k = Lasting(b, s, n)
    OBVIOUS
  <2>p. /\ next \in Used(h.span) /\ next # s /\ h.span[next].first = End(h.span, s)
        /\ next \in Ids /\ h.span[next].loc = h.span[s].loc
    BY <1>l, <1>0, <1>2, <1>4
  <2>4. a \in Heaps /\ a.span = h.span
    <3>1. PICK X : X = {s}
      OBVIOUS
    <3>2. next \notin X /\ Good(h, H, X, F) /\ h.span[next].loc \in FreeLocs
      BY <1>l, <2>p, <3>1
    <3>3. Good(a, H, X \cup {next}, F) /\ a.span = h.span
      BY <2>p, <2>1, <3>2, RemoveGood
    <3> QED
      BY <3>3 DEF Good
  <2>5. b \in Heaps /\ b.span[s] = h.span[s]
    <3>1. NewSpans(a, b) /\ \A t \in Ids : t # next => b.span[t] = a.span[t]
      BY <2>p, <2>2, <2>4, DeleteFields
    <3> QED
      BY <1>0, <2>p, <2>4, <3>1 DEF NewSpans
  <2>6. f \in Nat /\ n \in Nat /\ n >= 1
    BY <1>0, <1>n, <2>p, <2>n, <2>f
  <2>l. PICK l : l = h.span[s].loc
    OBVIOUS
  <2>7. Respan(b, k, s, f, n, l)
    <3>1. /\ NewSpans(b, k)
          /\ k.span[s].first = b.span[s].first /\ k.span[s].n = n /\ k.span[s].loc = b.span[s].loc
          /\ \A t \in Ids : t # s => k.span[t] = b.span[t]
      BY <1>0, <2>3, <2>5, <2>6, LengthUpdate
    <3> QED
      BY <2>f, <2>l, <2>5, <3>1 DEF Respan
  <2>e. PICK e : e = f + n - 1
    OBVIOUS
  <2>8. g = Set(k, e, s)
    <3>1. LastPage(k, s) = e
      BY <2>e, <2>7 DEF Respan, LastPage
    <3>2. b.span[s].n + h.span[next].n = n
      BY <2>n, <2>5
    <3>3. [b EXCEPT !.span[s].n = @ + h.span[next].n] = Lasting(b, s, n)
      BY <1>0, <2>5, <3>2 DEF Lasting, Heaps, SpanTables, Descriptors
    <3>4. g = Set(k, LastPage(k, s), s)
      BY <1>m, <1>4, <2>1, <2>2, <2>3, <3>3 DEF MergeNext
    <3> QED
      BY <3>1, <3>4
  <2>9. Joins(h.span, s, next, f, e)
    BY <1>l, <1>0, <1>n, <2>p, <2>n, <2>f, <2>e, <2>6 DEF Joins, End
  <2>10. Grown(h, g, H, s, F) /\ Took(h, g, s, next, f)
    BY <2>p, <2>1, <2>2, <2>n, <2>l, <2>7, <2>8, <2>9, JoinGood
  <2>t. /\ g.span[s].first = h.span[s].first /\ g.span[s].n = n /\ g.span[s].loc = h.span[s].loc
        /\ Used(g.span) = Used(h.span) \ {next}
        /\ \A t \in Ids : t # s /\ t # next => g.span[t] = h.span[t]
    BY <2>n, <2>f, <2>10 DEF Grown, Took
  <2>11. End(g.span, s) = End(h.span, next)
    BY <1>0, <1>n, <2>p, <2>t, <2>n DEF End
  <2>12. NoneAfter(g.span, s)
    <3> SUFFICES ASSUME NEW t \in Used(g.span), g.span[t].first = End(g.span, s),
                        g.span[t].loc = g.span[s].loc
                 PROVE  FALSE
      BY DEF NoneAfter
    <3>0. t \in Ids /\ t # next
      BY <1>0, <2>t
    <3>1. t # s
      BY <1>0, <1>n, <2>6, <2>t DEF End
    <3>2. g.span[t] = h.span[t] /\ t \in Used(h.span)
      BY <2>t, <3>0, <3>1
    <3>3. End(h.span, next) = h.span[t].first /\ h.span[t].loc = h.span[next].loc
      BY <2>p, <2>t, <2>11, <3>0, <3>2
    <3> QED
      BY <1>l, <1>0, <2>p, <3>1, <3>2, <3>3 DEF Merged
  <2>13. NoneBefore(g.span, s)
    <3> SUFFICES ASSUME NEW t \in Used(g.span), End(g.span, t) = g.span[s].first,
                        g.span[t].loc = g.span[s].loc
                 PROVE  FALSE
      BY DEF NoneBefore
    <3>0. t \in Ids /\ t # next
      BY <1>0, <2>t
    <3>1. t # s
      BY <1>0, <1>n, <2>6, <2>t DEF End
    <3>2. g.span[t] = h.span[t] /\ t \in Used(h.span)
      BY <2>t, <3>0, <3>1
    <3>3. End(h.span, t) = h.span[s].first /\ h.span[t].loc = h.span[s].loc
      BY <2>t, <3>2 DEF End
    <3> QED
      BY <3>2, <3>3 DEF NoneBefore
  <2> QED
    BY <2>10, <2>12, <2>13
<1> QED
  BY <1>3, <1>4

\* What two operations keep, both keep.
LEMMA KeepsBoth ==
    ASSUME NEW h, NEW a, NEW g, NEW U, NEW V, Keeps(h, a, U), Keeps(a, g, V), U \subseteq V
    PROVE  Keeps(h, g, U)
<1> SUFFICES ASSUME NEW r \in U
             PROVE  /\ g.span[r] = h.span[r]
                    /\ \A p \in RunOf(h.span, r) : Leads(g.map, p) = Leads(h.map, p)
  BY DEF Keeps
<1>1. a.span[r] = h.span[r] /\ g.span[r] = a.span[r] /\ RunOf(a.span, r) = RunOf(h.span, r)
  BY DEF Keeps, RunOf
<1> QED
  BY <1>1 DEF Keeps

\* An operation that writes neither a descriptor nor the page map keeps everything.
LEMMA KeepsSame ==
    ASSUME NEW h, NEW g, NEW U, g.span = h.span, g.map = h.map
    PROVE  Keeps(h, g, U)
BY DEF Keeps

\* The heap after an operation has put s, which was in its hands, on the lists.
Settled(h, g, H, F) ==
    /\ Good(g, H, {}, F)
    /\ InUse(g.span) = InUse(h.span) /\ Keeps(h, g, InUse(h.span))
    /\ g.system = h.system /\ g.index = h.index

\* MergeIntoFreeList(): the neighbours found through the page map are the right
\* ones, and what is put on the list has none left that is free in the same way.
LEMMA MergeGood ==
    ASSUME NEW h, NEW H, NEW F, NEW s, Loose(h, H, s, F),
           h.span[s].first - 1 \notin H, End(h.span, s) \notin H,
           NEW g, g = MergeIntoFreeList(h, s)
    PROVE  /\ Settled(h, g, H, F)
           /\ s \in Ids /\ g.span[s].loc = h.span[s].loc /\ g.span[s].n >= h.span[s].n
           /\ Land(g) \subseteq Land(h)
<1>1. PICK a : a = MergePrev(h, s)
  OBVIOUS
<1>2. PICK b : b = MergeNext(a, s)
  OBVIOUS
<1>3. g = PrependToFreeList(b, s)
  BY <1>1, <1>2 DEF MergeIntoFreeList
<1>4. Grown(h, a, H, s, F) /\ NoneBefore(a.span, s) /\ End(a.span, s) = End(h.span, s)
  BY <1>1, MergePrevGood
<1>5. Loose(a, H, s, F) /\ End(a.span, s) \notin H
  BY <1>4 DEF Grown
<1>6. Grown(a, b, H, s, F) /\ NoneBefore(b.span, s) /\ NoneAfter(b.span, s)
  BY <1>2, <1>4, <1>5, MergeNextGood
<1>7. Good(b, H, {s}, F) /\ s \in Used(b.span) /\ b.span[s].loc \in FreeLocs
  BY <1>6 DEF Grown, Loose
<1>8. s \in Ids /\ Merged(b.span, {s})
  BY <1>7, GoodFacts
<1>9. Merged(b.span, {})
  BY <1>6, <1>8 DEF Merged, NoneBefore, NoneAfter
<1>10. /\ Good(g, H, {}, F)
       /\ g.span = b.span /\ g.map = b.map /\ g.system = b.system /\ g.index = b.index
  <2>1. PICK Y : Y = {s}
    OBVIOUS
  <2>2. PICK X : X = {}
    OBVIOUS
  <2>3. Good(b, H, Y, F) /\ s \in Y /\ X = Y \ {s} /\ Merged(b.span, X)
    BY <1>7, <1>9, <2>1, <2>2
  <2>4. /\ Good(g, H, X, F)
        /\ g.span = b.span /\ g.map = b.map /\ g.system = b.system /\ g.index = b.index
    BY <1>3, <1>7, <1>8, <2>3, PrependGood
  <2> QED
    BY <2>2, <2>4
<1>11. Keeps(h, g, InUse(h.span))
  <2>1. Keeps(h, a, InUse(h.span)) /\ Keeps(a, b, InUse(a.span)) /\ InUse(a.span) = InUse(h.span)
    BY <1>4, <1>6 DEF Grown
  <2>2. Keeps(h, b, InUse(h.span))
    BY <2>1, KeepsBoth
  <2>3. Keeps(b, g, InUse(h.span))
    BY <1>10, KeepsSame
  <2> QED
    BY <2>2, <2>3, KeepsBoth
<1>12. g.span[s].n >= h.span[s].n
  <2>1. h.span[s].n \in Nat /\ a.span[s].n \in Nat /\ b.span[s].n \in Nat
    BY <1>5, <1>7, <1>8, GoodFacts, DescriptorFields DEF Loose
  <2> QED
    BY <1>4, <1>6, <1>10, <2>1 DEF Grown
<1> QED
  BY <1>4, <1>6, <1>8, <1>10, <1>11, <1>12 DEF Grown, Settled, Land

----------------------------------------------------------------------------
(***************************************************************************)
(* New spans.                                                              *)
(***************************************************************************)

\* RecordSpan() enters the ends of a span in the page map.
LEMMA RecordFields ==
    ASSUME NEW h, h \in Heaps, NEW s, s \in Ids, NEW g, g = RecordSpan(h, s),
           NEW f, NEW n, f = h.span[s].first, n = h.span[s].n
    PROVE  NewMap(h, g) /\ g.map = Ending(h.map, f, n, s)
<1>1. s \in SpanIds /\ f \in Nat /\ n \in Nat
  BY DescriptorFields DEF SpanIds
<1>2. PICK a : a = Set(h, f, s)
  OBVIOUS
<1>3. PICK e : e = f + n - 1
  OBVIOUS
<1>4. g = Set(a, e, s)
  BY <1>2, <1>3 DEF RecordSpan, FirstPage, LastPage
<1>5. NewMap(h, a) /\ a.map = Pointing(h.map, f, s)
  BY <1>1, <1>2, SetFields
<1>6. a \in Heaps
  BY <1>5 DEF NewMap
<1>7. NewMap(a, g) /\ g.map = Pointing(a.map, e, s)
  BY <1>1, <1>4, <1>6, SetFields
<1>8. g.map = Ending(h.map, f, n, s)
  <2>1. DOMAIN a.map = DOMAIN h.map
    BY <1>5 DEF Pointing
  <2>2. Pointing(a.map, e, s) = [q \in DOMAIN h.map |-> IF q = e THEN s ELSE a.map[q]]
    BY <2>1 DEF Pointing
  <2>3. \A q \in DOMAIN h.map : a.map[q] = IF q = f THEN s ELSE h.map[q]
    BY <1>5 DEF Pointing
  <2> QED
    BY <1>3, <1>7, <2>2, <2>3 DEF Ending
<1> QED
  BY <1>5, <1>7, <1>8 DEF NewMap

\* The page map changes at p and p + n - 1 only, which are no pages of U.
LEMMA EndingKeeps ==
    ASSUME NEW h, NEW g, NEW U, NEW f, NEW n, NEW s,
           \A r \in U : g.span[r] = h.span[r],
           g.map = Ending(h.map, f, n, s),
           \A r \in U : f \notin RunOf(h.span, r) /\ f + n - 1 \notin RunOf(h.span, r)
    PROVE  Keeps(h, g, U)
BY DEF Keeps, Leads, Ending

\* Span::New() writes the descriptor it takes and no other.
LEMMA SpanNewFields ==
    ASSUME NEW h, h \in Heaps, NEW f, f \in Nat, NEW n, n \in Nat, NEW l, l \in Locations,
           NEW s, s \in Ids, s = FreshSpan(h), NEW g, g = SpanNew(h, f, n, l)
    PROVE  Respan(h, g, s, f, n, l)
<1>1. PICK d : d = [first |-> f, n |-> n, loc |-> l]
  OBVIOUS
<1>2. d \in Descriptors /\ d.first = f /\ d.n = n /\ d.loc = l
  BY <1>1 DEF Descriptors
<1>3. g = Described(h, s, d)
  BY <1>1 DEF SpanNew, Described
<1>4. /\ NewSpans(h, g) /\ g.span[s] = d
      /\ \A t \in Ids : t # s => g.span[t] = h.span[t]
  BY <1>2, <1>3, SpanUpdate
<1> QED
  BY <1>2, <1>4 DEF Respan

\* Respan() and RecordSpan() in terms of the tables.
LEMMA RespanCovers ==
    ASSUME NEW h, h \in Heaps, NEW a, NEW s, NEW f, NEW n, NEW l,
           Respan(h, a, s, f, n, l), l # "DELETED"
    PROVE  a \in Heaps /\ Covers(h.span, a.span, s, f, n)
BY HeapFields DEF Respan, NewSpans, Covers

\* A new span of pages in H is in the hands of the operation.
LEMMA NewLoose ==
    ASSUME NEW h, NEW H, NEW F, Good(h, H, {}, F), NEW f, NEW n, Fits(H, f, n),
           NEW l, l \in FreeLocs, NEW s, s = FreshSpan(h),
           NEW a, a = SpanNew(h, f, n, l), NEW b, b = RecordSpan(a, s)
    PROVE  /\ Loose(b, H \ Run(f, n), s, F)
           /\ b.span[s].first = f /\ b.span[s].n = n /\ b.span[s].loc = l
           /\ InUse(b.span) = InUse(h.span) /\ Keeps(h, b, InUse(h.span))
           /\ b.system = h.system /\ b.index = h.index /\ Land(b) \subseteq Land(h) \cup H
<1>0. /\ h \in Heaps /\ h.span \in SpanTables /\ F \in SUBSET Ids /\ Used(h.span) \subseteq Ids
      /\ Geometry(h.span, h.map, H) /\ Placed(h.span) /\ Apart(h.span) /\ Mapped(h.span, h.map, H)
      /\ Books(h, {}, F) /\ Merged(h.span, {}) /\ F \subseteq InUse(h.span)
      /\ InUse(h.span) \subseteq Used(h.span)
      /\ h.system = Cardinality(Cover(h.span, Used(h.span)) \cup H)
  BY GoodFacts DEF Good
<1>1. s \in Ids /\ h.span[s] = Unused /\ s \notin Used(h.span)
  BY <1>0, FreshSpanUnused
<1>2. f \in Nat /\ n \in Nat /\ n >= 1 /\ Run(f, n) \subseteq H /\ l \in Locations /\ l # "DELETED" /\ l # "IN_USE"
  BY DEF Fits, FreeLocs, Locations
<1>3. Respan(h, a, s, f, n, l)
  BY <1>0, <1>1, <1>2, SpanNewFields
<1>4. a \in Heaps /\ Covers(h.span, a.span, s, f, n)
  BY <1>0, <1>2, <1>3, RespanCovers
<1>5. /\ a.map = h.map /\ a.lists = h.lists /\ a.free = h.free /\ a.unmapped = h.unmapped
      /\ a.system = h.system /\ a.index = h.index
      /\ a.span[s].first = f /\ a.span[s].n = n /\ a.span[s].loc = l
      /\ \A t \in Ids : t # s => a.span[t] = h.span[t]
  BY <1>3 DEF Respan, NewSpans
<1>6. NewMap(a, b) /\ b.map = Ending(a.map, f, n, s)
  BY <1>1, <1>4, <1>5, RecordFields
<1>7. /\ b \in Heaps /\ b.span = a.span /\ b.lists = h.lists /\ b.free = h.free
      /\ b.unmapped = h.unmapped /\ b.system = h.system /\ b.index = h.index
      /\ b.map = Ending(h.map, f, n, s)
  BY <1>5, <1>6 DEF NewMap
<1>8. /\ Geometry(b.span, b.map, H \ Run(f, n))
      /\ Used(b.span) = Used(h.span) \cup {s}
      /\ Cover(b.span, Used(b.span)) \cup (H \ Run(f, n)) = Cover(h.span, Used(h.span)) \cup H
  <2>1. Covers(h.span, b.span, s, f, n)
    BY <1>4, <1>7
  <2>2. /\ Geometry(h.span, h.map, H) /\ b.map = Ending(h.map, f, n, s) /\ Spare(h.span, s)
    BY <1>0, <1>1, <1>7 DEF Spare
  <2>3. Handed(h.span, b.span, b.map, H, Without(H, f, n)) /\ Gains(h.span, b.span, s)
    BY <2>1, <2>2, GeometryAdd
  <2> QED
    BY <2>3 DEF Handed, Without, Gains
<1>9. InUse(b.span) = InUse(h.span)
  BY <1>1, <1>2, <1>5, <1>7 DEF InUse, Unused
<1>10. Books(b, {s}, F)
  <2>1. PICK X : X = {}
    OBVIOUS
  <2>2. PICK Y : Y = {s}
    OBVIOUS
  <2>3. Books(h, X, F)
    BY <1>0, <2>1
  <2>4. \A t \in F : b.span[t] = h.span[t]
    BY <1>0, <1>1, <1>5, <1>7
  <2>5. \A t \in Ids : t \notin X /\ h.span[t].loc \in FreeLocs => t \notin Y /\ b.span[t] = h.span[t]
    BY <1>1, <1>5, <1>7, <2>2 DEF Unused, FreeLocs
  <2>6. \A t \in Ids : t \notin Y /\ b.span[t].loc \in FreeLocs => t \notin X /\ b.span[t] = h.span[t]
    BY <1>5, <1>7, <2>1, <2>2
  <2>7. Books(b, Y, F)
    BY <1>0, <1>7, <2>3, <2>4, <2>5, <2>6, BooksFrame
  <2> QED
    BY <2>2, <2>7
<1>11. Merged(b.span, {s})
  BY <1>0, <1>1, <1>5, <1>7, <1>8 DEF Merged, End
<1>12. Good(b, H \ Run(f, n), {s}, F)
  BY <1>0, <1>7, <1>8, <1>9, <1>10, <1>11 DEF Good
<1>13. Keeps(h, b, InUse(h.span))
  <2>1. \A r \in InUse(h.span) : b.span[r] = h.span[r]
    BY <1>0, <1>1, <1>5, <1>7
  <2>2. f \in H /\ f + n - 1 \in H
    BY <1>2 DEF Run
  <2>3. \A r \in InUse(h.span) : f \notin RunOf(h.span, r) /\ f + n - 1 \notin RunOf(h.span, r)
    BY <1>0, <2>2 DEF Mapped
  <2> QED
    BY <1>7, <2>1, <2>3, EndingKeeps
<1> QED
  BY <1>2, <1>5, <1>7, <1>8, <1>9, <1>12, <1>13 DEF Loose, Land

\* ... and goes to the free lists.
LEMMA ExtraGood ==
    ASSUME NEW h, NEW H, NEW F, Good(h, H, {}, F), NEW f, NEW n, Fits(H, f, n),
           NEW l, l \in FreeLocs, f - 1 \notin H, f + n \notin H,
           NEW G, G = H \ Run(f, n),
           NEW g, g = Extra(h, f, n, l)
    PROVE  /\ Settled(h, g, G, F) /\ Land(g) \subseteq Land(h) \cup H
           /\ \E r \in Ids : g.span[r].loc = l /\ g.span[r].n >= n
<1>1. PICK s : s = FreshSpan(h)
  OBVIOUS
<1>2. PICK a : a = SpanNew(h, f, n, l)
  OBVIOUS
<1>3. PICK b : b = RecordSpan(a, s)
  OBVIOUS
<1>4. g = MergeIntoFreeList(b, s)
  BY <1>1, <1>2, <1>3 DEF Extra
<1>5. /\ Loose(b, G, s, F)
      /\ b.span[s].first = f /\ b.span[s].n = n /\ b.span[s].loc = l
      /\ InUse(b.span) = InUse(h.span) /\ Keeps(h, b, InUse(h.span))
      /\ b.system = h.system /\ b.index = h.index /\ Land(b) \subseteq Land(h) \cup H
  BY <1>1, <1>2, <1>3, NewLoose
<1>6. b.span[s].first - 1 \notin G /\ End(b.span, s) \notin G
  BY <1>5 DEF End
<1>7. /\ Settled(b, g, G, F)
      /\ s \in Ids /\ g.span[s].loc = b.span[s].loc /\ g.span[s].n >= b.span[s].n
      /\ Land(g) \subseteq Land(b)
  BY <1>4, <1>5, <1>6, MergeGood
<1>8. Keeps(h, g, InUse(h.span))
  BY <1>5, <1>7, KeepsBoth DEF Settled
<1> QED
  BY <1>5, <1>7, <1>8 DEF Settled

\* Which descriptor is fresh depends on which are unused only.
LEMMA FreshSpanSame ==
    ASSUME NEW h, NEW g, \E t \in Ids : h.span[t] = Unused,
           \A t \in Ids : g.span[t] = Unused <=> h.span[t] = Unused
    PROVE  FreshSpan(g) = FreshSpan(h)
<1> DEFINE S == {s \in Ids : h.span[s] = Unused}
<1>8. S \in SUBSET Nat /\ S # {}
  BY IdsFinite
<1>9. PICK x \in S : \A y \in S : x <= y
  BY <1>8, LeastExists
<1>i. \A t \in Ids : t \in Int /\ t >= 1 /\ t <= AddressPages + 1
  BY SystemAssumption DEF Ids
<1>10. \A t \in Ids : \A r \in 1 .. (t - 1) : r \in Ids
  BY SystemAssumption DEF Ids
<1>11. x \in Ids /\ h.span[x] = Unused /\ \A r \in 1 .. (x - 1) : h.span[r] # Unused
  BY <1>9, <1>10, <1>i
<1>12. \A t \in Ids : (h.span[t] = Unused /\ \A r \in 1 .. (t - 1) : h.span[r] # Unused) => t = x
  <2> SUFFICES ASSUME NEW t \in Ids, h.span[t] = Unused,
                      \A r \in 1 .. (t - 1) : h.span[r] # Unused
               PROVE  t = x
    OBVIOUS
  <2> QED
    BY <1>9, <1>i
<1>13. FreshSpan(h) = x
  BY <1>11, <1>12 DEF FreshSpan
<1>14. x \in Ids /\ g.span[x] = Unused /\ \A r \in 1 .. (x - 1) : g.span[r] # Unused
  BY <1>10, <1>11
<1>15. \A t \in Ids : (g.span[t] = Unused /\ \A r \in 1 .. (t - 1) : g.span[r] # Unused) => t = x
  BY <1>10, <1>12
<1>16. FreshSpan(g) = x
  BY <1>14, <1>15 DEF FreshSpan
<1> QED
  BY <1>13, <1>16

----------------------------------------------------------------------------
(***************************************************************************)
(* Carve().                                                                *)
(***************************************************************************)

\* The heap between operations, F being the spans under release.
Clean(h, F) == Good(h, {}, {}, F)

\* g is h with the free span s in use: it is on no list and keeps its pages.
Taken(h, g, s, F) ==
    /\ Clean(g, F)
    /\ InUse(g.span) = InUse(h.span) \cup {s} /\ s \notin InUse(h.span)
    /\ g.span[s].first = h.span[s].first /\ g.span[s].n = h.span[s].n
    /\ \A t \in Ids : t # s => g.span[t] = h.span[t]
    /\ g.map = h.map /\ g.system = h.system /\ g.index = h.index
    /\ h.span[s].loc = "NORMAL" => g.free = h.free - h.span[s].n
    /\ Land(g) \subseteq Land(h)

\* The first half of Carve(): the span leaves its list and is in use.
LEMMA TakeGood ==
    ASSUME NEW h, NEW F, Clean(h, F), NEW s, s \in Ids, h.span[s].loc \in FreeLocs,
           NEW a, a = RemoveFromFreeList(h, s), NEW g, g = Located(a, s, "IN_USE")
    PROVE  Taken(h, g, s, F)
<1> USE DEF Clean
<1>0. /\ h \in Heaps /\ h.span \in SpanTables /\ F \in SUBSET Ids /\ Used(h.span) \subseteq Ids
      /\ Geometry(h.span, h.map, {}) /\ Merged(h.span, {}) /\ F \subseteq InUse(h.span)
      /\ s \in Used(h.span) /\ s \notin InUse(h.span)
      /\ h.system = Cardinality(Cover(h.span, Used(h.span)) \cup {})
  BY GoodFacts DEF Good
<1>1. /\ Good(a, {}, {s}, F)
      /\ a.span = h.span /\ a.map = h.map /\ a.system = h.system /\ a.index = h.index
      /\ h.span[s].loc = "NORMAL" => a.free = h.free - h.span[s].n
  <2>1. PICK X : X = {}
    OBVIOUS
  <2>2. Good(h, {}, X, F) /\ s \notin X
    BY <2>1
  <2>3. /\ Good(a, {}, X \cup {s}, F)
        /\ a.span = h.span /\ a.map = h.map /\ a.system = h.system /\ a.index = h.index
        /\ h.span[s].loc = "NORMAL" => a.free = h.free - h.span[s].n
    BY <2>2, RemoveGood
  <2>4. X \cup {s} = {s}
    BY <2>1
  <2> QED
    BY <2>3, <2>4
<1>2. a \in Heaps /\ Books(a, {s}, F)
  BY <1>1, GoodFacts
<1>3. /\ NewSpans(a, g)
      /\ g.span[s].first = h.span[s].first /\ g.span[s].n = h.span[s].n /\ g.span[s].loc = "IN_USE"
      /\ \A t \in Ids : t # s => g.span[t] = h.span[t]
  BY <1>1, <1>2, LocUpdate DEF Locations
<1>4. /\ g \in Heaps /\ g.span \in SpanTables /\ g.map = h.map /\ g.lists = a.lists /\ g.free = a.free
      /\ g.unmapped = a.unmapped /\ g.system = h.system /\ g.index = h.index
  BY <1>1, <1>3, HeapFields DEF NewSpans
<1>5. Covers(h.span, g.span, s, h.span[s].first, h.span[s].n)
  BY <1>0, <1>3, <1>4 DEF Covers
<1>6. /\ Geometry(g.span, g.map, {})
      /\ Used(g.span) = Used(h.span)
      /\ Cover(g.span, Used(g.span)) = Cover(h.span, Used(h.span))
  <2>1. PICK f : f = h.span[s].first
    OBVIOUS
  <2>2. PICK n : n = h.span[s].n
    OBVIOUS
  <2>3. Covers(h.span, g.span, s, f, n)
    BY <1>5, <2>1, <2>2
  <2> QED
    BY <1>0, <1>4, <2>1, <2>2, <2>3, GeometryLoc
<1>7. InUse(g.span) = InUse(h.span) \cup {s}
  BY <1>3 DEF InUse
<1>8. Books(g, {}, F)
  <2>1. PICK X : X = {s}
    OBVIOUS
  <2>2. PICK Y : Y = {}
    OBVIOUS
  <2>3. Books(a, X, F)
    BY <1>2, <2>1
  <2>4. \A t \in F : g.span[t] = a.span[t]
    BY <1>0, <1>1, <1>3
  <2>5. \A t \in Ids : t \notin X /\ a.span[t].loc \in FreeLocs => t \notin Y /\ g.span[t] = a.span[t]
    BY <1>1, <1>3, <2>1, <2>2
  <2>6. \A t \in Ids : t \notin Y /\ g.span[t].loc \in FreeLocs => t \notin X /\ g.span[t] = a.span[t]
    BY <1>1, <1>3, <2>1, <2>2 DEF FreeLocs
  <2>7. Books(g, Y, F)
    BY <1>0, <1>2, <1>4, <2>3, <2>4, <2>5, <2>6, BooksFrame
  <2> QED
    BY <2>2, <2>7
<1>9. Merged(g.span, {})
  BY <1>0, <1>3, <1>6 DEF Merged, End, FreeLocs
<1>10. Good(g, {}, {}, F)
  BY <1>0, <1>4, <1>6, <1>7, <1>8, <1>9 DEF Good
<1> QED
  BY <1>0, <1>1, <1>3, <1>4, <1>6, <1>7, <1>10 DEF Taken, Land

\* s keeps n of its pages, from fs on, and the x others, from fr on, go to r.
Split(sp, s, fs, n, fr, x) ==
    /\ fs \in Nat /\ n \in Nat /\ fr \in Nat /\ x \in Nat /\ n >= 1 /\ x >= 1 /\ n + x = sp[s].n
    /\ \/ fs = sp[s].first + x /\ fr = sp[s].first
       \/ fs = sp[s].first /\ fr = sp[s].first + n

\* The descriptors after s has kept n of its pages and r got the other x.
SplitSpans(sp, sq, s, r, fs, n, fr, x, l) ==
    /\ sp \in SpanTables /\ sq \in SpanTables
    /\ sq[s].first = fs /\ sq[s].n = n /\ sq[s].loc = "IN_USE"
    /\ sq[r].first = fr /\ sq[r].n = x /\ sq[r].loc = l
    /\ \A t \in Ids : t # s /\ t # r => sq[t] = sp[t]

\* No neighbour of s is at l.
Alone(sp, s, l) ==
    \A t \in Used(sp) : t # s /\ (End(sp, t) = sp[s].first \/ sp[t].first = End(sp, s))
                            => sp[t].loc # l

\* g is h with s divided and the rest on the free lists.
Carved(h, g, s, r, fs, n, fr, x, l, F) ==
    /\ g \in Heaps /\ SplitSpans(h.span, g.span, s, r, fs, n, fr, x, l)
    /\ g.map = Ending(Ending(h.map, fs, n, s), fr, x, r)
    /\ Books(g, {}, F) /\ g.system = h.system /\ g.index = h.index

\* A span in use is split in two, the rest of it free.  Its neighbours are not free in
\* the same way, so the rest needs no coalescing.
LEMMA SplitGood ==
    ASSUME NEW h, NEW F, Clean(h, F), NEW s, s \in InUse(h.span),
           NEW r, r \in Ids, r \notin Used(h.span),
           NEW fs, NEW n, NEW fr, NEW x, NEW l, l \in FreeLocs,
           Split(h.span, s, fs, n, fr, x), Alone(h.span, s, l),
           NEW g, Carved(h, g, s, r, fs, n, fr, x, l, F), s \notin F,
           NEW U, U = InUse(h.span) \ {s}
    PROVE  /\ Clean(g, F) /\ InUse(g.span) = InUse(h.span) /\ Keeps(h, g, U)
           /\ Land(g) \subseteq Land(h)
<1> USE DEF Clean
<1>m. PICK m : m = Ending(h.map, fs, n, s)
  OBVIOUS
<1>c. /\ g \in Heaps /\ SplitSpans(h.span, g.span, s, r, fs, n, fr, x, l)
      /\ g.map = Ending(m, fr, x, r) /\ Books(g, {}, F) /\ g.system = h.system
  BY <1>m DEF Carved
<1>0. /\ h \in Heaps /\ h.span \in SpanTables /\ F \in SUBSET Ids /\ Used(h.span) \subseteq Ids
      /\ Geometry(h.span, h.map, {}) /\ Placed(h.span) /\ Apart(h.span)
      /\ Merged(h.span, {}) /\ F \subseteq InUse(h.span)
      /\ InUse(h.span) \subseteq Used(h.span)
      /\ h.system = Cardinality(Cover(h.span, Used(h.span)) \cup {})
  BY GoodFacts DEF Good
<1>1. s \in Used(h.span) /\ s \in Ids /\ s # r
  BY <1>0
<1>n. /\ \A t \in Ids : h.span[t].first \in Nat /\ h.span[t].n \in Nat
      /\ \A t \in Used(h.span) : /\ h.span[t].n >= 1 /\ h.span[t].first >= 1
                                 /\ End(h.span, t) <= AddressPages
  BY <1>0, SpanNumbers
<1>2. PICK d : d = [first |-> fs, n |-> n, loc |-> "IN_USE"]
  OBVIOUS
<1>3. d \in Descriptors /\ d.first = fs /\ d.n = n /\ d.loc = "IN_USE"
  BY <1>2 DEF Descriptors, Split, Locations
<1>4. PICK sp : sp = [h.span EXCEPT ![s] = d]
  OBVIOUS
<1>5. sp \in SpanTables /\ sp[s] = d /\ \A t \in Ids : t # s => sp[t] = h.span[t]
  BY <1>0, <1>1, <1>3, <1>4 DEF SpanTables
<1>6. Covers(h.span, sp, s, fs, n)
  BY <1>0, <1>3, <1>5 DEF Covers
<1>7. Covers(sp, g.span, r, fr, x)
  <2>1. \A t \in Ids : t # r => g.span[t] = sp[t]
    <3> SUFFICES ASSUME NEW t \in Ids, t # r
                 PROVE  g.span[t] = sp[t]
      OBVIOUS
    <3>1. CASE t # s
      BY <1>c, <1>5, <3>1 DEF SplitSpans
    <3>2. CASE t = s
      <4>1. g.span[s] \in Descriptors /\ g.span[s].first = fs /\ g.span[s].n = n /\ g.span[s].loc = "IN_USE"
        BY <1>c, <1>1, DescriptorFields DEF SplitSpans
      <4>2. g.span[s] = d
        BY <1>3, <4>1 DEF Descriptors
      <4> QED
        BY <1>5, <3>2, <4>2
    <3> QED
      BY <3>1, <3>2
  <2> QED
    BY <1>c, <1>5, <2>1 DEF Covers, SplitSpans, FreeLocs
<1>8. PICK D : D = RunOf(h.span, s) \ Run(fs, n)
  OBVIOUS
<1>9. Within(h.span, s, fs, n)
  BY <1>1, <1>n DEF Within, Split, End
<1>10. Handed(h.span, sp, m, {}, D) /\ Used(sp) = Used(h.span)
  <2>1. PICK H : H = {}
    OBVIOUS
  <2>2. Geometry(h.span, h.map, H)
    BY <1>0, <2>1
  <2>3. Handed(h.span, sp, m, H, H \cup D) /\ Used(sp) = Used(h.span)
    BY <1>m, <1>1, <1>6, <1>8, <1>9, <2>2, GeometryCut
  <2>4. H \cup D = D
    BY <2>1
  <2> QED
    BY <2>1, <2>3, <2>4
<1>11. D = Run(fr, x)
  BY <1>1, <1>8, <1>n DEF Split, RunOf, Run
<1>12. Fits(D, fr, x)
  BY <1>1, <1>11, <1>n, SystemAssumption DEF Split, Fits, End
<1>13. Handed(sp, g.span, g.map, D, {}) /\ Used(g.span) = Used(sp) \cup {r}
  <2>1. Geometry(sp, m, D) /\ Spare(sp, r) /\ g.map = Ending(m, fr, x, r)
    BY <1>c, <1>10 DEF Handed, Spare
  <2>2. Handed(sp, g.span, g.map, D, Without(D, fr, x)) /\ Gains(sp, g.span, r)
    BY <1>7, <1>12, <2>1, GeometryAdd
  <2>3. Without(D, fr, x) = {}
    BY <1>11 DEF Without
  <2> QED
    BY <2>2, <2>3 DEF Gains
<1>14. /\ Geometry(g.span, g.map, {}) /\ Used(g.span) = Used(h.span) \cup {r}
       /\ Cover(g.span, Used(g.span)) \cup {} = Cover(h.span, Used(h.span)) \cup {}
  BY <1>10, <1>13 DEF Handed
<1>15. InUse(g.span) = InUse(h.span)
  BY <1>c, <1>0, <1>1 DEF InUse, Used, SplitSpans, FreeLocs
<1>16. Merged(g.span, {})
  <2> SUFFICES ASSUME NEW t \in Used(g.span), NEW u \in Used(g.span),
                      g.span[t].loc \in FreeLocs, End(g.span, t) = g.span[u].first,
                      g.span[t].loc = g.span[u].loc
               PROVE  FALSE
    BY DEF Merged
  <2>1. t # s /\ u # s
    BY <1>c DEF SplitSpans, FreeLocs
  <2>2. CASE t # r /\ u # r
    <3>1. t \in Used(h.span) /\ u \in Used(h.span) /\ g.span[t] = h.span[t] /\ g.span[u] = h.span[u]
      BY <1>c, <1>0, <1>14, <2>1, <2>2 DEF SplitSpans
    <3> QED
      BY <1>0, <3>1 DEF Merged, End
  <2>3. CASE t = r
    <3>1. End(g.span, t) = fr + x /\ g.span[t].loc = l /\ u # r
      BY <1>c, <2>3 DEF SplitSpans, End, Split
    <3>2. u \in Used(h.span) /\ g.span[u] = h.span[u] /\ u \in Ids
      BY <1>c, <1>0, <1>14, <2>1, <3>1 DEF SplitSpans
    <3>3. Clear(h.span, s, u)
      BY <1>0, <1>1, <2>1, <3>2 DEF Apart
    <3>4. h.span[u].first = End(h.span, s)
      BY <1>1, <1>n, <3>1, <3>2, <3>3 DEF Split, Clear, End
    <3> QED
      BY <2>1, <3>1, <3>2, <3>4 DEF Alone
  <2>4. CASE u = r /\ t # r
    <3>1. g.span[u].first = fr /\ g.span[t].loc = l
      BY <1>c, <2>4 DEF SplitSpans
    <3>2. t \in Used(h.span) /\ g.span[t] = h.span[t] /\ t \in Ids
      BY <1>c, <1>0, <1>14, <2>1, <2>4 DEF SplitSpans
    <3>3. Clear(h.span, s, t)
      BY <1>0, <1>1, <2>1, <3>2 DEF Apart
    <3>4. End(h.span, t) = h.span[s].first
      BY <1>1, <1>n, <3>1, <3>2, <3>3 DEF Split, Clear, End
    <3> QED
      BY <2>1, <3>1, <3>2, <3>4 DEF Alone
  <2> QED
    BY <2>2, <2>3, <2>4
<1>17. Good(g, {}, {}, F)
  BY <1>c, <1>0, <1>14, <1>15, <1>16 DEF Good
<1>18. Keeps(h, g, InUse(h.span) \ {s})
  <2> SUFFICES ASSUME NEW u \in InUse(h.span), u # s
               PROVE  /\ g.span[u] = h.span[u]
                      /\ \A p \in RunOf(h.span, u) : Leads(g.map, p) = Leads(h.map, p)
    BY DEF Keeps
  <2>1. u \in Used(h.span) /\ u \in Ids /\ u # r
    BY <1>0
  <2>2. g.span[u] = h.span[u]
    BY <1>c, <2>1 DEF SplitSpans
  <2>3. Clear(h.span, s, u)
    BY <1>0, <1>1, <2>1 DEF Apart
  <2>4. /\ fs \notin RunOf(h.span, u) /\ fs + n - 1 \notin RunOf(h.span, u)
        /\ fr \notin RunOf(h.span, u) /\ fr + x - 1 \notin RunOf(h.span, u)
    BY <1>1, <1>n, <2>1, <2>3 DEF Split, RunOf, Run, Clear, End
  <2>5. \A p \in RunOf(h.span, u) : Leads(m, p) = Leads(h.map, p)
    BY <1>m, <2>4 DEF Leads, Ending
  <2>6. \A p \in RunOf(h.span, u) : Leads(g.map, p) = Leads(m, p)
    BY <1>c, <2>4 DEF Leads, Ending
  <2> QED
    BY <2>2, <2>5, <2>6
<1> QED
  BY <1>14, <1>15, <1>17, <1>18 DEF Land

\* e is h with s moved to fs, though it has its old length still, and a descriptor r
\* for the rest.
Divided(h, e, s, r, fs, fr, x, l) ==
    /\ e \in Heaps /\ e.lists = h.lists /\ e.free = h.free /\ e.unmapped = h.unmapped
    /\ e.system = h.system /\ e.index = h.index /\ e.map = Pointing(h.map, fs, s)
    /\ e.span[s].first = fs /\ e.span[s].n = h.span[s].n /\ e.span[s].loc = "IN_USE"
    /\ e.span[r].first = fr /\ e.span[r].n = x /\ e.span[r].loc = l
    /\ \A t \in Ids : t # s /\ t # r => e.span[t] = h.span[t]

\* What the three changes of the page map come to.
LEMMA EndsAgree ==
    ASSUME NEW mp, NEW s, NEW r, NEW fs \in Nat, NEW n \in Nat, NEW fr \in Nat, NEW x \in Nat,
           n >= 1, x >= 1, fs + n <= fr \/ fr + x <= fs,
           NEW a, a = Pointing(mp, fs, s), NEW b, b = Ending(a, fr, x, r),
           NEW e, e = fs + n - 1, NEW c, c = Pointing(b, e, s),
           NEW m, m = Ending(mp, fs, n, s)
    PROVE  c = Ending(m, fr, x, r)
<1>1. DOMAIN a = DOMAIN mp /\ DOMAIN b = DOMAIN mp /\ DOMAIN c = DOMAIN mp /\ DOMAIN m = DOMAIN mp
  BY DEF Pointing, Ending
<1>2. \A q \in DOMAIN mp : b[q] = IF q = fr \/ q = fr + x - 1 THEN r ELSE a[q]
  BY <1>1 DEF Ending
<1>3. \A q \in DOMAIN mp : a[q] = IF q = fs THEN s ELSE mp[q]
  BY DEF Pointing
<1>4. \A q \in DOMAIN mp : m[q] = IF q = fs \/ q = e THEN s ELSE mp[q]
  BY DEF Ending
<1>5. c = [q \in DOMAIN mp |-> IF q = e THEN s ELSE b[q]]
  BY <1>1 DEF Pointing
<1>6. \A q \in DOMAIN mp : (IF q = e THEN s ELSE b[q])
                              = (IF q = fr \/ q = fr + x - 1 THEN r ELSE m[q])
  <2> SUFFICES ASSUME NEW q \in DOMAIN mp
               PROVE  (IF q = e THEN s ELSE b[q]) = (IF q = fr \/ q = fr + x - 1 THEN r ELSE m[q])
    OBVIOUS
  <2>0. e # fr /\ e # fr + x - 1 /\ fs # fr /\ fs # fr + x - 1
    OBVIOUS
  <2>1. CASE q = e
    BY <1>4, <2>0, <2>1
  <2>2. CASE q # e
    BY <1>2, <1>3, <1>4, <2>0, <2>2
  <2> QED
    BY <2>1, <2>2
<1> QED
  BY <1>1, <1>5, <1>6 DEF Ending

\* The second half of Carve(): the rest is recorded and listed, and the span is cut.
LEMMA CarveRest ==
    ASSUME NEW h, NEW F, Clean(h, F), NEW s, s \in InUse(h.span), s \notin F,
           NEW r, r \in Ids, r \notin Used(h.span),
           NEW fs, NEW n, NEW fr, NEW x, NEW l, l \in FreeLocs,
           Split(h.span, s, fs, n, fr, x),
           NEW e, Divided(h, e, s, r, fs, fr, x, l),
           NEW u, u = RecordSpan(e, r), NEW p, p = PrependToFreeList(u, r),
           NEW k, k = Lasting(p, s, n), NEW g, g = Set(k, LastPage(k, s), s)
    PROVE  Carved(h, g, s, r, fs, n, fr, x, l, F)
<1> USE DEF Clean
<1>0. /\ h \in Heaps /\ h.span \in SpanTables /\ F \in SUBSET Ids /\ Used(h.span) \subseteq Ids
      /\ Placed(h.span) /\ Apart(h.span) /\ Books(h, {}, F)
      /\ F \subseteq InUse(h.span) /\ InUse(h.span) \subseteq Used(h.span)
      /\ \A t \in Ids : h.span[t].loc \in FreeLocs => t \in Used(h.span) /\ t \notin InUse(h.span)
  BY GoodFacts
<1>1. s \in Used(h.span) /\ s \in Ids /\ s # r /\ s \in SpanIds /\ r \in SpanIds
  BY <1>0 DEF SpanIds
<1>n. /\ \A t \in Ids : h.span[t].first \in Nat /\ h.span[t].n \in Nat
      /\ \A t \in Used(h.span) : h.span[t].n >= 1
  BY <1>0, SpanNumbers
<1>d. h.span[r] = Unused
  BY <1>0 DEF Used, Placed
<1>2. /\ e \in Heaps /\ e.lists = h.lists /\ e.free = h.free /\ e.unmapped = h.unmapped
      /\ e.system = h.system /\ e.index = h.index /\ e.map = Pointing(h.map, fs, s)
      /\ e.span[s].first = fs /\ e.span[s].n = h.span[s].n /\ e.span[s].loc = "IN_USE"
      /\ e.span[r].first = fr /\ e.span[r].n = x /\ e.span[r].loc = l
      /\ \A t \in Ids : t # s /\ t # r => e.span[t] = h.span[t]
  BY DEF Divided
<1>3. NewMap(e, u) /\ u.map = Ending(e.map, fr, x, r)
  BY <1>2, RecordFields
<1>4. /\ u \in Heaps /\ u.span = e.span /\ u.lists = h.lists /\ u.free = h.free
      /\ u.unmapped = h.unmapped /\ u.system = h.system /\ u.index = h.index
  BY <1>2, <1>3 DEF NewMap
<1>5. Books(u, {r}, F)
  <2>1. PICK X : X = {}
    OBVIOUS
  <2>2. PICK Y : Y = {r}
    OBVIOUS
  <2>3. Books(h, X, F)
    BY <1>0, <2>1
  <2>4. \A t \in F : u.span[t] = h.span[t]
    BY <1>0, <1>2, <1>4
  <2>5. \A t \in Ids : t \notin X /\ h.span[t].loc \in FreeLocs => t \notin Y /\ u.span[t] = h.span[t]
    BY <1>0, <1>2, <1>4, <2>2
  <2>6. \A t \in Ids : t \notin Y /\ u.span[t].loc \in FreeLocs => t \notin X /\ u.span[t] = h.span[t]
    BY <1>2, <1>4, <2>1, <2>2 DEF FreeLocs
  <2>7. Books(u, Y, F)
    BY <1>0, <1>4, <2>3, <2>4, <2>5, <2>6, BooksFrame
  <2> QED
    BY <2>2, <2>7
<1>6. ClearOf(u.span, r, F)
  <2> SUFFICES ASSUME NEW t \in Ids, t # r, t \in F \/ u.span[t].loc \in FreeLocs
               PROVE  Clear(u.span, r, t)
    BY DEF ClearOf
  <2>1. t # s
    BY <1>2, <1>4 DEF FreeLocs
  <2>2. u.span[t] = h.span[t] /\ t \in Used(h.span)
    BY <1>0, <1>2, <1>4, <2>1
  <2>3. Clear(h.span, s, t)
    BY <1>0, <1>1, <2>1, <2>2 DEF Apart
  <2> QED
    BY <1>1, <1>2, <1>4, <1>n, <2>2, <2>3 DEF Clear, End, Split
<1>7. /\ p \in Heaps /\ Books(p, {}, F)
      /\ p.span = u.span /\ p.map = u.map /\ p.system = u.system /\ p.index = u.index
  <2>1. PICK Y : Y = {r}
    OBVIOUS
  <2>2. PICK X : X = {}
    OBVIOUS
  <2>3. Books(u, Y, F) /\ r \in Y /\ X = Y \ {r} /\ r \notin F /\ u.span[r].loc \in FreeLocs
    BY <1>0, <1>2, <1>4, <1>5, <2>1, <2>2
  <2>4. /\ p \in Heaps /\ Books(p, X, F)
        /\ p.span = u.span /\ p.map = u.map /\ p.system = u.system /\ p.index = u.index
    BY <1>0, <1>4, <1>6, <2>3, PrependBooks
  <2> QED
    BY <2>2, <2>4
<1>s. fs \in Nat /\ n \in Nat /\ fr \in Nat /\ x \in Nat /\ n >= 1 /\ x >= 1
      /\ (fs + n <= fr \/ fr + x <= fs)
  BY <1>1, <1>n DEF Split
<1>8. /\ NewSpans(p, k)
      /\ k.span[s].first = p.span[s].first /\ k.span[s].n = n /\ k.span[s].loc = p.span[s].loc
      /\ \A t \in Ids : t # s => k.span[t] = p.span[t]
  BY <1>1, <1>7, <1>s, LengthUpdate
<1>9. LastPage(k, s) = fs + n - 1
  BY <1>2, <1>4, <1>7, <1>8 DEF LastPage
<1>10. PICK y : y = fs + n - 1
  OBVIOUS
<1>11. NewMap(k, g) /\ g.map = Pointing(k.map, y, s)
  BY <1>1, <1>8, <1>9, <1>10, SetFields DEF NewSpans
<1>12. /\ g \in Heaps /\ g.span = k.span /\ g.lists = p.lists /\ g.free = p.free
       /\ g.unmapped = p.unmapped /\ g.system = h.system /\ g.index = h.index
       /\ k.map = u.map
  BY <1>4, <1>7, <1>8, <1>11 DEF NewMap, NewSpans
<1>m. PICK m : m = Ending(h.map, fs, n, s)
  OBVIOUS
<1>13. g.map = Ending(m, fr, x, r)
  <2>1. /\ e.map = Pointing(h.map, fs, s) /\ u.map = Ending(e.map, fr, x, r)
        /\ g.map = Pointing(u.map, y, s)
    BY <1>2, <1>3, <1>11, <1>12
  <2> QED
    BY <1>m, <1>s, <1>10, <2>1, EndsAgree
<1>14. SplitSpans(h.span, g.span, s, r, fs, n, fr, x, l)
  BY <1>0, <1>1, <1>2, <1>4, <1>7, <1>8, <1>12, HeapFields DEF SplitSpans
<1>15. Books(g, {}, F)
  <2>1. PICK X : X = {}
    OBVIOUS
  <2>2. Books(p, X, F)
    BY <1>7, <2>1
  <2>3. \A t \in F : g.span[t] = p.span[t]
    BY <1>0, <1>8, <1>12
  <2>4. g.span[s].loc \notin FreeLocs /\ p.span[s].loc \notin FreeLocs
    BY <1>2, <1>4, <1>7, <1>8, <1>12 DEF FreeLocs
  <2>5. \A t \in Ids : t \notin X /\ p.span[t].loc \in FreeLocs => t \notin X /\ g.span[t] = p.span[t]
    BY <1>8, <1>12, <2>4
  <2>6. \A t \in Ids : t \notin X /\ g.span[t].loc \in FreeLocs => t \notin X /\ g.span[t] = p.span[t]
    BY <1>8, <1>12, <2>4
  <2>7. Books(g, X, F)
    BY <1>0, <1>7, <1>12, <2>2, <2>3, <2>5, <2>6, BooksFrame
  <2> QED
    BY <2>1, <2>7
<1> QED
  BY <1>m, <1>12, <1>13, <1>14, <1>15 DEF Carved

\* g is h with the free span s, or n pages of it, in use.
CarvedOut(h, g, s, n, F) ==
    /\ Clean(g, F)
    /\ InUse(g.span) = InUse(h.span) \cup {s} /\ s \notin InUse(h.span)
    /\ Keeps(h, g, InUse(h.span))
    /\ g.system = h.system /\ g.index = h.index /\ Land(g) \subseteq Land(h)
    /\ s \in Ids /\ g.span[s].n = n

\* The two ways to divide s.
LEMMA DividedFacts ==
    ASSUME NEW h, NEW b, NEW c, NEW e, NEW s, NEW r, NEW fs, NEW fr, NEW x, NEW l,
           r # s, s \in Ids, r \in Ids, h.span[s].loc = "IN_USE",
           NewSpans(h, b),
           b.span[s].first = fs /\ b.span[s].n = h.span[s].n /\ b.span[s].loc = h.span[s].loc,
           \A t \in Ids : t # s => b.span[t] = h.span[t],
           Respan(b, c, r, fr, x, l),
           NewMap(c, e), e.map = Pointing(c.map, fs, s)
    PROVE  Divided(h, e, s, r, fs, fr, x, l)
<1>7. /\ e.map = Pointing(h.map, fs, s) /\ e.span = c.span
      /\ e \in Heaps /\ e.lists = h.lists /\ e.free = h.free /\ e.unmapped = h.unmapped
      /\ e.system = h.system /\ e.index = h.index
  BY DEF Respan, NewSpans, NewMap
<1>8. /\ e.span[s].first = fs /\ e.span[s].n = h.span[s].n /\ e.span[s].loc = "IN_USE"
      /\ e.span[r].first = fr /\ e.span[r].n = x /\ e.span[r].loc = l
  BY <1>7 DEF Respan
<1>9. \A t \in Ids : t # s /\ t # r => e.span[t] = h.span[t]
  BY <1>7 DEF Respan
<1> QED
  BY <1>7, <1>8, <1>9 DEF Divided

\* Where the heap grows down, the rest is in front of the span, ...
LEMMA DividedDown ==
    ASSUME NEW h, h \in Heaps, NEW s, s \in Ids, h.span[s].loc = "IN_USE",
           NEW r, r \in Ids, r # s, r = FreshSpan(h), h.span[r] = Unused,
           NEW fs, NEW n, NEW fr, NEW x, Split(h.span, s, fs, n, fr, x),
           NEW l, l \in FreeLocs, fr = h.span[s].first,
           fs = h.span[s].first + x,
           NEW b, b = Starting(h, s, fs), NEW c, c = SpanNew(b, fr, x, l),
           NEW e, e = Set(c, FirstPage(c, s), s)
    PROVE  Divided(h, e, s, r, fs, fr, x, l)
<1>0. fs \in Nat /\ fr \in Nat /\ x \in Nat /\ l \in Locations /\ s \in SpanIds
  BY DEF Split, FreeLocs, Locations, SpanIds
<1>1. /\ NewSpans(h, b)
      /\ b.span[s].first = fs /\ b.span[s].n = h.span[s].n /\ b.span[s].loc = h.span[s].loc
      /\ \A t \in Ids : t # s => b.span[t] = h.span[t]
  BY <1>0, FirstUpdate
<1>2. r = FreshSpan(b)
  <2>1. b.span[s] # Unused /\ h.span[s] # Unused
    BY <1>1 DEF Unused
  <2>2. \A t \in Ids : b.span[t] = Unused <=> h.span[t] = Unused
    BY <1>1, <2>1
  <2> QED
    BY <2>2, FreshSpanSame
<1>3. Respan(b, c, r, fr, x, l)
  BY <1>0, <1>1, <1>2, SpanNewFields DEF NewSpans
<1>4. c \in Heaps /\ c.span[s] = b.span[s]
  BY <1>3 DEF Respan, NewSpans
<1>5. FirstPage(c, s) = fs
  BY <1>1, <1>4 DEF FirstPage
<1>6. NewMap(c, e) /\ e.map = Pointing(c.map, fs, s)
  BY <1>0, <1>4, <1>5, SetFields
<1> QED
  BY <1>1, <1>3, <1>4, <1>6, DividedFacts, ZenonT(60)

\* ... and otherwise behind it.
LEMMA DividedUp ==
    ASSUME NEW h, h \in Heaps, NEW s, s \in Used(h.span), h.span[s].loc = "IN_USE",
           Mapped(h.span, h.map, {}), h.span[s].first \in RunOf(h.span, s),
           NEW r, r \in Ids, r # s, r = FreshSpan(h),
           NEW fs, NEW n, NEW fr, NEW x, Split(h.span, s, fs, n, fr, x),
           NEW l, l \in FreeLocs, fs = h.span[s].first,
           NEW e, e = SpanNew(h, fr, x, l)
    PROVE  Divided(h, e, s, r, fs, fr, x, l)
<1>0. fs \in Nat /\ fr \in Nat /\ x \in Nat /\ l \in Locations /\ s \in Ids
  BY DEF Split, FreeLocs, Locations, Used
<1>1. Respan(h, e, r, fr, x, l)
  BY <1>0, SpanNewFields
<1>2. h.map = Pointing(h.map, fs, s)
  <2>1. fs \in DOMAIN h.map /\ h.map[fs] = s
    BY DEF Mapped
  <2>2. PICK D : h.map \in [D -> SpanIds]
    BY HeapFields DEF PageMaps
  <2> QED
    BY <2>1, <2>2 DEF Pointing
<1> QED
  BY <1>0, <1>1, <1>2 DEF Divided, Respan, NewSpans

\* Carve().
LEMMA CarveGood ==
    ASSUME NEW h, NEW F, Clean(h, F), NEW s, s \in Ids, h.span[s].loc \in FreeLocs,
           NEW n \in Nat, n >= 1, n <= h.span[s].n, NEW g, g = Carve(h, s, n)
    PROVE  CarvedOut(h, g, s, n, F)
<1>1. PICK a : a = RemoveFromFreeList(h, s)
  OBVIOUS
<1>2. PICK b : b = Located(a, s, "IN_USE")
  OBVIOUS
<1>t. Taken(h, b, s, F)
  BY <1>1, <1>2, TakeGood
<1>3. /\ Clean(b, F)
      /\ InUse(b.span) = InUse(h.span) \cup {s} /\ s \notin InUse(h.span)
      /\ b.span[s].first = h.span[s].first /\ b.span[s].n = h.span[s].n
      /\ \A t \in Ids : t # s => b.span[t] = h.span[t]
      /\ b.map = h.map /\ b.system = h.system /\ b.index = h.index /\ Land(b) \subseteq Land(h)
  BY <1>t DEF Taken
<1>4. /\ b \in Heaps /\ b.span \in SpanTables /\ Placed(b.span) /\ Apart(b.span)
      /\ Mapped(b.span, b.map, {}) /\ InUse(b.span) \subseteq Used(b.span) /\ Used(b.span) \subseteq Ids
      /\ s \in InUse(b.span) /\ s \in Used(b.span) /\ b.span[s].loc = "IN_USE"
  BY <1>3, GoodFacts DEF InUse, Clean
<1>n. /\ h.span[s].n \in Nat /\ h.span[s].first \in Nat /\ b.span[s].first \in RunOf(b.span, s)
  <2>1. b.span[s].n >= 1 /\ b.span[s].n \in Nat /\ b.span[s].first \in Nat
    BY <1>4, SpanNumbers
  <2> QED
    BY <1>3, <2>1 DEF RunOf, Run
<1>5. Keeps(h, b, InUse(h.span))
  <2>1. \A t \in InUse(h.span) : t # s /\ t \in Ids
    BY <1>3 DEF InUse
  <2> QED
    BY <1>3, <2>1 DEF Keeps
<1>6. PICK x : x = h.span[s].n - n
  OBVIOUS
<1>l. PICK l : l = h.span[s].loc
  OBVIOUS
<1>7. [RemoveFromFreeList(h, s) EXCEPT !.span[s].loc = "IN_USE"] = b
  BY <1>1, <1>2 DEF Located
<1>8. CASE x = 0
  <2>1. g = b
    BY <1>6, <1>7, <1>8 DEF Carve
  <2> QED
    BY <1>3, <1>5, <1>6, <1>8, <1>n, <2>1 DEF CarvedOut
<1>9. CASE x # 0
  <2>0. x \in Nat /\ x >= 1
    BY <1>6, <1>9, <1>n
  <2>1. PICK r : r = FreshSpan(b)
    OBVIOUS
  <2>2. r \in Ids /\ r \notin Used(b.span) /\ r # s /\ b.span[r] = Unused
    BY <1>4, <2>1, FreshSpanUnused
  <2>3. l \in FreeLocs /\ s \notin F
    BY <1>3, <1>l, GoodFacts DEF Good, Clean
  <2>4. Alone(b.span, s, l)
    <3>1. Merged(h.span, {}) /\ s \in Used(h.span) /\ Used(b.span) = Used(h.span)
      <4>1. Merged(h.span, {}) /\ s \in Used(h.span)
        BY GoodFacts DEF Clean
      <4>2. Used(b.span) = Used(h.span)
        BY <1>3, <1>4, <4>1 DEF Used
      <4> QED
        BY <4>1, <4>2
    <3>2. \A t \in Used(b.span) : t \in Ids
      BY <1>4
    <3> QED
      BY <1>3, <1>l, <2>3, <3>1, <3>2 DEF Alone, Merged, End
  <2>5. \E fs, fr, e, u, p, k :
          /\ Split(b.span, s, fs, n, fr, x) /\ Divided(b, e, s, r, fs, fr, x, l)
          /\ u = RecordSpan(e, r) /\ p = PrependToFreeList(u, r)
          /\ k = Lasting(p, s, n) /\ g = Set(k, LastPage(k, s), s)
    <3>1. CASE GrowsDown(b, s)
      <4>1. PICK fr : fr = h.span[s].first
        OBVIOUS
      <4>2. PICK fs : fs = h.span[s].first + x
        OBVIOUS
      <4>3. PICK v : v = Starting(b, s, fs)
        OBVIOUS
      <4>4. PICK c : c = SpanNew(v, fr, x, l)
        OBVIOUS
      <4>5. PICK e : e = Set(c, FirstPage(c, s), s)
        OBVIOUS
      <4>6. PICK u : u = RecordSpan(e, r)
        OBVIOUS
      <4>7. PICK p : p = PrependToFreeList(u, r)
        OBVIOUS
      <4>8. PICK k : k = Lasting(p, s, n)
        OBVIOUS
      <4>9. Split(b.span, s, fs, n, fr, x)
        BY <1>3, <1>6, <1>n, <2>0, <4>1, <4>2 DEF Split
      <4>10. Divided(b, e, s, r, fs, fr, x, l)
        BY <1>3, <1>4, <2>1, <2>2, <2>3, <4>1, <4>2, <4>3, <4>4, <4>5, <4>9, DividedDown
      <4>11. [b EXCEPT !.span[s].first = @ + x] = v
        BY <1>3, <4>2, <4>3 DEF Starting
      <4>12. g = Set(k, LastPage(k, s), s)
        BY <1>6, <1>7, <1>9, <1>l, <2>1, <3>1, <4>1, <4>4, <4>5, <4>6, <4>7, <4>8, <4>11
           DEF Carve, Lasting
      <4> QED
        BY <4>6, <4>7, <4>8, <4>9, <4>10, <4>12
    <3>2. CASE ~ GrowsDown(b, s)
      <4>1. PICK fr : fr = h.span[s].first + n
        OBVIOUS
      <4>2. PICK fs : fs = h.span[s].first
        OBVIOUS
      <4>5. PICK e : e = SpanNew(b, fr, x, l)
        OBVIOUS
      <4>6. PICK u : u = RecordSpan(e, r)
        OBVIOUS
      <4>7. PICK p : p = PrependToFreeList(u, r)
        OBVIOUS
      <4>8. PICK k : k = Lasting(p, s, n)
        OBVIOUS
      <4>9. Split(b.span, s, fs, n, fr, x)
        BY <1>3, <1>6, <1>n, <2>0, <4>1, <4>2 DEF Split
      <4>10. Divided(b, e, s, r, fs, fr, x, l)
        BY <1>3, <1>4, <1>n, <2>1, <2>2, <2>3, <4>1, <4>2, <4>5, <4>9, DividedUp
      <4>12. g = Set(k, LastPage(k, s), s)
        BY <1>6, <1>7, <1>9, <1>l, <2>1, <3>2, <4>1, <4>5, <4>6, <4>7, <4>8, ZenonT(60)
           DEF Carve, Lasting
      <4> QED
        BY <4>6, <4>7, <4>8, <4>9, <4>10, <4>12
    <3> QED
      BY <3>1, <3>2
  <2>6. PICK fs, fr, e, u, p, k :
          /\ Split(b.span, s, fs, n, fr, x) /\ Divided(b, e, s, r, fs, fr, x, l)
          /\ u = RecordSpan(e, r) /\ p = PrependToFreeList(u, r)
          /\ k = Lasting(p, s, n) /\ g = Set(k, LastPage(k, s), s)
    BY <2>5
  <2>8. Carved(b, g, s, r, fs, n, fr, x, l, F)
    BY <1>3, <1>4, <2>2, <2>3, <2>6, CarveRest
  <2>u. PICK U : U = InUse(b.span) \ {s}
    OBVIOUS
  <2>9. /\ Clean(g, F) /\ InUse(g.span) = InUse(b.span) /\ Keeps(b, g, U)
        /\ Land(g) \subseteq Land(b)
    <3>1. Clean(b, F) /\ s \in InUse(b.span) /\ s \notin F
      BY <1>3, <1>4, <2>3
    <3>2. r \in Ids /\ r \notin Used(b.span) /\ l \in FreeLocs
      BY <1>4, <2>2, <2>3
    <3>3. Split(b.span, s, fs, n, fr, x) /\ Alone(b.span, s, l)
      BY <2>4, <2>6
    <3> QED
      BY <2>u, <2>8, <3>1, <3>2, <3>3, SplitGood
  <2>10. InUse(h.span) \subseteq U
    BY <1>3, <2>u
  <2>11. Keeps(h, g, InUse(h.span))
    BY <1>5, <2>9, <2>10, KeepsBoth
  <2>12. g.span[s].n = n
    BY <2>8 DEF Carved, SplitSpans
  <2> QED
    BY <1>3, <2>8, <2>9, <2>11, <2>12 DEF Carved, CarvedOut
<1> QED
  BY <1>8, <1>9

----------------------------------------------------------------------------
(***************************************************************************)
(* SearchFreeAndLargeLists() and AllocLarge().                             *)
(***************************************************************************)

\* s is a free span of n pages or more.
LongEnough(h, s, n) == s \in Ids /\ h.span[s].loc \in FreeLocs /\ h.span[s].n >= n

\* What is on a list is a free span of its length.
LEMMA OnList ==
    ASSUME NEW h, NEW F, Clean(h, F), NEW k \in 0 .. kMaxPages
    PROVE  /\ h.lists[k].normal \in Seq(Ids) /\ h.lists[k].returned \in Seq(Ids)
           /\ \A s \in Range(h.lists[k].normal) \cup Range(h.lists[k].returned) :
                s \in Ids /\ h.span[s].loc \in FreeLocs /\ ListOf(h.span[s].n) = k
           /\ \A s \in Ids : h.span[s].loc \in FreeLocs /\ ListOf(h.span[s].n) = k =>
                s \in Range(h.lists[k].normal) \cup Range(h.lists[k].returned)
           /\ \A s \in Range(h.lists[k].normal) : h.span[s].loc = "NORMAL"
<1>1. h \in Heaps /\ Listed(h.span, h.lists, {})
  BY DEF Clean, Good, Books
<1>2. h.lists[k].normal \in Seq(Ids) /\ h.lists[k].returned \in Seq(Ids)
  BY <1>1, HeapFields DEF ListTables, ListPairs
<1>3. /\ Range(h.lists[k].normal) = {s \in Free(h.span, {}, "NORMAL") : ListOf(h.span[s].n) = k}
      /\ Range(h.lists[k].returned) = {s \in Free(h.span, {}, "RETURNED") : ListOf(h.span[s].n) = k}
  BY <1>1 DEF Listed, Exactly
<1> QED
  BY <1>2, <1>3 DEF Free, FreeLocs

\* The head of two lists is on one of them.
LEMMA HeadInRange ==
    ASSUME NEW S, NEW a \in Seq(S), NEW b \in Seq(S), a # <<>> \/ b # <<>>
    PROVE  Head(a \o b) \in Range(a) \cup Range(b)
<1>1. /\ a \o b \in Seq(S) /\ Len(a \o b) = Len(a) + Len(b)
      /\ \A i \in 1 .. Len(a) + Len(b) : (a \o b)[i] = IF i <= Len(a) THEN a[i] ELSE b[i - Len(a)]
  BY ConcatProperties
<1>2. Len(a) \in Nat /\ Len(b) \in Nat /\ DOMAIN a = 1 .. Len(a) /\ DOMAIN b = 1 .. Len(b)
  BY LenProperties
<1>3. Len(a) + Len(b) >= 1
  <2>1. a # <<>> => Len(a) # 0
    BY EmptySeq
  <2>2. b # <<>> => Len(b) # 0
    BY EmptySeq
  <2> QED
    BY <1>2, <2>1, <2>2
<1>4. a \o b # <<>>
  BY <1>1, <1>2, <1>3, EmptySeq
<1>5. Head(a \o b) = (a \o b)[1]
  BY <1>1, <1>4, HeadTailProperties
<1>6. CASE Len(a) >= 1
  <2>1. (a \o b)[1] = a[1] /\ 1 \in DOMAIN a
    BY <1>1, <1>2, <1>3, <1>6
  <2> QED
    BY <1>5, <2>1 DEF Range
<1>7. CASE Len(a) = 0
  <2>1. (a \o b)[1] = b[1] /\ 1 \in DOMAIN b
    BY <1>1, <1>2, <1>3, <1>7
  <2> QED
    BY <1>5, <2>1 DEF Range
<1> QED
  BY <1>2, <1>6, <1>7

\* The shortest span, the lowest of these, exists among any.
LEMMA BestExists ==
    ASSUME NEW h, h \in Heaps, NEW L, L \in SUBSET Ids, L # {}
    PROVE  \E s \in L : \A r \in L : IsSpanBetter(h, s, r)
<1>1. \A s \in L : h.span[s].n \in Nat /\ h.span[s].first \in Nat
  BY DescriptorFields
<1>2. PICK N : N = {h.span[s].n : s \in L}
  OBVIOUS
<1>3. N \in SUBSET Nat /\ N # {}
  BY <1>1, <1>2
<1>4. PICK m \in N : \A y \in N : m <= y
  BY <1>3, LeastExists
<1>5. PICK A : A = {h.span[s].first : s \in {r \in L : h.span[r].n = m}}
  OBVIOUS
<1>6. A \in SUBSET Nat /\ A # {}
  BY <1>1, <1>2, <1>4, <1>5
<1>7. PICK f \in A : \A y \in A : f <= y
  BY <1>6, LeastExists
<1>8. PICK s \in L : h.span[s].n = m /\ h.span[s].first = f
  BY <1>5, <1>7
<1>9. \A r \in L : IsSpanBetter(h, s, r)
  <2> SUFFICES ASSUME NEW r \in L
               PROVE  IsSpanBetter(h, s, r)
    OBVIOUS
  <2>1. m <= h.span[r].n /\ m \in Nat /\ h.span[r].n \in Nat
    BY <1>1, <1>2, <1>3, <1>4
  <2>2. CASE m = h.span[r].n
    <3>1. h.span[r].first \in A
      BY <1>5, <2>2
    <3> QED
      BY <1>7, <1>8, <2>2, <3>1 DEF IsSpanBetter, FirstPage
  <2>3. CASE m # h.span[r].n
    BY <1>8, <2>1, <2>3 DEF IsSpanBetter
  <2> QED
    BY <2>2, <2>3
<1> QED
  BY <1>9

\* The search finds a span that is long enough, and does when there is one.
LEMMA SearchGood ==
    ASSUME NEW h, NEW F, Clean(h, F), NEW n \in Nat, n >= 1, NEW s, s = Search(h, n)
    PROVE  /\ s # NoSpan => LongEnough(h, s, n)
           /\ (\E r \in Ids : LongEnough(h, r, n)) => s # NoSpan
<1>0. h \in Heaps /\ \A t \in Ids : h.span[t].n \in Nat
  BY DescriptorFields DEF Clean, Good
<1>k. kMaxPages \in Nat /\ kMaxPages >= 1
  BY PageHeapAssumption
<1>i. \A t \in Ids : t # NoSpan
  BY SystemAssumption DEF Ids, NoSpan
<1>1. PICK full : full = {k \in n .. (kMaxPages - 1) : h.lists[k] # EmptyPair}
  OBVIOUS
<1>2. CASE full # {}
  <2>1. PICK k : k = CHOOSE j \in full : \A r \in full : j <= r
    OBVIOUS
  <2>2. k \in full
    <3>1. full \in SUBSET Nat
      BY <1>1
    <3>2. \E j \in full : \A r \in full : j <= r
      BY <1>2, <3>1, LeastExists
    <3> QED
      BY <2>1, <3>2
  <2>3. k \in 0 .. kMaxPages /\ n <= k /\ k < kMaxPages /\ k \in Nat /\ h.lists[k] # EmptyPair
    BY <1>1, <1>k, <2>2
  <2>4. s = Head(h.lists[k].normal \o h.lists[k].returned)
    BY <1>1, <1>2, <2>1 DEF Search
  <2>5. h.lists[k].normal # <<>> \/ h.lists[k].returned # <<>>
    <3>1. h.lists[k] \in ListPairs
      BY <1>0, <2>3, HeapFields DEF ListTables
    <3> QED
      BY <2>3, <3>1 DEF ListPairs, EmptyPair
  <2>6. s \in Range(h.lists[k].normal) \cup Range(h.lists[k].returned)
    <3>1. h.lists[k].normal \in Seq(Ids) /\ h.lists[k].returned \in Seq(Ids)
      BY <2>3, OnList
    <3> QED
      BY <2>4, <2>5, <3>1, HeadInRange
  <2>7. s \in Ids /\ h.span[s].loc \in FreeLocs /\ ListOf(h.span[s].n) = k
    BY <2>3, <2>6, OnList
  <2>8. h.span[s].n = k
    BY <1>0, <1>k, <2>3, <2>7 DEF ListOf
  <2> QED
    BY <1>i, <2>3, <2>7, <2>8 DEF LongEnough
<1>3. CASE full = {}
  <2>1. PICK L : L = {t \in Range(h.lists[kMaxPages].normal)
                            \cup Range(h.lists[kMaxPages].returned) : h.span[t].n >= n}
    OBVIOUS
  <2>k. kMaxPages \in 0 .. kMaxPages
    BY <1>k
  <2>2. \A t \in L : LongEnough(h, t, n)
    BY <2>1, <2>k, OnList DEF LongEnough
  <2>3. s = IF L = {} THEN NoSpan ELSE CHOOSE t \in L : \A r \in L : IsSpanBetter(h, t, r)
    <3>1. s = AllocLarge(h, n)
      BY <1>1, <1>3 DEF Search
    <3> QED
      BY <2>1, <3>1 DEF AllocLarge
  <2>4. CASE L = {}
    <3>1. s = NoSpan
      BY <2>3, <2>4
    <3>2. ASSUME NEW r \in Ids, LongEnough(h, r, n)
          PROVE  FALSE
      <4>1. h.span[r].n \in Nat /\ h.span[r].n >= n /\ h.span[r].loc \in FreeLocs
        BY <1>0, <3>2 DEF LongEnough
      <4>2. CASE h.span[r].n < kMaxPages
        <5>1. PICK k : k = h.span[r].n
          OBVIOUS
        <5>2. ListOf(h.span[r].n) = k /\ k \in 0 .. kMaxPages /\ k \in n .. (kMaxPages - 1)
          BY <1>k, <4>1, <4>2, <5>1 DEF ListOf
        <5>3. r \in Range(h.lists[k].normal) \cup Range(h.lists[k].returned)
          BY <4>1, <5>2, OnList
        <5>4. h.lists[k] = EmptyPair
          BY <1>1, <1>3, <5>2
        <5>5. h.lists[k].normal = <<>> /\ h.lists[k].returned = <<>>
          BY <5>4 DEF EmptyPair
        <5> QED
          BY <5>3, <5>5 DEF Range
      <4>3. CASE ~ (h.span[r].n < kMaxPages)
        <5>1. ListOf(h.span[r].n) = kMaxPages
          BY <4>3 DEF ListOf
        <5>2. r \in Range(h.lists[kMaxPages].normal) \cup Range(h.lists[kMaxPages].returned)
          BY <2>k, <4>1, <5>1, OnList
        <5> QED
          BY <2>1, <2>4, <4>1, <5>2
      <4> QED
        BY <4>2, <4>3
    <3> QED
      BY <3>1, <3>2
  <2>5. CASE L # {}
    <3>1. L \in SUBSET Ids
      BY <2>2 DEF LongEnough
    <3>2. \E t \in L : \A r \in L : IsSpanBetter(h, t, r)
      BY <1>0, <2>5, <3>1, BestExists
    <3>3. s \in L
      BY <2>3, <2>5, <3>2
    <3> QED
      BY <1>i, <2>2, <3>1, <3>3
  <2> QED
    BY <2>4, <2>5
<1> QED
  BY <1>2, <1>3

----------------------------------------------------------------------------
(***************************************************************************)
(* GrowHeap().                                                             *)
(***************************************************************************)

\* PageMap::Ensure(): pages without a leaf led nowhere, and still do.
LEMMA EnsureFields ==
    ASSUME NEW h, h \in Heaps, NEW p, NEW n, NEW g, g = Ensure(h, p, n)
    PROVE  /\ NewMap(h, g) /\ DOMAIN h.map \subseteq DOMAIN g.map
           /\ \A q \in Pages : q \in Run(p, n) => q \in DOMAIN g.map
           /\ \A q \in DOMAIN g.map : g.map[q] = Leads(h.map, q)
<1>1. PICK leaves : leaves = {q \div kLeafLength : q \in Run(p, n)}
  OBVIOUS
<1>2. PICK D : D = DOMAIN h.map \cup {q \in Pages : q \div kLeafLength \in leaves}
  OBVIOUS
<1>3. PICK m : m = [q \in D |-> GetDescriptor(h, q)]
  OBVIOUS
<1>4. g = [h EXCEPT !.map = m]
  BY <1>1, <1>2, <1>3 DEF Ensure
<1>5. PICK E \in SUBSET Pages : h.map \in [E -> SpanIds]
  BY HeapFields DEF PageMaps
<1>6. \A q \in D : GetDescriptor(h, q) \in SpanIds /\ GetDescriptor(h, q) = Leads(h.map, q)
  BY <1>5 DEF GetDescriptor, Leads, SpanIds
<1>7. D \in SUBSET Pages
  BY <1>2, <1>5
<1>8. m \in [D -> SpanIds]
  BY <1>3, <1>6
<1>9. m \in PageMaps
  BY <1>7, <1>8 DEF PageMaps
<1>10. NewMap(h, g) /\ g.map = m
  BY <1>4, <1>9 DEF Heaps, NewMap
<1>11. DOMAIN m = D /\ \A q \in D : m[q] = Leads(h.map, q)
  BY <1>3, <1>6
<1>12. \A q \in Pages : q \in Run(p, n) => q \in D
  BY <1>1, <1>2
<1> QED
  BY <1>2, <1>10, <1>11, <1>12

\* g differs from h in the count of system pages only.
NewSystem(h, g) ==
    /\ g \in Heaps /\ g.span = h.span /\ g.map = h.map /\ g.lists = h.lists /\ g.free = h.free
    /\ g.unmapped = h.unmapped /\ g.index = h.index

\* The count of system pages is a field of its own.
LEMMA SystemUpdate ==
    ASSUME NEW h, h \in Heaps, NEW x, x \in Int, NEW g, g = [h EXCEPT !.system = x]
    PROVE  NewSystem(h, g) /\ g.system = x
BY DEF Heaps, NewSystem

\* g is h with the n pages from f on, and a free span of that many pages or more.
Extended(h, g, f, n, F) ==
    /\ Clean(g, F)
    /\ InUse(g.span) = InUse(h.span) /\ Keeps(h, g, InUse(h.span))
    /\ g.index = h.index /\ g.system = h.system + n
    /\ Land(g) \subseteq Land(h) \cup Run(f, n)
    /\ \E r \in Ids : LongEnough(g, r, n)

\* GrowHeap(): pages from the system that no span has become a returned span.
LEMMA GrowGood ==
    ASSUME NEW h, NEW F, Clean(h, F), NEW got, NEW f, NEW n, f = got.ptr, n = got.n,
           f \in Nat, n \in Nat, n >= 1, f >= 1, f + n <= AddressPages,
           Run(f, n) \cap Land(h) = {}, NEW g, g = GrowHeap(h, got)
    PROVE  Extended(h, g, f, n, F)
<1>0. /\ h \in Heaps /\ h.span \in SpanTables /\ F \in SUBSET Ids /\ Geometry(h.span, h.map, {})
      /\ Books(h, {}, F) /\ Merged(h.span, {}) /\ F \subseteq InUse(h.span)
      /\ h.system = Cardinality(Land(h) \cup {}) /\ h.system \in Int
      /\ Used(h.span) \subseteq Ids
  BY GoodFacts, HeapFields DEF Clean, Good, Land
<1>1. PICK x : x = h.system + n
  OBVIOUS
<1>2. PICK a : a = [h EXCEPT !.system = x]
  OBVIOUS
<1>3. PICK b : b = Ensure(a, f - 1, n + 2)
  OBVIOUS
<1>4. [h EXCEPT !.system = @ + got.n] = a
  BY <1>1, <1>2
<1>5. g = Extra(b, f, n, "RETURNED")
  BY <1>3, <1>4 DEF GrowHeap
<1>6. x \in Int
  BY <1>0, <1>1
<1>7. NewSystem(h, a) /\ a.system = x
  BY <1>0, <1>2, <1>6, SystemUpdate
<1>8. /\ NewMap(a, b) /\ DOMAIN a.map \subseteq DOMAIN b.map
      /\ \A q \in Pages : q \in Run(f - 1, n + 2) => q \in DOMAIN b.map
      /\ \A q \in DOMAIN b.map : b.map[q] = Leads(a.map, q)
  <2>1. PICK p : p = f - 1
    OBVIOUS
  <2>2. PICK m : m = n + 2
    OBVIOUS
  <2>3. a \in Heaps /\ b = Ensure(a, p, m)
    BY <1>3, <1>7, <2>1, <2>2 DEF NewSystem
  <2>4. /\ NewMap(a, b) /\ DOMAIN a.map \subseteq DOMAIN b.map
        /\ \A q \in Pages : q \in Run(p, m) => q \in DOMAIN b.map
        /\ \A q \in DOMAIN b.map : b.map[q] = Leads(a.map, q)
    BY <2>3, EnsureFields
  <2> QED
    BY <2>1, <2>2, <2>4
<1>9. /\ b \in Heaps /\ b.span = h.span /\ b.lists = h.lists /\ b.free = h.free
      /\ b.unmapped = h.unmapped /\ b.index = h.index /\ b.system = x /\ a.map = h.map
  BY <1>7, <1>8 DEF NewSystem, NewMap
<1>10. PICK D : D = Run(f, n)
  OBVIOUS
<1>11. D \subseteq DOMAIN b.map
  <2>1. \A q \in D : q \in Pages /\ q \in Run(f - 1, n + 2)
    BY <1>10, SystemAssumption, SMTT(30) DEF Run, Pages
  <2> QED
    BY <1>8, <2>1
<1>12. Geometry(b.span, b.map, D)
  <2>1. PICK H : H = {}
    OBVIOUS
  <2>2. Geometry(h.span, h.map, H) /\ D \cap Cover(h.span, Used(h.span)) = {}
    BY <1>0, <1>10, <2>1 DEF Land
  <2>3. DOMAIN h.map \cup D \subseteq DOMAIN b.map /\ \A q \in DOMAIN b.map : b.map[q] = Leads(h.map, q)
    BY <1>8, <1>9, <1>11
  <2>4. Geometry(h.span, b.map, H \cup D)
    BY <1>0, <2>2, <2>3, GeometryGrow
  <2>5. H \cup D = D
    BY <2>1
  <2> QED
    BY <1>9, <2>4, <2>5
<1>13. Books(b, {}, F)
  BY <1>0, <1>9 DEF Books, Counted
<1>14. b.system = Cardinality(Cover(b.span, Used(b.span)) \cup D)
  <2>1. IsFiniteSet(Land(h)) /\ Cardinality(Land(h)) \in Nat
    BY <1>0, CoverFinite DEF Land, Weight
  <2>2. IsFiniteSet(D) /\ Cardinality(D) = n
    BY <1>10, RunFinite
  <2>3. Cardinality(Land(h) \cup D) = Cardinality(Land(h)) + Cardinality(D) - Cardinality(Land(h) \cap D)
    BY <2>1, <2>2, FS_Union, Zenon
  <2>4. Land(h) \cap D = {} /\ Cardinality({}) = 0
    BY <1>10, FS_EmptySet
  <2>5. Cardinality(Land(h) \cup D) = Cardinality(Land(h)) + n
    <3>1. Cardinality(Land(h) \cup D) = Cardinality(Land(h)) + n - 0
      BY <2>2, <2>3, <2>4, Zenon
    <3> QED
      BY <2>1, <3>1
  <2>6. Land(h) \cup {} = Land(h)
    OBVIOUS
  <2> QED
    BY <1>0, <1>1, <1>9, <2>5, <2>6 DEF Land
<1>15. Good(b, D, {}, F)
  BY <1>0, <1>9, <1>12, <1>13, <1>14 DEF Good
<1>16. Fits(D, f, n) /\ f - 1 \notin D /\ f + n \notin D
  BY <1>10 DEF Fits, Run
<1>17. PICK G : G = D \ Run(f, n)
  OBVIOUS
<1>18. PICK l : l = "RETURNED"
  OBVIOUS
<1>19. /\ Settled(b, g, G, F) /\ Land(g) \subseteq Land(b) \cup D
       /\ \E r \in Ids : g.span[r].loc = l /\ g.span[r].n >= n
  BY <1>5, <1>15, <1>16, <1>17, <1>18, ExtraGood DEF FreeLocs
<1>20. G = {} /\ Land(b) = Land(h)
  BY <1>9, <1>10, <1>17 DEF Land
<1>21. Clean(g, F) /\ InUse(g.span) = InUse(h.span) /\ g.index = h.index /\ g.system = h.system + n
  BY <1>1, <1>9, <1>19, <1>20 DEF Settled, Clean
<1>22. Keeps(h, g, InUse(h.span))
  <2>1. Keeps(h, b, InUse(h.span))
    <3>1. \A q : Leads(b.map, q) = Leads(h.map, q)
      BY <1>8, <1>9 DEF Leads
    <3> QED
      BY <1>9, <3>1 DEF Keeps
  <2>2. Keeps(b, g, InUse(h.span))
    BY <1>9, <1>19 DEF Settled
  <2> QED
    BY <2>1, <2>2, KeepsBoth
<1>23. \E r \in Ids : LongEnough(g, r, n)
  BY <1>18, <1>19 DEF LongEnough, FreeLocs
<1> QED
  BY <1>10, <1>19, <1>20, <1>21, <1>22, <1>23 DEF Extended

----------------------------------------------------------------------------
(***************************************************************************)
(* The system allocator gives out pages nobody has.                        *)
(***************************************************************************)

\* The types of the system allocator's parts.
Regions == [start : Nat, free : Nat]
PageSets == SUBSET (1 .. (AddressPages - 1))
Systems(D) ==
    [region : [D -> Regions], next : [D -> Nat], mapped : PageSets]

\* The pages L of the heap are mapped, and what is left of the region is mapped and
\* not the heap's.
RegionPages(r) == Run(r.start, r.free)
SysGood(y, D, tag, L) ==
    /\ y \in Systems(D) /\ tag \in D /\ L \subseteq y.mapped
    /\ RegionPages(y.region[tag]) \subseteq y.mapped /\ RegionPages(y.region[tag]) \cap L = {}

\* RoundDown() and RoundUp() stay within the alignment.
LEMMA RoundDownBounds ==
    ASSUME NEW a \in Nat, NEW k \in Nat \ {0}
    PROVE  RoundDown(a, k) \in Nat /\ RoundDown(a, k) <= a /\ a < RoundDown(a, k) + k
<1>1. PICK q : q = a \div k
  OBVIOUS
<1>2. q \in Nat /\ q * k <= a /\ a < q * k + k
  BY <1>1
<1>3. q * k \in Nat
  BY <1>2
<1> QED
  BY <1>1, <1>2, <1>3 DEF RoundDown

\* RoundUp() reaches the value and stays below the next step.
LEMMA RoundUpBounds ==
    ASSUME NEW a \in Nat, NEW k \in Nat \ {0}
    PROVE  RoundUp(a, k) \in Nat /\ a <= RoundUp(a, k) /\ RoundUp(a, k) < a + k
<1>1. PICK b : b = a + k - 1
  OBVIOUS
<1>2. b \in Nat
  BY <1>1
<1>3. RoundDown(b, k) \in Nat /\ RoundDown(b, k) <= b /\ b < RoundDown(b, k) + k
  BY <1>2, RoundDownBounds
<1> QED
  BY <1>1, <1>3 DEF RoundUp

\* MmapAligned() has mapped n pages that were not, or nothing.
Obtained(y, m, D, n) ==
    /\ m = [ptr |-> m.ptr, sys |-> m.sys] /\ m.sys \in Systems(D) /\ m.sys.region = y.region
    /\ \/ m.ptr = 0 /\ m.sys.mapped = y.mapped
       \/ /\ m.ptr \in Nat /\ m.ptr >= 1
          /\ Run(m.ptr, n) \subseteq (1 .. (AddressPages - 1)) \ y.mapped
          /\ m.sys.mapped = y.mapped \cup Run(m.ptr, n)


\* The system allocator after a mapping, ...
MapsNext(y, tag, p, q) == [y EXCEPT !.next[tag] = p, !.mapped = q]

\* A mapping leaves the regions alone.
LEMMA MmapFields ==
    ASSUME NEW D, NEW tag, tag \in D, NEW y, y \in Systems(D), NEW p, p \in Nat,
           NEW q, q \in PageSets, NEW b, b = MapsNext(y, tag, p, q)
    PROVE  b \in Systems(D) /\ b.region = y.region /\ b.mapped = q
BY DEF Systems, MapsNext

\* MmapAligned(): what the kernel gives is long enough and was not mapped before.
LEMMA MmapGood ==
    ASSUME NEW D, NEW tag, tag \in D, NEW y, y \in Systems(D), NEW n, n \in Nat, n >= 1,
           NEW align, NEW m, m \in MmapAligned(y, n, align, tag)
    PROVE  Obtained(y, m, D, n)
<1>0. y.next[tag] \in Nat /\ y.mapped \in PageSets
  BY DEF Systems
<1>1. PICK random : random = RandomMmapHint(n, align, tag)
  OBVIOUS
<1>2. random \subseteq Nat
  <2>1. \A p \in 1 .. (AddressPages - 1) : p \in Nat
    BY SystemAssumption
  <2> QED
    BY <1>1, <2>1 DEF RandomMmapHint
<1>3. PICK free : free = {p \in Hints(y, n, align, tag) \cup random :
                    Run(p, n) \subseteq (1 .. (AddressPages - 1)) \ y.mapped}
  OBVIOUS
<1>4. \A p \in free : p \in Nat /\ p >= 1 /\ Run(p, n) \subseteq (1 .. (AddressPages - 1)) \ y.mapped
  <2>1. Hints(y, n, align, tag) \subseteq Nat
    BY <1>0 DEF Hints
  <2> SUFFICES ASSUME NEW p \in free
               PROVE  p \in Nat /\ p >= 1 /\ Run(p, n) \subseteq (1 .. (AddressPages - 1)) \ y.mapped
    OBVIOUS
  <2>2. p \in Nat /\ Run(p, n) \subseteq (1 .. (AddressPages - 1)) \ y.mapped
    BY <1>2, <1>3, <2>1
  <2>3. p \in Run(p, n)
    BY <2>2 DEF Run
  <2>4. p \in 1 .. (AddressPages - 1)
    BY <2>2, <2>3
  <2> QED
    BY <2>2, <2>4, SystemAssumption
<1>5. PICK last : last = IF random = {} THEN {y.next[tag]} ELSE random
  OBVIOUS
<1>6. last \subseteq Nat
  BY <1>0, <1>2, <1>5
<1>7. MmapAligned(y, n, align, tag) =
        {[ptr |-> p, sys |-> [y EXCEPT !.next[tag] = p + n, !.mapped = @ \cup Run(p, n)]] : p \in free}
        \cup {[ptr |-> 0, sys |-> [y EXCEPT !.next[tag] = p]] : p \in last}
  BY <1>1, <1>3, <1>5 DEF MmapAligned
<1>8. CASE \E p \in free : m = [ptr |-> p, sys |-> [y EXCEPT !.next[tag] = p + n, !.mapped = @ \cup Run(p, n)]]
  <2>1. PICK p \in free : m = [ptr |-> p, sys |-> [y EXCEPT !.next[tag] = p + n, !.mapped = @ \cup Run(p, n)]]
    BY <1>8
  <2>2. PICK q : q = y.mapped \cup Run(p, n)
    OBVIOUS
  <2>3. PICK k : k = p + n
    OBVIOUS
  <2>4. m = [ptr |-> p, sys |-> [y EXCEPT !.next[tag] = k, !.mapped = q]]
    BY <2>1, <2>2, <2>3
  <2>5. k \in Nat /\ q \in SUBSET (1 .. (AddressPages - 1))
    BY <1>0, <1>4, <2>2, <2>3 DEF PageSets
  <2>7. m.sys = MapsNext(y, tag, k, q) /\ m.ptr = p
    BY <2>4 DEF MapsNext
  <2>6. m.sys \in Systems(D) /\ m.sys.region = y.region /\ m.sys.mapped = q
    <3>1. PICK b : b = m.sys
      OBVIOUS
    <3>2. k \in Nat /\ q \in PageSets /\ b = MapsNext(y, tag, k, q)
      BY <2>5, <2>7, <3>1 DEF PageSets
    <3>3. b \in Systems(D) /\ b.region = y.region /\ b.mapped = q
      BY <3>2, MmapFields
    <3> QED
      BY <3>1, <3>3
  <2> QED
    BY <1>4, <2>1, <2>2, <2>6, <2>7 DEF Obtained
<1>9. CASE \E p \in last : m = [ptr |-> 0, sys |-> [y EXCEPT !.next[tag] = p]]
  <2>1. PICK p \in last : m = [ptr |-> 0, sys |-> [y EXCEPT !.next[tag] = p]]
    BY <1>9
  <2>2. p \in Nat
    BY <1>6
  <2>4. PICK q : q = y.mapped
    OBVIOUS
  <2>5. m.sys = MapsNext(y, tag, p, q) /\ m.ptr = 0
    BY <2>1, <2>4 DEF MapsNext, Systems
  <2>3. m.sys \in Systems(D) /\ m.sys.region = y.region /\ m.sys.mapped = y.mapped /\ m.ptr = 0
    <3>1. PICK b : b = m.sys
      OBVIOUS
    <3>2. q \in PageSets /\ b = MapsNext(y, tag, p, q)
      BY <2>4, <2>5, <3>1 DEF Systems
    <3>3. b \in Systems(D) /\ b.region = y.region /\ b.mapped = q
      BY <2>2, <3>2, MmapFields
    <3> QED
      BY <2>4, <2>5, <3>1, <3>3
  <2> QED
    BY <2>1, <2>3 DEF Obtained
<1> QED
  BY <1>7, <1>8, <1>9

\* MmapRegion::Alloc() has given out the end of the region r, or nothing.
Served(r, o, n) ==
    \/ o.got = NoPages /\ o.region = r
    \/ /\ o.got # NoPages /\ o.got.ptr \in Nat /\ o.got.n \in Nat /\ o.got.n >= n
       /\ o.got.ptr >= r.start /\ o.got.ptr + o.got.n = r.start + r.free
       /\ o.region = [start |-> r.start, free |-> o.got.ptr - r.start]

\* Region::Alloc() gives out the end of the region, or nothing.
LEMMA RegionGood ==
    ASSUME NEW r, r \in Regions, NEW n, n \in Nat, n >= 1, NEW align, align \in Nat,
           NEW o, o \in RegionAlloc(r, n, align)
    PROVE  Served(r, o, n)
<1>0. r.start \in Nat /\ r.free \in Nat /\ r = [start |-> r.start, free |-> r.free]
  BY DEF Regions
<1>1. PICK size : size = RoundUp(n, kMinSystemAlloc)
  OBVIOUS
<1>2. PICK end : end = r.start + r.free
  OBVIOUS
<1>3. PICK k : k = Largest(align, kMinSystemAlloc)
  OBVIOUS
<1>4. PICK p : p = RoundDown(end - size, k)
  OBVIOUS
<1>5. size \in Nat /\ size >= n /\ end \in Nat /\ k \in Nat \ {0}
  <2>1. size \in Nat /\ size >= n
    BY <1>1, SystemAssumption, RoundUpBounds
  <2>2. k \in Nat \ {0}
    BY <1>3, SystemAssumption DEF Largest
  <2> QED
    BY <1>0, <1>2, <2>1, <2>2
<1>6. RegionAlloc(r, n, align) =
        IF size > end \/ p < r.start THEN {[got |-> NoPages, region |-> r]}
        ELSE {[got |-> NoPages, region |-> r],
              [got |-> [ptr |-> p, n |-> end - p], region |-> Take(r, p, size)]}
  BY <1>1, <1>2, <1>3, <1>4 DEF RegionAlloc
<1>7. CASE o = [got |-> NoPages, region |-> r]
  BY <1>7 DEF Served
<1>8. CASE ~(size > end \/ p < r.start) /\ o = [got |-> [ptr |-> p, n |-> end - p], region |-> Take(r, p, size)]
  <2>1. PICK d : d = end - size
    OBVIOUS
  <2>2. d \in Nat
    BY <1>5, <1>8, <2>1
  <2>3. p \in Nat /\ p <= d
    BY <1>4, <1>5, <2>1, <2>2, RoundDownBounds
  <2>4. o.got.ptr = p /\ o.got.n = end - p /\ o.region = Take(r, p, size)
    BY <1>8
  <2>5. Take(r, p, size) = [start |-> r.start, free |-> p - r.start]
    BY <1>0 DEF Take
  <2>6. end - p \in Nat /\ end - p >= n /\ p >= r.start /\ p + (end - p) = end
    BY <1>0, <1>5, <1>8, <2>1, <2>3
  <2>7. o.got # NoPages
    BY <2>4, <2>6 DEF NoPages
  <2> QED
    BY <1>2, <2>3, <2>4, <2>5, <2>6, <2>7 DEF Served
<1> QED
  BY <1>6, <1>7, <1>8

\* The pages given out: none, or enough of them, which the heap did not have.
Handout(o, D, tag, L, n) ==
    \/ o.got = NoPages /\ SysGood(o.sys, D, tag, L)
    \/ /\ o.got # NoPages /\ o.got.ptr \in Nat /\ o.got.n \in Nat /\ o.got.n >= n
       /\ o.got.ptr >= 1 /\ o.got.ptr + o.got.n <= AddressPages
       /\ Run(o.got.ptr, o.got.n) \cap L = {}
       /\ SysGood(o.sys, D, tag, L \cup Run(o.got.ptr, o.got.n))

\* What it gives out are pages of the region, and they leave it.
LEMMA ServedPages ==
    ASSUME NEW r, r \in Regions, NEW M, M \in PageSets, RegionPages(r) \subseteq M,
           NEW n, n \in Nat, n >= 1, NEW o, Served(r, o, n), o.got # NoPages
    PROVE  /\ o.got.ptr \in Nat /\ o.got.n \in Nat /\ o.got.n >= n
           /\ o.got.ptr >= 1 /\ o.got.ptr + o.got.n <= AddressPages
           /\ o.region \in Regions
           /\ Run(o.got.ptr, o.got.n) \subseteq RegionPages(r)
           /\ RegionPages(o.region) \subseteq RegionPages(r) \ Run(o.got.ptr, o.got.n)
<1>0. r.start \in Nat /\ r.free \in Nat
  BY DEF Regions
<1>1. PICK p : p = o.got.ptr
  OBVIOUS
<1>2. PICK m : m = o.got.n
  OBVIOUS
<1>3. /\ p \in Nat /\ m \in Nat /\ m >= n /\ p >= r.start /\ p + m = r.start + r.free
      /\ o.region = [start |-> r.start, free |-> p - r.start]
  BY <1>1, <1>2 DEF Served
<1>4. o.region \in Regions /\ o.region.start = r.start /\ o.region.free = p - r.start
  BY <1>0, <1>3 DEF Regions
<1>5. Run(p, m) \subseteq RegionPages(r)
  BY <1>0, <1>3 DEF Run, RegionPages
<1>6. RegionPages(o.region) \subseteq RegionPages(r) \ Run(p, m)
  BY <1>0, <1>3, <1>4 DEF Run, RegionPages
<1>7. p \in M /\ p + m - 1 \in M
  <2>1. p \in Run(p, m) /\ p + m - 1 \in Run(p, m)
    BY <1>3 DEF Run
  <2> QED
    BY <1>5, <2>1
<1>8. p >= 1 /\ p + m <= AddressPages
  BY <1>3, <1>7, SystemAssumption DEF PageSets
<1> QED
  BY <1>1, <1>2, <1>3, <1>4, <1>5, <1>6, <1>8

\* ... and with another region.
RegionSet(y, tag, r) == [y EXCEPT !.region[tag] = r]

\* Another region for one tag.
LEMMA RegionFields ==
    ASSUME NEW D, NEW tag, tag \in D, NEW y, y \in Systems(D), NEW r, r \in Regions,
           NEW b, b = RegionSet(y, tag, r)
    PROVE  b \in Systems(D) /\ b.region[tag] = r /\ b.mapped = y.mapped
BY DEF Systems, RegionSet

\* An allocation from the current region.
LEMMA FromRegionGood ==
    ASSUME NEW D, NEW tag, NEW L, NEW y, SysGood(y, D, tag, L), NEW n, n \in Nat, n >= 1,
           NEW align, align \in Nat, NEW o, o \in FromRegion(y, n, align, tag)
    PROVE  Handout(o, D, tag, L, n)
<1>0. /\ y \in Systems(D) /\ tag \in D /\ L \subseteq y.mapped /\ y.mapped \in PageSets
      /\ y.region[tag] \in Regions
      /\ RegionPages(y.region[tag]) \subseteq y.mapped /\ RegionPages(y.region[tag]) \cap L = {}
  BY DEF SysGood, Systems
<1>1. CASE o = [got |-> NoPages, sys |-> y]
  BY <1>1 DEF Handout
<1>2. CASE \E a \in RegionAlloc(y.region[tag], n, align) :
             o = [got |-> a.got, sys |-> [y EXCEPT !.region[tag] = a.region]]
  <2>1. PICK a \in RegionAlloc(y.region[tag], n, align) :
             o = [got |-> a.got, sys |-> [y EXCEPT !.region[tag] = a.region]]
    BY <1>2
  <2>2. PICK r : r = y.region[tag]
    OBVIOUS
  <2>3. r \in Regions /\ a \in RegionAlloc(r, n, align)
    BY <1>0, <2>2
  <2>4. Served(r, a, n)
    BY <2>3, RegionGood
  <2>5. PICK k : k = a.region
    OBVIOUS
  <2>6. PICK b : b = o.sys
    OBVIOUS
  <2>7. b = RegionSet(y, tag, k) /\ o.got = a.got
    BY <2>1, <2>5, <2>6 DEF RegionSet
  <2>8. CASE a.got = NoPages
    <3>1. k = r
      BY <2>4, <2>5, <2>8 DEF Served
    <3>2. b \in Systems(D) /\ b.region[tag] = r /\ b.mapped = y.mapped
      BY <1>0, <2>3, <2>7, <3>1, RegionFields
    <3> QED
      BY <1>0, <2>2, <2>6, <2>7, <2>8, <3>2 DEF Handout, SysGood
  <2>9. CASE a.got # NoPages
    <3>1. PICK M : M = y.mapped
      OBVIOUS
    <3>2. M \in PageSets /\ RegionPages(r) \subseteq M
      BY <1>0, <2>2, <3>1
    <3>3. /\ a.got.ptr \in Nat /\ a.got.n \in Nat /\ a.got.n >= n
          /\ a.got.ptr >= 1 /\ a.got.ptr + a.got.n <= AddressPages
          /\ a.region \in Regions
          /\ Run(a.got.ptr, a.got.n) \subseteq RegionPages(r)
          /\ RegionPages(a.region) \subseteq RegionPages(r) \ Run(a.got.ptr, a.got.n)
      BY <2>3, <2>4, <2>9, <3>2, ServedPages
    <3>4. b \in Systems(D) /\ b.region[tag] = k /\ b.mapped = y.mapped
      BY <1>0, <2>5, <2>7, <3>3, RegionFields
    <3>5. PICK R : R = Run(a.got.ptr, a.got.n)
      OBVIOUS
    <3>6. R \cap L = {} /\ L \cup R \subseteq b.mapped
      BY <1>0, <2>2, <3>3, <3>4, <3>5
    <3>7. RegionPages(k) \subseteq b.mapped /\ RegionPages(k) \cap (L \cup R) = {}
      BY <1>0, <2>2, <2>5, <3>3, <3>4, <3>5
    <3>8. SysGood(b, D, tag, L \cup R)
      BY <1>0, <3>4, <3>6, <3>7 DEF SysGood
    <3> QED
      BY <2>6, <2>7, <2>9, <3>3, <3>5, <3>6, <3>8 DEF Handout
  <2> QED
    BY <2>8, <2>9
<1> QED
  BY <1>1, <1>2 DEF FromRegion

\* Mapping more memory does not touch the pages of the heap.
LEMMA ObtainedStays ==
    ASSUME NEW D, NEW tag, NEW L, NEW y, SysGood(y, D, tag, L), NEW n, NEW m, Obtained(y, m, D, n)
    PROVE  SysGood(m.sys, D, tag, L)
<1>1. m.sys \in Systems(D) /\ m.sys.region = y.region /\ y.mapped \subseteq m.sys.mapped
  BY DEF Obtained
<1> QED
  BY <1>1 DEF SysGood

\* A new region is memory that was not mapped before.
LEMMA NewRegionGood ==
    ASSUME NEW D, NEW tag, NEW L, NEW y, SysGood(y, D, tag, L), NEW k, k \in NewRegion(y, tag)
    PROVE  SysGood(k.sys, D, tag, L)
<1>0. /\ y \in Systems(D) /\ tag \in D /\ L \subseteq y.mapped
  BY DEF SysGood
<1>1. PICK n : n = kMinMmapAlloc
  OBVIOUS
<1>2. n \in Nat /\ n >= 1
  BY <1>1, SystemAssumption
<1>3. PICK m \in MmapAligned(y, n, n, tag) :
        k = IF m.ptr = 0 THEN m ELSE [m EXCEPT !.sys.region[tag] = [start |-> m.ptr, free |-> n]]
  BY <1>1 DEF NewRegion
<1>4. Obtained(y, m, D, n)
  BY <1>0, <1>2, <1>3, MmapGood
<1>5. CASE m.ptr = 0
  BY <1>3, <1>4, <1>5, ObtainedStays
<1>6. CASE m.ptr # 0
  <2>1. PICK r : r = [start |-> m.ptr, free |-> n]
    OBVIOUS
  <2>2. PICK z : z = m.sys
    OBVIOUS
  <2>3. /\ z \in Systems(D) /\ m.ptr \in Nat /\ m.ptr >= 1
        /\ Run(m.ptr, n) \subseteq (1 .. (AddressPages - 1)) \ y.mapped
        /\ z.mapped = y.mapped \cup Run(m.ptr, n)
    BY <1>4, <1>6, <2>2 DEF Obtained
  <2>4. r \in Regions /\ RegionPages(r) = Run(m.ptr, n)
    BY <1>2, <2>1, <2>3 DEF Regions, RegionPages
  <2>5. PICK b : b = k.sys
    OBVIOUS
  <2>6. b = RegionSet(z, tag, r)
    <3>0. m = [ptr |-> m.ptr, sys |-> z]
      BY <1>4, <2>2 DEF Obtained
    <3> QED
      BY <1>3, <1>6, <2>1, <2>2, <2>5, <3>0 DEF RegionSet
  <2>7. b \in Systems(D) /\ b.region[tag] = r /\ b.mapped = z.mapped
    BY <1>0, <2>3, <2>4, <2>6, RegionFields
  <2>8. SysGood(b, D, tag, L)
    BY <1>0, <2>3, <2>4, <2>7 DEF SysGood
  <2> QED
    BY <2>5, <2>8
<1> QED
  BY <1>5, <1>6

\* RegionManager::Alloc(): from the current region, or else from a new one.
LEMMA AllocateGood ==
    ASSUME NEW D, NEW tag, NEW L, NEW y, SysGood(y, D, tag, L), NEW n, n \in Nat, n >= 1,
           NEW align, align \in Nat, NEW o, o \in Allocate(y, n, align, tag)
    PROVE  Handout(o, D, tag, L, n)
<1>1. PICK first : first = FromRegion(y, n, align, tag)
  OBVIOUS
<1>2. \A f \in first : Handout(f, D, tag, L, n)
  <2>1. \A f : f \in FromRegion(y, n, align, tag) => Handout(f, D, tag, L, n)
    BY FromRegionGood
  <2> QED
    BY <1>1, <2>1
<1>3. CASE o \in first
  BY <1>2, <1>3
<1>4. CASE \E f \in first : f.got = NoPages /\ \E m \in NewRegion(f.sys, tag) :
             o \in (IF m.ptr = 0 THEN {[got |-> NoPages, sys |-> m.sys]}
                    ELSE FromRegion(m.sys, n, align, tag))
  <2>0. PICK f \in first : f.got = NoPages /\ \E m \in NewRegion(f.sys, tag) :
             o \in (IF m.ptr = 0 THEN {[got |-> NoPages, sys |-> m.sys]}
                    ELSE FromRegion(m.sys, n, align, tag))
    BY <1>4
  <2>1. PICK m \in NewRegion(f.sys, tag) :
             o \in (IF m.ptr = 0 THEN {[got |-> NoPages, sys |-> m.sys]}
                    ELSE FromRegion(m.sys, n, align, tag))
    BY <2>0
  <2>2. PICK z : z = f.sys
    OBVIOUS
  <2>3. SysGood(z, D, tag, L)
    BY <1>2, <2>0, <2>2 DEF Handout
  <2>4. PICK w : w = m.sys
    OBVIOUS
  <2>5. SysGood(w, D, tag, L)
    BY <2>1, <2>2, <2>3, <2>4, NewRegionGood
  <2>6. CASE m.ptr = 0
    BY <2>1, <2>4, <2>5, <2>6 DEF Handout
  <2>7. CASE m.ptr # 0
    <3>1. o \in FromRegion(w, n, align, tag)
      BY <2>1, <2>4, <2>7
    <3> QED
      BY <2>5, <3>1, FromRegionGood
  <2> QED
    BY <2>6, <2>7
<1> QED
  BY <1>1, <1>3, <1>4 DEF Allocate

\* A request too large for a region has a mapping of its own.
LEMMA OwnMappingGood ==
    ASSUME NEW D, NEW tag, NEW L, NEW y, SysGood(y, D, tag, L), NEW n, n \in Nat, n >= 1,
           NEW align, align \in Nat, NEW o, o \in OwnMapping(y, n, align, tag)
    PROVE  Handout(o, D, tag, L, n)
<1>0. /\ y \in Systems(D) /\ tag \in D /\ L \subseteq y.mapped
      /\ RegionPages(y.region[tag]) \subseteq y.mapped /\ RegionPages(y.region[tag]) \cap L = {}
  BY DEF SysGood
<1>1. PICK size : size = RoundUp(n, kMinSystemAlloc)
  OBVIOUS
<1>2. size \in Nat /\ size >= n /\ size >= 1
  <2>1. size \in Nat /\ size >= n
    BY <1>1, SystemAssumption, RoundUpBounds
  <2> QED
    BY <2>1
<1>3. PICK k : k = Largest(align, kMinSystemAlloc)
  OBVIOUS
<1>4. PICK m \in MmapAligned(y, size, k, tag) :
        o \in (IF m.ptr = 0 THEN {[got |-> NoPages, sys |-> m.sys]}
               ELSE {[got |-> a.got, sys |-> m.sys] :
                       a \in RegionAlloc([start |-> m.ptr, free |-> size], size, align)})
  BY <1>1, <1>3 DEF OwnMapping
<1>5. Obtained(y, m, D, size)
  BY <1>0, <1>2, <1>4, MmapGood
<1>6. SysGood(m.sys, D, tag, L)
  BY <1>5, ObtainedStays
<1>7. CASE m.ptr = 0
  BY <1>4, <1>6, <1>7 DEF Handout
<1>8. CASE m.ptr # 0
  <2>1. PICK r : r = [start |-> m.ptr, free |-> size]
    OBVIOUS
  <2>2. PICK a \in RegionAlloc(r, size, align) : o = [got |-> a.got, sys |-> m.sys]
    BY <1>4, <1>8, <2>1
  <2>3. /\ m.sys \in Systems(D) /\ m.sys.region = y.region /\ m.ptr \in Nat
        /\ Run(m.ptr, size) \subseteq (1 .. (AddressPages - 1)) \ y.mapped
        /\ m.sys.mapped = y.mapped \cup Run(m.ptr, size)
    BY <1>5, <1>8 DEF Obtained
  <2>4. r \in Regions /\ RegionPages(r) = Run(m.ptr, size)
    BY <1>2, <2>1, <2>3 DEF Regions, RegionPages
  <2>5. Served(r, a, size)
    BY <1>2, <2>2, <2>4, RegionGood
  <2>6. CASE a.got = NoPages
    BY <1>6, <2>2, <2>6 DEF Handout
  <2>7. CASE a.got # NoPages
    <3>1. PICK M : M = m.sys.mapped
      OBVIOUS
    <3>2. M \in PageSets /\ RegionPages(r) \subseteq M
      BY <2>3, <2>4, <3>1 DEF Systems
    <3>3. /\ a.got.ptr \in Nat /\ a.got.n \in Nat /\ a.got.n >= size
          /\ a.got.ptr >= 1 /\ a.got.ptr + a.got.n <= AddressPages
          /\ Run(a.got.ptr, a.got.n) \subseteq RegionPages(r)
      BY <1>2, <2>4, <2>5, <2>7, <3>2, ServedPages
    <3>4. PICK R : R = Run(a.got.ptr, a.got.n)
      OBVIOUS
    <3>5. R \cap y.mapped = {} /\ R \subseteq m.sys.mapped
      BY <2>3, <2>4, <3>3, <3>4
    <3>6. SysGood(m.sys, D, tag, L \cup R)
      BY <1>0, <2>3, <3>5 DEF SysGood
    <3>7. R \cap L = {} /\ a.got.n >= n
      BY <1>0, <1>2, <3>3, <3>5
    <3> QED
      BY <2>2, <2>7, <3>3, <3>4, <3>6, <3>7 DEF Handout
  <2> QED
    BY <2>6, <2>7
<1> QED
  BY <1>7, <1>8

\* SystemAlloc() gives pages nobody has, whatever the kernel answers.
LEMMA SystemAllocateGood ==
    ASSUME NEW D, NEW tag, NEW L, NEW y, SysGood(y, D, tag, L), NEW n, n \in Nat, n >= 1,
           NEW align, align \in Nat, NEW o, o \in SystemAllocate(y, n, align, tag)
    PROVE  Handout(o, D, tag, L, n)
<1>1. CASE o = [got |-> NoPages, sys |-> y]
  BY <1>1 DEF Handout
<1>2. CASE o \in OwnMapping(y, n, align, tag)
  BY <1>2, OwnMappingGood
<1>3. CASE o \in Allocate(y, n, align, tag)
  BY <1>3, AllocateGood
<1> QED
  BY <1>1, <1>2, <1>3 DEF SystemAllocate

----------------------------------------------------------------------------
(***************************************************************************)
(* AllocateSpan().                                                         *)
(***************************************************************************)

\* The system allocator knows nothing of who has which page.
LEMMA SysLess ==
    ASSUME NEW y, NEW D, NEW tag, NEW L, NEW M, SysGood(y, D, tag, L), M \subseteq L
    PROVE  SysGood(y, D, tag, M)
BY DEF SysGood

\* The span o.s of n pages, which was free, is in use; or nothing was found.
Spanned(h, o, n, F, D, tag) ==
    /\ SysGood(o.sys, D, tag, Land(o.heap))
    /\ o.s = NoSpan => o.heap = h
    /\ o.s # NoSpan =>
         /\ Clean(o.heap, F)
         /\ InUse(o.heap.span) = InUse(h.span) \cup {o.s} /\ o.s \notin InUse(h.span)
         /\ Keeps(h, o.heap, InUse(h.span))
         /\ o.heap.index = h.index /\ o.s \in Ids /\ o.heap.span[o.s].n = n
         /\ o.heap.system = h.system => h.span[o.s].loc \in FreeLocs

\* Search() and Carve(): a span of n pages is taken out of the free ones.
LEMMA FoundGood ==
    ASSUME NEW h, NEW F, Clean(h, F), NEW n, n \in Nat, n >= 1, NEW s, s = Search(h, n), s # NoSpan,
           NEW g, g = Carve(h, s, n)
    PROVE  CarvedOut(h, g, s, n, F) /\ h.span[s].loc \in FreeLocs
<1>1. LongEnough(h, s, n)
  BY SearchGood
<1>2. s \in Ids /\ h.span[s].loc \in FreeLocs /\ n <= h.span[s].n
  <2>1. s \in Ids /\ h.span[s].loc \in FreeLocs /\ h.span[s].n >= n
    BY <1>1 DEF LongEnough
  <2>2. h.span[s].n \in Nat
    BY <2>1, DescriptorFields DEF Clean, Good
  <2> QED
    BY <2>1, <2>2
<1> QED
  BY <1>2, CarveGood

\* AllocateSpan(): a span of n pages that was nobody's, or none.
LEMMA AllocateSpanGood ==
    ASSUME NEW F, Clean(heap, F), NEW D, NEW tag, tag = FALSE, SysGood(sys, D, tag, Land(heap)),
           NEW n, n \in Nat, n >= 1, NEW o, o \in AllocateSpan(n)
    PROVE  Spanned(heap, o, n, F, D, tag)
<1>1. PICK h : h = heap
  OBVIOUS
<1>2. PICK y : y = sys
  OBVIOUS
<1>3. Clean(h, F) /\ SysGood(y, D, tag, Land(h))
  BY <1>1, <1>2
<1>4. PICK s : s = Search(h, n)
  OBVIOUS
<1>5. CASE s # NoSpan
  <2>1. PICK g : g = Carve(h, s, n)
    OBVIOUS
  <2>2. CarvedOut(h, g, s, n, F) /\ h.span[s].loc \in FreeLocs
    BY <1>3, <1>4, <1>5, <2>1, FoundGood
  <2>3. o = [heap |-> g, sys |-> y, s |-> s]
    BY <1>1, <1>2, <1>4, <1>5, <2>1 DEF AllocateSpan
  <2>4. Land(g) \subseteq Land(h)
    BY <2>2 DEF CarvedOut
  <2>5. SysGood(y, D, tag, Land(g))
    BY <1>3, <2>4, SysLess
  <2> QED
    BY <1>1, <1>5, <2>2, <2>3, <2>5 DEF CarvedOut, Spanned
<1>6. CASE s = NoSpan
  <2>1. PICK a \in SystemAllocate(y, n, 1, tag) :
          o = IF a.got = NoPages THEN [heap |-> h, sys |-> a.sys, s |-> NoSpan]
              ELSE [heap |-> Carve(GrowHeap(h, a.got), Search(GrowHeap(h, a.got), n), n),
                    sys |-> a.sys, s |-> Search(GrowHeap(h, a.got), n)]
    BY <1>1, <1>2, <1>4, <1>6 DEF AllocateSpan
  <2>2. PICK L : L = Land(h)
    OBVIOUS
  <2>3. PICK one : one = 1
    OBVIOUS
  <2>4. one \in Nat /\ a \in SystemAllocate(y, n, one, tag) /\ SysGood(y, D, tag, L)
    BY <1>3, <2>2, <2>3
  <2>5. Handout(a, D, tag, L, n)
    BY <2>4, SystemAllocateGood
  <2>6. CASE a.got = NoPages
    <3>1. SysGood(a.sys, D, tag, L)
      BY <2>5, <2>6 DEF Handout
    <3> QED
      BY <1>1, <2>1, <2>2, <2>6, <3>1 DEF Spanned
  <2>7. CASE a.got # NoPages
    <3>1. PICK got : got = a.got
      OBVIOUS
    <3>2. PICK f : f = got.ptr
      OBVIOUS
    <3>3. PICK m : m = got.n
      OBVIOUS
    <3>4. /\ f \in Nat /\ m \in Nat /\ m >= n /\ f >= 1 /\ f + m <= AddressPages
          /\ Run(f, m) \cap L = {} /\ SysGood(a.sys, D, tag, L \cup Run(f, m))
      BY <2>5, <2>7, <3>1, <3>2, <3>3 DEF Handout
    <3>5. PICK k : k = GrowHeap(h, got)
      OBVIOUS
    <3>6. Run(f, m) \cap Land(h) = {} /\ m >= 1
      BY <2>2, <3>4
    <3>7. Extended(h, k, f, m, F)
      BY <1>3, <3>2, <3>3, <3>4, <3>5, <3>6, GrowGood
    <3>8. PICK r : r = Search(k, n)
      OBVIOUS
    <3>9. PICK g : g = Carve(k, r, n)
      OBVIOUS
    <3>10. o = [heap |-> g, sys |-> a.sys, s |-> r]
      BY <2>1, <2>7, <3>1, <3>5, <3>8, <3>9
    <3>11. Clean(k, F)
      BY <3>7 DEF Extended
    <3>12. r # NoSpan
      <4>1. PICK q \in Ids : LongEnough(k, q, m)
        BY <3>7 DEF Extended
      <4>2. LongEnough(k, q, n)
        <5>1. k.span[q].n \in Nat
          BY <3>11, DescriptorFields DEF Clean, Good
        <5> QED
          BY <3>4, <4>1, <5>1 DEF LongEnough
      <4> QED
        BY <3>8, <3>11, <4>2, SearchGood
    <3>13. CarvedOut(k, g, r, n, F)
      BY <3>8, <3>9, <3>11, <3>12, FoundGood
    <3>14. SysGood(a.sys, D, tag, Land(g))
      <4>1. Land(g) \subseteq L \cup Run(f, m)
        BY <2>2, <3>7, <3>13 DEF CarvedOut, Extended
      <4> QED
        BY <3>4, <4>1, SysLess
    <3>15. Keeps(h, g, InUse(h.span))
      BY <3>7, <3>13, KeepsBoth DEF Extended, CarvedOut
    <3>16. g.system # h.system
      <4>1. h.system \in Int
        BY <1>3, HeapFields DEF Clean, Good
      <4>2. g.system = h.system + m
        BY <3>7, <3>13 DEF Extended, CarvedOut
      <4> QED
        BY <3>4, <3>6, <4>1, <4>2
    <3> QED
      BY <1>1, <3>7, <3>10, <3>12, <3>13, <3>14, <3>15, <3>16 DEF Extended, CarvedOut, Spanned
  <2> QED
    BY <2>6, <2>7
<1> QED
  BY <1>5, <1>6

----------------------------------------------------------------------------
(***************************************************************************)
(* Delete(), and both halves of ReleaseLastNormalSpan().                   *)
(***************************************************************************)

\* g is h with the span s, which was in use, back on the free lists.
Yielded(h, g, s, F) ==
    /\ Clean(g, F)
    /\ InUse(g.span) = InUse(h.span) \ {s} /\ Keeps(h, g, InUse(h.span) \ {s})
    /\ g.system = h.system /\ g.index = h.index /\ Land(g) \subseteq Land(h)

\* Delete() sets the location of a span that was in use: it is free, on no list, and
\* may have free neighbours.
LEMMA LooseGood ==
    ASSUME NEW h, NEW F, Clean(h, F), NEW s, s \in InUse(h.span), s \notin F,
           NEW l, l \in FreeLocs, NEW g, g = Located(h, s, l)
    PROVE  /\ Loose(g, {}, s, F) /\ InUse(g.span) = InUse(h.span) \ {s}
           /\ Keeps(h, g, InUse(h.span) \ {s}) /\ Land(g) = Land(h)
           /\ g.system = h.system /\ g.index = h.index
<1>0. /\ h \in Heaps /\ h.span \in SpanTables /\ F \in SUBSET Ids /\ Used(h.span) \subseteq Ids
      /\ Geometry(h.span, h.map, {}) /\ Merged(h.span, {}) /\ F \subseteq InUse(h.span)
      /\ s \in Used(h.span) /\ s \in Ids /\ Books(h, {}, F) /\ h.span[s].loc = "IN_USE"
      /\ h.system = Cardinality(Cover(h.span, Used(h.span)) \cup {})
  <2>1. Good(h, {}, {}, F)
    BY DEF Clean
  <2> QED
    BY <2>1, GoodFacts DEF Good, InUse
<1>1. l \in Locations /\ l # "DELETED" /\ l # "IN_USE"
  BY DEF Locations, FreeLocs
<1>3. /\ NewSpans(h, g)
      /\ g.span[s].first = h.span[s].first /\ g.span[s].n = h.span[s].n /\ g.span[s].loc = l
      /\ \A t \in Ids : t # s => g.span[t] = h.span[t]
  BY <1>0, <1>1, LocUpdate
<1>4. /\ g \in Heaps /\ g.span \in SpanTables /\ g.map = h.map /\ g.lists = h.lists /\ g.free = h.free
      /\ g.unmapped = h.unmapped /\ g.system = h.system /\ g.index = h.index
  BY <1>3, HeapFields DEF NewSpans
<1>6. /\ Geometry(g.span, g.map, {})
      /\ Used(g.span) = Used(h.span)
      /\ Cover(g.span, Used(g.span)) = Cover(h.span, Used(h.span))
  <2>1. PICK f : f = h.span[s].first
    OBVIOUS
  <2>2. PICK n : n = h.span[s].n
    OBVIOUS
  <2>3. Covers(h.span, g.span, s, f, n)
    BY <1>0, <1>1, <1>3, <1>4, <2>1, <2>2 DEF Covers
  <2> QED
    BY <1>0, <1>4, <2>1, <2>2, <2>3, GeometryLoc
<1>7. InUse(g.span) = InUse(h.span) \ {s}
  BY <1>1, <1>3 DEF InUse
<1>8. Books(g, {s}, F)
  <2>1. PICK Y : Y = {s}
    OBVIOUS
  <2>2. PICK X : X = {}
    OBVIOUS
  <2>3. Books(h, X, F)
    BY <1>0, <2>2
  <2>4. \A t \in F : g.span[t] = h.span[t]
    BY <1>0, <1>3
  <2>5. \A t \in Ids : t \notin X /\ h.span[t].loc \in FreeLocs => t \notin Y /\ g.span[t] = h.span[t]
    BY <1>0, <1>3, <2>1, <2>2 DEF FreeLocs
  <2>6. \A t \in Ids : t \notin Y /\ g.span[t].loc \in FreeLocs => t \notin X /\ g.span[t] = h.span[t]
    BY <1>3, <2>1, <2>2
  <2>7. Books(g, Y, F)
    BY <1>0, <1>4, <2>3, <2>4, <2>5, <2>6, BooksFrame
  <2> QED
    BY <2>1, <2>7
<1>9. Merged(g.span, {s})
  BY <1>0, <1>3, <1>6 DEF Merged, End
<1>10. F \subseteq InUse(g.span)
  BY <1>0, <1>7
<1>11. Good(g, {}, {s}, F)
  BY <1>0, <1>4, <1>6, <1>8, <1>9, <1>10 DEF Good
<1>12. Keeps(h, g, InUse(h.span) \ {s})
  BY <1>3, <1>4 DEF Keeps, InUse
<1> QED
  BY <1>0, <1>3, <1>4, <1>6, <1>7, <1>11, <1>12 DEF Loose, Land

\* MergeIntoFreeList() of a span that was in use.
LEMMA YieldGood ==
    ASSUME NEW h, NEW F, Clean(h, F), NEW s, s \in InUse(h.span), s \notin F,
           NEW l, l \in FreeLocs, NEW b, b = Located(h, s, l), NEW g, g = MergeIntoFreeList(b, s)
    PROVE  Yielded(h, g, s, F)
<1>1. /\ Loose(b, {}, s, F) /\ InUse(b.span) = InUse(h.span) \ {s}
      /\ Keeps(h, b, InUse(h.span) \ {s}) /\ Land(b) = Land(h)
      /\ b.system = h.system /\ b.index = h.index
  BY LooseGood
<1>2. PICK H : H = {}
  OBVIOUS
<1>3. Loose(b, H, s, F) /\ b.span[s].first - 1 \notin H /\ End(b.span, s) \notin H
  BY <1>1, <1>2
<1>4. Settled(b, g, H, F) /\ Land(g) \subseteq Land(b)
  BY <1>3, MergeGood
<1>5. Settled(b, g, {}, F)
  BY <1>2, <1>4
<1>6. PICK U : U = InUse(h.span) \ {s}
  OBVIOUS
<1>7. Keeps(h, b, U) /\ Keeps(b, g, U)
  BY <1>1, <1>5, <1>6 DEF Settled
<1>8. Keeps(h, g, U)
  BY <1>7, KeepsBoth
<1> QED
  BY <1>1, <1>4, <1>5, <1>6, <1>8 DEF Settled, Yielded, Clean

\* Delete().
LEMMA DeleteGood ==
    ASSUME NEW h, NEW F, Clean(h, F), NEW s, s \in InUse(h.span), s \notin F,
           NEW g, g = MergeIntoFreeList([h EXCEPT !.span[s].loc = "NORMAL"], s)
    PROVE  Yielded(h, g, s, F)
<1>1. PICK l : l = "NORMAL"
  OBVIOUS
<1>2. PICK b : b = Located(h, s, l)
  OBVIOUS
<1>3. g = MergeIntoFreeList(b, s) /\ l \in FreeLocs
  BY <1>1, <1>2 DEF Located, FreeLocs
<1> QED
  BY <1>2, <1>3, YieldGood

\* The statistics change, and with them what they count.
Tallied(h, x) == [h EXCEPT !.free = x]

\* The count of free pages is a field of its own.
LEMMA TallyFields ==
    ASSUME NEW h, h \in Heaps, NEW x, x \in Int, NEW g, g = Tallied(h, x)
    PROVE  /\ g \in Heaps /\ g.span = h.span /\ g.map = h.map /\ g.lists = h.lists /\ g.free = x
           /\ g.unmapped = h.unmapped /\ g.system = h.system /\ g.index = h.index
BY DEF Heaps, Tallied

\* A span under release comes back.
DropsFrom(F, G, s) == s \in F /\ G = F \ {s}
FreeWeight(h, F) == Weight(h.span, Free(h.span, {}, "NORMAL") \cup F)

\* G is F without s, and s is none of the other free spans.
LEMMA FlightWeight ==
    ASSUME NEW h, NEW F, NEW G, NEW s, h \in Heaps, Apart(h.span), F \subseteq InUse(h.span),
           DropsFrom(F, G, s)
    PROVE  FreeWeight(h, F) = FreeWeight(h, G) + h.span[s].n
<1> USE DEF DropsFrom
<1>0. h.span \in SpanTables
  BY HeapFields
<1>1. PICK S : S = Free(h.span, {}, "NORMAL") \cup G
  OBVIOUS
<1>2. s \in Ids /\ S \in SUBSET Ids /\ s \notin S /\ s \in Used(h.span) /\ S \subseteq Used(h.span)
  BY <1>1 DEF Free, InUse, Used
<1>3. \A r \in S : Clear(h.span, s, r)
  BY <1>2 DEF Apart
<1>4. Weight(h.span, S \cup {s}) = Weight(h.span, S) + h.span[s].n
  BY <1>0, <1>2, <1>3, WeightAdd
<1>5. S \cup {s} = Free(h.span, {}, "NORMAL") \cup F
  BY <1>1
<1> QED
  BY <1>1, <1>4, <1>5 DEF FreeWeight

\* The count is right for other spans under release.
LEMMA TallyGood ==
    ASSUME NEW h, NEW F, NEW G, NEW x, h \in Heaps, Geometry(h.span, h.map, {}),
           Listed(h.span, h.lists, {}), h.unmapped = Weight(h.span, Free(h.span, {}, "RETURNED")),
           Merged(h.span, {}), h.system = Cardinality(Cover(h.span, Used(h.span)) \cup {}),
           G \subseteq InUse(h.span), x \in Int,
           x = FreeWeight(h, G),
           NEW g, g = Tallied(h, x)
    PROVE  Clean(g, G)
<1>1. /\ g \in Heaps /\ g.span = h.span /\ g.map = h.map /\ g.lists = h.lists /\ g.free = x
      /\ g.unmapped = h.unmapped /\ g.system = h.system /\ g.index = h.index
  BY TallyFields
<1> QED
  BY <1>1 DEF Clean, Good, Books, Counted, FreeWeight

\* The parts of the invariant of the heap between two operations.
LEMMA CleanParts ==
    ASSUME NEW h, NEW F, Clean(h, F)
    PROVE  /\ h \in Heaps /\ Geometry(h.span, h.map, {}) /\ Apart(h.span) /\ Placed(h.span)
           /\ Listed(h.span, h.lists, {})
           /\ h.free = FreeWeight(h, F)
           /\ h.unmapped = Weight(h.span, Free(h.span, {}, "RETURNED"))
           /\ Merged(h.span, {}) /\ h.system = Cardinality(Cover(h.span, Used(h.span)) \cup {})
           /\ F \subseteq InUse(h.span)
           /\ h.free \in Int /\ h.system \in Int /\ h.index \in 0 .. kMaxPages
BY HeapFields DEF Clean, Good, Books, Counted, Geometry, FreeWeight

\* ReleaseLastNormalSpan() after the system call: the span is one of the returned.
LEMMA ReturnedGood ==
    ASSUME NEW h, NEW F, Clean(h, F), NEW s, s \in F, NEW G, G = F \ {s}, NEW g, g = Returned(h, s)
    PROVE  Yielded(h, g, s, G)
<1>0. s \in InUse(h.span) /\ s \in Ids /\ h \in Heaps /\ h.free \in Int /\ F \subseteq InUse(h.span)
  BY CleanParts DEF InUse
<1>1. PICK x : x = h.free - h.span[s].n
  OBVIOUS
<1>2. PICK a : a = Tallied(h, x)
  OBVIOUS
<1>3. h.span[s].n \in Nat
  BY <1>0, DescriptorFields
<1>4. x \in Int
  BY <1>0, <1>1, <1>3
<1>5. x = FreeWeight(h, G)
  <2>1. PICK w : w = FreeWeight(h, G)
    OBVIOUS
  <2>2. h.free = w + h.span[s].n
    <3>1. Apart(h.span) /\ h.free = FreeWeight(h, F)
      BY CleanParts
    <3>2. FreeWeight(h, F) = FreeWeight(h, G) + h.span[s].n
      <4>1. DropsFrom(F, G, s) /\ F \subseteq InUse(h.span) /\ h \in Heaps
        BY <1>0 DEF DropsFrom
      <4> QED
        BY <3>1, <4>1, FlightWeight
    <3> QED
      BY <2>1, <3>1, <3>2
  <2>3. w \in Int
    <3>1. Free(h.span, {}, "NORMAL") \cup G \in SUBSET Ids
      BY <1>0 DEF Free, InUse
    <3>2. h.span \in SpanTables
      BY <1>0, HeapFields
    <3>3. FreeWeight(h, G) \in Nat
      BY <3>1, <3>2, CoverFinite DEF FreeWeight
    <3> QED
      BY <2>1, <3>3
  <2> QED
    BY <1>1, <1>3, <2>1, <2>2, <2>3
<1>6. G \subseteq InUse(h.span)
  BY <1>0
<1>7. Clean(a, G)
  <2>1. /\ h \in Heaps /\ Geometry(h.span, h.map, {}) /\ Listed(h.span, h.lists, {})
        /\ h.unmapped = Weight(h.span, Free(h.span, {}, "RETURNED")) /\ Merged(h.span, {})
        /\ h.system = Cardinality(Cover(h.span, Used(h.span)) \cup {})
    BY CleanParts
  <2> QED
    BY <1>2, <1>4, <1>5, <1>6, <2>1, TallyGood
<1>8. /\ a.span = h.span /\ a.map = h.map /\ a.system = h.system /\ a.index = h.index
  BY <1>0, <1>2, <1>4, TallyFields
<1>9. PICK l : l = "RETURNED"
  OBVIOUS
<1>10. PICK b : b = Located(a, s, l)
  OBVIOUS
<1>11. g = MergeIntoFreeList(b, s)
  BY <1>1, <1>2, <1>9, <1>10 DEF Returned, Located, Tallied
<1>12. Yielded(a, g, s, G)
  <2>1. s \in InUse(a.span) /\ s \notin G /\ l \in FreeLocs
    BY <1>0, <1>8, <1>9 DEF FreeLocs
  <2> QED
    BY <1>7, <1>10, <1>11, <2>1, YieldGood
<1>13. PICK U : U = InUse(h.span) \ {s}
  OBVIOUS
<1>14. Keeps(h, a, U) /\ Keeps(a, g, U)
  BY <1>8, <1>12, <1>13, KeepsSame DEF Yielded
<1>15. Keeps(h, g, U)
  BY <1>14, KeepsBoth
<1> QED
  BY <1>8, <1>12, <1>13, <1>15 DEF Yielded, Land

\* g is h but for release_index_.
Turned(h, g) ==
    /\ g.span = h.span /\ g.map = h.map /\ g.lists = h.lists /\ g.free = h.free
    /\ g.unmapped = h.unmapped /\ g.system = h.system
Indexed(h, k) == [h EXCEPT !.index = k]

\* release_index_ has no part in the invariant.
LEMMA IndexGood ==
    ASSUME NEW h, NEW F, Clean(h, F), NEW k, k \in 0 .. kMaxPages, NEW g, g = Indexed(h, k)
    PROVE  Clean(g, F) /\ Turned(h, g) /\ g.index = k
<1>1. h \in Heaps
  BY CleanParts
<1>2. g \in Heaps /\ Turned(h, g) /\ g.index = k
  BY <1>1 DEF Heaps, Indexed, Turned
<1> QED
  BY <1>2 DEF Clean, Good, Books, Counted, Turned

\* g is h with the normal span s under release.
Dropped(h, g, s, F) ==
    /\ Clean(g, F \cup {s})
    /\ s \in Ids /\ s \notin InUse(h.span) /\ InUse(g.span) = InUse(h.span) \cup {s}
    /\ Keeps(h, g, InUse(h.span)) /\ Land(g) \subseteq Land(h)

\* ReleaseLastNormalSpan() up to the unlock: the span is in use, so nobody merges it,
\* and it is still counted as free.
LEMMA DropLockGood ==
    ASSUME NEW h, NEW F, Clean(h, F), NEW s, s \in Ids, h.span[s].loc = "NORMAL",
           NEW k, k \in 0 .. kMaxPages, NEW g, g = DropLock(h, k, s)
    PROVE  Dropped(h, g, s, F)
<1>1. PICK a : a = RemoveFromFreeList(h, s)
  OBVIOUS
<1>2. PICK b : b = Located(a, s, "IN_USE")
  OBVIOUS
<1>3. Taken(h, b, s, F)
  BY <1>1, <1>2, TakeGood DEF FreeLocs
<1>4. /\ Clean(b, F) /\ InUse(b.span) = InUse(h.span) \cup {s} /\ s \notin InUse(h.span)
      /\ b.span[s].first = h.span[s].first /\ b.span[s].n = h.span[s].n
      /\ \A t \in Ids : t # s => b.span[t] = h.span[t]
      /\ b.map = h.map /\ b.free = h.free - h.span[s].n /\ Land(b) \subseteq Land(h)
  BY <1>3 DEF Taken
<1>5. PICK c : c = Indexed(b, k)
  OBVIOUS
<1>6. Clean(c, F) /\ Turned(b, c)
  BY <1>4, <1>5, IndexGood
<1>7. PICK x : x = h.free
  OBVIOUS
<1>8. h \in Heaps /\ h.free \in Int /\ h.span[s].n \in Nat
  <2>1. h \in Heaps /\ h.free \in Int
    BY CleanParts
  <2> QED
    BY <2>1, DescriptorFields
<1>9. g = Tallied(c, x)
  <2>1. b.free = a.free
    <3>1. PICK X : X = {}
      OBVIOUS
    <3>2. Good(h, {}, X, F) /\ s \notin X /\ h.span[s].loc \in FreeLocs
      BY <3>1 DEF Clean, FreeLocs
    <3>3. Good(a, {}, X \cup {s}, F)
      BY <1>1, <3>2, RemoveGood
    <3>4. a \in Heaps
      BY <3>3, GoodFacts
    <3>5. NewSpans(a, b)
      BY <1>2, <3>4, LocUpdate DEF Locations
    <3> QED
      BY <3>5 DEF NewSpans
  <2>2. a.free + h.span[s].n = x
    BY <1>4, <1>7, <1>8, <2>1
  <2> QED
    BY <1>1, <1>2, <1>5, <2>2 DEF DropLock, Located, Indexed, Tallied
<1>10. PICK G : G = F \cup {s}
  OBVIOUS
<1>11. DropsFrom(G, F, s)
  <2>1. s \notin F
    BY <1>4, CleanParts
  <2> QED
    BY <1>10, <2>1 DEF DropsFrom
<1>12. G \subseteq InUse(c.span)
  <2>1. F \subseteq InUse(h.span)
    BY CleanParts
  <2> QED
    BY <1>4, <1>6, <1>10, <2>1 DEF Turned
<1>13. /\ c \in Heaps /\ Apart(c.span) /\ c.free = FreeWeight(c, F)
       /\ Geometry(c.span, c.map, {}) /\ Listed(c.span, c.lists, {})
       /\ c.unmapped = Weight(c.span, Free(c.span, {}, "RETURNED")) /\ Merged(c.span, {})
       /\ c.system = Cardinality(Cover(c.span, Used(c.span)) \cup {})
  BY <1>6, CleanParts
<1>14. x = FreeWeight(c, G)
  <2>1. FreeWeight(c, G) = FreeWeight(c, F) + c.span[s].n
    <3>1. c \in Heaps /\ Apart(c.span)
      BY <1>13
    <3> QED
      BY <1>11, <1>12, <3>1, FlightWeight
  <2>2. c.free = h.free - h.span[s].n /\ c.span[s].n = h.span[s].n
    BY <1>4, <1>6 DEF Turned
  <2> QED
    BY <1>7, <1>8, <1>13, <2>1, <2>2
<1>15. Clean(g, G)
  BY <1>7, <1>8, <1>9, <1>12, <1>13, <1>14, TallyGood
<1>16. g.span = c.span /\ g.map = c.map
  BY <1>7, <1>8, <1>9, <1>13, TallyFields
<1>17. g.span = b.span /\ g.map = h.map
  BY <1>4, <1>6, <1>16 DEF Turned
<1>18. Keeps(h, g, InUse(h.span))
  BY <1>4, <1>17 DEF Keeps, InUse
<1> QED
  BY <1>4, <1>10, <1>15, <1>17, <1>18 DEF Dropped, Land

----------------------------------------------------------------------------
(***************************************************************************)
(* The loop of ReleaseAtLeastNPages().                                     *)
(***************************************************************************)

\* The type of a thread's state.
ThreadStates ==
    [at : {"idle", "release", "done", "crashed"}, s : SpanIds, want : Int, released : Int,
     prev : Int, i : Int, result : SpanIds]

\* release_index_ stays among the lists.
LEMMA AroundRange ==
    ASSUME NEW k, k \in Int
    PROVE  Around(k) \in 0 .. kMaxPages
<1>1. kMaxPages \in Nat /\ kMaxPages >= 1
  BY PageHeapAssumption
<1> QED
  BY <1>1 DEF Around

\* The thread goes on with the span it has taken, or is done.
Went(h, r, o, F) ==
    /\ o.th \in ThreadStates /\ o.th.result = r.result
    /\ \/ o.th.at = "release" /\ Dropped(h, o.heap, o.th.s, F)
       \/ o.th.at = "done" /\ o.th.s = NoSpan /\ Clean(o.heap, F) /\ Turned(h, o.heap)

\* The list whose turn it is has a normal span.
LEMMA StepFound ==
    ASSUME NEW h, NEW F, Clean(h, F), NEW i, NEW S, S = Steps(h, i), S # {}, i \in Int,
           NEW d, d = Least(S), NEW k, k = Around(h.index + d),
           NEW s, s = Last(h.lists[k].normal)
    PROVE  d \in Int /\ k \in 0 .. kMaxPages /\ s \in Ids /\ h.span[s].loc = "NORMAL"
<1>0. h \in Heaps /\ h.index \in 0 .. kMaxPages /\ kMaxPages \in Nat
  BY CleanParts, PageHeapAssumption
<1>1. S \in SUBSET Nat
  <2>1. \A x \in 0 .. (kMaxPages - i) : x \in Nat
    BY <1>0
  <2> QED
    BY <2>1 DEF Steps
<1>2. PICK x \in S : \A y \in S : x <= y
  BY <1>1, LeastExists
<1>3. d \in S
  BY <1>2 DEF Least
<1>4. d \in Int /\ h.lists[k].normal # <<>>
  <2>1. d \in Steps(h, i) /\ d \in Int
    BY <1>1, <1>3
  <2>2. h.lists[Around(h.index + d)].normal # <<>>
    BY <2>1, Zenon DEF Steps
  <2> QED
    BY <2>1, <2>2
<1>5. k \in 0 .. kMaxPages
  <2>1. PICK e : e = h.index + d
    OBVIOUS
  <2>2. e \in Int
    BY <1>0, <1>4, <2>1
  <2> QED
    BY <2>1, <2>2, AroundRange
<1>6. PICK q : q = h.lists[k].normal
  OBVIOUS
<1>7. q \in Seq(Ids) /\ q # <<>>
  <2>1. h.lists \in ListTables
    BY <1>0, HeapFields
  <2> QED
    BY <1>4, <1>5, <1>6, <2>1 DEF ListTables, ListPairs
<1>8. Len(q) \in Nat /\ Len(q) >= 1 /\ DOMAIN q = 1 .. Len(q)
  <2>1. Len(q) \in Nat /\ DOMAIN q = 1 .. Len(q) /\ Len(q) # 0
    BY <1>7
  <2> QED
    BY <2>1
<1>9. s = q[Len(q)] /\ Len(q) \in DOMAIN q
  BY <1>6, <1>8 DEF Last
<1>10. s \in Range(q)
  BY <1>9 DEF Range
<1>11. Range(q) = {t \in Free(h.span, {}, "NORMAL") : ListOf(h.span[t].n) = k}
  <2>1. Listed(h.span, h.lists, {})
    BY CleanParts
  <2> QED
    BY <1>5, <1>6, <2>1 DEF Listed, Exactly
<1> QED
  BY <1>4, <1>5, <1>10, <1>11 DEF Free

\* Turning the index before a span is taken changes nothing.
LEMMA TurnedDrop ==
    ASSUME NEW h, NEW b, NEW g, NEW s, NEW F, Turned(h, b), Dropped(b, g, s, F)
    PROVE  Dropped(h, g, s, F)
<1>1. b.span = h.span /\ b.map = h.map
  BY DEF Turned
<1>2. Keeps(h, g, InUse(h.span)) /\ Land(b) = Land(h)
  BY <1>1 DEF Dropped, Keeps, Land
<1> QED
  BY <1>1, <1>2 DEF Dropped

\* The fields of a thread's state.
LEMMA ThreadFields ==
    ASSUME NEW r, r \in ThreadStates
    PROVE  /\ r.i \in Int /\ r.released \in Int /\ r.prev \in Int /\ r.want \in Int
           /\ r.result \in SpanIds /\ r.s \in SpanIds
BY DEF ThreadStates

\* What the loop does next leaves the thread a state.
Around0(r) == [r EXCEPT !.i = 0, !.prev = r.released]
Holding(r, s, d) == [r EXCEPT !.at = "release", !.s = s, !.i = @ + d]
Done(r) == [r EXCEPT !.at = "done", !.s = NoSpan]

\* A new round keeps the span New() has allocated, ...
LEMMA RoundUpdate ==
    ASSUME NEW r, r \in ThreadStates, NEW x, x = Around0(r)
    PROVE  x \in ThreadStates /\ x.result = r.result
<1>1. PICK k : k = r.released
  OBVIOUS
<1>2. PICK z : z = 0
  OBVIOUS
<1>3. k \in Int /\ z \in Int
  BY <1>1, <1>2, ThreadFields
<1>4. x = [r EXCEPT !.i = z, !.prev = k]
  BY <1>1, <1>2 DEF Around0
<1> QED
  BY <1>3, <1>4 DEF ThreadStates

\* ... the end of the loops too, ...
LEMMA DoneUpdate ==
    ASSUME NEW r, r \in ThreadStates, NEW x, x = Done(r)
    PROVE  x \in ThreadStates /\ x.result = r.result /\ x.at = "done" /\ x.s = NoSpan
BY DEF Done, ThreadStates, SpanIds

\* ... and so does going on with another span.
LEMMA HoldUpdate ==
    ASSUME NEW r, r \in ThreadStates, NEW s, s \in Ids, NEW d, d \in Int,
           NEW x, x = Holding(r, s, d)
    PROVE  x \in ThreadStates /\ x.result = r.result /\ x.at = "release" /\ x.s = s
<1>1. PICK k : k = r.i + d
  OBVIOUS
<1>2. k \in Int /\ s \in SpanIds
  BY <1>1, ThreadFields DEF SpanIds
<1>3. x = [r EXCEPT !.at = "release", !.s = s, !.i = k]
  BY <1>1 DEF Holding
<1> QED
  BY <1>2, <1>3 DEF ThreadStates

\* The loops of ReleaseAtLeastNPages() up to the next unlock or to their end.
LEMMA ReleaseNextGood ==
    ASSUME NEW h, NEW F, Clean(h, F), NEW r, r \in ThreadStates, NEW o, o = ReleaseNext(h, r)
    PROVE  Went(h, r, o, F)
<1>0. h \in Heaps /\ h.index \in 0 .. kMaxPages /\ kMaxPages \in Nat /\ h.index \in Int
  BY CleanParts, PageHeapAssumption
<1>1. PICK round : round = IF r.released # r.prev /\ Steps(h, r.i) = {}
                           THEN Around0(r) ELSE r
  OBVIOUS
<1>2. round \in ThreadStates /\ round.result = r.result
  BY <1>1, RoundUpdate
<1>3. PICK start : start = IF round = r THEN h ELSE Indexed(h, Around(h.index + kMaxPages + 1 - r.i))
  OBVIOUS
<1>4. Clean(start, F) /\ Turned(h, start)
  <2>1. CASE round = r
    BY <1>3, <2>1 DEF Turned
  <2>2. CASE round # r
    <3>1. PICK x : x = h.index + kMaxPages + 1 - r.i
      OBVIOUS
    <3>2. x \in Int
      BY <1>0, <3>1, ThreadFields
    <3>3. PICK k : k = Around(x)
      OBVIOUS
    <3>4. k \in 0 .. kMaxPages /\ start = Indexed(h, k)
      BY <1>3, <2>2, <3>1, <3>2, <3>3, AroundRange
    <3> QED
      BY <3>4, IndexGood
  <2> QED
    BY <2>1, <2>2
<1>5. PICK S : S = Steps(start, round.i)
  OBVIOUS
<1>6. PICK d : d = Least(S)
  OBVIOUS
<1>7. PICK k : k = Around(start.index + d)
  OBVIOUS
<1>8. PICK s : s = Last(start.lists[k].normal)
  OBVIOUS
<1>9. o = IF r.released < r.want /\ S # {}
          THEN [heap |-> DropLock(start, k, s), th |-> Holding(round, s, d)]
          ELSE [heap |-> IF r.released < r.want
                         THEN Indexed(start, Around(start.index + kMaxPages + 1 - round.i)) ELSE h,
                th |-> Done(r)]
  BY <1>1, <1>3, <1>5, <1>6, <1>7, <1>8 DEF ReleaseNext, Around0, Indexed, Holding, Done
<1>10. CASE r.released < r.want /\ S # {}
  <2>1. PICK g : g = DropLock(start, k, s)
    OBVIOUS
  <2>2. o.heap = g /\ o.th = Holding(round, s, d)
    BY <1>9, <1>10, <2>1
  <2>3. PICK i : i = round.i
    OBVIOUS
  <2>4. i \in Int /\ S = Steps(start, i)
    BY <1>2, <1>5, <2>3, ThreadFields
  <2>5. d \in Int /\ k \in 0 .. kMaxPages /\ s \in Ids /\ start.span[s].loc = "NORMAL"
    BY <1>4, <1>6, <1>7, <1>8, <1>10, <2>4, StepFound
  <2>6. Dropped(start, g, s, F)
    BY <1>4, <2>1, <2>5, DropLockGood
  <2>7. Dropped(h, g, s, F)
    BY <1>4, <2>6, TurnedDrop
  <2>8. /\ o.th \in ThreadStates /\ o.th.result = r.result /\ o.th.at = "release" /\ o.th.s = s
    <3>1. PICK x : x = o.th
      OBVIOUS
    <3>2. x = Holding(round, s, d) /\ s \in Ids /\ d \in Int
      BY <2>2, <2>5, <3>1
    <3>3. x \in ThreadStates /\ x.result = round.result /\ x.at = "release" /\ x.s = s
      BY <1>2, <3>2, HoldUpdate
    <3> QED
      BY <1>2, <3>1, <3>3
  <2> QED
    BY <2>2, <2>7, <2>8 DEF Went
<1>11. CASE ~(r.released < r.want /\ S # {})
  <2>1. /\ o.th \in ThreadStates /\ o.th.result = r.result /\ o.th.at = "done" /\ o.th.s = NoSpan
    BY <1>9, <1>11, DoneUpdate
  <2>2. CASE r.released < r.want
    <3>1. PICK x : x = start.index + kMaxPages + 1 - round.i
      OBVIOUS
    <3>2. x \in Int
      <4>1. start.index \in 0 .. kMaxPages /\ round.i \in Int
        BY <1>2, <1>4, CleanParts, ThreadFields
      <4> QED
        BY <1>0, <3>1, <4>1
    <3>3. PICK e : e = Around(x)
      OBVIOUS
    <3>4. PICK g : g = Indexed(start, e)
      OBVIOUS
    <3>5. e \in 0 .. kMaxPages /\ o.heap = g
      BY <1>9, <1>11, <2>2, <3>1, <3>2, <3>3, <3>4, AroundRange
    <3>6. Clean(g, F) /\ Turned(start, g)
      BY <1>4, <3>4, <3>5, IndexGood
    <3> QED
      BY <1>4, <2>1, <3>5, <3>6 DEF Went, Turned
  <2>3. CASE ~(r.released < r.want)
    <3>1. o.heap = h
      BY <1>9, <1>11, <2>3
    <3> QED
      BY <2>1, <3>1 DEF Went, Turned
  <2> QED
    BY <2>2, <2>3
<1> QED
  BY <1>10, <1>11

----------------------------------------------------------------------------
(***************************************************************************)
(* NewAligned(): the span s, which is in use, is cut to n pages from p on, *)
(* and the pages D before and behind them become spans of their own.       *)
(***************************************************************************)

\* The span s has been cut, and the pages D are in no span.
Trimmed(h, g, s, D, F) ==
    /\ Good(g, D, {}, F)
    /\ InUse(g.span) = InUse(h.span) /\ Keeps(h, g, InUse(h.span) \ {s})
    /\ g.system = h.system /\ g.index = h.index
    /\ Land(g) \subseteq Land(h) /\ D \subseteq Land(h)

\* NewAligned() cuts a span to its aligned part: the pages cut off are in no span.
LEMMA TrimGood ==
    ASSUME NEW h, NEW F, Clean(h, F), NEW s, s \in InUse(h.span), s \notin F,
           NEW p, NEW n, Within(h.span, s, p, n), NEW a, a = Covering(h, s, p, n),
           NEW g, g = RecordSpan(a, s), NEW D, D = RunOf(h.span, s) \ Run(p, n)
    PROVE  Trimmed(h, g, s, D, F)
<1>0. /\ h \in Heaps /\ h.span \in SpanTables /\ F \in SUBSET Ids /\ Used(h.span) \subseteq Ids
      /\ Geometry(h.span, h.map, {}) /\ Apart(h.span) /\ Merged(h.span, {})
      /\ F \subseteq InUse(h.span)
      /\ s \in Used(h.span) /\ s \in Ids /\ Books(h, {}, F) /\ h.span[s].loc = "IN_USE"
      /\ h.system = Cardinality(Cover(h.span, Used(h.span)) \cup {})
      /\ InUse(h.span) \subseteq Used(h.span)
  <2>1. Good(h, {}, {}, F)
    BY DEF Clean
  <2> QED
    BY <2>1, GoodFacts DEF Good, InUse
<1>1. p \in Nat /\ n \in Nat /\ n >= 1 /\ h.span[s].first <= p /\ p + n <= End(h.span, s)
  BY DEF Within
<1>2. /\ NewSpans(h, a) /\ a.span[s].first = p /\ a.span[s].n = n /\ a.span[s].loc = "IN_USE"
      /\ \A t \in Ids : t # s => a.span[t] = h.span[t]
  BY <1>0, <1>1, RunUpdate
<1>3. /\ a \in Heaps /\ a.span \in SpanTables /\ a.map = h.map /\ a.lists = h.lists /\ a.free = h.free
      /\ a.unmapped = h.unmapped /\ a.system = h.system /\ a.index = h.index
  BY <1>2, HeapFields DEF NewSpans
<1>4. NewMap(a, g) /\ g.map = Ending(a.map, p, n, s)
  BY <1>0, <1>2, <1>3, RecordFields
<1>5. /\ g \in Heaps /\ g.span = a.span /\ g.lists = h.lists /\ g.free = h.free
      /\ g.unmapped = h.unmapped /\ g.system = h.system /\ g.index = h.index
      /\ g.map = Ending(h.map, p, n, s)
  BY <1>3, <1>4 DEF NewMap
<1>6. Covers(h.span, g.span, s, p, n)
  BY <1>0, <1>2, <1>3, <1>5 DEF Covers
<1>7. /\ Geometry(g.span, g.map, D) /\ Used(g.span) = Used(h.span)
      /\ Cover(g.span, Used(g.span)) \cup D = Cover(h.span, Used(h.span))
  <2>1. PICK H : H = {}
    OBVIOUS
  <2>2. Geometry(h.span, h.map, H)
    BY <1>0, <2>1
  <2>3. Handed(h.span, g.span, g.map, H, H \cup D) /\ Used(g.span) = Used(h.span)
    BY <1>0, <1>5, <1>6, <2>2, GeometryCut, SMTT(30)
  <2>4. H \cup D = D /\ Cover(h.span, Used(h.span)) \cup H = Cover(h.span, Used(h.span))
    BY <2>1
  <2> QED
    BY <2>3, <2>4 DEF Handed
<1>8. \A t \in Ids : t # s => g.span[t] = h.span[t]
  BY <1>2, <1>5
<1>9. g.span[s].loc = "IN_USE"
  BY <1>2, <1>5
<1>10. InUse(g.span) = InUse(h.span)
  BY <1>0, <1>8, <1>9 DEF InUse
<1>11. Books(g, {}, F)
  <2>2. PICK X : X = {}
    OBVIOUS
  <2>3. Books(h, X, F)
    BY <1>0, <2>2
  <2>4. \A t \in F : g.span[t] = h.span[t]
    BY <1>0, <1>8
  <2>5. \A t \in Ids : t \notin X /\ h.span[t].loc \in FreeLocs => t \notin X /\ g.span[t] = h.span[t]
    BY <1>0, <1>8, <2>2 DEF FreeLocs
  <2>6. \A t \in Ids : t \notin X /\ g.span[t].loc \in FreeLocs => t \notin X /\ g.span[t] = h.span[t]
    BY <1>8, <1>9, <2>2 DEF FreeLocs
  <2>7. Books(g, X, F)
    BY <1>0, <1>5, <2>3, <2>4, <2>5, <2>6, BooksFrame
  <2> QED
    BY <2>2, <2>7
<1>12. Merged(g.span, {})
  <2> SUFFICES ASSUME NEW t \in Used(h.span), NEW r \in Used(h.span), g.span[t].loc \in FreeLocs,
                      End(g.span, t) = g.span[r].first
               PROVE  g.span[t].loc # g.span[r].loc
    BY <1>7 DEF Merged
  <2>1. t # s /\ g.span[t] = h.span[t]
    BY <1>0, <1>8, <1>9 DEF FreeLocs
  <2>2. CASE r = s
    BY <1>9, <2>2 DEF FreeLocs
  <2>3. CASE r # s
    BY <1>0, <1>8, <2>1, <2>3 DEF Merged, End
  <2> QED
    BY <2>2, <2>3
<1>13. g.system = Cardinality(Cover(g.span, Used(g.span)) \cup D)
  <2>1. Cover(h.span, Used(h.span)) \cup {} = Cover(h.span, Used(h.span))
    OBVIOUS
  <2> QED
    BY <1>0, <1>5, <1>7, <2>1
<1>14. Good(g, D, {}, F)
  BY <1>0, <1>5, <1>7, <1>10, <1>11, <1>12, <1>13 DEF Good
<1>15. Keeps(h, g, InUse(h.span) \ {s})
  <2>1. PICK U : U = InUse(h.span) \ {s}
    OBVIOUS
  <2>2. \A r \in U : g.span[r] = h.span[r]
    BY <1>0, <1>8, <2>1
  <2>3. \A r \in U : p \notin RunOf(h.span, r) /\ p + n - 1 \notin RunOf(h.span, r)
    <3> SUFFICES ASSUME NEW r \in U
                 PROVE  p \notin RunOf(h.span, r) /\ p + n - 1 \notin RunOf(h.span, r)
      OBVIOUS
    <3>1. r \in Ids /\ r \in Used(h.span) /\ r # s
      BY <1>0, <2>1
    <3>2. End(h.span, s) <= h.span[r].first \/ End(h.span, r) <= h.span[s].first
      BY <1>0, <3>1 DEF Apart, Clear
    <3>3. /\ h.span[s].first \in Nat /\ h.span[s].n \in Nat
          /\ h.span[r].first \in Nat /\ h.span[r].n \in Nat
      BY <1>0, <3>1, DescriptorFields
    <3> QED
      BY <1>1, <3>2, <3>3 DEF RunOf, Run, End
  <2>4. Keeps(h, g, U)
    BY <1>5, <2>2, <2>3, EndingKeeps
  <2> QED
    BY <2>1, <2>4
<1>16. D \subseteq Land(h) /\ Land(g) \subseteq Land(h)
  BY <1>7 DEF Land
<1> QED
  BY <1>5, <1>10, <1>14, <1>15, <1>16 DEF Trimmed

\* One of the two pieces goes to the free lists.
LEMMA PieceGood ==
    ASSUME NEW h, NEW b, NEW s, NEW D, NEW F, Trimmed(h, b, s, D, F), NEW f, NEW n, Fits(D, f, n),
           NEW l, l \in FreeLocs, f - 1 \notin D, f + n \notin D,
           NEW G, G = D \ Run(f, n), NEW g, g = Extra(b, f, n, l)
    PROVE  Trimmed(h, g, s, G, F)
<1>1. Good(b, D, {}, F)
  BY DEF Trimmed
<1>2. Settled(b, g, G, F) /\ Land(g) \subseteq Land(b) \cup D
  BY <1>1, ExtraGood
<1>3. PICK U : U = InUse(h.span) \ {s}
  OBVIOUS
<1>4. Keeps(h, b, U) /\ Keeps(b, g, U)
  BY <1>2, <1>3 DEF Trimmed, Settled, Keeps
<1>5. Keeps(h, g, U)
  BY <1>4, KeepsBoth
<1> QED
  BY <1>2, <1>3, <1>5 DEF Trimmed, Settled

\* The pages before and behind the n pages from p on, of n + x pages from q on.
Pieces(D, E, q, p, n, x) ==
    /\ D = Run(q, n + x) \ Run(p, n)
    /\ E = D \ Run(q, p - q)
PiecesFit(D, E, q, p, n, m, after) ==
    /\ p > q => Fits(D, q, m) /\ q - 1 \notin D /\ q + m \notin D
    /\ after > 0 => /\ Fits(E, p + n, after) /\ (p + n) - 1 \notin E /\ (p + n) + after \notin E
                    /\ E \ Run(p + n, after) = {}
    /\ after \in Nat /\ (after = 0 => E = {})
    /\ p = q => E = D

\* The two pieces that are cut off.
LEMMA PiecesGood ==
    ASSUME NEW q, q \in Nat, NEW p, p \in Nat, NEW n, n \in Nat, NEW x, x \in Nat,
           n >= 1, q >= 1, q <= p, p <= q + x, q + n + x <= AddressPages,
           NEW D, NEW E, Pieces(D, E, q, p, n, x), NEW m, m = p - q, NEW after, after = x - m
    PROVE  PiecesFit(D, E, q, p, n, m, after)
<1>0. AddressPages \in Nat
  BY SystemAssumption
<1>1. \A e \in D : e \in Int /\ q <= e /\ e < q + n + x /\ (e < p \/ e >= p + n)
  BY DEF Run, Pieces
<1>2. \A e \in Int : q <= e /\ e < q + n + x /\ (e < p \/ e >= p + n) => e \in D
  BY DEF Run, Pieces
<1>3. p > q => Fits(D, q, m) /\ q - 1 \notin D /\ q + m \notin D
  BY <1>0, <1>1, <1>2 DEF Fits, Run
<1>5. after \in Nat /\ p + n + after = q + n + x
  OBVIOUS
<1>7. \A e : e \in E <=> e \in Int /\ p + n <= e /\ e < p + n + after
  BY <1>1, <1>2, <1>5 DEF Run, Pieces
<1>8. after > 0 => Fits(E, p + n, after) /\ (p + n) - 1 \notin E /\ (p + n) + after \notin E
  BY <1>0, <1>5, <1>7 DEF Fits, Run
<1>9. E \ Run(p + n, after) = {} /\ (after = 0 => E = {})
  BY <1>5, <1>7 DEF Run
<1>10. p = q => E = D
  BY DEF Run, Pieces
<1> QED
  BY <1>3, <1>5, <1>8, <1>9, <1>10 DEF PiecesFit

\* g is h with the span s, which is in use, cut.
CutDown(h, g, s, F) == Trimmed(h, g, s, {}, F)

\* CutTo(): both pieces become free spans again, or there are none.
LEMMA CutToGood ==
    ASSUME NEW h, NEW F, Clean(h, F), NEW s, s \in InUse(h.span), s \notin F,
           NEW p, p \in Nat, NEW n, n \in Nat, n >= 1, NEW x, x \in Nat,
           NEW q, q = h.span[s].first, q <= p, p <= q + x, h.span[s].n = n + x,
           NEW l, l \in FreeLocs, NEW g, g = CutTo(h, s, p, n, x, l)
    PROVE  CutDown(h, g, s, F)
<1>0. s \in Ids /\ q \in Nat /\ q >= 1 /\ q + n + x <= AddressPages
  <2>1. Placed(h.span) /\ h \in Heaps
    BY CleanParts
  <2>2. s \in Ids /\ h.span[s].loc = "IN_USE"
    BY DEF InUse
  <2>3. h.span[s].first >= 1 /\ End(h.span, s) <= AddressPages
    BY <2>1, <2>2 DEF Placed
  <2>4. q \in Nat
    BY <2>1, <2>2, DescriptorFields
  <2> QED
    BY <2>2, <2>3, <2>4 DEF End
<1>1. PICK a : a = Covering(h, s, p, n)
  OBVIOUS
<1>2. PICK b : b = RecordSpan(a, s)
  OBVIOUS
<1>3. PICK D : D = RunOf(h.span, s) \ Run(p, n)
  OBVIOUS
<1>4. Within(h.span, s, p, n)
  BY <1>0 DEF Within, End
<1>5. Trimmed(h, b, s, D, F)
  BY <1>1, <1>2, <1>3, <1>4, TrimGood
<1>6. D = Run(q, n + x) \ Run(p, n)
  BY <1>3 DEF RunOf
<1>7. PICK m : m = p - q
  OBVIOUS
<1>8. PICK after : after = x - m
  OBVIOUS
<1>9. PICK E : E = D \ Run(q, m)
  OBVIOUS
<1>16. Pieces(D, E, q, p, n, x)
  BY <1>6, <1>7, <1>9 DEF Pieces
<1>17. PiecesFit(D, E, q, p, n, m, after)
  BY <1>0, <1>7, <1>8, <1>16, PiecesGood
<1>10. /\ p > q => Fits(D, q, m) /\ q - 1 \notin D /\ q + m \notin D
       /\ after > 0 => /\ Fits(E, p + n, after) /\ (p + n) - 1 \notin E /\ (p + n) + after \notin E
                       /\ E \ Run(p + n, after) = {}
       /\ after \in Nat /\ (after = 0 => E = {})
       /\ p = q => E = D
  BY <1>17 DEF PiecesFit
<1>11. PICK c : c = IF p > q THEN Extra(b, q, m, l) ELSE b
  OBVIOUS
<1>12. g = IF after > 0 THEN Extra(c, p + n, after, l) ELSE c
  BY <1>1, <1>2, <1>7, <1>8, <1>11 DEF CutTo, FirstPage, Covering
<1>13. Trimmed(h, c, s, E, F)
  <2>1. CASE p > q
    BY <1>5, <1>9, <1>10, <1>11, <2>1, PieceGood
  <2>2. CASE p = q
    BY <1>5, <1>10, <1>11, <2>2
  <2> QED
    BY <1>0, <2>1, <2>2
<1>14. CASE after > 0
  <2>1. PICK e : e = p + n
    OBVIOUS
  <2>2. PICK G : G = E \ Run(e, after)
    OBVIOUS
  <2>3. Fits(E, e, after) /\ e - 1 \notin E /\ e + after \notin E /\ G = {}
    BY <1>10, <1>14, <2>1, <2>2
  <2>4. g = Extra(c, e, after, l)
    BY <1>12, <1>14, <2>1
  <2>5. Trimmed(h, g, s, G, F)
    BY <1>13, <2>2, <2>3, <2>4, PieceGood
  <2> QED
    BY <2>3, <2>5 DEF CutDown
<1>15. CASE after = 0
  BY <1>10, <1>12, <1>13, <1>15 DEF CutDown
<1> QED
  BY <1>10, <1>14, <1>15

----------------------------------------------------------------------------
(***************************************************************************)
(* Who holds the spans in use.                                             *)
(***************************************************************************)

\* The spans under release, and those New() is about to return.
ThreadTables == [Threads -> ThreadStates]
Flying(T) == {T[t].s : t \in Threads} \ {NoSpan}
Waiting(T) == {T[t].result : t \in Threads} \ {NoSpan}
Once(T) ==
    \A t, u \in Threads : t # u => /\ T[t].s = T[u].s => T[t].s = NoSpan
                                   /\ T[t].result = T[u].result => T[t].result = NoSpan
Put(T, t, x) == [T EXCEPT ![t] = x]

\* A thread gives up a span or takes a new one.
Unlike(x, y, S) == x = NoSpan \/ x = y \/ x \notin S
Instead(S, V, y, x) ==
    \A s : s \in V <=> (s \in S /\ s # y) \/ (s = x /\ x # NoSpan)

\* The spans of the threads when one of them changes its state.
LEMMA PutFields ==
    ASSUME NEW T, T \in ThreadTables, NEW t, t \in Threads, NEW x, x \in ThreadStates,
           Once(T), Unlike(x.s, T[t].s, Flying(T)), Unlike(x.result, T[t].result, Waiting(T)),
           NEW U, U = Put(T, t, x)
    PROVE  /\ U \in ThreadTables /\ U[t] = x /\ \A u \in Threads : u # t => U[u] = T[u]
           /\ Once(U)
           /\ Instead(Flying(T), Flying(U), T[t].s, x.s)
           /\ Instead(Waiting(T), Waiting(U), T[t].result, x.result)
<1>1. U \in ThreadTables /\ U[t] = x /\ \A u \in Threads : u # t => U[u] = T[u]
  BY DEF ThreadTables, Put
<1>2. Once(U)
  <2> SUFFICES ASSUME NEW a \in Threads, NEW b \in Threads, a # b
               PROVE  /\ U[a].s = U[b].s => U[a].s = NoSpan
                      /\ U[a].result = U[b].result => U[a].result = NoSpan
    BY DEF Once
  <2>1. CASE a # t /\ b # t
    BY <1>1, <2>1 DEF Once
  <2>2. CASE a = t
    BY <1>1, <2>2 DEF Once, Unlike, Flying, Waiting
  <2>3. CASE b = t
    BY <1>1, <2>3 DEF Once, Unlike, Flying, Waiting
  <2> QED
    BY <2>1, <2>2, <2>3
<1>3. Instead(Flying(T), Flying(U), T[t].s, x.s)
  <2> SUFFICES ASSUME NEW s
               PROVE  s \in Flying(U) <=> (s \in Flying(T) /\ s # T[t].s) \/ (s = x.s /\ x.s # NoSpan)
    BY DEF Instead
  <2> QED
    BY <1>1 DEF Once, Flying
<1>4. Instead(Waiting(T), Waiting(U), T[t].result, x.result)
  <2> SUFFICES ASSUME NEW s
               PROVE  s \in Waiting(U) <=> (s \in Waiting(T) /\ s # T[t].result)
                                           \/ (s = x.result /\ x.result # NoSpan)
    BY DEF Instead
  <2> QED
    BY <1>1 DEF Once, Waiting
<1> QED
  BY <1>1, <1>2, <1>3, <1>4

\* The users hold the spans L, and the threads their own.
Shared(B, L, T) ==
    /\ B = L \cup Waiting(T) \cup Flying(T)
    /\ L \cap Waiting(T) = {} /\ L \cap Flying(T) = {} /\ Waiting(T) \cap Flying(T) = {}
Busy(T) == \A t \in Threads : T[t].at = "release" <=> T[t].s # NoSpan
Owned(h, L, T) ==
    /\ T \in ThreadTables /\ Once(T) /\ Busy(T)
    /\ Clean(h, Flying(T))
    /\ Shared(InUse(h.span), L, T)

\* What it means that every span in use has one owner.
LEMMA OwnedFacts ==
    ASSUME NEW h, NEW L, NEW T, Owned(h, L, T)
    PROVE  /\ T \in ThreadTables /\ Once(T) /\ Busy(T) /\ Clean(h, Flying(T)) /\ h \in Heaps
           /\ L \subseteq InUse(h.span) /\ Waiting(T) \subseteq InUse(h.span)
           /\ Flying(T) \subseteq InUse(h.span) /\ InUse(h.span) \subseteq Ids
           /\ Shared(InUse(h.span), L, T)
BY CleanParts DEF Owned, Shared, InUse

\* New() has a span to return when it is done.
LEMMA Receive ==
    ASSUME NEW h, NEW L, NEW T, Owned(h, L, T), NEW t, t \in Threads, NEW x, x \in ThreadStates,
           T[t].result = NoSpan, x.s = T[t].s, x.at = T[t].at, x.result # NoSpan,
           NEW g, Clean(g, Flying(T)), NEW s, s = x.result,
           s \notin InUse(h.span), InUse(g.span) = InUse(h.span) \cup {s},
           NEW U, U = Put(T, t, x)
    PROVE  Owned(g, L, U)
<1>1. /\ T \in ThreadTables /\ Once(T) /\ Busy(T) /\ Waiting(T) \subseteq InUse(h.span)
      /\ Shared(InUse(h.span), L, T)
  BY OwnedFacts
<1>2. Unlike(x.s, T[t].s, Flying(T)) /\ Unlike(x.result, T[t].result, Waiting(T))
  BY <1>1 DEF Unlike
<1>3. /\ U \in ThreadTables /\ U[t] = x /\ \A u \in Threads : u # t => U[u] = T[u]
      /\ Once(U)
      /\ Instead(Flying(T), Flying(U), T[t].s, x.s)
      /\ Instead(Waiting(T), Waiting(U), T[t].result, x.result)
  BY <1>1, <1>2, PutFields
<1>4. Flying(U) = Flying(T)
  BY <1>3 DEF Instead, Flying
<1>5. Waiting(U) = Waiting(T) \cup {s}
  <2>1. NoSpan \notin Waiting(T)
    BY DEF Waiting
  <2> QED
    BY <1>3, <2>1 DEF Instead
<1>6. Busy(U)
  BY <1>1, <1>3 DEF Busy
<1>7. Shared(InUse(g.span), L, U)
  BY <1>1, <1>4, <1>5 DEF Shared
<1> QED
  BY <1>3, <1>4, <1>6, <1>7 DEF Owned

\* The thread hands the user the span it has, if any.
LEMMA HandOver ==
    ASSUME NEW h, NEW L, NEW T, Owned(h, L, T), NEW t, t \in Threads, T[t].s = NoSpan,
           NEW M, M = IF T[t].result = NoSpan THEN L ELSE L \cup {T[t].result},
           NEW U, U = Put(T, t, Idle)
    PROVE  Owned(h, M, U)
<1>0. PICK x : x = Idle
  OBVIOUS
<1>1. /\ T \in ThreadTables /\ Once(T) /\ Busy(T)
      /\ Shared(InUse(h.span), L, T) /\ Clean(h, Flying(T))
  BY OwnedFacts
<1>2. /\ x \in ThreadStates /\ x.s = NoSpan /\ x.result = NoSpan /\ x.at = "idle"
      /\ Unlike(x.s, T[t].s, Flying(T)) /\ Unlike(x.result, T[t].result, Waiting(T))
      /\ U = Put(T, t, x)
  BY <1>0 DEF Unlike, Idle, ThreadStates, SpanIds
<1>3. /\ U \in ThreadTables /\ U[t] = x /\ \A u \in Threads : u # t => U[u] = T[u]
      /\ Once(U)
      /\ Instead(Flying(T), Flying(U), T[t].s, x.s)
      /\ Instead(Waiting(T), Waiting(U), T[t].result, x.result)
  BY <1>1, <1>2, PutFields
<1>4. Flying(U) = Flying(T)
  BY <1>2, <1>3 DEF Instead, Flying
<1>5. Waiting(U) = Waiting(T) \ {T[t].result}
  BY <1>2, <1>3 DEF Instead
<1>6. Busy(U)
  BY <1>1, <1>2, <1>3 DEF Busy
<1>7. T[t].result # NoSpan => T[t].result \in Waiting(T)
  BY DEF Waiting
<1>8. NoSpan \notin Waiting(T)
  BY DEF Waiting
<1>9. Shared(InUse(h.span), M, U)
  <2>1. CASE T[t].result = NoSpan
    BY <1>1, <1>4, <1>5, <1>8, <2>1 DEF Shared
  <2>2. CASE T[t].result # NoSpan
    BY <1>1, <1>4, <1>5, <1>7, <2>2 DEF Shared
  <2> QED
    BY <2>1, <2>2
<1> QED
  BY <1>1, <1>3, <1>4, <1>6, <1>9 DEF Owned

\* The thread goes on holding what it holds.
LEMMA Stays ==
    ASSUME NEW h, NEW L, NEW T, Owned(h, L, T), NEW t, t \in Threads, NEW x, x \in ThreadStates,
           x.s = T[t].s, x.result = T[t].result, x.at = "release" <=> T[t].at = "release",
           NEW U, U = Put(T, t, x)
    PROVE  Owned(h, L, U)
<1>1. /\ T \in ThreadTables /\ Once(T) /\ Busy(T)
      /\ Shared(InUse(h.span), L, T) /\ Clean(h, Flying(T))
  BY OwnedFacts
<1>2. Unlike(x.s, T[t].s, Flying(T)) /\ Unlike(x.result, T[t].result, Waiting(T))
  BY DEF Unlike
<1>3. /\ U \in ThreadTables /\ U[t] = x /\ \A u \in Threads : u # t => U[u] = T[u]
      /\ Once(U)
      /\ Instead(Flying(T), Flying(U), T[t].s, x.s)
      /\ Instead(Waiting(T), Waiting(U), T[t].result, x.result)
  BY <1>1, <1>2, PutFields
<1>4. Flying(U) = Flying(T)
  BY <1>3 DEF Instead, Flying
<1>5. Waiting(U) = Waiting(T)
  BY <1>3 DEF Instead, Waiting
<1>6. Busy(U)
  BY <1>1, <1>3 DEF Busy
<1> QED
  BY <1>1, <1>3, <1>4, <1>5, <1>6 DEF Owned, Shared

\* The thread takes a span to release, or is done.
LEMMA Launch ==
    ASSUME NEW h, NEW L, NEW T, Owned(h, L, T), NEW t, t \in Threads, T[t].s = NoSpan,
           NEW o, Went(h, T[t], o, Flying(T)), NEW U, U = Put(T, t, o.th)
    PROVE  Owned(o.heap, L, U)
<1>0. PICK x : x = o.th
  OBVIOUS
<1>1. /\ T \in ThreadTables /\ Once(T) /\ Busy(T) /\ Flying(T) \subseteq InUse(h.span)
      /\ Waiting(T) \subseteq InUse(h.span)
      /\ Shared(InUse(h.span), L, T) /\ Clean(h, Flying(T))
  BY OwnedFacts
<1>2. /\ x \in ThreadStates /\ x.result = T[t].result /\ U = Put(T, t, x)
      /\ \/ x.at = "release" /\ Dropped(h, o.heap, x.s, Flying(T))
         \/ x.at = "done" /\ x.s = NoSpan /\ Clean(o.heap, Flying(T)) /\ Turned(h, o.heap)
  BY <1>0 DEF Went
<1>3. x.at = "release" => /\ x.s \in Ids /\ x.s \notin InUse(h.span) /\ x.s # NoSpan
                          /\ Clean(o.heap, Flying(T) \cup {x.s})
                          /\ InUse(o.heap.span) = InUse(h.span) \cup {x.s}
  BY <1>2, SpanNumbers DEF Dropped, Ids, NoSpan
<1>4. Unlike(x.s, T[t].s, Flying(T)) /\ Unlike(x.result, T[t].result, Waiting(T))
  BY <1>1, <1>2, <1>3 DEF Unlike
<1>5. /\ U \in ThreadTables /\ U[t] = x /\ \A u \in Threads : u # t => U[u] = T[u]
      /\ Once(U)
      /\ Instead(Flying(T), Flying(U), T[t].s, x.s)
      /\ Instead(Waiting(T), Waiting(U), T[t].result, x.result)
  BY <1>1, <1>2, <1>4, PutFields
<1>6. Waiting(U) = Waiting(T)
  BY <1>2, <1>5 DEF Instead, Waiting
<1>7. Busy(U)
  BY <1>1, <1>2, <1>3, <1>5 DEF Busy
<1>8. NoSpan \notin Flying(T)
  BY DEF Flying
<1>9. CASE x.at = "release"
  <2>1. Flying(U) = Flying(T) \cup {x.s}
    BY <1>3, <1>5, <1>8, <1>9 DEF Instead
  <2>2. Shared(InUse(o.heap.span), L, U)
    BY <1>1, <1>3, <1>6, <1>9, <2>1 DEF Shared
  <2> QED
    BY <1>3, <1>5, <1>7, <1>9, <2>1, <2>2 DEF Owned
<1>10. CASE x.at = "done" /\ x.s = NoSpan /\ Clean(o.heap, Flying(T)) /\ Turned(h, o.heap)
  <2>1. Flying(U) = Flying(T)
    BY <1>5, <1>8, <1>10 DEF Instead
  <2>2. Shared(InUse(o.heap.span), L, U)
    BY <1>1, <1>6, <1>10, <2>1 DEF Shared, Turned
  <2> QED
    BY <1>5, <1>7, <1>10, <2>1, <2>2 DEF Owned
<1> QED
  BY <1>2, <1>9, <1>10

\* The span the thread has released is on the free lists.
LEMMA TouchDown ==
    ASSUME NEW h, NEW L, NEW T, Owned(h, L, T), NEW t, t \in Threads, NEW s, s = T[t].s, s # NoSpan,
           NEW g, NEW G, DropsFrom(Flying(T), G, s), Yielded(h, g, s, G),
           NEW x, x \in ThreadStates, x.s = NoSpan, x.at # "release", x.result = T[t].result,
           NEW U, U = Put(T, t, x)
    PROVE  Owned(g, L, U) /\ Flying(U) = G
<1>1. /\ T \in ThreadTables /\ Once(T) /\ Busy(T) /\ Shared(InUse(h.span), L, T)
  BY OwnedFacts
<1>2. Unlike(x.s, T[t].s, Flying(T)) /\ Unlike(x.result, T[t].result, Waiting(T))
  BY DEF Unlike
<1>3. /\ U \in ThreadTables /\ U[t] = x /\ \A u \in Threads : u # t => U[u] = T[u]
      /\ Once(U)
      /\ Instead(Flying(T), Flying(U), T[t].s, x.s)
      /\ Instead(Waiting(T), Waiting(U), T[t].result, x.result)
  BY <1>1, <1>2, PutFields
<1>4. Flying(U) = G
  BY <1>3 DEF Instead, DropsFrom
<1>5. Waiting(U) = Waiting(T)
  BY <1>3 DEF Instead, Waiting
<1>6. Busy(U)
  BY <1>1, <1>3 DEF Busy
<1>7. s \in Flying(T)
  BY DEF DropsFrom
<1>8. Clean(g, G) /\ InUse(g.span) = InUse(h.span) \ {s}
  BY DEF Yielded
<1>9. Shared(InUse(g.span), L, U)
  <2>1. Flying(U) = Flying(T) \ {s}
    BY <1>4 DEF DropsFrom
  <2> QED
    BY <1>1, <1>5, <1>7, <1>8, <2>1 DEF Shared
<1> QED
  BY <1>3, <1>4, <1>6, <1>8, <1>9 DEF Owned

\* The user has given back the span s.
LEMMA GiveBack ==
    ASSUME NEW h, NEW L, NEW T, Owned(h, L, T), NEW s, s \in L, NEW g,
           Yielded(h, g, s, Flying(T)), NEW M, M = L \ {s}
    PROVE  Owned(g, M, T)
BY DEF Owned, Yielded, Shared

\* The heap changes under its owners.
LEMMA Same ==
    ASSUME NEW h, NEW L, NEW T, Owned(h, L, T), NEW g, Clean(g, Flying(T)),
           InUse(g.span) = InUse(h.span)
    PROVE  Owned(g, L, T)
BY DEF Owned

----------------------------------------------------------------------------
(***************************************************************************)
(* The size classes of pages.                                              *)
(***************************************************************************)

\* The users' spans with a size class; it is the class of their pages and of no other.
Registered(h, L, c) == {s \in L : c[h.span[s].first] # 0}
Classes == [Pages -> {0, 1}]
Classed(h, L, c) ==
    /\ c \in Classes
    /\ \A p \in Pages : c[p] # 0 <=> \E s \in Registered(h, L, c) : p \in RunOf(h.span, s)
    /\ \A s \in Registered(h, L, c) : \A p \in RunOf(h.span, s) : Leads(h.map, p) = s

\* Size classes are right as long as what the users hold stays.
LEMMA ClassedKept ==
    ASSUME NEW h, NEW g, NEW L, NEW c, Classed(h, L, c), Keeps(h, g, L)
    PROVE  Classed(g, L, c)
<1>1. \A s \in L : g.span[s] = h.span[s] /\ RunOf(g.span, s) = RunOf(h.span, s)
  BY DEF Keeps, RunOf
<1>2. Registered(g, L, c) = Registered(h, L, c)
  BY <1>1 DEF Registered
<1>3. Registered(h, L, c) \subseteq L
  BY DEF Registered
<1>4. \A s \in Registered(g, L, c) : \A p \in RunOf(g.span, s) : Leads(g.map, p) = s
  BY <1>1, <1>2, <1>3 DEF Classed, Keeps
<1>5. \A p \in Pages : c[p] # 0 <=> \E s \in Registered(g, L, c) : p \in RunOf(g.span, s)
  BY <1>1, <1>2, <1>3 DEF Classed
<1> QED
  BY <1>4, <1>5 DEF Classed

\* Pages of a span in use are pages.
LEMMA SpanWithin ==
    ASSUME NEW h, NEW F, Clean(h, F), NEW s, s \in InUse(h.span)
    PROVE  /\ h.span[s].first \in Pages /\ h.span[s].first \in RunOf(h.span, s)
           /\ RunOf(h.span, s) \subseteq Pages
           /\ \A r \in InUse(h.span) : r # s => RunOf(h.span, r) \cap RunOf(h.span, s) = {}
<1>1. h \in Heaps /\ Apart(h.span) /\ Placed(h.span)
  BY CleanParts
<1>2. \A r \in InUse(h.span) : /\ r \in Ids /\ r \in Used(h.span)
                               /\ h.span[r].first \in Nat /\ h.span[r].n \in Nat
                               /\ h.span[r].n >= 1 /\ h.span[r].first >= 1
                               /\ End(h.span, r) <= AddressPages
  BY <1>1, DescriptorFields DEF InUse, Used, Placed
<1>3. h.span[s].first \in Pages /\ h.span[s].first \in RunOf(h.span, s)
      /\ RunOf(h.span, s) \subseteq Pages
  BY <1>2, SystemAssumption DEF RunOf, Run, End, Pages
<1>4. ASSUME NEW r \in InUse(h.span), r # s
      PROVE  RunOf(h.span, r) \cap RunOf(h.span, s) = {}
  <2>1. End(h.span, r) <= h.span[s].first \/ End(h.span, s) <= h.span[r].first
    BY <1>1, <1>2, <1>4 DEF Apart, Clear
  <2> QED
    BY <1>2, <2>1 DEF RunOf, Run, End
<1> QED
  BY <1>3, <1>4

\* A span that has become the user's has no size class.
LEMMA ClassedMore ==
    ASSUME NEW h, NEW F, Clean(h, F), NEW L, L \subseteq InUse(h.span), NEW c, Classed(h, L, c),
           NEW s, s \in InUse(h.span), s \notin L, NEW M, M = L \cup {s}
    PROVE  Classed(h, M, c)
<1>1. /\ h.span[s].first \in Pages /\ h.span[s].first \in RunOf(h.span, s)
      /\ \A r \in InUse(h.span) : r # s => RunOf(h.span, r) \cap RunOf(h.span, s) = {}
  BY SpanWithin
<1>2. c[h.span[s].first] = 0
  BY <1>1 DEF Classed, Registered
<1>3. Registered(h, M, c) = Registered(h, L, c)
  BY <1>2 DEF Registered
<1> QED
  BY <1>3 DEF Classed

\* Delete() is given a span without a size class.
LEMMA ClassedLess ==
    ASSUME NEW h, NEW L, NEW c, Classed(h, L, c), NEW s, c[h.span[s].first] = 0, NEW M, M = L \ {s}
    PROVE  Classed(h, M, c)
<1>1. Registered(h, M, c) = Registered(h, L, c)
  BY DEF Registered
<1> QED
  BY <1>1 DEF Classed

\* RegisterSizeClass() and UnregisterSizeClass().
LEMMA RegisterGood ==
    ASSUME NEW h, NEW F, Clean(h, F), NEW s, s \in InUse(h.span), NEW g, g = Register(h, s)
    PROVE  /\ Clean(g, F) /\ g.span = h.span
           /\ \A p \in RunOf(h.span, s) : Leads(g.map, p) = s
           /\ Keeps(h, g, InUse(h.span) \ {s})
<1>0. /\ h \in Heaps /\ h.span \in SpanTables /\ h.map \in PageMaps
      /\ Geometry(h.span, h.map, {}) /\ s \in Ids /\ s \in Used(h.span)
      /\ InUse(h.span) \subseteq Used(h.span)
  <2>1. Good(h, {}, {}, F)
    BY DEF Clean
  <2> QED
    BY <2>1, GoodFacts DEF InUse, Used
<1>1. PICK m : m = [p \in DOMAIN h.map |-> IF p \in RunOf(h.span, s) THEN s ELSE h.map[p]]
  OBVIOUS
<1>2. g = [h EXCEPT !.map = m]
  BY <1>1 DEF Register, SpanPages, RunOf
<1>3. m \in PageMaps
  <2>1. PICK D \in SUBSET Pages : h.map \in [D -> SpanIds]
    BY <1>0 DEF PageMaps
  <2>2. m \in [D -> SpanIds]
    BY <1>0, <1>1, <2>1 DEF SpanIds
  <2> QED
    BY <2>2 DEF PageMaps
<1>4. NewMap(h, g) /\ g.map = m
  BY <1>0, <1>2, <1>3 DEF Heaps, NewMap
<1>5. /\ Geometry(h.span, m, {}) /\ \A p \in RunOf(h.span, s) : p \in DOMAIN m /\ m[p] = s
      /\ \A t \in Used(h.span) : t # s => \A p \in RunOf(h.span, t) : Leads(m, p) = Leads(h.map, p)
  <2>1. PICK H : H = {}
    OBVIOUS
  <2>2. /\ Geometry(h.span, m, H) /\ \A p \in RunOf(h.span, s) : p \in DOMAIN m /\ m[p] = s
        /\ \A t \in Used(h.span) : t # s => \A p \in RunOf(h.span, t) : Leads(m, p) = Leads(h.map, p)
    <3>1. m = Filling(h.map, h.span, s)
      BY <1>1 DEF Filling
    <3>2. Geometry(h.span, h.map, H)
      BY <1>0, <2>1
    <3> QED
      BY <1>0, <3>1, <3>2, GeometryRegister
  <2> QED
    BY <2>1, <2>2
<1>6. Clean(g, F)
  BY <1>4, <1>5 DEF Clean, Good, Books, Counted, NewMap
<1>7. \A p \in RunOf(h.span, s) : Leads(g.map, p) = s
  BY <1>4, <1>5 DEF Leads
<1>8. Keeps(h, g, InUse(h.span) \ {s})
  BY <1>0, <1>4, <1>5 DEF Keeps, NewMap
<1> QED
  BY <1>4, <1>6, <1>7, <1>8 DEF NewMap

----------------------------------------------------------------------------
(***************************************************************************)
(* The inductive invariant.                                                *)
(***************************************************************************)

\* New() asks the system for untagged memory only.
SystemFits(y, L) == SysGood(y, BOOLEAN, FALSE, L)

\* Owners, size classes and system allocator; the heap itself is good by Owned.
IInv ==
    /\ Owned(heap, live, th)
    /\ Classed(heap, live, class)
    /\ SystemFits(sys, Land(heap))
    /\ limit \in Limits \cup {NoLimit}

\* What HeldSpansStay says of a step.
Kept == \A s \in live \cap live' : heap'.span[s] = heap.span[s]

\* A step that keeps what the users hold is one HeldSpansStay allows.
LEMMA KeptFrom ==
    ASSUME Keeps(heap, heap', live)
    PROVE  Kept
BY DEF Keeps, Kept

\* The system allocator fits any heap with fewer pages.
LEMMA FitsLess ==
    ASSUME NEW y, NEW L, NEW M, SystemFits(y, L), M \subseteq L
    PROVE  SystemFits(y, M)
BY SysLess DEF SystemFits

\* What is kept of some spans is kept of fewer.
LEMMA KeepsLess ==
    ASSUME NEW h, NEW g, NEW U, NEW V, Keeps(h, g, U), V \subseteq U
    PROVE  Keeps(h, g, V)
BY DEF Keeps

\* The release loops keep what the users hold.
LEMMA WentKeeps ==
    ASSUME NEW h, NEW r, NEW o, NEW F, Went(h, r, o, F), NEW L, L \subseteq InUse(h.span)
    PROVE  Keeps(h, o.heap, L) /\ Land(o.heap) \subseteq Land(h)
<1>1. CASE Dropped(h, o.heap, o.th.s, F)
  BY <1>1, KeepsLess DEF Dropped
<1>2. CASE Turned(h, o.heap)
  BY <1>2, KeepsSame DEF Turned, Land
<1> QED
  BY <1>1, <1>2 DEF Went

\* Only the last state of a thread counts.
LEMMA PutTwice ==
    ASSUME NEW T, T \in ThreadTables, NEW t, t \in Threads, NEW x, NEW y, NEW U, U = Put(T, t, x)
    PROVE  Put(U, t, y) = Put(T, t, y)
BY DEF Put, ThreadTables

\* What a thread does when ReleaseAtLeastNPages() takes the lock again or ends.
LEMMA FinishGood ==
    ASSUME NEW t, t \in Threads, NEW o, Finish(t, o), th \in ThreadTables,
           NEW U, U = Put(th, t, o.th), Owned(o.heap, live, U), Classed(o.heap, live, class),
           SystemFits(sys', Land(o.heap)), class' = class,
           o.th \in ThreadStates, o.th.at = "done" => o.th.s = NoSpan,
           limit \in Limits \cup {NoLimit}
    PROVE  IInv'
<1>0. heap' = o.heap
  BY DEF Finish
<1>1. U[t] = o.th
  BY DEF Put, ThreadTables
<1>2. CASE o.th.at # "done"
  <2>1. th' = U /\ live' = live /\ limit' = limit
    BY <1>2 DEF Finish, Put
  <2> QED
    BY <1>0, <2>1 DEF IInv
<1>3. CASE o.th.at = "done" /\ o.th.result # NoSpan /\ o.th.released < o.th.want /\ limit.hard
  <2>1. PICK x : x = [o.th EXCEPT !.at = "crashed"]
    OBVIOUS
  <2>2. th' = Put(th, t, x) /\ live' = live /\ limit' = NoLimit
    BY <1>3, <2>1 DEF Finish, Put
  <2>3. th' = Put(U, t, x)
    BY <2>2, PutTwice
  <2>4. x \in ThreadStates /\ x.s = o.th.s /\ x.result = o.th.result /\ x.at = "crashed"
    BY <2>1 DEF ThreadStates
  <2>5. Owned(o.heap, live, th')
    <3>1. x.s = U[t].s /\ x.result = U[t].result /\ (x.at = "release" <=> U[t].at = "release")
      BY <1>1, <1>3, <2>4
    <3> QED
      BY <2>3, <2>4, <3>1, Stays
  <2> QED
    BY <1>0, <2>2, <2>5 DEF IInv
<1>4. CASE o.th.at = "done" /\ ~(o.th.result # NoSpan /\ o.th.released < o.th.want /\ limit.hard)
  <2>1. th' = Put(th, t, Idle) /\ Hand(o.th.result) /\ limit' = limit
    BY <1>4 DEF Finish, Put
  <2>2. th' = Put(U, t, Idle)
    BY <2>1, PutTwice
  <2>3. live' = IF U[t].result = NoSpan THEN live ELSE live \cup {U[t].result}
    BY <1>1, <2>1 DEF Hand
  <2>4. Owned(o.heap, live', th')
    <3>1. U[t].s = NoSpan
      BY <1>1, <1>4
    <3> QED
      BY <2>2, <2>3, <3>1, HandOver
  <2>5. Classed(o.heap, live', class)
    <3>1. CASE U[t].result = NoSpan
      BY <2>3, <3>1
    <3>2. CASE U[t].result # NoSpan
      <4>1. PICK s : s = U[t].result
        OBVIOUS
      <4>2. s \in Waiting(U)
        BY <3>2, <4>1 DEF Waiting
      <4>3. /\ Clean(o.heap, Flying(U)) /\ live \subseteq InUse(o.heap.span)
            /\ s \in InUse(o.heap.span) /\ s \notin live
        BY <4>2, OwnedFacts DEF Shared
      <4>4. live' = live \cup {s}
        BY <2>3, <3>2, <4>1
      <4> QED
        BY <4>3, <4>4, ClassedMore
    <3> QED
      BY <3>1, <3>2
  <2> QED
    BY <1>0, <2>1, <2>4, <2>5 DEF IInv
<1> QED
  BY <1>2, <1>3, <1>4

\* The thread goes on with the heap h and the loop's state r; in T it holds no span.
LEMMA ReleaseStep ==
    ASSUME NEW t, t \in Threads, th \in ThreadTables, NEW h, NEW T, NEW x, T = Put(th, t, x),
           x.s = NoSpan, Owned(h, live, T), Classed(h, live, class), Keeps(heap, h, live),
           SystemFits(sys', Land(h)), class' = class, limit \in Limits \cup {NoLimit},
           NEW r, r \in ThreadStates, r.result = x.result,
           NEW o, o = ReleaseNext(h, r), Finish(t, o)
    PROVE  IInv' /\ Kept
<1>1. T \in ThreadTables /\ Clean(h, Flying(T)) /\ live \subseteq InUse(h.span)
  BY OwnedFacts
<1>2. T[t] = x
  BY DEF Put, ThreadTables
<1>3. Went(h, r, o, Flying(T))
  BY <1>1, ReleaseNextGood
<1>4. Went(h, T[t], o, Flying(T)) /\ T[t].s = NoSpan
  BY <1>2, <1>3 DEF Went
<1>5. PICK U : U = Put(T, t, o.th)
  OBVIOUS
<1>6. Owned(o.heap, live, U)
  BY <1>4, <1>5, Launch
<1>7. U = Put(th, t, o.th)
  BY <1>5, PutTwice
<1>8. Keeps(h, o.heap, live) /\ Land(o.heap) \subseteq Land(h)
  BY <1>1, <1>3, WentKeeps
<1>9. Classed(o.heap, live, class)
  BY <1>8, ClassedKept
<1>10. SystemFits(sys', Land(o.heap))
  BY <1>8, FitsLess
<1>11. o.th \in ThreadStates /\ (o.th.at = "done" => o.th.s = NoSpan)
  BY <1>3 DEF Went
<1>12. Kept
  <2>1. Keeps(heap, o.heap, live)
    BY <1>8, KeepsBoth
  <2>2. heap' = o.heap
    BY DEF Finish
  <2>3. Keeps(heap, heap', live)
    BY <2>1, <2>2
  <2> QED
    BY <2>3, KeptFrom
<1>13. IInv'
  BY <1>6, <1>7, <1>9, <1>10, <1>11, FinishGood
<1> QED
  BY <1>12, <1>13

\* How ReleaseAtLeastNPages() starts, and what a thread has that is done.
IdleWith(w, i, p, s) == [Idle EXCEPT !.want = w, !.prev = p, !.i = i, !.result = s]
Retiring(x, s) == x \in ThreadStates /\ x.s = NoSpan /\ x.at = "idle" /\ x.result = s

\* The states ReleaseAtLeastNPages() starts with.
LEMMA IdleFields ==
    ASSUME NEW w, w \in Int, NEW i, i \in Int, NEW p, p \in Int, NEW s, s \in SpanIds,
           NEW x, x = IdleWith(w, i, p, s)
    PROVE  Retiring(x, s)
<1>1. x = [at |-> "idle", s |-> NoSpan, want |-> w, released |-> 0, prev |-> p, i |-> i, result |-> s]
  BY DEF IdleWith, Idle
<1>2. NoSpan \in SpanIds
  BY DEF SpanIds
<1> QED
  BY <1>1, <1>2 DEF Retiring, ThreadStates

\* An allocation fits the system allocator.
LEMMA AllocateFits ==
    ASSUME IInv, NEW n, n \in Nat, n >= 1, NEW o, o \in AllocateSpan(n)
    PROVE  Spanned(heap, o, n, Flying(th), BOOLEAN, FALSE)
<1>1. PICK D : D = BOOLEAN
  OBVIOUS
<1>2. PICK tag : tag = FALSE
  OBVIOUS
<1>3. PICK F : F = Flying(th)
  OBVIOUS
<1>4. Clean(heap, F) /\ SysGood(sys, D, tag, Land(heap))
  BY <1>1, <1>2, <1>3 DEF IInv, Owned, SystemFits
<1>5. Spanned(heap, o, n, F, D, tag)
  BY <1>2, <1>4, AllocateSpanGood
<1> QED
  BY <1>1, <1>2, <1>3, <1>5

\* The thread has a span s it did not have, and then the user has it.
LEMMA ReceiveIdle ==
    ASSUME NEW L, NEW T, NEW h, Owned(h, L, T), NEW t, t \in Threads, T[t] = Idle,
           NEW g, Clean(g, Flying(T)), NEW s, s \in Ids,
           s \notin InUse(h.span), InUse(g.span) = InUse(h.span) \cup {s},
           NEW w, w \in Int, NEW i, i \in Int, NEW p, p \in Int,
           NEW x, x = IdleWith(w, i, p, s), NEW U, U = Put(T, t, x)
    PROVE  Owned(g, L, U)
<1>1. s \in SpanIds /\ s # NoSpan
  BY SystemAssumption DEF SpanIds, Ids, NoSpan
<1>2. x \in ThreadStates /\ x.s = NoSpan /\ x.at = "idle" /\ x.result = s
  <2>1. s \in SpanIds
    BY <1>1
  <2>2. Retiring(x, s)
    BY <2>1, IdleFields
  <2> QED
    BY <2>2 DEF Retiring
<1>3. T[t].result = NoSpan /\ T[t].s = NoSpan /\ T[t].at = "idle"
  BY DEF Idle
<1>4. x.s = T[t].s /\ x.at = T[t].at /\ x.result # NoSpan /\ s = x.result
  BY <1>1, <1>2, <1>3
<1> QED
  BY <1>2, <1>3, <1>4, Receive

\* New() and NewAligned() hand a new span to the user.
LEMMA HandGood ==
    ASSUME NEW L, NEW T, NEW h, Owned(h, L, T), NEW t, t \in Threads, T[t] = Idle,
           NEW g, Clean(g, Flying(T)), NEW s, s \in Ids,
           s \notin InUse(h.span), InUse(g.span) = InUse(h.span) \cup {s},
           NEW c, Classed(g, L, c), NEW M, M = L \cup {s}
    PROVE  Owned(g, M, T) /\ Classed(g, M, c)
<1>1. PICK z : z = 0
  OBVIOUS
<1>2. PICK x : x = IdleWith(z, z, z, s)
  OBVIOUS
<1>3. PICK U : U = Put(T, t, x)
  OBVIOUS
<1>4. z \in Int
  BY <1>1
<1>5. Owned(g, L, U)
  BY <1>2, <1>3, <1>4, ReceiveIdle
<1>6. s \in SpanIds /\ s # NoSpan
  BY SystemAssumption DEF SpanIds, Ids, NoSpan
<1>7. T \in ThreadTables /\ L \subseteq InUse(h.span)
  BY OwnedFacts
<1>8. U[t] = x
  BY <1>3, <1>7 DEF Put, ThreadTables
<1>9. x.s = NoSpan /\ x.result = s
  <2>1. s \in SpanIds
    BY <1>6
  <2>2. Retiring(x, s)
    BY <1>2, <1>4, <2>1, IdleFields
  <2> QED
    BY <2>2 DEF Retiring
<1>10. PICK V : V = Put(U, t, Idle)
  OBVIOUS
<1>11. V = T
  <2>1. V = Put(T, t, Idle)
    BY <1>3, <1>7, <1>10, PutTwice
  <2> QED
    BY <1>7, <2>1 DEF Put, ThreadTables
<1>12. U[t].s = NoSpan /\ M = IF U[t].result = NoSpan THEN L ELSE L \cup {U[t].result}
  BY <1>6, <1>8, <1>9
<1>13. Owned(g, M, V)
  BY <1>5, <1>10, <1>12, HandOver
<1>14. Classed(g, M, c)
  <2>1. s \in InUse(g.span) /\ s \notin L /\ L \subseteq InUse(g.span)
    BY <1>7
  <2> QED
    BY <2>1, ClassedMore
<1> QED
  BY <1>11, <1>13, <1>14

\* New().
LEMMA NewStep ==
    ASSUME IInv, NEW t, t \in Threads, NEW n, n \in Requests, New(t, n)
    PROVE  IInv' /\ Kept
<1>0. n \in Nat /\ n >= 1
  BY PageHeapAssumption
<1>1. /\ Owned(heap, live, th) /\ Classed(heap, live, class) /\ limit \in Limits \cup {NoLimit}
      /\ th \in ThreadTables /\ live \subseteq InUse(heap.span)
  BY OwnedFacts DEF IInv
<1>2. PICK o \in AllocateSpan(n) :
        /\ sys' = o.sys
        /\ IF o.s = NoSpan \/ limit = NoLimit \/ Overage(o.heap) <= 0
           THEN heap' = o.heap /\ Hand(o.s) /\ UNCHANGED <<th, limit>>
           ELSE Finish(t, ReleaseAtLeastNPages(o.heap, Overage(o.heap), o.s))
  BY DEF New
<1>3. class' = class /\ th[t] = Idle
  BY DEF New
<1>4. Spanned(heap, o, n, Flying(th), BOOLEAN, FALSE)
  BY <1>0, <1>2, AllocateFits
<1>5. SystemFits(sys', Land(o.heap))
  BY <1>2, <1>4 DEF Spanned, SystemFits
<1>6. CASE o.s = NoSpan
  <2>1. heap' = heap /\ live' = live /\ th' = th /\ limit' = limit /\ o.heap = heap
    BY <1>2, <1>4, <1>6 DEF Hand, Spanned
  <2> QED
    BY <1>1, <1>3, <1>5, <2>1 DEF IInv, Kept
<1>7. CASE o.s # NoSpan
  <2>1. PICK s : s = o.s
    OBVIOUS
  <2>2. PICK g : g = o.heap
    OBVIOUS
  <2>3. /\ Clean(g, Flying(th)) /\ s \in Ids /\ s \notin InUse(heap.span)
        /\ InUse(g.span) = InUse(heap.span) \cup {s} /\ Keeps(heap, g, InUse(heap.span))
    BY <1>4, <1>7, <2>1, <2>2 DEF Spanned
  <2>4. Keeps(heap, g, live)
    BY <1>1, <2>3, KeepsLess
  <2>5. Classed(g, live, class)
    BY <1>1, <2>4, ClassedKept
  <2>6. CASE limit = NoLimit \/ Overage(o.heap) <= 0
    <3>1. heap' = g /\ live' = live \cup {s} /\ th' = th /\ limit' = limit
      BY <1>2, <1>7, <2>1, <2>2, <2>6 DEF Hand
    <3>2. Owned(g, live', th) /\ Classed(g, live', class)
      BY <1>1, <1>3, <2>3, <2>5, <3>1, HandGood
    <3>3. Kept
      BY <2>4, <3>1, KeptFrom
    <3> QED
      BY <1>1, <1>3, <1>5, <2>2, <3>1, <3>2, <3>3 DEF IInv
  <2>7. CASE ~(limit = NoLimit \/ Overage(o.heap) <= 0)
    <3>1. Finish(t, ReleaseAtLeastNPages(g, Overage(g), s))
      BY <1>2, <1>7, <2>1, <2>2, <2>7
    <3>2. PICK w : w = Overage(g)
      OBVIOUS
    <3>3. w \in Int
      <4>1. g \in Heaps
        BY <2>3, CleanParts
      <4>2. g.system \in Int /\ g.unmapped \in Int
        BY <4>1, HeapFields
      <4>3. limit.pages \in Nat
        BY <1>1, <2>7, PageHeapAssumption
      <4> QED
        BY <3>2, <4>2, <4>3 DEF Overage
    <3>4. PICK i : i = kMaxPages + 1
      OBVIOUS
    <3>5. PICK p : p = -1
      OBVIOUS
    <3>6. i \in Int /\ p \in Int
      BY <3>4, <3>5, PageHeapAssumption
    <3>7. PICK x : x = IdleWith(w, i, p, s)
      OBVIOUS
    <3>8. PICK T : T = Put(th, t, x)
      OBVIOUS
    <3>9. Owned(g, live, T)
      BY <1>1, <1>3, <2>3, <3>3, <3>6, <3>7, <3>8, ReceiveIdle
    <3>10. x \in ThreadStates /\ x.s = NoSpan
      <4>1. s \in SpanIds
        BY <2>3 DEF SpanIds
      <4> QED
        BY <3>3, <3>6, <3>7, <4>1, IdleFields DEF Retiring
    <3>11. PICK e : e = ReleaseNext(g, x)
      OBVIOUS
    <3>12. Finish(t, e)
      BY <3>1, <3>2, <3>4, <3>5, <3>7, <3>11 DEF ReleaseAtLeastNPages, IdleWith
    <3>13. SystemFits(sys', Land(g))
      BY <1>5, <2>2
    <3> QED
      BY <1>1, <1>3, <2>4, <2>5, <3>8, <3>9, <3>10, <3>11, <3>12, <3>13, ReleaseStep
  <2> QED
    BY <2>6, <2>7
<1> QED
  BY <1>6, <1>7

\* ReleaseAtLeastNPages(), from MallocExtension.
LEMMA ReleaseGood ==
    ASSUME IInv, NEW t, t \in Threads, NEW w, w \in ReleaseSizes, Release(t, w)
    PROVE  IInv' /\ Kept
<1>1. /\ Owned(heap, live, th) /\ Classed(heap, live, class) /\ limit \in Limits \cup {NoLimit}
      /\ th \in ThreadTables /\ SystemFits(sys, Land(heap))
  BY OwnedFacts DEF IInv
<1>2. th[t] = Idle /\ sys' = sys /\ class' = class /\ Finish(t, ReleaseAtLeastNPages(heap, w, NoSpan))
  BY DEF Release
<1>3. PICK i : i = kMaxPages + 1
  OBVIOUS
<1>4. PICK p : p = -1
  OBVIOUS
<1>5. i \in Int /\ p \in Int /\ w \in Int
  BY <1>3, <1>4, PageHeapAssumption
<1>6. PICK s : s = NoSpan
  OBVIOUS
<1>7. PICK x : x = IdleWith(w, i, p, s)
  OBVIOUS
<1>8. s \in SpanIds
  BY <1>6 DEF SpanIds
<1>9. Retiring(x, s)
  BY <1>5, <1>7, <1>8, IdleFields
<1>10. x \in ThreadStates /\ x.s = NoSpan /\ x.at = "idle" /\ x.result = NoSpan
  BY <1>6, <1>9 DEF Retiring
<1>11. PICK T : T = Put(th, t, x)
  OBVIOUS
<1>12. Owned(heap, live, T)
  <2>1. x.s = th[t].s /\ x.result = th[t].result /\ (x.at = "release" <=> th[t].at = "release")
    BY <1>2, <1>10 DEF Idle
  <2> QED
    BY <1>1, <1>10, <1>11, <2>1, Stays
<1>13. PICK e : e = ReleaseNext(heap, x)
  OBVIOUS
<1>14. Finish(t, e)
  BY <1>2, <1>3, <1>4, <1>6, <1>7, <1>13 DEF ReleaseAtLeastNPages, IdleWith
<1>15. SystemFits(sys', Land(heap))
  BY <1>1, <1>2
<1>16. PICK h : h = heap
  OBVIOUS
<1>17. Owned(h, live, T) /\ Classed(h, live, class) /\ SystemFits(sys', Land(h)) /\ e = ReleaseNext(h, x)
  BY <1>1, <1>12, <1>13, <1>15, <1>16
<1>18. Keeps(heap, h, live)
  BY <1>16, KeepsSame
<1> QED
  BY <1>1, <1>2, <1>10, <1>11, <1>14, <1>17, <1>18, ReleaseStep

\* Relock().
Landed(r) == [r EXCEPT !.s = NoSpan, !.at = "done"]
Counting(r, m) == [r EXCEPT !.released = @ + m, !.i = @ + 1]

\* A thread that is back from the system call has no span, ...
LEMMA LandedFields ==
    ASSUME NEW r, r \in ThreadStates, NEW x, x = Landed(r)
    PROVE  x \in ThreadStates /\ x.s = NoSpan /\ x.at = "done" /\ x.result = r.result
BY DEF Landed, ThreadStates, SpanIds

\* ... and has counted the one it released.
LEMMA CountingFields ==
    ASSUME NEW r, r \in ThreadStates, NEW m, m \in Int, NEW x, x = Counting(r, m)
    PROVE  x \in ThreadStates /\ x.result = r.result
<1>1. PICK a : a = r.released + m
  OBVIOUS
<1>2. PICK b : b = r.i + 1
  OBVIOUS
<1>3. a \in Int /\ b \in Int
  BY <1>1, <1>2, ThreadFields
<1>4. x = [r EXCEPT !.released = a, !.i = b]
  BY <1>1, <1>2 DEF Counting
<1> QED
  BY <1>3, <1>4 DEF ThreadStates

\* Relock(): the span that comes back is merged with what its neighbours are by now,
\* not with what they were at the unlock; then the loops go on.
LEMMA RelockGood ==
    ASSUME IInv, NEW t, t \in Threads, Relock(t)
    PROVE  IInv' /\ Kept
<1>1. /\ Owned(heap, live, th) /\ Classed(heap, live, class) /\ limit \in Limits \cup {NoLimit}
      /\ th \in ThreadTables /\ SystemFits(sys, Land(heap)) /\ Busy(th) /\ Clean(heap, Flying(th))
      /\ Shared(InUse(heap.span), live, th) /\ heap \in Heaps
      /\ live \subseteq InUse(heap.span) /\ Flying(th) \subseteq InUse(heap.span)
  BY OwnedFacts DEF IInv
<1>2. PICK s : s = th[t].s
  OBVIOUS
<1>3. s # NoSpan /\ s \in Flying(th) /\ s \notin live
  <2>1. s # NoSpan
    BY <1>1, <1>2 DEF Relock, Busy
  <2>2. s \in Flying(th)
    BY <1>2, <2>1 DEF Flying
  <2> QED
    BY <1>1, <2>1, <2>2 DEF Shared
<1>4. PICK a : a = Returned(heap, s)
  OBVIOUS
<1>5. PICK G : G = Flying(th) \ {s}
  OBVIOUS
<1>6. Yielded(heap, a, s, G)
  <2>1. PICK F : F = Flying(th)
    OBVIOUS
  <2>2. Clean(heap, F) /\ s \in F /\ G = F \ {s}
    BY <1>1, <1>3, <1>5, <2>1
  <2> QED
    BY <1>4, <2>2, ReturnedGood
<1>7. Clean(a, G) /\ Keeps(heap, a, live) /\ Land(a) \subseteq Land(heap) /\ a.index \in Int
  <2>1. Clean(a, G) /\ Keeps(heap, a, InUse(heap.span) \ {s}) /\ Land(a) \subseteq Land(heap)
    BY <1>6 DEF Yielded
  <2>2. PICK V : V = InUse(heap.span) \ {s}
    OBVIOUS
  <2>3. live \subseteq V /\ Keeps(heap, a, V)
    BY <1>1, <1>3, <2>1, <2>2
  <2>4. Keeps(heap, a, live)
    BY <2>3, KeepsLess
  <2>5. a.index \in 0 .. kMaxPages
    BY <2>1, CleanParts
  <2> QED
    BY <2>1, <2>4, <2>5
<1>8. PICK x : x = Landed(th[t])
  OBVIOUS
<1>9. th[t] \in ThreadStates
  BY <1>1 DEF ThreadTables
<1>10. x \in ThreadStates /\ x.s = NoSpan /\ x.at = "done" /\ x.result = th[t].result
  BY <1>8, <1>9, LandedFields
<1>11. PICK T : T = Put(th, t, x)
  OBVIOUS
<1>12. Owned(a, live, T) /\ Flying(T) = G
  <2>1. x \in ThreadStates /\ x.s = NoSpan /\ x.at # "release" /\ x.result = th[t].result
    BY <1>10
  <2>2. DropsFrom(Flying(th), G, s) /\ s # NoSpan
    BY <1>3, <1>5 DEF DropsFrom
  <2>3. Owned(heap, live, th)
    BY <1>1
  <2>4. PICK h : h = heap
    OBVIOUS
  <2>5. PICK E : E = th
    OBVIOUS
  <2>6. /\ Owned(h, live, E) /\ s = E[t].s /\ DropsFrom(Flying(E), G, s) /\ s # NoSpan
        /\ Yielded(h, a, s, G) /\ x.result = E[t].result /\ T = Put(E, t, x)
    BY <1>2, <1>6, <1>11, <2>1, <2>2, <2>3, <2>4, <2>5
  <2> QED
    BY <2>1, <2>6, TouchDown
<1>13. PICK k : k = Around(a.index + 1)
  OBVIOUS
<1>14. k \in 0 .. kMaxPages
  <2>1. PICK d : d = a.index + 1
    OBVIOUS
  <2>2. d \in Int
    BY <1>7, <2>1
  <2> QED
    BY <1>13, <2>1, <2>2, AroundRange
<1>15. PICK h : h = Indexed(a, k)
  OBVIOUS
<1>16. Clean(h, G) /\ Turned(a, h)
  BY <1>7, <1>14, <1>15, IndexGood
<1>17. Owned(h, live, T)
  <2>1. Clean(h, Flying(T)) /\ InUse(h.span) = InUse(a.span)
    BY <1>12, <1>16 DEF Turned
  <2> QED
    BY <1>12, <2>1, Same
<1>18. Classed(h, live, class)
  <2>1. Classed(a, live, class)
    BY <1>1, <1>7, ClassedKept
  <2>2. Keeps(a, h, live)
    BY <1>16, KeepsSame DEF Turned
  <2> QED
    BY <2>1, <2>2, ClassedKept
<1>19. SystemFits(sys', Land(h))
  <2>1. Land(h) \subseteq Land(heap) /\ sys' = sys
    BY <1>7, <1>16 DEF Turned, Land, Relock
  <2> QED
    BY <1>1, <2>1, FitsLess
<1>20. PICK m : m = heap.span[s].n
  OBVIOUS
<1>21. m \in Int
  <2>1. s \in Ids
    BY <1>1, <1>3 DEF InUse
  <2>2. heap.span[s].n \in Nat
    BY <1>1, <2>1, DescriptorFields
  <2> QED
    BY <1>20, <2>2
<1>22. PICK r : r = Counting(th[t], m)
  OBVIOUS
<1>23. r \in ThreadStates /\ r.result = x.result
  BY <1>9, <1>10, <1>21, <1>22, CountingFields
<1>24. PICK e : e = ReleaseNext(h, r)
  OBVIOUS
<1>25. Finish(t, e) /\ class' = class
  BY <1>2, <1>4, <1>13, <1>15, <1>20, <1>22, <1>24 DEF Relock, Indexed, Counting
<1>26. Keeps(heap, h, live)
  <2>1. Keeps(a, h, live)
    BY <1>16, KeepsSame DEF Turned
  <2> QED
    BY <1>7, <2>1, KeepsBoth
<1> QED
  BY <1>1, <1>10, <1>11, <1>17, <1>18, <1>19, <1>23, <1>24, <1>25, <1>26, ReleaseStep

\* NewAligned().
LEMMA NewAlignedGood ==
    ASSUME IInv, NEW t, t \in Threads, NEW n, NEW align, n \in Nat, n >= 1, align \in Nat, align >= 1,
           NewAligned(t, n, align)
    PROVE  IInv' /\ Kept
<1>1. /\ Owned(heap, live, th) /\ Classed(heap, live, class) /\ limit \in Limits \cup {NoLimit}
      /\ th \in ThreadTables /\ live \subseteq InUse(heap.span)
      /\ Flying(th) \subseteq InUse(heap.span)
  BY OwnedFacts DEF IInv
<1>2. PICK m : m = n + align - 1
  OBVIOUS
<1>3. m \in Nat /\ m >= 1
  BY <1>2
<1>4. PICK x : x = align - 1
  OBVIOUS
<1>5. x \in Nat /\ m = n + x
  BY <1>2, <1>4
<1>6. PICK o \in AllocateSpan(m) :
        /\ sys' = o.sys
        /\ heap' = IF o.s = NoSpan THEN o.heap
                   ELSE CutTo(o.heap, o.s, RoundUp(FirstPage(o.heap, o.s), align), n, x,
                              IF o.heap.system # heap.system THEN "RETURNED" ELSE heap.span[o.s].loc)
        /\ Hand(o.s)
  BY <1>2, <1>4 DEF NewAligned
<1>7. class' = class /\ th[t] = Idle /\ th' = th /\ limit' = limit
  BY DEF NewAligned
<1>8. Spanned(heap, o, m, Flying(th), BOOLEAN, FALSE)
  BY <1>3, <1>6, AllocateFits
<1>9. SystemFits(sys', Land(o.heap))
  BY <1>6, <1>8 DEF Spanned, SystemFits
<1>10. CASE o.s = NoSpan
  <2>1. heap' = heap /\ live' = live /\ o.heap = heap
    BY <1>6, <1>8, <1>10 DEF Hand, Spanned
  <2> QED
    BY <1>1, <1>7, <1>9, <2>1 DEF IInv, Kept
<1>11. CASE o.s # NoSpan
  <2>1. PICK s : s = o.s
    OBVIOUS
  <2>2. PICK h : h = o.heap
    OBVIOUS
  <2>3. PICK F : F = Flying(th)
    OBVIOUS
  <2>4. /\ Clean(h, F) /\ s \in Ids /\ s \notin InUse(heap.span) /\ h.span[s].n = m
        /\ InUse(h.span) = InUse(heap.span) \cup {s} /\ Keeps(heap, h, InUse(heap.span))
        /\ h.system = heap.system => heap.span[s].loc \in FreeLocs
    BY <1>8, <1>11, <2>1, <2>2, <2>3 DEF Spanned
  <2>5. PICK q : q = h.span[s].first
    OBVIOUS
  <2>6. PICK p : p = RoundUp(q, align)
    OBVIOUS
  <2>7. PICK l : l = IF h.system # heap.system THEN "RETURNED" ELSE heap.span[s].loc
    OBVIOUS
  <2>8. PICK g : g = CutTo(h, s, p, n, x, l)
    OBVIOUS
  <2>9. heap' = g /\ live' = live \cup {s}
    BY <1>6, <1>11, <2>1, <2>2, <2>5, <2>6, <2>7, <2>8 DEF Hand, FirstPage
  <2>10. l \in FreeLocs
    BY <2>4, <2>7 DEF FreeLocs
  <2>11. p \in Nat /\ q <= p /\ p <= q + x
    <3>1. q \in Nat
      <4>1. h \in Heaps
        BY <2>4, CleanParts
      <4> QED
        BY <2>4, <2>5, <4>1, DescriptorFields
    <3>2. align \in Nat \ {0}
      OBVIOUS
    <3>3. p \in Nat /\ q <= p /\ p < q + align
      BY <2>6, <3>1, <3>2, RoundUpBounds
    <3> QED
      BY <1>4, <3>1, <3>3
  <2>12. CutDown(h, g, s, F)
    <3>1. s \in InUse(h.span) /\ s \notin F
      BY <1>1, <2>3, <2>4
    <3>2. h.span[s].n = n + x
      BY <1>5, <2>4
    <3>3. Clean(h, F)
      BY <2>4
    <3> QED
      BY <1>5, <2>5, <2>8, <2>10, <2>11, <3>1, <3>2, <3>3, CutToGood
  <2>13. /\ Clean(g, F) /\ InUse(g.span) = InUse(h.span) /\ Keeps(h, g, InUse(h.span) \ {s})
         /\ Land(g) \subseteq Land(h)
    BY <2>12 DEF CutDown, Trimmed, Clean
  <2>14. Keeps(heap, g, live)
    <3>1. PICK V : V = InUse(h.span) \ {s}
      OBVIOUS
    <3>2. Keeps(h, g, V) /\ live \subseteq V
      BY <1>1, <2>4, <2>13, <3>1
    <3>3. Keeps(heap, h, live)
      BY <1>1, <2>4, KeepsLess
    <3> QED
      BY <3>2, <3>3, KeepsBoth
  <2>15. Classed(g, live, class)
    BY <1>1, <2>14, ClassedKept
  <2>16. Owned(g, live', th) /\ Classed(g, live', class)
    <3>1. /\ Clean(g, Flying(th)) /\ s \notin InUse(heap.span) /\ s \in Ids
          /\ InUse(g.span) = InUse(heap.span) \cup {s}
      BY <2>3, <2>4, <2>13
    <3>2. Owned(heap, live, th) /\ th[t] = Idle /\ live' = live \cup {s}
      BY <1>1, <1>7, <2>9
    <3> QED
      BY <2>15, <3>1, <3>2, HandGood
  <2>17. SystemFits(sys', Land(g))
    BY <1>9, <2>2, <2>13, FitsLess
  <2>18. Kept
    BY <2>9, <2>14, KeptFrom
  <2> QED
    BY <1>1, <1>7, <2>9, <2>16, <2>17, <2>18 DEF IInv
<1> QED
  BY <1>10, <1>11

\* Delete().
LEMMA DeleteStep ==
    ASSUME IInv, NEW s, s \in live, Delete(s)
    PROVE  IInv' /\ Kept
<1>1. /\ Owned(heap, live, th) /\ Classed(heap, live, class) /\ limit \in Limits \cup {NoLimit}
      /\ SystemFits(sys, Land(heap)) /\ Clean(heap, Flying(th))
      /\ Shared(InUse(heap.span), live, th) /\ live \subseteq InUse(heap.span)
  BY OwnedFacts DEF IInv
<1>2. PICK g : g = heap'
  OBVIOUS
<1>3. PICK M : M = live \ {s}
  OBVIOUS
<1>4. /\ g = MergeIntoFreeList([heap EXCEPT !.span[s].loc = "NORMAL"], s) /\ live' = M
      /\ class[heap.span[s].first] = 0
      /\ sys' = sys /\ class' = class /\ limit' = limit /\ th' = th
  BY <1>2, <1>3 DEF Delete, FirstPage
<1>5. s \in InUse(heap.span) /\ s \notin Flying(th)
  BY <1>1 DEF Shared
<1>6. Yielded(heap, g, s, Flying(th))
  BY <1>1, <1>4, <1>5, DeleteGood
<1>7. Owned(g, M, th)
  BY <1>1, <1>3, <1>6, GiveBack
<1>8. Classed(heap, M, class)
  BY <1>1, <1>3, <1>4, ClassedLess
<1>9. Keeps(heap, g, M) /\ Land(g) \subseteq Land(heap)
  <2>1. PICK V : V = InUse(heap.span) \ {s}
    OBVIOUS
  <2>2. Keeps(heap, g, V) /\ M \subseteq V /\ Land(g) \subseteq Land(heap)
    BY <1>1, <1>3, <1>6, <2>1 DEF Yielded
  <2> QED
    BY <2>2, KeepsLess
<1>10. Classed(g, M, class)
  BY <1>8, <1>9, ClassedKept
<1>11. SystemFits(sys, Land(g))
  BY <1>1, <1>9, FitsLess
<1>12. Kept
  BY <1>2, <1>3, <1>4, <1>9 DEF Keeps, Kept
<1> QED
  BY <1>1, <1>2, <1>4, <1>7, <1>10, <1>11, <1>12 DEF IInv

\* RegisterSizeClass().
LEMMA RegisterStep ==
    ASSUME IInv, NEW s, s \in live, RegisterSizeClass(s)
    PROVE  IInv' /\ Kept
<1>1. /\ Owned(heap, live, th) /\ Classed(heap, live, class) /\ limit \in Limits \cup {NoLimit}
      /\ SystemFits(sys, Land(heap)) /\ Clean(heap, Flying(th)) /\ live \subseteq InUse(heap.span)
  BY OwnedFacts DEF IInv
<1>2. PICK g : g = heap'
  OBVIOUS
<1>3. PICK R : R = RunOf(heap.span, s)
  OBVIOUS
<1>4. PICK d : d = [p \in Pages |-> IF p \in R THEN 1 ELSE class[p]]
  OBVIOUS
<1>5. /\ g = Register(heap, s) /\ class[heap.span[s].first] = 0 /\ class' = d
      /\ sys' = sys /\ live' = live /\ limit' = limit /\ th' = th
  BY <1>2, <1>3, <1>4 DEF RegisterSizeClass, FirstPage, SpanPages, RunOf
<1>6. s \in InUse(heap.span)
  BY <1>1
<1>7. /\ Clean(g, Flying(th)) /\ g.span = heap.span /\ \A p \in R : Leads(g.map, p) = s
      /\ Keeps(heap, g, InUse(heap.span) \ {s})
  BY <1>1, <1>3, <1>5, <1>6, RegisterGood
<1>8. Owned(g, live, th)
  BY <1>1, <1>7, Same
<1>9. /\ heap.span[s].first \in Pages /\ heap.span[s].first \in R /\ R \subseteq Pages
      /\ \A r \in live : r # s => RunOf(heap.span, r) \cap R = {}
  BY <1>1, <1>3, <1>6, SpanWithin
<1>10. \A r \in live : heap.span[r].first \in Pages /\ heap.span[r].first \in RunOf(heap.span, r)
  BY <1>1, SpanWithin
<1>11. Registered(g, live, d) = Registered(heap, live, class) \cup {s}
  <2> SUFFICES ASSUME NEW r \in live
               PROVE  d[heap.span[r].first] # 0 <=> class[heap.span[r].first] # 0 \/ r = s
    BY <1>7 DEF Registered
  <2>1. CASE r = s
    BY <1>4, <1>9, <2>1
  <2>2. CASE r # s
    <3>1. heap.span[r].first \notin R
      BY <1>9, <1>10, <2>2
    <3> QED
      BY <1>4, <1>10, <2>2, <3>1
  <2> QED
    BY <2>1, <2>2
<1>12. Classed(g, live, d)
  <2>1. d \in Classes
    BY <1>1, <1>4 DEF Classed, Classes
  <2>2. \A p \in Pages : d[p] # 0 <=> \E r \in Registered(g, live, d) : p \in RunOf(g.span, r)
    <3> SUFFICES ASSUME NEW p \in Pages
                 PROVE  d[p] # 0 <=> \E r \in Registered(heap, live, class) \cup {s} : p \in RunOf(heap.span, r)
      BY <1>7, <1>11
    <3>1. d[p] # 0 <=> p \in R \/ class[p] # 0
      BY <1>4
    <3>2. class[p] # 0 <=> \E r \in Registered(heap, live, class) : p \in RunOf(heap.span, r)
      BY <1>1 DEF Classed
    <3> QED
      BY <1>3, <3>1, <3>2
  <2>3. \A r \in Registered(g, live, d) : \A p \in RunOf(g.span, r) : Leads(g.map, p) = r
    <3> SUFFICES ASSUME NEW r \in Registered(heap, live, class) \cup {s}, NEW p \in RunOf(heap.span, r)
                 PROVE  Leads(g.map, p) = r
      BY <1>7, <1>11
    <3>1. CASE r = s
      BY <1>3, <1>7, <3>1
    <3>2. CASE r # s
      <4>1. r \in Registered(heap, live, class) /\ r \in InUse(heap.span) \ {s}
        BY <1>1, <3>2 DEF Registered
      <4>2. Leads(g.map, p) = Leads(heap.map, p)
        BY <1>7, <4>1 DEF Keeps
      <4>3. Leads(heap.map, p) = r
        BY <1>1, <4>1 DEF Classed
      <4> QED
        BY <4>2, <4>3
    <3> QED
      BY <3>1, <3>2
  <2> QED
    BY <2>1, <2>2, <2>3 DEF Classed
<1>13. SystemFits(sys, Land(g))
  BY <1>1, <1>7 DEF Land
<1> QED
  BY <1>1, <1>2, <1>5, <1>7, <1>8, <1>12, <1>13 DEF IInv, Kept

\* UnregisterSizeClass().
LEMMA UnregisterStep ==
    ASSUME IInv, NEW s, s \in live, UnregisterSizeClass(s)
    PROVE  IInv' /\ Kept
<1>1. /\ Owned(heap, live, th) /\ Classed(heap, live, class) /\ limit \in Limits \cup {NoLimit}
      /\ SystemFits(sys, Land(heap)) /\ Clean(heap, Flying(th)) /\ live \subseteq InUse(heap.span)
  BY OwnedFacts DEF IInv
<1>2. PICK R : R = RunOf(heap.span, s)
  OBVIOUS
<1>3. PICK d : d = [p \in Pages |-> IF p \in R THEN 0 ELSE class[p]]
  OBVIOUS
<1>4. /\ class' = d /\ heap' = heap /\ sys' = sys /\ live' = live /\ limit' = limit /\ th' = th
  BY <1>2, <1>3 DEF UnregisterSizeClass, UnregisterPages, SpanPages, RunOf
<1>5. /\ heap.span[s].first \in Pages /\ heap.span[s].first \in R
      /\ \A r \in live : r # s => RunOf(heap.span, r) \cap R = {}
  BY <1>1, <1>2, SpanWithin
<1>6. \A r \in live : heap.span[r].first \in Pages /\ heap.span[r].first \in RunOf(heap.span, r)
  BY <1>1, SpanWithin
<1>7. Registered(heap, live, d) = Registered(heap, live, class) \ {s}
  <2> SUFFICES ASSUME NEW r \in live
               PROVE  d[heap.span[r].first] # 0 <=> class[heap.span[r].first] # 0 /\ r # s
    BY DEF Registered
  <2>1. CASE r = s
    BY <1>3, <1>5, <2>1
  <2>2. CASE r # s
    <3>1. heap.span[r].first \notin R
      BY <1>5, <1>6, <2>2
    <3> QED
      BY <1>3, <1>6, <2>2, <3>1
  <2> QED
    BY <2>1, <2>2
<1>8. Classed(heap, live, d)
  <2>1. d \in Classes
    BY <1>1, <1>3 DEF Classed, Classes
  <2>2. \A p \in Pages : d[p] # 0 <=> \E r \in Registered(heap, live, d) : p \in RunOf(heap.span, r)
    <3> SUFFICES ASSUME NEW p \in Pages
                 PROVE  d[p] # 0 <=> \E r \in Registered(heap, live, class) \ {s} : p \in RunOf(heap.span, r)
      BY <1>7
    <3>1. d[p] # 0 <=> p \notin R /\ class[p] # 0
      BY <1>3
    <3>2. class[p] # 0 <=> \E r \in Registered(heap, live, class) : p \in RunOf(heap.span, r)
      BY <1>1 DEF Classed
    <3>3. \A r \in Registered(heap, live, class) \ {s} : p \in RunOf(heap.span, r) => p \notin R
      BY <1>5 DEF Registered
    <3> QED
      BY <1>2, <3>1, <3>2, <3>3
  <2>3. \A r \in Registered(heap, live, d) : \A p \in RunOf(heap.span, r) : Leads(heap.map, p) = r
    BY <1>1, <1>7 DEF Classed
  <2> QED
    BY <2>1, <2>2, <2>3 DEF Classed
<1> QED
  BY <1>1, <1>4, <1>8 DEF IInv, Kept

\* The heap of a process that starts has no page and no span.
LEMMA InitClean == Clean(InitHeap, {})
<1>0. kMaxPages \in Nat /\ AddressPages \in Nat
  BY PageHeapAssumption, SystemAssumption
<1>1. PICK sp : sp = [i \in Ids |-> Unused]
  OBVIOUS
<1>2. PICK mp : mp = [p \in {} |-> NoSpan]
  OBVIOUS
<1>3. PICK ls : ls = [k \in 0 .. kMaxPages |-> EmptyPair]
  OBVIOUS
<1>4. PICK h : h = InitHeap
  OBVIOUS
<1>5. h = [span |-> sp, map |-> mp, lists |-> ls, free |-> 0, unmapped |-> 0, system |-> 0,
           index |-> kMaxPages]
  BY <1>1, <1>2, <1>3, <1>4 DEF InitHeap
<1>6. sp \in SpanTables /\ \A s \in Ids : sp[s] = Unused /\ sp[s].loc = "DELETED"
  BY <1>1 DEF SpanTables, Descriptors, Locations, Unused
<1>7. mp \in PageMaps /\ DOMAIN mp = {}
  <2>1. mp \in [{} -> SpanIds] /\ {} \in SUBSET Pages /\ DOMAIN mp = {}
    BY <1>2
  <2> QED
    BY <2>1 DEF PageMaps
<1>8. ls \in ListTables /\ \A k \in 0 .. kMaxPages : ls[k].normal = <<>> /\ ls[k].returned = <<>>
  <2>1. EmptyPair \in ListPairs /\ EmptyPair.normal = <<>> /\ EmptyPair.returned = <<>>
    BY DEF EmptyPair, ListPairs
  <2> QED
    BY <1>3, <2>1 DEF ListTables
<1>9. h \in Heaps
  BY <1>0, <1>5, <1>6, <1>7, <1>8 DEF Heaps
<1>10. /\ h.span = sp /\ h.map = mp /\ h.lists = ls /\ h.free = 0 /\ h.unmapped = 0
       /\ h.system = 0
  BY <1>5
<1>11. Used(sp) = {} /\ InUse(sp) = {}
  BY <1>6 DEF Used, InUse
<1>12. Geometry(sp, mp, {})
  BY <1>6, <1>7, <1>11 DEF Geometry, Placed, Apart, Mapped
<1>13. \A l : l \in FreeLocs => Free(sp, {}, l) = {}
  BY <1>6 DEF Free, FreeLocs
<1>14. Cover(sp, {}) = {} /\ Weight(sp, {}) = 0
  <2>1. Cover(sp, {}) = {}
    BY DEF Cover
  <2> QED
    BY <2>1, FS_EmptySet DEF Weight
<1>15. Free(sp, {}, "NORMAL") = {} /\ Free(sp, {}, "RETURNED") = {}
  BY <1>13 DEF FreeLocs
<1>16. Counted(h, {}, {})
  <2>1. Free(sp, {}, "NORMAL") \cup {} = {}
    BY <1>15
  <2> QED
    BY <1>10, <1>14, <1>15, <2>1 DEF Counted
<1>17. Listed(sp, ls, {})
  <2>1. Exactly(<<>>, {})
    BY DEF Exactly, IsInjective, Range
  <2> SUFFICES ASSUME NEW k \in 0 .. kMaxPages
               PROVE  /\ Exactly(ls[k].normal, {s \in Free(sp, {}, "NORMAL") : ListOf(sp[s].n) = k})
                      /\ Exactly(ls[k].returned, {s \in Free(sp, {}, "RETURNED") : ListOf(sp[s].n) = k})
    BY DEF Listed
  <2>2. /\ {s \in Free(sp, {}, "NORMAL") : ListOf(sp[s].n) = k} = {}
        /\ {s \in Free(sp, {}, "RETURNED") : ListOf(sp[s].n) = k} = {}
    BY <1>15
  <2> QED
    BY <1>8, <2>1, <2>2
<1>18. Books(h, {}, {})
  BY <1>10, <1>16, <1>17 DEF Books
<1>19. Merged(sp, {})
  BY <1>11 DEF Merged
<1>20. h.system = Cardinality(Cover(sp, Used(sp)) \cup {})
  <2>1. Cover(sp, Used(sp)) \cup {} = {}
    BY <1>11, <1>14
  <2> QED
    BY <1>10, <2>1, FS_EmptySet
<1>21. Good(h, {}, {}, {})
  BY <1>9, <1>10, <1>12, <1>18, <1>19, <1>20 DEF Good
<1> QED
  BY <1>4, <1>21 DEF Clean

\* A process that starts has no page, ...
LEMMA InitLand == Land(InitHeap) = {} /\ InUse(InitHeap.span) = {}
<1>1. \A s \in Ids : InitHeap.span[s].loc = "DELETED"
  BY DEF InitHeap, Unused
<1> QED
  BY <1>1 DEF Land, Cover, Used, InUse

\* ... so the invariant holds, ...
LEMMA InitIInv == Init => IInv
<1> SUFFICES ASSUME Init
             PROVE  IInv
  OBVIOUS
<1>1. /\ heap = InitHeap /\ sys = InitSystem /\ live = {} /\ class = [p \in Pages |-> 0]
      /\ limit = NoLimit /\ th = [t \in Threads |-> Idle]
  BY DEF Init
<1>2. Idle \in ThreadStates /\ Idle.s = NoSpan /\ Idle.result = NoSpan /\ Idle.at = "idle"
  BY DEF Idle, ThreadStates, SpanIds
<1>3. th \in ThreadTables /\ \A t \in Threads : th[t] = Idle
  BY <1>1, <1>2 DEF ThreadTables
<1>4. Flying(th) = {} /\ Waiting(th) = {}
  BY <1>2, <1>3 DEF Flying, Waiting
<1>5. Once(th) /\ Busy(th)
  BY <1>2, <1>3 DEF Once, Busy
<1>6. Clean(heap, Flying(th))
  BY <1>1, <1>4, InitClean
<1>7. Shared(InUse(heap.span), live, th)
  BY <1>1, <1>4, InitLand DEF Shared
<1>8. Owned(heap, live, th)
  BY <1>3, <1>5, <1>6, <1>7 DEF Owned
<1>9. Classed(heap, live, class)
  BY <1>1 DEF Classed, Classes, Registered
<1>10. SystemFits(sys, Land(heap))
  <2>1. NoRegion \in Regions /\ RegionPages(NoRegion) = {}
    BY DEF NoRegion, Regions, RegionPages, Run
  <2>2. {} \in PageSets
    BY DEF PageSets
  <2>3. PICK D : D = BOOLEAN
    OBVIOUS
  <2>4. PICK tag : tag = FALSE
    OBVIOUS
  <2>5. tag \in D
    BY <2>3, <2>4
  <2>6. sys = [region |-> [b \in D |-> NoRegion], next |-> [b \in D |-> 0], mapped |-> {}]
    BY <1>1, <2>3 DEF InitSystem
  <2>7. sys \in Systems(D) /\ sys.region[tag] = NoRegion /\ sys.mapped = {}
    BY <2>1, <2>2, <2>5, <2>6 DEF Systems
  <2>8. SysGood(sys, D, tag, {})
    BY <2>1, <2>5, <2>7 DEF SysGood
  <2> QED
    BY <1>1, <2>3, <2>4, <2>8, InitLand DEF SystemFits
<1> QED
  BY <1>1, <1>8, <1>9, <1>10 DEF IInv

\* ... and every operation preserves it and leaves the users' spans as they are.
LEMMA NextIInv == IInv /\ [Next]_vars => IInv' /\ Kept
<1> SUFFICES ASSUME IInv, [Next]_vars
             PROVE  IInv' /\ Kept
  OBVIOUS
<1>1. ASSUME NEW t \in Threads, NEW n \in Requests, New(t, n)
      PROVE  IInv' /\ Kept
  BY <1>1, NewStep
<1>2. ASSUME NEW t \in Threads, NEW a \in AlignedRequests, NewAligned(t, a[1], a[2])
      PROVE  IInv' /\ Kept
  <2>1. PICK n : n = a[1]
    OBVIOUS
  <2>2. PICK align : align = a[2]
    OBVIOUS
  <2>3. n \in Nat /\ n >= 1 /\ align \in Nat /\ align >= 1
    BY <1>2, <2>1, <2>2, PageHeapAssumption
  <2>4. NewAligned(t, n, align)
    BY <1>2, <2>1, <2>2
  <2> QED
    BY <2>3, <2>4, NewAlignedGood
<1>3. ASSUME NEW t \in Threads, NEW n \in ReleaseSizes, Release(t, n)
      PROVE  IInv' /\ Kept
  BY <1>3, ReleaseGood
<1>4. ASSUME NEW t \in Threads, Relock(t)
      PROVE  IInv' /\ Kept
  BY <1>4, RelockGood
<1>5. ASSUME NEW s \in live, Delete(s)
      PROVE  IInv' /\ Kept
  BY <1>5, DeleteStep
<1>6. ASSUME NEW s \in live, RegisterSizeClass(s)
      PROVE  IInv' /\ Kept
  BY <1>6, RegisterStep
<1>7. ASSUME NEW s \in live, UnregisterSizeClass(s)
      PROVE  IInv' /\ Kept
  BY <1>7, UnregisterStep
<1>8. ASSUME NEW l \in Limits, set_limit(l)
      PROVE  IInv' /\ Kept
  BY <1>8 DEF set_limit, IInv, Kept
<1>9. ASSUME UNCHANGED vars
      PROVE  IInv' /\ Kept
  BY <1>9 DEF vars, IInv, Kept
<1> QED
  BY <1>1, <1>2, <1>3, <1>4, <1>5, <1>6, <1>7, <1>8, <1>9 DEF Next

\* The inductive invariant holds in every state, for every number of threads, pages,
\* lists and leaves: between two operations that hold pageheap_lock the heap is good
\* (descriptors, page map, lists and counts agree), every span in use has one owner, the
\* size classes are the registered spans', and the system allocator has no page of the
\* heap left to give.
THEOREM HeapInvariant == Spec => []IInv
BY InitIInv, NextIInv, PTL DEF Spec

(***************************************************************************)
(* What the runs check, from the invariant.                                *)
(***************************************************************************)

\* The invariant in the words of the component's properties.
LEMMA InvariantParts ==
    ASSUME IInv
    PROVE  /\ heap \in Heaps /\ Clean(heap, Flying(th)) /\ th \in ThreadTables
           /\ Placed(heap.span) /\ Apart(heap.span)
           /\ Spans = Used(heap.span) /\ Of("IN_USE") = InUse(heap.span)
           /\ Of("NORMAL") = Free(heap.span, {}, "NORMAL")
           /\ Of("RETURNED") = Free(heap.span, {}, "RETURNED")
           /\ InFlight = Flying(th) /\ Pending = Waiting(th)
           /\ \A S : PagesOf(S) = Cover(heap.span, S)
<1>1. Owned(heap, live, th)
  BY DEF IInv
<1>2. th \in ThreadTables /\ Clean(heap, Flying(th)) /\ heap \in Heaps
  BY <1>1, OwnedFacts
<1>3. Placed(heap.span) /\ Apart(heap.span)
  BY <1>2, CleanParts
<1>4. \A s \in Ids : heap.span[s] = Unused <=> heap.span[s].loc = "DELETED"
  BY <1>3 DEF Placed, Unused
<1>5. Spans = Used(heap.span)
  BY <1>4 DEF Spans, Used
<1>6. /\ Of("IN_USE") = InUse(heap.span)
      /\ Of("NORMAL") = Free(heap.span, {}, "NORMAL")
      /\ Of("RETURNED") = Free(heap.span, {}, "RETURNED")
  BY <1>5 DEF Of, Used, InUse, Free
<1>7. InFlight = Flying(th) /\ Pending = Waiting(th)
  BY DEF InFlight, Pending, Flying, Waiting
<1>8. \A S : PagesOf(S) = Cover(heap.span, S)
  BY DEF PagesOf, Cover, SpanPages, RunOf
<1> QED
  BY <1>2, <1>3, <1>5, <1>6, <1>7, <1>8

\* The owners of the spans in use.
LEMMA InvariantInUse == IInv => InUseOnce
<1> SUFFICES ASSUME IInv
             PROVE  InUseOnce
  OBVIOUS
<1>1. Of("IN_USE") = InUse(heap.span) /\ InFlight = Flying(th) /\ Pending = Waiting(th)
  BY InvariantParts
<1>2. Once(th) /\ Shared(InUse(heap.span), live, th)
  BY DEF IInv, Owned
<1>3. \A t, u \in Threads : t # u /\ th[t].s # NoSpan => th[t].s # th[u].s
  BY <1>2 DEF Once
<1>4. /\ Of("IN_USE") = live \cup Pending \cup InFlight
      /\ live \cap (Pending \cup InFlight) = {} /\ Pending \cap InFlight = {}
  BY <1>1, <1>2 DEF Shared
<1> QED
  BY <1>3, <1>4 DEF InUseOnce

\* The spans, the page map and the size classes.
LEMMA InvariantMap == IInv => PageMapSound
<1> SUFFICES ASSUME IInv
             PROVE  PageMapSound
  OBVIOUS
<1>1. /\ heap \in Heaps /\ Clean(heap, Flying(th)) /\ Placed(heap.span) /\ Apart(heap.span)
      /\ Spans = Used(heap.span) /\ \A S : PagesOf(S) = Cover(heap.span, S)
  BY InvariantParts
<1>2. Good(heap, {}, {}, Flying(th))
  BY <1>1 DEF Clean
<1>3. Cardinality(PagesOf(Spans)) = heap.system
  <2>1. heap.system = Cardinality(Cover(heap.span, Used(heap.span)) \cup {})
    BY <1>2 DEF Good
  <2>2. Cover(heap.span, Used(heap.span)) \cup {} = PagesOf(Spans)
    BY <1>1
  <2> QED
    BY <2>1, <2>2
<1>4. ASSUME NEW s \in Spans
      PROVE  /\ s \in Ids /\ heap.span[s].first \in Nat /\ heap.span[s].n \in Nat
             /\ SpanPages(heap, s) = RunOf(heap.span, s)
             /\ LastPage(heap, s) = End(heap.span, s) - 1
  <2>1. s \in Ids /\ heap.span \in SpanTables
    BY <1>1 DEF Used, Heaps
  <2>2. heap.span[s].first \in Nat /\ heap.span[s].n \in Nat
    BY <2>1 DEF SpanTables, Descriptors
  <2> QED
    BY <2>1, <2>2 DEF SpanPages, RunOf, LastPage, End
<1>5. \A s, r \in Spans : s # r => SpanPages(heap, s) \cap SpanPages(heap, r) = {}
  <2> SUFFICES ASSUME NEW s \in Spans, NEW r \in Spans, s # r
               PROVE  SpanPages(heap, s) \cap SpanPages(heap, r) = {}
    OBVIOUS
  <2>1. End(heap.span, s) <= heap.span[r].first \/ End(heap.span, r) <= heap.span[s].first
    BY <1>1 DEF Apart, Clear
  <2>2. /\ heap.span[s].first \in Nat /\ heap.span[s].n \in Nat
        /\ heap.span[r].first \in Nat /\ heap.span[r].n \in Nat
    BY <1>4
  <2>3. heap.span[s].first + heap.span[s].n <= heap.span[r].first
        \/ heap.span[r].first + heap.span[r].n <= heap.span[s].first
    BY <2>1 DEF End
  <2> QED
    BY <2>2, <2>3 DEF SpanPages, Run
<1>6. \A s \in Spans : /\ GetDescriptor(heap, FirstPage(heap, s)) = s
                       /\ GetDescriptor(heap, LastPage(heap, s)) = s
  <2> SUFFICES ASSUME NEW s \in Spans
               PROVE  /\ GetDescriptor(heap, FirstPage(heap, s)) = s
                      /\ GetDescriptor(heap, LastPage(heap, s)) = s
    OBVIOUS
  <2>1. Mapped(heap.span, heap.map, {})
    BY <1>2 DEF Good, Geometry
  <2>2. /\ RunOf(heap.span, s) \subseteq DOMAIN heap.map
        /\ heap.map[heap.span[s].first] = s /\ heap.map[End(heap.span, s) - 1] = s
    BY <1>1, <2>1 DEF Mapped
  <2>3. heap.span[s].n >= 1
    BY <1>1, <1>4 DEF Placed, Used
  <2>4. heap.span[s].first \in RunOf(heap.span, s) /\ End(heap.span, s) - 1 \in RunOf(heap.span, s)
    BY <1>4, <2>3 DEF RunOf, Run, End
  <2> QED
    BY <1>4, <2>2, <2>4 DEF GetDescriptor, FirstPage
<1>7. SpansTile
  BY <1>3, <1>5, <1>6 DEF SpansTile
<1>8. ClassesCurrent
  <2>1. Classed(heap, live, class) /\ live \subseteq InUse(heap.span)
    BY OwnedFacts DEF IInv
  <2>2. PICK R : R = Registered(heap, live, class)
    OBVIOUS
  <2>3. R = {s \in live : class[FirstPage(heap, s)] # 0} /\ R \subseteq InUse(heap.span)
    BY <2>1, <2>2 DEF Registered, FirstPage
  <2>4. \A s \in R : RunOf(heap.span, s) \subseteq Pages
    BY <1>1, <2>3, SpanWithin
  <2>5. \A p \in Pages : class[p] # 0 <=> \E s \in R : p \in RunOf(heap.span, s)
    BY <2>1, <2>2 DEF Classed
  <2>6. {p \in Pages : class[p] # 0} = Cover(heap.span, R)
    BY <2>4, <2>5 DEF Cover
  <2>7. \A s \in R : \A p \in RunOf(heap.span, s) : Leads(heap.map, p) = s
    BY <2>1, <2>2 DEF Classed
  <2>8. \A s \in live : class[FirstPage(heap, s)] # 0 =>
           \A p \in SpanPages(heap, s) : GetDescriptor(heap, p) = s
    BY <2>3, <2>7 DEF SpanPages, RunOf, GetDescriptor, Leads
  <2>9. {p \in Pages : class[p] # 0} = PagesOf(R)
    BY <1>1, <2>6
  <2> QED
    BY <2>3, <2>8, <2>9 DEF ClassesCurrent
<1> QED
  BY <1>7, <1>8 DEF PageMapSound

\* The lists and the counts.
LEMMA InvariantLists == IInv => FreeListsExact
<1> SUFFICES ASSUME IInv
             PROVE  FreeListsExact
  OBVIOUS
<1>1. /\ heap \in Heaps /\ Clean(heap, Flying(th)) /\ Spans = Used(heap.span)
      /\ Of("NORMAL") = Free(heap.span, {}, "NORMAL")
      /\ Of("RETURNED") = Free(heap.span, {}, "RETURNED")
      /\ InFlight = Flying(th) /\ \A S : PagesOf(S) = Cover(heap.span, S)
  BY InvariantParts
<1>2. Good(heap, {}, {}, Flying(th))
  BY <1>1 DEF Clean
<1>3. Listed(heap.span, heap.lists, {}) /\ Counted(heap, {}, Flying(th)) /\ Merged(heap.span, {})
  BY <1>2 DEF Good, Books
<1>4. \A n \in 0 .. kMaxPages :
        /\ IsInjective(heap.lists[n].normal) /\ IsInjective(heap.lists[n].returned)
        /\ Range(heap.lists[n].normal) = {s \in Of("NORMAL") : ListOf(heap.span[s].n) = n}
        /\ Range(heap.lists[n].returned) = {s \in Of("RETURNED") : ListOf(heap.span[s].n) = n}
  BY <1>1, <1>3 DEF Listed, Exactly
<1>5. /\ heap.free = Cardinality(PagesOf(Of("NORMAL") \cup InFlight))
      /\ heap.unmapped = Cardinality(PagesOf(Of("RETURNED")))
  BY <1>1, <1>3, Zenon DEF Counted, Weight
<1>6. Coalesced
  <2> SUFFICES ASSUME NEW s \in Of("NORMAL") \cup Of("RETURNED"),
                      NEW r \in Of("NORMAL") \cup Of("RETURNED"),
                      LastPage(heap, s) + 1 = FirstPage(heap, r)
               PROVE  heap.span[s].loc # heap.span[r].loc
    BY DEF Coalesced
  <2>1. s \in Ids /\ r \in Ids /\ s \in Used(heap.span) /\ r \in Used(heap.span)
        /\ heap.span[s].loc \in FreeLocs
    BY <1>1 DEF Free, Used, FreeLocs
  <2>2. heap.span[s].first \in Nat /\ heap.span[s].n \in Nat
    BY <1>1, <2>1 DEF Heaps, SpanTables, Descriptors
  <2>3. End(heap.span, s) = heap.span[r].first
    BY <2>2 DEF LastPage, FirstPage, End
  <2> QED
    BY <1>3, <2>1, <2>3 DEF Merged
<1> QED
  BY <1>4, <1>5, <1>6 DEF FreeListsExact, ListsExact

\* InUseOnce: every span in use is one user's, or is what one New() is about to return,
\* or is under release by one thread, although ReleaseLastNormalSpan() drops the lock.
THEOREM SpansInUseOnce == Spec => []InUseOnce
BY HeapInvariant, InvariantInUse, PTL

\* PageMapSound: spans tile the memory of the heap and the page map leads from their
\* ends, and from every page of a registered span, to them, although RecordSpan() writes
\* only the ends and Span::Delete() clears nothing.
THEOREM PageMapIsSound == Spec => []PageMapSound
BY HeapInvariant, InvariantMap, PTL

\* FreeListsExact: the free lists hold the free spans, each once and by its length, the
\* counts are theirs with the spans under release, and no two free neighbours of a kind
\* are left, although Carve() skips coalescing.
THEOREM FreeListsAreExact == Spec => []FreeListsExact
BY HeapInvariant, InvariantLists, PTL

\* HeldSpansStay: MergeIntoFreeList(), Carve(), CutTo() and the release loops leave the
\* descriptor of every span a user holds as it is.
THEOREM SpansStay == Spec => HeldSpansStay
<1>1. IInv /\ [Next]_vars => [\A s \in live \cap live' : heap'.span[s] = heap.span[s]]_vars
  BY NextIInv DEF Kept
<1> QED
  BY <1>1, HeapInvariant, PTL DEF Spec, HeldSpansStay
=============================================================================
