-------------------------- MODULE AllocatorBlocks --------------------------
(***************************************************************************)
(* The blocks of the pinned allocator: with the program, in a free cache,  *)
(* or on the way to one.                                                   *)
(***************************************************************************)
EXTENDS AllocatorOwners

\* What a cache that is not empty holds, and what try_pop() takes off it.
LEMMA Popped ==
    ASSUME NEW q \in Seq(Blocks), q # <<>>
    PROVE  /\ Len(q) \in Nat /\ Len(q) >= 1
           /\ Last(q) = q[Len(q)] /\ Last(q) \in Blocks
           /\ Front(q) \in Seq(Blocks) /\ Len(Front(q)) = Len(q) - 1
           /\ \A n \in 1 .. Len(q) - 1 : Front(q)[n] = q[n]
<1>1. Len(q) \in Nat /\ Len(q) >= 1 /\ \A n \in 1 .. Len(q) : q[n] \in Blocks
  OBVIOUS
<1>2. Front(q) = SubSeq(q, 1, Len(q) - 1) /\ Last(q) = q[Len(q)]
  BY DEF Front, Last
<1> DEFINE m == Len(q) - 1
<1>3. m \in Int /\ m >= 0 /\ \A n \in 1 .. m : n \in 1 .. Len(q)
  BY <1>1
<1> HIDE DEF m
<1>4. /\ SubSeq(q, 1, m) \in Seq(Blocks) /\ Len(SubSeq(q, 1, m)) = m
      /\ \A n \in 1 .. m : SubSeq(q, 1, m)[n] = q[n]
  <2>1. \A n \in 1 .. m : q[n] \in Blocks
    BY <1>1, <1>3
  <2> QED
    BY <1>3, <2>1
<1> QED
  BY <1>1, <1>2, <1>4 DEF m

\* What try_push() adds to a cache.
LEMMA Pushed ==
    ASSUME NEW q \in Seq(Blocks), NEW b \in Blocks
    PROVE  /\ Append(q, b) \in Seq(Blocks) /\ Len(Append(q, b)) = Len(q) + 1
           /\ \A n \in 1 .. Len(q) : Append(q, b)[n] = q[n]
           /\ Append(q, b)[Len(q) + 1] = b
           /\ Len(q) \in Nat
  OBVIOUS

\* The blocks of a cache, by their index.
LEMMA InCache ==
    ASSUME NEW q \in Seq(Blocks)
    PROVE  \A b : b \in Range(q) <=> \E n \in 1 .. Len(q) : q[n] = b
<1>1. DOMAIN q = 1 .. Len(q)
  OBVIOUS
<1> QED
  BY <1>1 DEF Range

\* A block that is handed out is of a constructed slab, in its blocks.
LEMMA BlockShape ==
    ASSUME NEW b \in Blocks
    PROVE  b[1] \in Slabs /\ b[2] \in Vecs /\ b[3] \in Bits /\ b = <<b[1], b[2], b[3]>>
           /\ <<b[2], b[3]>> \in Positions
  BY DEF Blocks, Positions

\* A slab, a vector and a bit are a block.
LEMMA BlockOf ==
    ASSUME NEW s \in Slabs, NEW v \in Vecs, NEW i \in Bits
    PROVE  <<s, v, i>> \in Blocks
  BY DEF Blocks

\* The commit of _allocate() returns a block of t's size that is not handed out.
LEMMA FreshBlock ==
    ASSUME Inv, NEW t \in Threads, pc[t] = "alloc_commit"
    PROVE  /\ AllocResult(t) \in Blocks
           /\ AllocResult(t) \notin HandedOut
           /\ AllocResult(t)[1] = this[t]
<1> DEFINE v == LowestBit(vecs[t])
           i == LowestBit(slots[t])
<1>1. PinnedInv /\ Proved!IndInv
  BY DEF Inv
<1>2. SlabPc[t] = "alloc_commit" /\ SlabThis[t] = this[t]
  BY SlabViewOf DEF SlabLabels
<1>3. /\ vecs[t] # {} /\ slots[t] # {} /\ slots[t] = availSlots[this[t]][v]
  BY <1>1, <1>2 DEF Proved!IndInv, Proved!RegisterInv, Proved!LowestBit, LowestBit
<1>4. this[t] \in Slabs /\ this[t] \in Made /\ v \in Vecs /\ i \in Bits /\ i \in slots[t]
  BY <1>1, <1>3, Operands DEF PinnedInv, LocalsInv, SlabLabels
<1>5. AllocResult(t) = <<this[t], v, i>>
  BY DEF AllocResult
<1> HIDE DEF v, i
<1>6. this[t] \in Proved!Made /\ <<v, i>> \in Proved!Positions
  BY <1>4 DEF Made, NoClass, Proved!Made, Proved!NoClass, Proved!Positions, Proved!Vecs,
     Proved!Bits, Vecs, Bits
<1>7. Proved!InOnePlace(this[t], <<v, i>>)
  BY <1>1, <1>6 DEF Proved!IndInv, Proved!BlockConservation
<1>8. Proved!Available(this[t], <<v, i>>)
  BY <1>3, <1>4 DEF Proved!Available
<1>9. <<this[t], v, i>> \notin HandedOut
  BY <1>7, <1>8 DEF Proved!InOnePlace, Proved!Live
<1> QED
  BY <1>4, <1>5, <1>9, BlockOf

\* The caches are arrays of at most CacheSize blocks.
CacheOK ==
    /\ cache \in [Classes -> [CPUs -> Seq(Blocks)]]
    /\ \A k \in Classes, c \in CPUs : Len(cache[k][c]) <= CacheSize

\* The block b is handed out: with the program, in a cache, or about to be cached.
Somewhere(b) ==
    \/ live[b] > 0
    \/ \E k \in Classes, c \in CPUs, n \in 1 .. CacheSize : Cached(b, k, c, n)
    \/ \E t \in Threads : Pushing(t, b)

\* The same for the blocks of one array of caches.
LEMMA InCaches ==
    ASSUME NEW ca \in [Classes -> [CPUs -> Seq(Blocks)]], NEW k \in Classes, NEW c \in CPUs,
           Len(ca[k][c]) <= CacheSize
    PROVE  \A b : b \in Range(ca[k][c]) <=>
              \E n \in 1 .. CacheSize : n \in 1 .. Len(ca[k][c]) /\ ca[k][c][n] = b
<1> DEFINE q == ca[k][c]
<1>1. q \in Seq(Blocks) /\ Len(q) \in Nat /\ Len(q) <= CacheSize
  OBVIOUS
<1> HIDE DEF q
<1>2. \A b : b \in Range(q) <=> \E n \in 1 .. Len(q) : q[n] = b
  BY <1>1, InCache
<1>3. \A n : n \in 1 .. Len(q) => n \in 1 .. CacheSize
  BY <1>1, AllocatorAssumption
<1>4. \A b : b \in Range(q) <=> \E n \in 1 .. CacheSize : n \in 1 .. Len(q) /\ q[n] = b
  BY <1>2, <1>3
<1> QED
  BY <1>4 DEF q

\* The blocks of a cache by their index, before and after a step.
LEMMA CachedAt ==
    ASSUME CacheOK, NEW k \in Classes, NEW c \in CPUs, NEW b
    PROVE  /\ b \in Range(cache[k][c]) <=> \E n \in 1 .. CacheSize : Cached(b, k, c, n)
           /\ b \in Range(cache[k][c]) => b \in Blocks
<1>1. /\ cache \in [Classes -> [CPUs -> Seq(Blocks)]] /\ Len(cache[k][c]) <= CacheSize
      /\ cache[k][c] \in Seq(Blocks)
  BY DEF CacheOK
<1>2. \A x : x \in Range(cache[k][c]) <=>
         \E n \in 1 .. CacheSize : n \in 1 .. Len(cache[k][c]) /\ cache[k][c][n] = x
  BY ZenonT(60), <1>1, InCaches
<1>3. \A x : x \in Range(cache[k][c]) <=> \E n \in 1 .. Len(cache[k][c]) : cache[k][c][n] = x
  BY <1>1, InCache
<1> QED
  BY <1>1, <1>2, <1>3 DEF Cached

\* The same after a step.
LEMMA CachedAtNext ==
    ASSUME CacheOK', NEW k \in Classes, NEW c \in CPUs, NEW b
    PROVE  /\ b \in Range(cache'[k][c]) <=> \E n \in 1 .. CacheSize : Cached(b, k, c, n)'
           /\ b \in Range(cache'[k][c]) => b \in Blocks
<1>1. /\ cache' \in [Classes -> [CPUs -> Seq(Blocks)]] /\ Len(cache'[k][c]) <= CacheSize
      /\ cache'[k][c] \in Seq(Blocks)
  BY DEF CacheOK
<1>2. \A x : x \in Range(cache'[k][c]) <=>
         \E n \in 1 .. CacheSize : n \in 1 .. Len(cache'[k][c]) /\ cache'[k][c][n] = x
  BY ZenonT(60), <1>1, InCaches
<1>3. \A x : x \in Range(cache'[k][c]) <=> \E n \in 1 .. Len(cache'[k][c]) : cache'[k][c][n] = x
  BY <1>1, InCache
<1> QED
  BY <1>1, <1>2, <1>3 DEF Cached

\* The blocks that are handed out, before and after a step.
LEMMA HandedOf ==
    ASSUME CacheOK
    PROVE  \A b : b \in HandedOut <=> b \in Blocks /\ Somewhere(b)
<1>1. \A b : \A k \in Classes, c \in CPUs :
         b \in Range(cache[k][c]) <=> \E n \in 1 .. CacheSize : Cached(b, k, c, n)
  BY CachedAt
<1> QED
  BY <1>1 DEF HandedOut, Somewhere

\* The same after a step.
LEMMA HandedOfNext ==
    ASSUME CacheOK'
    PROVE  \A b : b \in HandedOut' <=> b \in Blocks /\ Somewhere(b)'
<1>1. \A b : \A k \in Classes, c \in CPUs :
         b \in Range(cache'[k][c]) <=> \E n \in 1 .. CacheSize : Cached(b, k, c, n)'
  BY CachedAtNext
<1> QED
  BY <1>1 DEF HandedOut, Somewhere

\* CacheClass by index, before and after a step.
LEMMA ClassOf ==
    ASSUME CacheOK, CacheClass, NEW k \in Classes, NEW c \in CPUs, NEW n \in 1 .. CacheSize,
           NEW b, Cached(b, k, c, n)
    PROVE  cls[b[1]] = k
  BY CachedAt DEF CacheClass

\* The same after a step.
LEMMA ClassOfNext ==
    ASSUME CacheOK',
           \A k \in Classes, c \in CPUs, n \in 1 .. CacheSize, b \in Blocks :
               Cached(b, k, c, n)' => cls'[b[1]] = k
    PROVE  CacheClass'
<1>1. ASSUME NEW k \in Classes, NEW c \in CPUs, NEW b, b \in Range(cache'[k][c])
      PROVE  cls'[b[1]] = k
  BY <1>1, CachedAtNext
<1> QED
  BY <1>1 DEF CacheClass

\* What is handed out after the next step of t: the block _allocate() returns is
\* added, the block a full cache passes on to the slab is not any more.
HandedAfter(t) ==
    IF pc[t] = "alloc_commit" /\ pc'[t] = "idle" THEN HandedOut \union {AllocResult(t)}
    ELSE IF pc[t] = "push" /\ pc'[t] = "free"
         THEN HandedOut \ {<<this[t], pos[t][1], pos[t][2]>>}
         ELSE HandedOut

BlocksAfter(t) ==
    /\ live' \in [Blocks -> Nat]
    /\ CacheOK'
    /\ HandedInv'
    /\ CacheClass'
    /\ HandedOut' = HandedAfter(t)

\* A cached block is of a constructed slab, which keeps its class.
LEMMA CachedClass ==
    ASSUME Inv, NEW t \in Threads, Step(t), NEW k \in Classes, NEW c \in CPUs,
           NEW n \in 1 .. CacheSize, NEW b \in Blocks, Cached(b, k, c, n)
    PROVE  cls'[b[1]] = k
<1>1. CacheOK /\ CacheClass
  BY DEF Inv, PinnedInv, TypeOK, CacheOK
<1>2. cls[b[1]] = k
  BY <1>1, ClassOf
<1>3. b[1] \in Made
  BY <1>2, BlockShape, SlabAssumption DEF Made
<1> QED
  BY <1>2, <1>3, ClassesKept DEF Inv

\* Steps that move no block between the program and the caches.
LEMMA BlocksQuiet ==
    ASSUME Inv, NEW t \in Threads, Step(t), UNCHANGED <<live, cache>>,
           pc[t] \notin {"push", "alloc_commit"}, pc'[t] # "push"
    PROVE  BlocksAfter(t)
<1>1. /\ TypeOK /\ CacheOK /\ HandedInv
  BY DEF Inv, PinnedInv, TypeOK, CacheOK
<1>2. \A u \in Threads : \A b : Pushing(u, b)' <=> Pushing(u, b)
  BY <1>1, OthersKeep DEF Pushing
<1>3. live' \in [Blocks -> Nat] /\ CacheOK'
  BY <1>1 DEF TypeOK, CacheOK
<1>4. \A b, k, c, n : Cached(b, k, c, n)' <=> Cached(b, k, c, n)
  BY DEF Cached
<1>5. HandedInv'
  BY <1>1, <1>2, <1>4 DEF HandedInv, HandedSound
<1>6. CacheClass'
  BY <1>3, <1>4, CachedClass, ClassOfNext
<1>7. HandedOut' = HandedOut
  BY <1>2, HandedFrame
<1> QED
  BY <1>3, <1>5, <1>6, <1>7 DEF BlocksAfter, HandedAfter

\* try_pop() hands the last block of the cache to the program.
LEMMA PopBlocks ==
    ASSUME Inv, NEW t \in Threads, Step(t), TryPop(t),
           NEW k, NEW c, k = size[t], c = CPUOf(t), c \in CPUs, k \in Classes,
           cache[k][c] # <<>>
    PROVE  BlocksAfter(t)
<1>1. TypeOK /\ CacheOK /\ HandedInv /\ live \in [Blocks -> Nat]
  BY DEF Inv, PinnedInv, TypeOK, CacheOK
<1>2. /\ pc[t] = "pop" /\ pc'[t] = "idle"
      /\ live' = [live EXCEPT ![Last(cache[k][c])] = @ + 1]
      /\ cache' = [cache EXCEPT ![k][c] = Front(@)]
  BY <1>1 DEF TryPop, Goto, TypeOK
<1>3. \A u \in Threads : \A b : Pushing(u, b)' <=> Pushing(u, b)
  BY <1>1, <1>2, OthersKeep DEF Pushing
<1>4. cache[k][c] \in Seq(Blocks) /\ Len(cache[k][c]) <= CacheSize
  BY <1>1 DEF CacheOK
<1> SUFFICES ASSUME NEW q, q = cache[k][c], NEW x, x = Last(q), NEW f, f = Front(q),
                    NEW z, z = Len(q)
             PROVE  BlocksAfter(t)
  OBVIOUS
<1>5. /\ z \in Nat /\ z >= 1 /\ z <= CacheSize /\ x = q[z] /\ x \in Blocks
      /\ f \in Seq(Blocks) /\ Len(f) = z - 1 /\ \A n \in 1 .. z - 1 : f[n] = q[n]
  BY <1>4, Popped
<1>6. /\ cache'[k][c] = f /\ cache' \in [Classes -> [CPUs -> Seq(Blocks)]]
      /\ \A l \in Classes, d \in CPUs : l # k \/ d # c => cache'[l][d] = cache[l][d]
  BY <1>1, <1>2, <1>5 DEF CacheOK
<1>7. CacheOK'
  <2>1. ASSUME NEW l \in Classes, NEW d \in CPUs
        PROVE  Len(cache'[l][d]) <= CacheSize
    <3>1. CASE l = k /\ d = c
      BY <1>5, <1>6, <3>1, AllocatorAssumption
    <3>2. CASE l # k \/ d # c
      BY <1>1, <1>6, <3>2 DEF CacheOK
    <3> QED
      BY <3>1, <3>2
  <2> QED
    BY <1>6, <2>1 DEF CacheOK
<1>8. ASSUME NEW b, NEW l \in Classes, NEW d \in CPUs, NEW n \in 1 .. CacheSize
      PROVE  Cached(b, l, d, n)' <=> Cached(b, l, d, n) /\ ~ (l = k /\ d = c /\ n = z)
  <2>1. CASE l = k /\ d = c
    <3>1. Cached(b, l, d, n)' <=> n \in 1 .. Len(f) /\ f[n] = b
      BY <1>6, <2>1 DEF Cached
    <3>2. Cached(b, l, d, n) <=> n \in 1 .. z /\ q[n] = b
      BY <2>1 DEF Cached
    <3>3. n \in 1 .. Len(f) <=> n \in 1 .. z /\ n # z
      BY <1>5, AllocatorAssumption
    <3>4. n \in 1 .. Len(f) => f[n] = q[n]
      BY <1>5
    <3> QED
      BY <2>1, <3>1, <3>2, <3>3, <3>4
  <2>2. CASE l # k \/ d # c
    BY <1>6, <2>2 DEF Cached
  <2> QED
    BY <2>1, <2>2
<1>9. Cached(x, k, c, z) /\ z \in 1 .. CacheSize
  BY <1>5, AllocatorAssumption DEF Cached
<1>10. /\ live[x] = 0 /\ live'[x] = 1 /\ (\A u \in Threads : ~ Pushing(u, x))
       /\ \A l \in Classes, d \in CPUs, n \in 1 .. CacheSize : ~ Cached(x, l, d, n)'
       /\ \A b \in Blocks : b # x => live'[b] = live[b]
       /\ live' \in [Blocks -> Nat]
  <2>1. HandedSound(x)
    BY <1>1, <1>5 DEF HandedInv
  <2>2. /\ live[x] = 0
        /\ \A u \in Threads : ~ Pushing(u, x)
        /\ \A l \in Classes, d \in CPUs, m \in 1 .. CacheSize :
              Cached(x, l, d, m) => l = k /\ d = c /\ m = z
    BY <1>9, <2>1, ZenonT(60) DEF HandedSound
  <2>3. \A l \in Classes, d \in CPUs, n \in 1 .. CacheSize : ~ Cached(x, l, d, n)'
    BY <1>8, <2>2
  <2>4. live' = [live EXCEPT ![x] = 1]
    <3>1. live' = [live EXCEPT ![x] = live[x] + 1]
      BY <1>2
    <3>2. live[x] + 1 = 1
      BY <2>2
    <3> QED
      BY <3>1, <3>2, Zenon
  <2>5. /\ live'[x] = 1 /\ live' \in [Blocks -> Nat]
        /\ \A b \in Blocks : b # x => live'[b] = live[b]
    BY <1>1, <1>5, <2>4
  <2> QED
    BY <2>2, <2>3, <2>5
<1>11. ASSUME NEW b \in Blocks
       PROVE  HandedSound(b)'
  <2>1. CASE b = x
    BY <1>3, <1>10, <2>1 DEF HandedSound
  <2>2. CASE b # x
    <3>1. HandedSound(b) /\ live'[b] = live[b]
      BY <1>1, <1>10, <2>2 DEF HandedInv
    <3> QED
      BY <1>3, <1>8, <3>1 DEF HandedSound
  <2> QED
    BY <2>1, <2>2
<1>12. CacheClass'
  BY <1>7, <1>8, CachedClass, ClassOfNext
<1>13. ASSUME NEW b \in Blocks
       PROVE  Somewhere(b)' <=> Somewhere(b)
  <2>1. CASE b = x
    <3>1. Somewhere(x)
      BY <1>9 DEF Somewhere
    <3>2. live'[x] > 0
      BY <1>10
    <3>3. Somewhere(x)'
      BY <3>2 DEF Somewhere
    <3> QED
      BY <2>1, <3>1, <3>3
  <2>2. CASE b # x
    <3>1. live'[b] = live[b]
      BY <1>10, <2>2
    <3>2. \A l \in Classes, d \in CPUs, n \in 1 .. CacheSize : Cached(b, l, d, n)' <=> Cached(b, l, d, n)
      <4>1. ~ Cached(b, k, c, z)
        BY <1>9, <2>2 DEF Cached
      <4> QED
        BY <1>8, <4>1
    <3> QED
      BY <1>3, <3>1, <3>2 DEF Somewhere
  <2> QED
    BY <2>1, <2>2
<1>14. HandedOut' = HandedOut
  BY <1>1, <1>7, <1>13, HandedOf, HandedOfNext
<1>15. HandedAfter(t) = HandedOut
  BY <1>2 DEF HandedAfter
<1> QED
  BY <1>7, <1>10, <1>11, <1>12, <1>14, <1>15 DEF BlocksAfter, HandedInv

\* _allocate() returns a block of the slab to the program.
LEMMA ReturnBlocks ==
    ASSUME Inv, NEW t \in Threads, Step(t), AllocReturn(t)
    PROVE  BlocksAfter(t)
<1>1. TypeOK /\ CacheOK /\ HandedInv /\ live \in [Blocks -> Nat]
  BY DEF Inv, PinnedInv, TypeOK, CacheOK
<1> SUFFICES ASSUME NEW x, x = AllocResult(t)
             PROVE  BlocksAfter(t)
  OBVIOUS
<1>2. /\ pc[t] = "alloc_commit" /\ pc'[t] = "idle" /\ cache' = cache
      /\ live' = [live EXCEPT ![x] = @ + 1]
  BY <1>1 DEF AllocReturn, AllocCommit, Return, Goto, TypeOK
<1>3. \A u \in Threads : \A b : Pushing(u, b)' <=> Pushing(u, b)
  BY <1>1, <1>2, OthersKeep DEF Pushing
<1>4. \A b, l, d, n : Cached(b, l, d, n)' <=> Cached(b, l, d, n)
  BY <1>2 DEF Cached
<1>5. CacheOK'
  BY <1>1, <1>2 DEF CacheOK
<1>6. x \in Blocks /\ ~ Somewhere(x)
  BY <1>1, <1>2, FreshBlock, HandedOf
<1>7. /\ live[x] = 0 /\ live'[x] = 1 /\ live' \in [Blocks -> Nat]
      /\ \A b \in Blocks : b # x => live'[b] = live[b]
  <2>1. live[x] \in Nat /\ ~ (live[x] > 0)
    BY <1>1, <1>6 DEF Somewhere
  <2> QED
    BY <1>1, <1>2, <1>6, <2>1
<1>8. ASSUME NEW b \in Blocks
      PROVE  HandedSound(b)'
  <2>1. CASE b = x
    BY <1>3, <1>4, <1>6, <1>7, <2>1 DEF HandedSound, Somewhere
  <2>2. CASE b # x
    <3>1. HandedSound(b) /\ live'[b] = live[b]
      BY <1>1, <1>7, <2>2 DEF HandedInv
    <3> QED
      BY <1>3, <1>4, <3>1 DEF HandedSound
  <2> QED
    BY <2>1, <2>2
<1>9. CacheClass'
  BY <1>4, <1>5, CachedClass, ClassOfNext
<1>10. \A b \in Blocks : Somewhere(b)' <=> Somewhere(b) \/ b = x
  BY <1>3, <1>4, <1>7 DEF Somewhere
<1>11. HandedOut' = HandedOut \union {x}
  BY <1>1, <1>5, <1>6, <1>10, HandedOf, HandedOfNext
<1>12. HandedAfter(t) = HandedOut \union {x}
  BY <1>2 DEF HandedAfter
<1> QED
  BY <1>5, <1>7, <1>8, <1>9, <1>11, <1>12 DEF BlocksAfter, HandedInv

\* _free() takes a block from the program.
LEMMA FreeBlocks ==
    ASSUME Inv, NEW t \in Threads, Step(t), NEW x \in Blocks, Free(t, x)
    PROVE  BlocksAfter(t)
<1>1. TypeOK /\ SlabTypeOK /\ CacheOK /\ HandedInv /\ live \in [Blocks -> Nat]
  BY DEF Inv, PinnedInv, TypeOK, CacheOK
<1>2. /\ pc[t] = "idle" /\ pc'[t] = "push" /\ cache' = cache /\ live[x] > 0
      /\ live' = [live EXCEPT ![x] = @ - 1] /\ this'[t] = x[1] /\ pos'[t] = <<x[2], x[3]>>
  BY <1>1 DEF Free, Call, Goto, TypeOK, SlabTypeOK
<1>3. /\ \A u \in Threads \ {t} : \A b : Pushing(u, b)' <=> Pushing(u, b)
      /\ \A b : ~ Pushing(t, b)
      /\ \A b \in Blocks : Pushing(t, b)' <=> b = x
  <2>1. x = <<x[1], x[2], x[3]>>
    BY BlockShape
  <2>2. \A u \in Threads \ {t} : \A b : Pushing(u, b)' <=> Pushing(u, b)
    BY <1>1, OthersKeep DEF Pushing
  <2>3. \A b \in Blocks : Pushing(t, b)' <=> b = x
    BY <1>2, <2>1 DEF Pushing
  <2> QED
    BY <1>2, <2>2, <2>3 DEF Pushing
<1>4. \A b, l, d, n : Cached(b, l, d, n)' <=> Cached(b, l, d, n)
  BY <1>2 DEF Cached
<1>5. CacheOK'
  BY <1>1, <1>2 DEF CacheOK
<1>6. /\ live[x] = 1 /\ live'[x] = 0 /\ live' \in [Blocks -> Nat]
      /\ \A b \in Blocks : b # x => live'[b] = live[b]
  BY <1>1, <1>2 DEF HandedInv, HandedSound
<1>7. ASSUME NEW b \in Blocks
      PROVE  HandedSound(b)'
  <2>1. HandedSound(b)
    BY <1>1 DEF HandedInv
  <2>2. CASE b = x
    <3>1. \A u \in Threads : ~ Pushing(u, x)
      BY <1>6, <2>1, <2>2 DEF HandedSound
    <3>2. \A l \in Classes, d \in CPUs, n \in 1 .. CacheSize : ~ Cached(x, l, d, n)
      BY <1>6, <2>1, <2>2 DEF HandedSound
    <3>3. \A u \in Threads : Pushing(u, x)' => u = t
      BY <1>3, <3>1
    <3> QED
      BY <1>4, <1>6, <2>2, <3>2, <3>3 DEF HandedSound
  <2>3. CASE b # x
    <3>1. live'[b] = live[b] /\ \A u \in Threads : Pushing(u, b)' <=> Pushing(u, b)
      BY <1>3, <1>6, <2>3
    <3> QED
      BY <1>4, <2>1, <3>1 DEF HandedSound
  <2> QED
    BY <2>2, <2>3
<1>8. CacheClass'
  BY <1>4, <1>5, CachedClass, ClassOfNext
<1>9. \A b \in Blocks : Somewhere(b)' <=> Somewhere(b)
  BY <1>3, <1>4, <1>6 DEF Somewhere
<1>10. HandedOut' = HandedOut
  BY <1>1, <1>5, <1>9, HandedOf, HandedOfNext
<1>11. HandedAfter(t) = HandedOut
  BY <1>2 DEF HandedAfter
<1> QED
  BY <1>5, <1>6, <1>7, <1>8, <1>10, <1>11 DEF BlocksAfter, HandedInv

\* try_push() caches the block, or passes it on to its slab.
LEMMA PushBlocks ==
    ASSUME Inv, NEW t \in Threads, Step(t), TryPush(t),
           NEW k, NEW c, k = size[t], c = CPUOf(t), c \in CPUs
    PROVE  BlocksAfter(t)
<1>1. /\ TypeOK /\ CacheOK /\ HandedInv /\ live \in [Blocks -> Nat] /\ PinnedInv /\ LocalsInv
  BY DEF Inv, PinnedInv, TypeOK, CacheOK
<1> SUFFICES ASSUME NEW x, x = <<this[t], pos[t][1], pos[t][2]>>
             PROVE  BlocksAfter(t)
  OBVIOUS
<1>2. pc[t] = "push" /\ live' = live /\ pc'[t] # "push" /\ slabVars' = slabVars
  BY <1>1 DEF TryPush, Return, Goto, TypeOK
<1>3. k \in Classes /\ cls[this[t]] = k /\ this[t] \in Slabs /\ x \in Blocks /\ x[1] = this[t]
  BY <1>1, <1>2, Operands, BlockOf DEF LocalsInv
<1>4. /\ \A u \in Threads \ {t} : \A b : Pushing(u, b)' <=> Pushing(u, b)
      /\ \A b : Pushing(t, b) <=> b = x
      /\ \A b : ~ Pushing(t, b)'
  <2>1. \A u \in Threads \ {t} : \A b : Pushing(u, b)' <=> Pushing(u, b)
    BY <1>1, OthersKeep DEF Pushing
  <2> QED
    BY <1>2, <2>1 DEF Pushing
<1>5. /\ live[x] = 0 /\ (\A u \in Threads : Pushing(u, x) => u = t)
      /\ \A l \in Classes, d \in CPUs, n \in 1 .. CacheSize : ~ Cached(x, l, d, n)
  BY <1>1, <1>3, <1>4 DEF HandedInv, HandedSound
<1>6. cache[k][c] \in Seq(Blocks) /\ Len(cache[k][c]) <= CacheSize
  BY <1>1, <1>3 DEF CacheOK
<1>7. CASE Len(cache[k][c]) = CacheSize
  <2>1. pc'[t] = "free" /\ cache' = cache
    BY <1>1, <1>7 DEF TryPush, Goto, TypeOK
  <2>2. CacheOK' /\ \A b, l, d, n : Cached(b, l, d, n)' <=> Cached(b, l, d, n)
    BY <1>1, <2>1 DEF CacheOK, Cached
  <2>3. ASSUME NEW b \in Blocks
        PROVE  HandedSound(b)'
    <3>1. HandedSound(b)
      BY <1>1 DEF HandedInv
    <3>2. \A u \in Threads : Pushing(u, b)' => Pushing(u, b)
      BY <1>4
    <3> QED
      BY <1>2, <2>2, <3>1, <3>2 DEF HandedSound
  <2>4. CacheClass'
    BY <2>2, CachedClass, ClassOfNext
  <2>5. \A b \in Blocks : Somewhere(b)' <=> Somewhere(b) /\ b # x
    <3>1. ~ Somewhere(x)'
      BY <1>2, <1>4, <1>5, <2>2 DEF Somewhere
    <3>2. ASSUME NEW b \in Blocks, b # x
          PROVE  Somewhere(b)' <=> Somewhere(b)
      BY <1>2, <1>4, <2>2, <3>2 DEF Somewhere
    <3> QED
      BY <3>1, <3>2
  <2>6. HandedOut' = HandedOut \ {x}
    BY <1>1, <2>2, <2>5, HandedOf, HandedOfNext
  <2>7. HandedAfter(t) = HandedOut \ {x}
    BY <1>2, <2>1 DEF HandedAfter
  <2> QED
    BY <1>1, <1>2, <2>2, <2>3, <2>4, <2>6, <2>7 DEF BlocksAfter, HandedInv
<1>8. CASE Len(cache[k][c]) # CacheSize
  <2> SUFFICES ASSUME NEW q, q = cache[k][c], NEW f, f = Append(q, x),
                      NEW y, y = Len(q), NEW z, z = y + 1
               PROVE  BlocksAfter(t)
    OBVIOUS
  <2>1. pc'[t] = "idle" /\ cache' = [cache EXCEPT ![k][c] = f]
    BY <1>1, <1>8 DEF TryPush, Return, Goto, TypeOK
  <2>0. /\ y \in Nat /\ z \in Nat /\ z = y + 1 /\ z >= 1 /\ z <= CacheSize
        /\ CacheSize \in Nat
    <3>1. y \in Nat /\ y < CacheSize /\ CacheSize \in Nat
      BY <1>6, <1>8, AllocatorAssumption
    <3> QED
      BY <3>1
  <2>2. /\ z \in Nat /\ z >= 1 /\ z <= CacheSize /\ Len(f) = z /\ f \in Seq(Blocks) /\ f[z] = x
        /\ y \in Nat /\ \A n \in 1 .. y : f[n] = q[n]
    <3>2. /\ f \in Seq(Blocks) /\ Len(f) = z /\ f[z] = x
          /\ \A n \in 1 .. y : f[n] = q[n]
      BY <1>3, <1>6, Pushed
    <3> QED
      BY <2>0, <3>2
  <2>3. /\ cache'[k][c] = f /\ cache' \in [Classes -> [CPUs -> Seq(Blocks)]]
        /\ \A l \in Classes, d \in CPUs : l # k \/ d # c => cache'[l][d] = cache[l][d]
    BY <1>1, <1>3, <2>1, <2>2 DEF CacheOK
  <2>4. CacheOK'
    <3>1. ASSUME NEW l \in Classes, NEW d \in CPUs
          PROVE  Len(cache'[l][d]) <= CacheSize
      <4>1. CASE l = k /\ d = c
        BY <2>2, <2>3, <4>1
      <4>2. CASE l # k \/ d # c
        BY <1>1, <2>3, <4>2 DEF CacheOK
      <4> QED
        BY <4>1, <4>2
    <3> QED
      BY <2>3, <3>1 DEF CacheOK
  <2>5. ASSUME NEW b, NEW l \in Classes, NEW d \in CPUs, NEW n \in 1 .. CacheSize
        PROVE  Cached(b, l, d, n)' <=>
                  Cached(b, l, d, n) \/ (l = k /\ d = c /\ n = z /\ b = x)
    <3>1. CASE l = k /\ d = c
      <4>1. Cached(b, k, c, n)' <=> n \in 1 .. z /\ f[n] = b
        BY <2>2, <2>3 DEF Cached
      <4>2. Cached(b, k, c, n) <=> n \in 1 .. y /\ q[n] = b
        BY DEF Cached
      <4>3. n \in 1 .. z <=> n \in 1 .. y \/ n = z
        <5>1. n \in Int
          BY <2>0
        <5> QED
          BY <2>0, <5>1
      <4>4. z \notin 1 .. y
        BY <2>0
      <4> QED
        BY <2>2, <3>1, <4>1, <4>2, <4>3, <4>4
    <3>2. CASE l # k \/ d # c
      BY <2>3, <3>2 DEF Cached
    <3> QED
      BY <3>1, <3>2
  <2>6. z \in 1 .. CacheSize
    BY <2>0
  <2>7. ASSUME NEW b \in Blocks
        PROVE  HandedSound(b)'
    <3>1. HandedSound(b)
      BY <1>1 DEF HandedInv
    <3>2. CASE b = x
      <4>1. \A u \in Threads : ~ Pushing(u, x)'
        BY <1>4, <1>5
      <4>2. \A l \in Classes, d \in CPUs, n \in 1 .. CacheSize :
               Cached(x, l, d, n)' => l = k /\ d = c /\ n = z
        BY <1>5, <2>5
      <4>3. live'[x] = 0
        BY <1>2, <1>5
      <4>4. HandedSound(x)'
        <5>1. live'[x] <= 1
          BY <4>3
        <5>2. \A l \in Classes, d \in CPUs, n \in 1 .. CacheSize : Cached(x, l, d, n)' =>
                 \A i \in Classes, e \in CPUs, m \in 1 .. CacheSize :
                    Cached(x, i, e, m)' => i = l /\ e = d /\ m = n
          BY <4>2
        <5>3. \A u \in Threads : Pushing(u, x)' => FALSE
          BY <4>1
        <5> QED
          BY <4>3, <5>1, <5>2, <5>3, ZenonT(60) DEF HandedSound
      <4> QED
        BY <3>2, <4>4
    <3>3. CASE b # x
      <4>1. \A u \in Threads : Pushing(u, b)' <=> Pushing(u, b)
        BY <1>4, <3>3
      <4>2. \A l \in Classes, d \in CPUs, n \in 1 .. CacheSize :
               Cached(b, l, d, n)' <=> Cached(b, l, d, n)
        BY <2>5, <3>3
      <4> QED
        BY <1>2, <3>1, <4>1, <4>2 DEF HandedSound
    <3> QED
      BY <3>2, <3>3
  <2>8. CacheClass'
    <3>1. cls'[x[1]] = k
      BY <1>2, <1>3 DEF slabVars
    <3>2. \A l \in Classes, d \in CPUs, n \in 1 .. CacheSize, b \in Blocks :
             Cached(b, l, d, n)' => cls'[b[1]] = l
      BY <2>5, <3>1, CachedClass
    <3> QED
      BY <2>4, <3>2, ClassOfNext
  <2>9. ASSUME NEW b \in Blocks
        PROVE  Somewhere(b)' <=> Somewhere(b)
    <3>1. CASE b = x
      BY <1>3, <1>4, <2>5, <2>6, <3>1 DEF Somewhere
    <3>2. CASE b # x
      <4>1. \A u \in Threads : Pushing(u, b)' <=> Pushing(u, b)
        BY <1>4, <3>2
      <4>2. \A l \in Classes, d \in CPUs, n \in 1 .. CacheSize :
               Cached(b, l, d, n)' <=> Cached(b, l, d, n)
        BY <2>5, <3>2
      <4> QED
        BY <1>2, <4>1, <4>2 DEF Somewhere
    <3> QED
      BY <3>1, <3>2
  <2>10. HandedOut' = HandedOut
    BY <1>1, <2>4, <2>9, HandedOf, HandedOfNext
  <2>11. HandedAfter(t) = HandedOut
    BY <1>2, <2>1 DEF HandedAfter
  <2> QED
    BY <1>1, <1>2, <2>4, <2>7, <2>8, <2>10, <2>11 DEF BlocksAfter, HandedInv
<1> QED
  BY <1>7, <1>8

\* Every step keeps a block that is handed out in one place.
LEMMA StepBlocks ==
    ASSUME PinnedApart, Inv, NEW t \in Threads, Running(t), Step(t)
    PROVE  BlocksAfter(t)
<1>1. TypeOK /\ LocalsInv /\ ScheduleInv
  BY DEF Inv, PinnedInv
<1>2. PICK k, c : k = size[t] /\ c = CPUOf(t)
  OBVIOUS
<1>3. c \in CPUs
  BY <1>1, <1>2, OnHome
<1>4. CASE TryPop(t)
  <2>1. pc[t] = "pop" /\ k \in Classes
    BY <1>1, <1>2, <1>4 DEF TryPop, LocalsInv
  <2>2. CASE cache[k][c] = <<>>
    <3>1. UNCHANGED <<live, cache>> /\ pc'[t] = "inner"
      BY <1>1, <1>2, <1>4, <2>2 DEF TryPop, Goto, TypeOK
    <3> QED
      BY <2>1, <3>1, BlocksQuiet
  <2>3. CASE cache[k][c] # <<>>
    BY <1>2, <1>3, <1>4, <2>1, <2>3, PopBlocks
  <2> QED
    BY <2>2, <2>3
<1>5. CASE AllocReturn(t)
  BY <1>5, ReturnBlocks
<1>6. CASE \E b \in Blocks : Free(t, b)
  BY <1>6, FreeBlocks
<1>7. CASE TryPush(t)
  BY <1>2, <1>3, <1>7, PushBlocks
<1>8. CASE ~ (TryPop(t) \/ AllocReturn(t) \/ (\E b \in Blocks : Free(t, b)) \/ TryPush(t))
  <2>1. CASE (\E j \in Classes : Malloc(t, j)) \/ GetStartCpu(t) \/ ReadHead(t) \/ OutOfMemory(t)
             \/ NewSlab(t) \/ ConstructSlab(t)
    <3>1. UNCHANGED <<live, cache>> /\ pc[t] \notin {"push", "alloc_commit"} /\ pc'[t] # "push"
      BY <1>1, <2>1 DEF Malloc, GetStartCpu, ReadHead, OutOfMemory, NewSlab, ConstructSlab, Goto,
         Return, Call, TypeOK
    <3> QED
      BY <3>1, BlocksQuiet
  <2>2. CASE SendNew(t) \/ SendReleased(t) \/ SendClaimed(t) \/ UnlinkFull(t) \/ AfterSend(t)
    <3>1. UNCHANGED <<live, cache>> /\ pc[t] \notin {"push", "alloc_commit"} /\ pc'[t] # "push"
      BY <1>1, <2>2 DEF SendNew, SendReleased, SendClaimed, SendFirst, SendCommit, UnlinkFull,
         CasSetNext, AfterSend, Goto, Return, TypeOK
    <3> QED
      BY <3>1, BlocksQuiet
  <2>3. CASE AllocMigrated(t) \/ AllocSection(t)
    <3>1. UNCHANGED <<live, cache>> /\ pc[t] \notin {"push", "alloc_commit"} /\ pc'[t] # "push"
      BY <1>1, <2>3 DEF AllocMigrated, AllocSection, AllocBegin, AllocFull, AllocClear, AllocLoad,
         Goto, Return, TypeOK
    <3> QED
      BY <3>1, BlocksQuiet
  <2>4. CASE ReleaseSlab(t) \/ ClaimSlab(t)
    <3>1. UNCHANGED <<live, cache>> /\ pc[t] \notin {"push", "alloc_commit"} /\ pc'[t] # "push"
      BY <1>1, <2>4 DEF ReleaseSlab, ReleaseRead, ReleaseVecs, ReleaseSlots, ReleaseTake,
         ReleaseUnown, ReleaseDone, ClaimSlab, SetOwnedWon, Goto, Return, TypeOK
    <3> QED
      BY <3>1, BlocksQuiet
  <2>5. CASE FreeSlab(t)
    <3>1. UNCHANGED <<live, cache>> /\ pc[t] \notin {"push", "alloc_commit"} /\ pc'[t] # "push"
      BY <1>1, <2>5 DEF FreeSlab, FreeCheck, FreeFirst, FreeVec, FreeLater, FreeState,
         SetOwnedLost, Goto, Return, TypeOK
    <3> QED
      BY <3>1, BlocksQuiet
  <2> QED
    BY <1>8, <2>1, <2>2, <2>3, <2>4, <2>5 DEF Step, AllocateStep, FreeStep
<1> QED
  BY <1>4, <1>5, <1>6, <1>7, <1>8
=============================================================================
