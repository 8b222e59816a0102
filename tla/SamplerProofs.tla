--------------------------- MODULE SamplerProofs ----------------------------
(***************************************************************************)
(* SamplesExact of tcmalloc's sampler, for every sampling rate, every      *)
(* distribution of the sampling points and every sequence of sizes.        *)
(***************************************************************************)
EXTENDS Sampler, TLAPS

\* Rates, points and sizes are numbers; a size is not negative.
Numbers == Rates \subseteq Int /\ Points \subseteq Int /\ FarPoint \in Int /\ Sizes \subseteq Nat

Picks    == 0 .. 2
Counters == [bytes : Int, true : Int, period : Int, was : BOOLEAN, inited : BOOLEAN]
Ghosts   == [requested : Int, counted : Nat, point : Int, period : Int, picks : Picks]
Samples  == [weight : Int, exact : Int, picks : Picks]

SamplerTypeOK ==
    /\ sampler \in Counters
    /\ onFast \in BOOLEAN
    /\ rate \in Int
    /\ since \in Ghosts
    /\ sample \in Samples

\* Before Init() the sampler asks for the slow path.
Fresh == ~sampler.inited => sampler.bytes = 0 /\ sampler.true = 0 /\ since.picks = 0

\* The counter in use, which was_on_fast_path_ tells and not IsOnFastPath(), is what is
\* left to the point; the other one is 0, so that an allocation that looks at it takes
\* the slow path.
Remaining(s, g) ==
    /\ s.inited
    /\ s.period = g.period
    /\ s.was => s.bytes = g.point - g.counted /\ s.true = 0
    /\ ~s.was => s.true = g.point - g.counted /\ s.bytes = 0

SamplerInv ==
    /\ SamplerTypeOK
    /\ Fresh
    /\ since.picks = 2 => Remaining(sampler, since)
    /\ SamplesExact

----------------------------------------------------------------------------
\* The assignments to the fields, under names the provers can match.
SetAll(s, a, b, w, c) ==
    [s EXCEPT !.bytes = a, !.true = b, !.was = w, !.period = c]
SetCounts(s, a, b, w) ==
    [s EXCEPT !.bytes = a, !.true = b, !.was = w]
SetFast(s, a)       == [s EXCEPT !.bytes = a, !.true = 0, !.was = TRUE]
SetSlow(s, b)       == [s EXCEPT !.bytes = 0, !.true = b, !.was = FALSE]
PickFast(s, a, c)   == [s EXCEPT !.bytes = a, !.true = 0, !.was = TRUE, !.period = c]
PickSlow(s, b, c)   == [s EXCEPT !.bytes = 0, !.true = b, !.was = FALSE, !.period = c]
SetBoth(s, a, b)    == [s EXCEPT !.bytes = a, !.true = b]
SetBytes(s, a)      == [s EXCEPT !.bytes = a]
SetCounted(g, n, b) == [g EXCEPT !.requested = n, !.counted = b]

\* An allocation that is counted keeps the point and the period.
LEMMA GhostFields ==
    ASSUME NEW g \in Ghosts, NEW a \in Int, NEW b \in Nat
    PROVE  /\ SetCounted(g, a, b) \in Ghosts
           /\ SetCounted(g, a, b).counted = b
           /\ SetCounted(g, a, b).point = g.point
           /\ SetCounted(g, a, b).period = g.period
           /\ SetCounted(g, a, b).picks = g.picks
BY DEF Ghosts, SetCounted

\* Fields of a sampler whose counters and path are assigned, ...
LEMMA CounterFields ==
    ASSUME NEW s \in Counters, NEW a \in Int, NEW b \in Int, NEW w \in BOOLEAN
    PROVE  /\ SetCounts(s, a, b, w) \in Counters
           /\ SetCounts(s, a, b, w).bytes = a
           /\ SetCounts(s, a, b, w).true = b
           /\ SetCounts(s, a, b, w).was = w
           /\ SetCounts(s, a, b, w).inited = s.inited
           /\ SetCounts(s, a, b, w).period = s.period
BY DEF Counters, SetCounts

\* ... and its period, ...
LEMMA AllFields ==
    ASSUME NEW s \in Counters, NEW a \in Int, NEW b \in Int, NEW w \in BOOLEAN, NEW c \in Int
    PROVE  /\ SetAll(s, a, b, w, c) \in Counters
           /\ SetAll(s, a, b, w, c).bytes = a
           /\ SetAll(s, a, b, w, c).true = b
           /\ SetAll(s, a, b, w, c).was = w
           /\ SetAll(s, a, b, w, c).inited = s.inited
           /\ SetAll(s, a, b, w, c).period = c
BY DEF Counters, SetAll

\* ... with the counter of the fast path, ...
LEMMA FastFields ==
    ASSUME NEW s \in Counters, NEW a \in Int
    PROVE  /\ SetFast(s, a) \in Counters
           /\ SetFast(s, a).bytes = a
           /\ SetFast(s, a).true = 0
           /\ SetFast(s, a).was
           /\ SetFast(s, a).inited = s.inited
           /\ SetFast(s, a).period = s.period
<1>1. PICK w : w = TRUE
  OBVIOUS
<1>2. PICK z : z = 0
  OBVIOUS
<1>3. w \in BOOLEAN /\ z \in Int
  <2>1. w \in BOOLEAN
    BY <1>1, Zenon
  <2>2. z \in Int
    BY <1>2
  <2> QED
    BY <2>1, <2>2
<1>4. SetFast(s, a) = SetCounts(s, a, z, w)
  BY <1>1, <1>2, Zenon DEF SetFast, SetCounts
<1>5. /\ SetCounts(s, a, z, w) \in Counters
      /\ SetCounts(s, a, z, w).bytes = a /\ SetCounts(s, a, z, w).true = z
      /\ SetCounts(s, a, z, w).was = w
      /\ SetCounts(s, a, z, w).inited = s.inited /\ SetCounts(s, a, z, w).period = s.period
  BY <1>3, CounterFields
<1> QED
  BY <1>1, <1>2, <1>4, <1>5, Zenon

\* ... or of the slow path.
LEMMA SlowFields ==
    ASSUME NEW s \in Counters, NEW b \in Int
    PROVE  /\ SetSlow(s, b) \in Counters
           /\ SetSlow(s, b).bytes = 0
           /\ SetSlow(s, b).true = b
           /\ ~ SetSlow(s, b).was
           /\ SetSlow(s, b).inited = s.inited
           /\ SetSlow(s, b).period = s.period
<1>1. PICK w : w = FALSE
  OBVIOUS
<1>2. PICK z : z = 0
  OBVIOUS
<1>3. w \in BOOLEAN /\ z \in Int
  <2>1. w \in BOOLEAN
    BY <1>1, Zenon
  <2>2. z \in Int
    BY <1>2
  <2> QED
    BY <2>1, <2>2
<1>4. SetSlow(s, b) = SetCounts(s, z, b, w)
  BY <1>1, <1>2, Zenon DEF SetSlow, SetCounts
<1>5. /\ SetCounts(s, z, b, w) \in Counters
      /\ SetCounts(s, z, b, w).bytes = z /\ SetCounts(s, z, b, w).true = b
      /\ SetCounts(s, z, b, w).was = w
      /\ SetCounts(s, z, b, w).inited = s.inited /\ SetCounts(s, z, b, w).period = s.period
  BY <1>3, CounterFields
<1> QED
  BY <1>1, <1>2, <1>4, <1>5, Zenon

\* A point picked on the fast path, ...
LEMMA PickFastFields ==
    ASSUME NEW s \in Counters, NEW a \in Int, NEW c \in Int
    PROVE  /\ PickFast(s, a, c) \in Counters
           /\ PickFast(s, a, c).bytes = a
           /\ PickFast(s, a, c).true = 0
           /\ PickFast(s, a, c).was
           /\ PickFast(s, a, c).inited = s.inited
           /\ PickFast(s, a, c).period = c
<1>1. PICK w : w = TRUE
  OBVIOUS
<1>2. PICK z : z = 0
  OBVIOUS
<1>3. w \in BOOLEAN /\ z \in Int
  <2>1. w \in BOOLEAN
    BY <1>1, Zenon
  <2>2. z \in Int
    BY <1>2
  <2> QED
    BY <2>1, <2>2
<1>4. PickFast(s, a, c) = SetAll(s, a, z, w, c)
  BY <1>1, <1>2, Zenon DEF PickFast, SetAll
<1>5. /\ SetAll(s, a, z, w, c) \in Counters
      /\ SetAll(s, a, z, w, c).bytes = a /\ SetAll(s, a, z, w, c).true = z
      /\ SetAll(s, a, z, w, c).was = w
      /\ SetAll(s, a, z, w, c).inited = s.inited /\ SetAll(s, a, z, w, c).period = c
  BY <1>3, AllFields
<1> QED
  BY <1>1, <1>2, <1>4, <1>5, Zenon

\* ... and off it.
LEMMA PickSlowFields ==
    ASSUME NEW s \in Counters, NEW b \in Int, NEW c \in Int
    PROVE  /\ PickSlow(s, b, c) \in Counters
           /\ PickSlow(s, b, c).bytes = 0
           /\ PickSlow(s, b, c).true = b
           /\ ~ PickSlow(s, b, c).was
           /\ PickSlow(s, b, c).inited = s.inited
           /\ PickSlow(s, b, c).period = c
<1>1. PICK w : w = FALSE
  OBVIOUS
<1>2. PICK z : z = 0
  OBVIOUS
<1>3. w \in BOOLEAN /\ z \in Int
  <2>1. w \in BOOLEAN
    BY <1>1, Zenon
  <2>2. z \in Int
    BY <1>2
  <2> QED
    BY <2>1, <2>2
<1>4. PickSlow(s, b, c) = SetAll(s, z, b, w, c)
  BY <1>1, <1>2, Zenon DEF PickSlow, SetAll
<1>5. /\ SetAll(s, z, b, w, c) \in Counters
      /\ SetAll(s, z, b, w, c).bytes = z /\ SetAll(s, z, b, w, c).true = b
      /\ SetAll(s, z, b, w, c).was = w
      /\ SetAll(s, z, b, w, c).inited = s.inited /\ SetAll(s, z, b, w, c).period = c
  BY <1>3, AllFields
<1> QED
  BY <1>1, <1>2, <1>4, <1>5, Zenon

\* Assigning both counters.
LEMMA BothFields ==
    ASSUME NEW s \in Counters, NEW a \in Int, NEW b \in Int
    PROVE  SetBoth(s, a, b) \in Counters /\ SetBoth(s, a, b).inited = s.inited
BY DEF Counters, SetBoth

\* Assigning bytes_until_sample_.
LEMMA BytesFields ==
    ASSUME NEW s \in Counters, NEW a \in Int
    PROVE  /\ SetBytes(s, a) \in Counters
           /\ SetBytes(s, a).bytes = a
           /\ SetBytes(s, a).true = s.true
           /\ SetBytes(s, a).was = s.was
           /\ SetBytes(s, a).inited = s.inited
           /\ SetBytes(s, a).period = s.period
BY DEF Counters, SetBytes

\* An allocation that is not sampled has no point.
LEMMA UnsampledFields == Unsampled \in Samples /\ Unsampled.picks = 0
BY DEF Unsampled, Samples, Picks

\* A new point is in the counter of the path in use, and 0 in the other.
LEMMA PickedFields ==
    ASSUME SamplerTypeOK, NEW s \in Counters, NEW p \in Int, NEW r, r = Picked(s, p)
    PROVE  /\ r \in Counters
           /\ r.bytes = IF onFast THEN p ELSE 0
           /\ r.true = IF onFast THEN 0 ELSE p
           /\ r.was = onFast /\ r.inited = s.inited /\ r.period = rate
<1>1. onFast \in BOOLEAN /\ rate \in Int
  BY DEF SamplerTypeOK
<1>2. CASE onFast
  <2>1. onFast = TRUE
    BY <1>1, <1>2
  <2>2. r = PickFast(s, p, rate)
    BY <2>1 DEF Picked, PickFast
  <2>3. /\ r \in Counters /\ r.bytes = p /\ r.true = 0 /\ r.was
        /\ r.inited = s.inited /\ r.period = rate
    BY <1>1, <2>2, PickFastFields
  <2>4. r.was = onFast
    BY <2>1, <2>3 DEF Counters
  <2> QED
    BY <1>2, <2>3, <2>4
<1>3. CASE ~onFast
  <2>1. onFast = FALSE
    BY <1>1, <1>3
  <2>2. r = PickSlow(s, p, rate)
    BY <2>1 DEF Picked, PickSlow
  <2>3. /\ r \in Counters /\ r.bytes = 0 /\ r.true = p /\ ~ r.was
        /\ r.inited = s.inited /\ r.period = rate
    BY <1>1, <2>2, PickSlowFields
  <2>4. r.was = onFast
    BY <2>1, <2>3 DEF Counters
  <2> QED
    BY <1>3, <2>3, <2>4
<1> QED
  BY <1>1, <1>2, <1>3

\* Nothing is counted when a point is picked.
LEMMA AtFields ==
    ASSUME SamplerTypeOK, NEW p \in Int, NEW n \in Picks
    PROVE  LET r == [At(p) EXCEPT !.picks = n]
           IN  /\ r \in Ghosts
               /\ r.counted = 0 /\ r.point = p /\ r.period = rate /\ r.picks = n
BY DEF SamplerTypeOK, At, Ghosts

\* PickNextSamplingPoint() is a number.
LEMMA PointTypes ==
    ASSUME Numbers, SamplerTypeOK, NEW p \in PickNextSamplingPoint
    PROVE  p \in Int
BY DEF Numbers, SamplerTypeOK, PickNextSamplingPoint, GetGeometricVariable

\* UpdateFastPathState() moves what is left to the counter of the path in use.
LEMMA UpdateKeeps ==
    ASSUME SamplerTypeOK, NEW s, s = Update(sampler)
    PROVE  /\ s \in Counters
           /\ s.was = onFast
           /\ s.inited = sampler.inited
           /\ Remaining(sampler, since) => Remaining(s, since)
           /\ sampler.bytes = 0 /\ sampler.true = 0 => s.bytes = 0 /\ s.true = 0
<1>1. CASE sampler.was = onFast
  BY <1>1 DEF SamplerTypeOK, Update
<1>2. CASE sampler.was # onFast /\ onFast
  <2>1. s = SetFast(sampler, sampler.true)
    BY <1>2 DEF Update, SetFast
  <2>2. sampler \in Counters /\ sampler.true \in Int /\ sampler.was = FALSE /\ onFast = TRUE
    BY <1>2 DEF SamplerTypeOK, Counters
  <2>3. /\ s \in Counters /\ s.bytes = sampler.true /\ s.true = 0 /\ s.was
        /\ s.inited = sampler.inited /\ s.period = sampler.period
    BY <2>1, <2>2, FastFields
  <2> QED
    BY <2>2, <2>3 DEF Remaining, Counters
<1>3. CASE sampler.was # onFast /\ ~onFast
  <2>1. s = SetSlow(sampler, sampler.bytes)
    BY <1>3 DEF Update, SetSlow
  <2>2. sampler \in Counters /\ sampler.bytes \in Int /\ sampler.was = TRUE /\ onFast = FALSE
    BY <1>3 DEF SamplerTypeOK, Counters
  <2>3. /\ s \in Counters /\ s.true = sampler.bytes /\ s.bytes = 0 /\ ~ s.was
        /\ s.inited = sampler.inited /\ s.period = sampler.period
    BY <2>1, <2>2, SlowFields
  <2> QED
    BY <2>2, <2>3 DEF Remaining, Counters
<1> QED
  BY <1>1, <1>2, <1>3

\* Of an initialized sampler with its counters at the path in use: RecordAllocationSlow()
\* samples exactly when the point is reached, and what it picks is followed exactly.
LEMMA SlowKeeps ==
    ASSUME Numbers, SamplerTypeOK, NEW size \in Nat, NEW s \in Counters, NEW g \in Ghosts,
           s.was = onFast, s.inited,
           g.picks = 2 => Remaining(s, g),
           s.bytes <= size + 1,
           Slow(s, size, size + 1, g), UNCHANGED <<onFast, rate>>
    PROVE  SamplerInv'
<1> DEFINE k == size + 1
<1>1. /\ k \in Nat /\ k > 0 /\ size \in Int
      /\ s.bytes \in Int /\ s.true \in Int /\ s.period \in Int /\ s.was \in BOOLEAN
      /\ g.requested \in Int /\ g.counted \in Nat /\ g.point \in Int /\ g.period \in Int
      /\ g.picks \in Picks
      /\ onFast \in BOOLEAN /\ rate \in Int
  BY DEF Counters, Ghosts, SamplerTypeOK
<1>2. CASE s.true > k
  <2>1. /\ sampler' = NotYet(s, k)
        /\ since' = SetCounted(g, g.requested + size, g.counted + k)
        /\ sample' = Unsampled
    BY <1>2 DEF Slow, SetCounted
  <2>2. /\ since' \in Ghosts /\ since'.counted = g.counted + k /\ since'.point = g.point
        /\ since'.period = g.period /\ since'.picks = g.picks
    <3>1. g.requested + size \in Int /\ g.counted + k \in Nat
      BY <1>1
    <3> HIDE DEF k
    <3> QED
      BY <2>1, <3>1, GhostFields
  <2>3. /\ sampler' \in Counters /\ sampler'.inited /\ sampler'.period = s.period
        /\ sampler'.was = onFast
        /\ sampler'.bytes = IF onFast THEN s.true - k ELSE 0
        /\ sampler'.true = IF onFast THEN 0 ELSE s.true - k
    <3>1. s.true - k \in Int
      BY <1>1
    <3>2. CASE onFast
      <4>1. sampler' = SetFast(s, s.true - k)
        BY <2>1, <3>2 DEF NotYet, SetFast
      <4> HIDE DEF k
      <4>2. /\ sampler' \in Counters /\ sampler'.bytes = s.true - k /\ sampler'.true = 0
            /\ sampler'.was /\ sampler'.inited = s.inited /\ sampler'.period = s.period
        BY <3>1, <4>1, FastFields
      <4>3. sampler'.was = onFast
        BY <1>1, <3>2, <4>2 DEF Counters
      <4> QED
        BY <3>2, <4>2, <4>3
    <3>3. CASE ~onFast
      <4>1. sampler' = SetSlow(s, s.true - k)
        BY <2>1, <3>3 DEF NotYet, SetSlow
      <4> HIDE DEF k
      <4>2. /\ sampler' \in Counters /\ sampler'.bytes = 0 /\ sampler'.true = s.true - k
            /\ ~ sampler'.was /\ sampler'.inited = s.inited /\ sampler'.period = s.period
        BY <3>1, <4>1, SlowFields
      <4>3. sampler'.was = onFast
        BY <1>1, <3>3, <4>2 DEF Counters
      <4> QED
        BY <3>3, <4>2, <4>3
    <3> QED
      BY <3>2, <3>3
  <2>4. since'.picks = 2 => Remaining(sampler', since') /\ since'.counted < since'.point
    BY <1>1, <1>2, <2>2, <2>3 DEF Remaining
  <2>5. SamplerTypeOK' /\ Fresh'
    BY <1>1, <2>1, <2>2, <2>3, UnsampledFields DEF SamplerTypeOK, Fresh
  <2> QED
    BY <2>1, <2>4, <2>5, UnsampledFields DEF SamplerInv, SamplesExact
<1>3. CASE ~(s.true > k)
  <2> DEFINE n == IF g.picks < 2 THEN g.picks + 1 ELSE 2
             w == [weight |-> Weight(s, k), exact |-> g.period + g.counted + k - g.point,
                   picks |-> g.picks]
  <2>1. PICK p \in PickNextSamplingPoint :
          /\ sampler' = Picked(s, p)
          /\ since' = [At(p) EXCEPT !.picks = n]
          /\ sample' = IF rate <= 0 THEN Unsampled ELSE w
    BY <1>3 DEF Slow
  <2>2. p \in Int /\ n \in Picks
    BY <1>1, PointTypes DEF Picks
  <2>3. /\ since' \in Ghosts /\ since'.counted = 0 /\ since'.point = p /\ since'.period = rate
    <3> HIDE DEF n
    <3> QED
      BY <2>1, <2>2, AtFields
  <2>4. /\ sampler' \in Counters
        /\ sampler'.bytes = IF onFast THEN p ELSE 0
        /\ sampler'.true = IF onFast THEN 0 ELSE p
        /\ sampler'.was = onFast /\ sampler'.inited /\ sampler'.period = rate
    BY <2>1, <2>2, PickedFields
  <2>5. Remaining(sampler', since')
    BY <2>2, <2>3, <2>4 DEF Remaining
  <2>6. Weight(s, k) \in Int /\ (g.picks = 2 => Weight(s, k) = g.period + g.counted + k - g.point)
    BY <1>1 DEF Remaining, Weight
  <2>7. w \in Samples /\ w.picks = g.picks /\ (w.picks = 2 => w.weight = w.exact)
    <3>1. g.period + g.counted + k - g.point \in Int
      BY <1>1
    <3> QED
      BY <1>1, <2>6, <3>1 DEF Samples
  <2> HIDE DEF w, n
  <2>8. SamplerTypeOK' /\ Fresh'
    BY <1>1, <2>1, <2>3, <2>4, <2>7, UnsampledFields DEF SamplerTypeOK, Fresh
  <2>9. SamplesExact'
    BY <2>1, <2>3, <2>7, UnsampledFields DEF SamplesExact
  <2> QED
    BY <2>5, <2>8, <2>9 DEF SamplerInv
<1> QED
  BY <1>2, <1>3

----------------------------------------------------------------------------
\* An allocation that takes its bytes off bytes_until_sample_, on the fast path, which
\* sees nothing else, or of a large size.
LEMMA CountKeeps ==
    ASSUME SamplerTypeOK, NEW k \in Nat, k > 0, NEW s \in Counters, s.inited,
           since.picks = 2 => Remaining(s, since),
           s.bytes > k,
           NEW a, a = s.bytes - k, sampler' = SetBytes(s, a),
           NEW n \in Int, NEW b, b = since.counted + k,
           since' = SetCounted(since, n, b),
           sample' = Unsampled, UNCHANGED <<onFast, rate>>
    PROVE  SamplerInv'
<1>1. /\ s.bytes \in Int /\ s.true \in Int
      /\ since \in Ghosts /\ since.counted \in Nat /\ since.point \in Int
      /\ onFast \in BOOLEAN /\ rate \in Int
  BY DEF Counters, Ghosts, SamplerTypeOK
<1>0. a \in Int /\ b \in Nat
  BY <1>1
<1>2. /\ sampler' \in Counters /\ sampler'.inited /\ sampler'.period = s.period
      /\ sampler'.was = s.was /\ sampler'.bytes = a /\ sampler'.true = s.true
  BY <1>0, BytesFields
<1>3. /\ since' \in Ghosts /\ since'.counted = b
      /\ since'.point = since.point /\ since'.period = since.period
      /\ since'.picks = since.picks
  BY <1>0, <1>1, GhostFields
<1>4. since'.picks = 2 => Remaining(sampler', since') /\ since'.counted < since'.point
  BY <1>1, <1>2, <1>3 DEF Remaining
<1>5. SamplerTypeOK' /\ Fresh'
  BY <1>1, <1>2, <1>3, UnsampledFields DEF SamplerTypeOK, Fresh
<1> QED
  BY <1>4, <1>5, UnsampledFields DEF SamplerInv, SamplesExact

\* The same with the assignments as they are in the actions.
LEMMA TakeOff ==
    ASSUME SamplerTypeOK, NEW size \in Nat, NEW s \in Counters, s.inited,
           since.picks = 2 => Remaining(s, since),
           s.bytes > size + 1,
           sampler' = [s EXCEPT !.bytes = s.bytes - (size + 1)],
           since' = Counts(size), sample' = Unsampled, UNCHANGED <<onFast, rate>>
    PROVE  SamplerInv'
<1>1. PICK k \in Nat : k = size + 1 /\ k > 0
  OBVIOUS
<1>2. PICK a : a = s.bytes - k
  OBVIOUS
<1>3. PICK n : n = since.requested + size
  OBVIOUS
<1>4. PICK b : b = since.counted + k
  OBVIOUS
<1>5. since.requested \in Int /\ since.counted \in Nat
  BY DEF SamplerTypeOK, Ghosts
<1>6. n \in Int /\ since.counted + size + 1 = b
  BY <1>1, <1>3, <1>4, <1>5
<1>7. sampler' = SetBytes(s, a)
  BY <1>1, <1>2, Zenon DEF SetBytes
<1>8. since' = SetCounted(since, n, b)
  BY <1>3, <1>6, Zenon DEF Counts, SetCounted
<1> QED
  BY <1>1, <1>2, <1>4, <1>6, <1>7, <1>8, CountKeeps, Zenon

\* The first allocation that Init() finds below its point leaves the sampler with both
\* counters: the one case in which a point is not followed exactly.
LEMMA StartFields ==
    ASSUME NEW s \in Counters, NEW p \in Int, NEW k \in Nat, NEW r, SamplerTypeOK,
           r = SetBoth(Started(s, p), IF onFast THEN p - k ELSE s.bytes, p - k)
    PROVE  r \in Counters /\ r.inited
<1>1. s.bytes \in Int /\ onFast \in BOOLEAN /\ rate \in Int
  BY DEF SamplerTypeOK, Counters
<1>2. PICK a : a = IF onFast THEN p - k ELSE s.bytes
  OBVIOUS
<1>3. PICK b : b = p - k
  OBVIOUS
<1>4. a \in Int /\ b \in Int
  BY <1>1, <1>2, <1>3
<1>5. PICK i : i = Started(s, p)
  OBVIOUS
<1>6. i \in Counters /\ i.inited
  BY <1>1, <1>5 DEF Started, Counters
<1>7. r = SetBoth(i, a, b)
  BY <1>2, <1>3, <1>5
<1> QED
  BY <1>4, <1>6, <1>7, BothFields

\* The first point is counted as the first.
LEMMA FirstFields ==
    ASSUME NEW p \in Int, NEW n \in Nat, NEW k \in Nat, NEW r, SamplerTypeOK, since.picks = 0,
           r = SetCounted(At(p), n, k)
    PROVE  r \in Ghosts /\ r.picks = 1
<1>1. PICK g : g = At(p)
  OBVIOUS
<1>2. g \in Ghosts /\ g.picks = 1
  <2>1. g = [requested |-> 0, counted |-> 0, point |-> p, period |-> rate, picks |-> 1]
    BY <1>1 DEF At
  <2>2. 1 \in Picks /\ rate \in Int
    BY DEF Picks, SamplerTypeOK
  <2> QED
    BY <2>1, <2>2 DEF Ghosts
<1>3. n \in Int
  OBVIOUS
<1>4. r = SetCounted(g, n, k)
  BY <1>1
<1> QED
  BY <1>2, <1>3, <1>4, GhostFields

\* The first allocation keeps the invariant, which says nothing of the first point.
LEMMA StartKeeps ==
    ASSUME SamplerTypeOK, sampler' \in Counters, sampler'.inited,
           since' \in Ghosts, since'.picks = 1, sample' = Unsampled, UNCHANGED <<onFast, rate>>
    PROVE  SamplerInv'
<1>1. SamplerTypeOK' /\ Fresh'
  BY UnsampledFields DEF SamplerTypeOK, Fresh
<1> QED
  BY <1>1, UnsampledFields DEF SamplerInv, SamplesExact

\* An allocation off the fast path, the first one included.
LEMMA SlowAllocKeeps ==
    ASSUME Numbers, SamplerInv, NEW size \in Sizes, NEW large \in BOOLEAN, SlowAlloc(size, large)
    PROVE  SamplerInv'
<1> DEFINE k == size + 1
<1>0. PICK s : s = Update(sampler)
  OBVIOUS
<1>1. /\ SamplerTypeOK /\ size \in Nat /\ UNCHANGED <<onFast, rate>>
      /\ RecordAllocation(s, size)
  BY <1>0 DEF SamplerInv, SlowAlloc, Numbers
<1>2. /\ s \in Counters
      /\ s.was = onFast
      /\ since.picks = 2 => Remaining(s, since)
      /\ ~s.inited => since.picks = 0 /\ s.bytes = 0
  BY <1>0, <1>1, UpdateKeeps DEF SamplerInv, Fresh
<1>3. s.bytes \in Int /\ since \in Ghosts /\ onFast \in BOOLEAN /\ rate \in Int
  BY <1>1, <1>2 DEF SamplerTypeOK, Counters
<1>4. CASE s.bytes > k
  <2>1. /\ sampler' = [s EXCEPT !.bytes = s.bytes - k]
        /\ since' = Counts(size)
        /\ sample' = Unsampled
    BY <1>1, <1>4 DEF RecordAllocation
  <2>2. s.inited
    BY <1>1, <1>2, <1>4
  <2> QED
    BY <1>1, <1>2, <1>4, <2>1, <2>2, TakeOff
<1>5. CASE ~(s.bytes > k) /\ s.inited
  <2>1. Slow(s, size, k, since) /\ s.bytes <= k
    BY <1>1, <1>3, <1>5 DEF RecordAllocation
  <2> QED
    BY <1>1, <1>2, <1>3, <1>5, <2>1, SlowKeeps
<1>6. CASE ~(s.bytes > k) /\ ~s.inited
  <2>1. PICK p \in PickNextSamplingPoint :
          IF p > k
          THEN /\ sampler' = [Started(s, p) EXCEPT !.bytes = IF onFast THEN @ - k ELSE @,
                                                   !.true = @ - k]
               /\ since' = [At(p) EXCEPT !.requested = size, !.counted = k]
               /\ sample' = Unsampled
          ELSE Slow(Started(s, p), size, k, At(p))
    BY <1>1, <1>6 DEF RecordAllocation
  <2>2. p \in Int
    BY <1>1, PointTypes
  <2>3. CASE p > k
    <3>1. /\ sampler' = SetBoth(Started(s, p), IF onFast THEN p - k ELSE s.bytes, p - k)
          /\ since' = SetCounted(At(p), size, k)
          /\ sample' = Unsampled
      BY <2>1, <2>3 DEF Started, SetBoth, SetCounted
    <3>2. k \in Nat
      BY <1>1
    <3> HIDE DEF k
    <3>3. sampler' \in Counters /\ sampler'.inited
      BY <1>1, <1>2, <2>2, <3>1, <3>2, StartFields
    <3>4. since' \in Ghosts /\ since'.picks = 1
      BY <1>1, <1>2, <1>6, <2>2, <3>1, <3>2, FirstFields
    <3> QED
      BY <1>1, <3>1, <3>3, <3>4, StartKeeps
  <2>4. CASE ~(p > k)
    <3>1. PICK i : i = Started(s, p)
      OBVIOUS
    <3>2. /\ i \in Counters /\ i.was = onFast /\ i.inited
          /\ i.bytes = IF onFast THEN p ELSE s.bytes
      BY <1>3, <2>2, <3>1 DEF Started, Counters
    <3>3. i.bytes <= k
      BY <1>1, <1>3, <1>6, <2>2, <2>4, <3>2
    <3>4. PICK g : g = At(p)
      OBVIOUS
    <3>5. g = [requested |-> 0, counted |-> 0, point |-> p, period |-> rate, picks |-> 1]
      BY <1>2, <1>6, <3>4 DEF At
    <3>6. 1 \in Picks
      BY DEF Picks
    <3>7. g \in Ghosts /\ g.picks = 1
      BY <1>3, <2>2, <3>5, <3>6 DEF Ghosts
    <3>8. Slow(i, size, k, g)
      BY <2>1, <2>4, <3>1, <3>4
    <3> QED
      BY <1>1, <3>2, <3>3, <3>7, <3>8, SlowKeeps
  <2> QED
    BY <2>3, <2>4
<1> QED
  BY <1>4, <1>5, <1>6

\* fast_alloc() while the countdown lasts.
LEMMA FastAllocKeeps ==
    ASSUME Numbers, SamplerInv, NEW size \in Sizes, FastAlloc(size)
    PROVE  SamplerInv'
<1>1. /\ SamplerTypeOK /\ size \in Nat /\ UNCHANGED <<onFast, rate>>
      /\ sampler \in Counters /\ sampler.bytes \in Int
      /\ sampler.bytes - (size + 1) > 0
      /\ sampler' = [sampler EXCEPT !.bytes = sampler.bytes - (size + 1)]
      /\ since' = Counts(size)
      /\ sample' = Unsampled
  BY DEF SamplerInv, SamplerTypeOK, Counters, FastAlloc, TryRecordAllocationFast, Numbers
<1>2. sampler.bytes > size + 1
  BY <1>1
<1>3. sampler.inited
  BY <1>1 DEF SamplerInv, Fresh
<1>4. since.picks = 2 => Remaining(sampler, since)
  BY DEF SamplerInv
<1> QED
  BY <1>1, <1>2, <1>3, <1>4, TakeOff

----------------------------------------------------------------------------
\* From the second sampling point on, an allocation is sampled exactly when the bytes
\* since the point was picked reach it, with the weight of those bytes, whatever
\* switches between fast and slow path and of the rate come between.
THEOREM SamplerExact ==
    ASSUME Numbers
    PROVE  SamplerSpec => []SamplesExact
<1>1. SamplerInit => SamplerInv
  <2> SUFFICES ASSUME SamplerInit
               PROVE  SamplerInv
    OBVIOUS
  <2>1. /\ sampler \in Counters /\ sampler.bytes = 0 /\ sampler.true = 0
        /\ onFast \in BOOLEAN /\ rate \in Int
    BY DEF SamplerInit, NewSampler, Counters, Numbers
  <2>2. 0 \in Picks
    BY DEF Picks
  <2>3. since \in Ghosts /\ since.picks = 0
    BY <2>2 DEF SamplerInit, Ghosts
  <2>4. sample \in Samples /\ sample.picks = 0
    BY UnsampledFields DEF SamplerInit
  <2> QED
    BY <2>1, <2>3, <2>4 DEF SamplerInv, SamplerTypeOK, Fresh, SamplesExact
<1>2. SamplerInv /\ [SamplerNext]_samplerVars => SamplerInv'
  <2> SUFFICES ASSUME SamplerInv, [SamplerNext]_samplerVars
               PROVE  SamplerInv'
    OBVIOUS
  <2>1. CASE \E size \in Sizes :
               FastAlloc(size) \/ \E large \in BOOLEAN : SlowAlloc(size, large)
    BY <2>1, FastAllocKeeps, SlowAllocKeeps
  <2>2. CASE UpdateFastPathState
    <3>1. /\ sampler' = Update(sampler) /\ UNCHANGED <<onFast, rate, since, sample>>
          /\ SamplerTypeOK
      BY <2>2 DEF UpdateFastPathState, SamplerInv
    <3>2. /\ sampler' \in Counters
          /\ sampler'.inited = sampler.inited
          /\ Remaining(sampler, since) => Remaining(sampler', since)
          /\ sampler.bytes = 0 /\ sampler.true = 0 => sampler'.bytes = 0 /\ sampler'.true = 0
      BY <3>1, UpdateKeeps
    <3>3. SamplerTypeOK' /\ Fresh' /\ (since'.picks = 2 => Remaining(sampler', since'))
      BY <3>1, <3>2 DEF SamplerInv, SamplerTypeOK, Fresh
    <3> QED
      BY <3>1, <3>2, <3>3 DEF SamplerInv, SamplesExact
  <2>3. CASE SwitchPath \/ \E r \in Rates : set_profile_sampling_rate(r)
    BY <2>3 DEF SwitchPath, set_profile_sampling_rate, SamplerInv, SamplerTypeOK, Fresh,
                Remaining, SamplesExact, Numbers
  <2>4. CASE UNCHANGED samplerVars
    BY <2>4 DEF samplerVars, SamplerInv, SamplerTypeOK, Fresh, Remaining, SamplesExact
  <2> QED
    BY <2>1, <2>2, <2>3, <2>4 DEF SamplerNext
<1>3. SamplerInv => SamplesExact
  BY DEF SamplerInv
<1> QED
  BY <1>1, <1>2, <1>3, PTL DEF SamplerSpec
=============================================================================
