--------------------------- MODULE AllocatorLists ---------------------------
(***************************************************************************)
(* The lists of available slabs as the sequences of slabs one meets when   *)
(* following next from head, and what the stores of _send_slab() and       *)
(* _cas_set_next_available_slab() do to such a walk.  WalkFrom() is a      *)
(* recursive function; that it satisfies its equations, and is the only    *)
(* function that does, is shown here from the least-element principle.     *)
(***************************************************************************)
EXTENDS AllocatorRefinement, FiniteSetTheorems, TLAPS

\* A set of numbers that is closed under successor holds every number.
LEMMA NatSteps ==
    ASSUME NEW S \in SUBSET Nat, 0 \in S, \A n \in S : n + 1 \in S
    PROVE  S = Nat
<1> SUFFICES ASSUME Nat \ S # {}
             PROVE  FALSE
  OBVIOUS
<1>1. PICK n \in Nat \ S : \A m \in Nat \ S : ~ (<<m, n>> \in OpToRel(<, Nat))
  BY WFMin, NatLessThanWellFounded
<1>2. \A m \in Nat \ S : ~ (m < n)
  BY <1>1 DEF OpToRel
<1>3. n # 0 /\ n - 1 \in Nat
  OBVIOUS
<1>4. n - 1 \in S
  BY <1>2, <1>3
<1> QED
  BY <1>4

\* tzcnt of a non-zero word is a one of the word.
LEMMA LowestBitIn ==
    ASSUME NEW S \in SUBSET Nat, S # {}
    PROVE  LowestBit(S) \in S
<1>1. PICK x \in S : \A y \in S : ~ (<<y, x>> \in OpToRel(<, Nat))
  BY NatLessThanWellFounded, WFMin, Zenon
<1>2. \A y \in S : ~ (y < x)
  BY <1>1 DEF OpToRel
<1>3. \A y \in S : x <= y
  BY <1>2
<1> QED
  BY <1>3 DEF LowestBit

Pointers == Slabs \union {NULL}

\* One step along next.
Follow(nx, p) == IF p = NULL THEN NULL ELSE nx[p]

\* f is a walk from h along nx as far as the position m.
WalksTo(f, h, nx, m) ==
    /\ f \in [0 .. m -> Pointers]
    /\ f[0] = h
    /\ \A i \in 0 .. m : i > 0 => f[i] = Follow(nx, f[i - 1])

\* There is a walk of every length.
LEMMA WalksExist ==
    ASSUME NEW h \in Pointers, NEW nx \in [Slabs -> Pointers]
    PROVE  \A m \in Nat : \E f : WalksTo(f, h, nx, m)
<1> DEFINE S == {m \in Nat : \E f : WalksTo(f, h, nx, m)}
<1>1. 0 \in S
  <2>1. WalksTo([i \in 0 .. 0 |-> h], h, nx, 0)
    BY DEF WalksTo
  <2> QED
    BY <2>1
<1>2. ASSUME NEW m \in S
      PROVE  m + 1 \in S
  <2>1. PICK f : WalksTo(f, h, nx, m)
    OBVIOUS
  <2> DEFINE g == [i \in 0 .. m + 1 |-> IF i = m + 1 THEN Follow(nx, f[m]) ELSE f[i]]
  <2>2. m \in Nat /\ f \in [0 .. m -> Pointers] /\ Follow(nx, f[m]) \in Pointers
    BY <2>1 DEF WalksTo, Follow, Pointers
  <2>3. g \in [0 .. m + 1 -> Pointers]
    BY <2>2
  <2>4. g[0] = h
    BY <2>1, <2>2 DEF WalksTo
  <2>5. ASSUME NEW i \in 0 .. m + 1, i > 0
        PROVE  g[i] = Follow(nx, g[i - 1])
    <3>1. CASE i = m + 1
      BY <3>1, <2>2
    <3>2. CASE i \in 0 .. m
      BY <3>2, <2>1, <2>2, <2>5 DEF WalksTo
    <3> QED
      BY <3>1, <3>2, <2>2
  <2>6. WalksTo(g, h, nx, m + 1)
    BY <2>3, <2>4, <2>5 DEF WalksTo
  <2> QED
    BY <2>2, <2>6
<1>3. S = Nat
  BY <1>1, <1>2, NatSteps
<1> QED
  BY <1>3

\* Two walks from the same slab agree as far as both go.
LEMMA WalksAgree ==
    ASSUME NEW h, NEW nx, NEW m \in Nat, NEW l \in Nat, NEW f, NEW g,
           WalksTo(f, h, nx, m), WalksTo(g, h, nx, l)
    PROVE  \A i \in Nat : i <= m /\ i <= l => f[i] = g[i]
<1> DEFINE S == {i \in Nat : i <= m /\ i <= l => f[i] = g[i]}
<1>1. 0 \in S
  BY DEF WalksTo
<1>2. ASSUME NEW i \in S
      PROVE  i + 1 \in S
  <2> SUFFICES ASSUME i + 1 <= m, i + 1 <= l
               PROVE  f[i + 1] = g[i + 1]
    OBVIOUS
  <2>1. f[i] = g[i]
    OBVIOUS
  <2>2. f[i + 1] = Follow(nx, f[(i + 1) - 1]) /\ g[i + 1] = Follow(nx, g[(i + 1) - 1])
    BY DEF WalksTo
  <2> QED
    BY <2>1, <2>2
<1>3. S = Nat
  BY <1>1, <1>2, NatSteps
<1> QED
  BY <1>3

\* The recursive function behind WalkFrom() exists.
LEMMA WalkFromFollows ==
    ASSUME NEW h \in Pointers, NEW nx \in [Slabs -> Pointers]
    PROVE  WalksTo(WalkFrom(h, nx), h, nx, NumSlabs)
<1> DEFINE R(w) == [n \in Nat |-> IF n = 0 THEN h
                      ELSE IF w[n - 1] = NULL THEN NULL ELSE nx[w[n - 1]]]
           part == [m \in Nat |-> CHOOSE f : WalksTo(f, h, nx, m)]
           whole == [n \in Nat |-> part[n][n]]
           v == CHOOSE w : w = R(w)
<1>1. \A m \in Nat : WalksTo(part[m], h, nx, m)
  BY WalksExist
<1> HIDE DEF part
<1>2. ASSUME NEW n \in Nat, n # 0
      PROVE  whole[n] = Follow(nx, whole[n - 1])
  <2>1. n - 1 \in Nat
    BY <1>2
  <2>2. part[n][n] = Follow(nx, part[n][n - 1])
    BY <1>1, <1>2 DEF WalksTo
  <2>3. \A l \in Nat : WalksTo(part[l], h, nx, l)
    BY <1>1
  <2>4. ASSUME NEW l \in Nat
        PROVE  \A i \in Nat : i <= n /\ i <= l => part[n][i] = part[l][i]
    <3>1. PICK f : f = part[n]
      OBVIOUS
    <3>2. PICK g : g = part[l]
      OBVIOUS
    <3>3. WalksTo(f, h, nx, n) /\ WalksTo(g, h, nx, l)
      BY <2>3, <3>1, <3>2
    <3>4. \A i \in Nat : i <= n /\ i <= l => f[i] = g[i]
      BY <3>3, WalksAgree
    <3> QED
      BY <3>1, <3>2, <3>4
  <2>5. part[n][n - 1] = part[n - 1][n - 1]
    BY <2>1, <2>4
  <2> QED
    BY <2>1, <2>2, <2>5
<1>3. whole[0] = h
  BY <1>1 DEF WalksTo
<1>4. \A n \in Nat : whole[n] = R(whole)[n]
  BY <1>2, <1>3 DEF Follow
<1>5. whole = R(whole)
  BY <1>4
<1>6. v = R(v)
  BY <1>5
<1>7. WalkFrom(h, nx) = [n \in 0 .. NumSlabs |-> v[n]]
  BY DEF WalkFrom
<1> HIDE DEF v
<1> DEFINE S == {n \in Nat : v[n] \in Pointers}
<1>8. v[0] = h /\ \A n \in Nat : v[n + 1] = Follow(nx, v[n])
  <2>1. ASSUME NEW n \in Nat
        PROVE  R(v)[n + 1] = Follow(nx, v[n])
    BY DEF Follow
  <2>2. R(v)[0] = h
    OBVIOUS
  <2> QED
    BY <1>6, <2>1, <2>2
<1> HIDE DEF R
<1>9. S = Nat
  <2>1. 0 \in S
    BY <1>8
  <2>2. \A n \in S : n + 1 \in S
    BY <1>8 DEF Follow, Pointers
  <2> QED
    BY <2>1, <2>2, NatSteps
<1>10. \A i \in 0 .. NumSlabs : i > 0 => v[i] = Follow(nx, v[i - 1])
  <2> SUFFICES ASSUME NEW i \in 0 .. NumSlabs, i > 0
               PROVE  v[i] = Follow(nx, v[i - 1])
    OBVIOUS
  <2>1. i - 1 \in Nat /\ (i - 1) + 1 = i
    BY AllocatorAssumption
  <2> QED
    BY <2>1, <1>8
<1>11. WalkFrom(h, nx) \in [0 .. NumSlabs -> Pointers]
  BY <1>7, <1>9, AllocatorAssumption
<1>12. \A i \in 0 .. NumSlabs : WalkFrom(h, nx)[i] = v[i]
  BY <1>7
<1>13. 0 \in 0 .. NumSlabs /\ \A i \in 0 .. NumSlabs : i > 0 => i - 1 \in 0 .. NumSlabs
  BY AllocatorAssumption
<1> QED
  BY <1>8, <1>10, <1>11, <1>12, <1>13 DEF WalksTo

\* A function that follows next from h is the walk from h.
LEMMA WalkIs ==
    ASSUME NEW h \in Pointers, NEW nx \in [Slabs -> Pointers], NEW f,
           WalksTo(f, h, nx, NumSlabs)
    PROVE  WalkFrom(h, nx) = f
<1>1. WalksTo(WalkFrom(h, nx), h, nx, NumSlabs)
  BY WalkFromFollows
<1>2. \A i \in Nat : i <= NumSlabs /\ i <= NumSlabs => WalkFrom(h, nx)[i] = f[i]
  BY <1>1, WalksAgree, AllocatorAssumption
<1>3. /\ WalkFrom(h, nx) \in [0 .. NumSlabs -> Pointers]
      /\ f \in [0 .. NumSlabs -> Pointers]
  BY <1>1 DEF WalksTo
<1>4. \A i \in 0 .. NumSlabs : WalkFrom(h, nx)[i] = f[i]
  BY <1>2, AllocatorAssumption
<1> DEFINE g == WalkFrom(h, nx)
<1> HIDE DEF g
<1>5. g = [i \in 0 .. NumSlabs |-> g[i]] /\ f = [i \in 0 .. NumSlabs |-> f[i]]
  BY <1>3 DEF g
<1> QED
  BY <1>4, <1>5 DEF g

\* Stores to next fields that are not on the walk do not change it.
LEMMA WalkFrame ==
    ASSUME NEW h \in Pointers, NEW nx \in [Slabs -> Pointers],
           NEW ny \in [Slabs -> Pointers],
           \A i \in 0 .. NumSlabs :
               WalkFrom(h, nx)[i] # NULL => ny[WalkFrom(h, nx)[i]] = nx[WalkFrom(h, nx)[i]]
    PROVE  WalkFrom(h, ny) = WalkFrom(h, nx)
<1> DEFINE w == WalkFrom(h, nx)
<1>1. WalksTo(w, h, nx, NumSlabs)
  BY WalkFromFollows
<1> HIDE DEF w
<1>2. ASSUME NEW i \in 0 .. NumSlabs, i > 0
      PROVE  w[i] = Follow(ny, w[i - 1])
  <2>1. i - 1 \in 0 .. NumSlabs
    BY <1>2, AllocatorAssumption
  <2>2. w[i] = Follow(nx, w[i - 1])
    BY <1>1, <1>2 DEF WalksTo
  <2>3. w[i - 1] # NULL => ny[w[i - 1]] = nx[w[i - 1]]
    BY <2>1 DEF w
  <2> QED
    BY <2>2, <2>3 DEF Follow
<1>3. WalksTo(w, h, ny, NumSlabs)
  BY <1>1, <1>2 DEF WalksTo
<1>4. WalkFrom(h, ny) = w
  BY <1>3, WalkIs
<1> QED
  BY <1>4 DEF w

\* The walk of a list whose head is NULL.
LEMMA WalkEmpty ==
    ASSUME NEW nx \in [Slabs -> Pointers]
    PROVE  WalkFrom(NULL, nx) = [i \in 0 .. NumSlabs |-> NULL]
<1> DEFINE f == [i \in 0 .. NumSlabs |-> NULL]
<1>1. WalksTo(f, NULL, nx, NumSlabs)
  BY AllocatorAssumption DEF WalksTo, Follow, Pointers
<1> HIDE DEF f
<1>2. WalkFrom(NULL, nx) = f
  BY <1>1, WalkIs DEF Pointers
<1> QED
  BY <1>2 DEF f

\* The walk from a slab whose next is NULL.
LEMMA WalkSingle ==
    ASSUME NEW s \in Slabs, NEW nx \in [Slabs -> Pointers], nx[s] = NULL
    PROVE  WalkFrom(s, nx) = [i \in 0 .. NumSlabs |-> IF i = 0 THEN s ELSE NULL]
<1> DEFINE f == [i \in 0 .. NumSlabs |-> IF i = 0 THEN s ELSE NULL]
<1>1. f \in [0 .. NumSlabs -> Pointers] /\ f[0] = s
  BY AllocatorAssumption DEF Pointers
<1>2. ASSUME NEW i \in 0 .. NumSlabs, i > 0
      PROVE  f[i] = Follow(nx, f[i - 1])
  <2>1. f[i] = NULL /\ f[i - 1] = IF i - 1 = 0 THEN s ELSE NULL
    BY <1>2, AllocatorAssumption
  <2>2. s # NULL
    BY SlabAssumption
  <2> QED
    BY <2>1, <2>2 DEF Follow
<1>3. WalksTo(f, s, nx, NumSlabs)
  BY <1>1, <1>2 DEF WalksTo
<1> HIDE DEF f
<1>4. WalkFrom(s, nx) = f
  BY <1>3, WalkIs DEF Pointers
<1> QED
  BY <1>4 DEF f

\* Unlinking the head leaves the rest of the walk.
LEMMA WalkTail ==
    ASSUME NEW h \in Slabs, NEW nx \in [Slabs -> Pointers],
           WalkFrom(h, nx)[NumSlabs] = NULL
    PROVE  WalkFrom(nx[h], nx) =
              [i \in 0 .. NumSlabs |->
                  IF i = NumSlabs THEN NULL ELSE WalkFrom(h, nx)[i + 1]]
<1> DEFINE w == WalkFrom(h, nx)
           f == [i \in 0 .. NumSlabs |-> IF i = NumSlabs THEN NULL ELSE w[i + 1]]
<1>1. WalksTo(w, h, nx, NumSlabs)
  BY WalkFromFollows DEF Pointers
<1>2. w[NumSlabs] = NULL
  OBVIOUS
<1> HIDE DEF w
<1>3. h # NULL /\ NumSlabs \in Nat /\ NumSlabs > 0
  BY SlabAssumption, AllocatorAssumption
<1>4. /\ w \in [0 .. NumSlabs -> Pointers] /\ w[0] = h
      /\ \A i \in 0 .. NumSlabs : i > 0 => w[i] = Follow(nx, w[i - 1])
  BY <1>1 DEF WalksTo
<1>5. f \in [0 .. NumSlabs -> Pointers]
  <2>1. \A i \in 0 .. NumSlabs : i # NumSlabs => i + 1 \in 0 .. NumSlabs
    BY <1>3
  <2> QED
    BY <2>1, <1>4 DEF Pointers
<1>6. f[0] = nx[h]
  <2>1. w[1] = Follow(nx, w[1 - 1])
    BY <1>3, <1>4
  <2>2. f[0] = w[1]
    BY <1>3
  <2> QED
    BY <2>1, <2>2, <1>3, <1>4 DEF Follow
<1>7. ASSUME NEW i \in 0 .. NumSlabs, i > 0
      PROVE  f[i] = Follow(nx, f[i - 1])
  <2>1. f[i - 1] = w[i]
    BY <1>3, <1>7
  <2>2. CASE i = NumSlabs
    BY <2>1, <2>2, <1>2, <1>3 DEF Follow
  <2>3. CASE i # NumSlabs
    <3>1. i + 1 \in 0 .. NumSlabs /\ i + 1 > 0 /\ (i + 1) - 1 = i
      BY <2>3, <1>3
    <3>2. w[i + 1] = Follow(nx, w[(i + 1) - 1])
      BY <3>1, <1>4
    <3>3. f[i] = w[i + 1]
      BY <2>3
    <3> QED
      BY <3>1, <3>2, <3>3, <2>1
  <2> QED
    BY <2>2, <2>3
<1>8. WalksTo(f, nx[h], nx, NumSlabs)
  BY <1>5, <1>6, <1>7 DEF WalksTo
<1> HIDE DEF f
<1>9. WalkFrom(nx[h], nx) = f
  BY <1>8, WalkIs
<1> QED
  BY <1>9 DEF f, w

\* A list without repetition has at most NumSlabs slabs: there is room for the
\* end of the list after one more slab has been appended.
LEMMA RoomToAppend ==
    ASSUME NEW w \in [0 .. NumSlabs -> Pointers], NEW n \in 0 .. NumSlabs - 1,
           \A i \in 0 .. n : w[i] # NULL,
           \A i, j \in 0 .. NumSlabs : w[i] = w[j] /\ w[i] # NULL => i = j,
           NEW s \in Slabs, \A i \in 0 .. NumSlabs : w[i] # s
    PROVE  n + 1 < NumSlabs
<1>1. n \in Nat /\ NumSlabs \in Nat /\ n < NumSlabs /\ Slabs = 1 .. NumSlabs
  BY AllocatorAssumption
<1> SUFFICES ASSUME n + 1 = NumSlabs
             PROVE  FALSE
  BY <1>1
<1> DEFINE f == [i \in 0 .. NumSlabs |-> IF i = NumSlabs THEN s ELSE w[i]]
<1>2. f \in [0 .. NumSlabs -> Slabs]
  BY <1>1 DEF Pointers
<1>3. /\ IsFiniteSet(0 .. NumSlabs) /\ Cardinality(0 .. NumSlabs) = NumSlabs + 1
      /\ IsFiniteSet(Slabs) /\ Cardinality(Slabs) = NumSlabs
  BY <1>1, FS_Interval
<1>4. Cardinality(Slabs) < Cardinality(0 .. NumSlabs)
  BY <1>1, <1>3
<1> HIDE DEF f
<1>5. PICK i, j \in 0 .. NumSlabs : i # j /\ f[i] = f[j]
  BY <1>2, <1>3, <1>4, FS_PigeonHole
<1>6. CASE i = NumSlabs
  BY <1>1, <1>5, <1>6 DEF f
<1>7. CASE j = NumSlabs
  BY <1>1, <1>5, <1>7 DEF f
<1>8. CASE i # NumSlabs /\ j # NumSlabs
  <2>1. i \in 0 .. n /\ j \in 0 .. n
    BY <1>1, <1>8
  <2>2. f[i] = w[i] /\ f[j] = w[j]
    BY <1>8 DEF f
  <2> QED
    BY <2>1, <2>2, <1>5
<1> QED
  BY <1>6, <1>7, <1>8

\* Past its end a walk stays NULL, and before a slab there are only slabs.
LEMMA WalkShape ==
    ASSUME NEW h \in Pointers, NEW nx \in [Slabs -> Pointers],
           NEW n \in 0 .. NumSlabs
    PROVE  /\ WalkFrom(h, nx)[n] # NULL => \A i \in 0 .. n : WalkFrom(h, nx)[i] # NULL
           /\ WalkFrom(h, nx)[n] = NULL => \A i \in n .. NumSlabs : WalkFrom(h, nx)[i] = NULL
<1> DEFINE w == WalkFrom(h, nx)
<1>1. WalksTo(w, h, nx, NumSlabs)
  BY WalkFromFollows
<1> HIDE DEF w
<1>a. NumSlabs \in Nat /\ n \in Nat
  BY AllocatorAssumption
<1>2. ASSUME NEW a \in 0 .. NumSlabs, w[a] = NULL
      PROVE  \A i \in Nat : a + i <= NumSlabs => w[a + i] = NULL
  <2> DEFINE S == {i \in Nat : a + i <= NumSlabs => w[a + i] = NULL}
  <2>1. 0 \in S
    BY <1>2
  <2>2. ASSUME NEW i \in S
        PROVE  i + 1 \in S
    <3> SUFFICES ASSUME a + (i + 1) <= NumSlabs
                 PROVE  w[a + (i + 1)] = NULL
      OBVIOUS
    <3>1. /\ a + (i + 1) \in 0 .. NumSlabs /\ a + (i + 1) > 0
          /\ (a + (i + 1)) - 1 = a + i /\ w[a + i] = NULL
      BY <1>a
    <3>2. w[a + (i + 1)] = Follow(nx, w[(a + (i + 1)) - 1])
      BY <1>1, <3>1 DEF WalksTo
    <3> QED
      BY <3>1, <3>2 DEF Follow
  <2>3. S = Nat
    BY <2>1, <2>2, NatSteps
  <2> QED
    BY <2>3
<1>3. ASSUME NEW a \in 0 .. NumSlabs, w[a] = NULL, NEW b \in a .. NumSlabs
      PROVE  w[b] = NULL
  <2>1. b - a \in Nat /\ a + (b - a) = b /\ a + (b - a) <= NumSlabs
    BY <1>a
  <2> QED
    BY <1>2, <1>3, <2>1
<1>4. w[n] # NULL => \A i \in 0 .. n : w[i] # NULL
  <2> SUFFICES ASSUME w[n] # NULL, NEW i \in 0 .. n, w[i] = NULL
               PROVE  FALSE
    OBVIOUS
  <2>1. i \in 0 .. NumSlabs /\ n \in i .. NumSlabs
    BY <1>a
  <2> QED
    BY <2>1, <1>3
<1>5. w[n] = NULL => \A i \in n .. NumSlabs : w[i] = NULL
  BY <1>3
<1> QED
  BY <1>4, <1>5 DEF w

\* The store of s to the next field of w[n], the last slab of the list that
\* begins with h and visits w, which turns the next fields from nx into ny.
Appends(h, nx, ny, w, n, s) ==
    /\ h \in Pointers /\ nx \in [Slabs -> Pointers] /\ w = WalkFrom(h, nx)
    /\ n \in 0 .. NumSlabs - 1 /\ w[n] # NULL /\ w[n + 1] = NULL
    /\ \A i, j \in 0 .. NumSlabs : w[i] = w[j] /\ w[i] # NULL => i = j
    /\ s \in Slabs /\ nx[s] = NULL /\ \A i \in 0 .. NumSlabs : w[i] # s
    /\ ny = [nx EXCEPT ![w[n]] = s]

\* Storing s, whose next is NULL, to the next field of the last slab appends s.
LEMMA WalkAppend ==
    ASSUME NEW h, NEW nx, NEW ny, NEW w, NEW n, NEW s, Appends(h, nx, ny, w, n, s)
    PROVE  n + 1 < NumSlabs /\ WalkFrom(h, ny) = [w EXCEPT ![n + 1] = s]
<1> USE DEF Appends
<1> DEFINE f == [w EXCEPT ![n + 1] = s]
<1>1. WalksTo(w, h, nx, NumSlabs)
  BY WalkFromFollows
<1>a. NumSlabs \in Nat /\ n \in Nat /\ n + 1 \in 0 .. NumSlabs /\ n \in 0 .. NumSlabs
      /\ NULL \notin Slabs /\ s # NULL
  BY AllocatorAssumption, SlabAssumption
<1>2. /\ \A i \in 0 .. n : w[i] # NULL
      /\ \A i \in n + 1 .. NumSlabs : w[i] = NULL
  BY <1>a, WalkShape
<1>3. /\ w[n] # NULL /\ w[n + 1] = NULL
      /\ \A i, j \in 0 .. NumSlabs : w[i] = w[j] /\ w[i] # NULL => i = j
      /\ \A i \in 0 .. NumSlabs : w[i] # s
  OBVIOUS
<1>4. /\ w \in [0 .. NumSlabs -> Pointers] /\ w[0] = h
      /\ \A i \in 0 .. NumSlabs : i > 0 => w[i] = Follow(nx, w[i - 1])
  BY <1>1 DEF WalksTo
<1>5. n + 1 < NumSlabs
  BY <1>2, <1>3, <1>4, RoomToAppend
<1>6. f \in [0 .. NumSlabs -> Pointers] /\ f[0] = h
  BY <1>4, <1>a DEF Pointers
<1>7. ny \in [Slabs -> Pointers] /\ ny[w[n]] = s /\ \A p \in Slabs : p # w[n] => ny[p] = nx[p]
  BY <1>3, <1>4, <1>a DEF Pointers
<1>8. ASSUME NEW i \in 0 .. NumSlabs, i > 0
      PROVE  f[i] = Follow(ny, f[i - 1])
  <2>a. i - 1 \in 0 .. NumSlabs /\ i \in Nat
    BY <1>8, <1>a
  <2>1. CASE i = n + 1
    <3>1. f[i] = s /\ f[i - 1] = w[n]
      BY <2>1, <1>4, <1>a
    <3> QED
      BY <3>1, <1>3, <1>7 DEF Follow
  <2>2. CASE i = n + 2
    <3>1. f[i] = w[i] /\ f[i - 1] = s /\ w[i] = NULL
      BY <2>2, <1>2, <1>4, <1>a
    <3>2. s # w[n]
      BY <1>3, <1>a
    <3> QED
      BY <3>1, <3>2, <1>7, <1>a DEF Follow
  <2>3. CASE i # n + 1 /\ i # n + 2
    <3>1. f[i] = w[i] /\ f[i - 1] = w[i - 1]
      BY <2>3, <2>a, <1>4, <1>a
    <3>2. w[i] = Follow(nx, w[i - 1])
      BY <1>4, <1>8
    <3>3. w[i - 1] # NULL => w[i - 1] # w[n]
      BY <2>3, <2>a, <1>3, <1>a
    <3>4. w[i - 1] \in Pointers
      BY <1>4, <2>a
    <3> QED
      BY <3>1, <3>2, <3>3, <3>4, <1>7 DEF Follow, Pointers
  <2> QED
    BY <2>1, <2>2, <2>3
<1>9. WalksTo(f, h, ny, NumSlabs)
  BY <1>6, <1>8 DEF WalksTo
<1> HIDE DEF f
<1>10. WalkFrom(h, ny) = f
  BY <1>7, <1>9, WalkIs
<1> QED
  BY <1>5, <1>10 DEF f
=============================================================================
