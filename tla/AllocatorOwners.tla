-------------------------- MODULE AllocatorOwners --------------------------
(***************************************************************************)
(* The lists and the owners of the pinned allocator: a step keeps every    *)
(* list a chain that ends at its tail, and moves the ownership of at most  *)
(* one slab, the one the protocol says (StepLists).                        *)
(***************************************************************************)
EXTENDS AllocatorSteps

----------------------------------------------------------------------------
(***************************************************************************)
(* Who holds and who owns a slab.                                          *)
(***************************************************************************)

\* Two threads do not hold the same slab.
LEMMA OneHolder ==
    ASSUME Inv, NEW t \in Threads, NEW u \in Threads, NEW s, Holds(t, s), Holds(u, s)
    PROVE  t = u /\ s \in Made
<1>1. s \in Made
  BY DEF Inv, PinnedInv, LocalsInv, Holds, HoldLabels, SlabLabels
<1> QED
  BY <1>1, Ownership, OwnsOf DEF Inv

\* The slabs of a list are constructed and owned by the thread of the list's CPU.
LEMMA ListOwner ==
    ASSUME Inv, NEW j \in Classes, NEW d \in CPUs, NEW s, s \in Chain(j, d)
    PROVE  /\ s \in Made /\ cls[s] = j /\ head[j][d] # NULL
           /\ \E u \in Threads : d \in Affinity[u] /\ s \in Owns[u]
           /\ state[s] = OWNED
<1>1. ManagerTypeOK /\ ChainInv
  BY DEF Inv, PinnedInv, TypeOK
<1>2. s \in Slabs /\ cls[s] = j
  BY <1>1, ChainOf DEF ChainInv, ChainSound
<1>3. s \in Made
  BY <1>2, SlabAssumption DEF Made
<1>4. head[j][d] # NULL
  <2> SUFFICES ASSUME head[j][d] = NULL
               PROVE  FALSE
    OBVIOUS
  <2>1. Walk(j, d) = [i \in 0 .. NumSlabs |-> NULL]
    BY <1>1, WalkOf, WalkEmpty DEF Walk
  <2>2. PICK i \in 0 .. NumSlabs : Walk(j, d)[i] = s /\ s # NULL
    BY <1>1, ChainOf
  <2> QED
    BY <2>1, <2>2
<1>5. PICK u \in Threads : d \in Affinity[u]
  BY <1>1, <1>4 DEF ChainInv, ChainSound
<1>6. s \in Owns[u]
  BY <1>3, <1>5, OwnsOf
<1> QED
  BY <1>2, <1>3, <1>4, <1>5, <1>6, Ownership DEF Inv

\* A slab that is fresh, given up, or held but not being sent is in no list.
LEMMA InNoList ==
    ASSUME Inv, NEW t \in Threads,
           \/ pc[t] \in HoldLabels \ SendLabels
           \/ pc[t] = "construct"
           \/ state[this[t]] = UNOWNED,
           NEW j \in Classes, NEW d \in CPUs
    PROVE  this[t] \notin Chain(j, d)
<1> SUFFICES ASSUME this[t] \in Chain(j, d)
             PROVE  FALSE
  OBVIOUS
<1>1. cls[this[t]] = j /\ state[this[t]] = OWNED
  BY ListOwner
<1>2. CASE pc[t] \in HoldLabels \ SendLabels
  BY <1>2, HeldWhere DEF Holds, Inv
<1>3. CASE pc[t] = "construct"
  BY <1>1, <1>3, SlabAssumption DEF Inv, PinnedInv, DrawnInv
<1> QED
  BY <1>1, <1>2, <1>3 DEF OWNED, UNOWNED

\* A slab a thread holds, or has just sent, is owned by it.
LEMMA HolderOwns ==
    ASSUME Inv, NEW t \in Threads, pc[t] \in HoldLabels \union {"sent"}
    PROVE  this[t] \in Made /\ this[t] \in Owns[t] /\ state[this[t]] = OWNED
<1>1. this[t] \in Made
  BY DEF Inv, PinnedInv, LocalsInv, HoldLabels, SlabLabels, SendLabels
<1>2. this[t] \in Owns[t]
  <2>1. CASE pc[t] \in HoldLabels
    BY <1>1, <2>1, OwnsOf DEF Holds
  <2>2. CASE pc[t] = "sent"
    <3>1. size[t] \in Classes /\ \E c \in Affinity[t] : this[t] \in Chain(size[t], c)
      BY <2>2 DEF Inv, PinnedInv, LocalsInv, SendInv, SendSound
    <3> QED
      BY <1>1, <3>1, OwnsOf
  <2> QED
    BY <2>1, <2>2
<1> QED
  BY <1>1, <1>2, Ownership DEF Inv

\* What t owns after a step that leaves the lists of the other CPUs alone.
LEMMA OwnsStep ==
    ASSUME PinnedApart, Inv, NEW t \in Threads, Step(t), NEW c, Affinity[t] = {c}, c \in CPUs,
           \A j \in Classes, d \in CPUs : d # c => Chain(j, d)' = Chain(j, d),
           NEW S,
           \A s : s \in S <=> /\ s \in Made'
                              /\ (\E j \in Classes : s \in Chain(j, c)') \/ Holds(t, s)'
    PROVE  Owns' = [Owns EXCEPT ![t] = S]
<1>1. Owns'[t] = S
  <2>1. Owns'[t] = {s \in Made' : (\E j \in Classes, d \in Affinity[t] : s \in Chain(j, d)')
                                  \/ Holds(t, s)'}
    BY DEF Owns
  <2> QED
    BY <2>1
<1>2. ASSUME NEW u \in Threads, u # t
      PROVE  Owns'[u] = Owns[u]
  <2>1. \A s : Holds(u, s)' <=> Holds(u, s)
    BY <1>2, OthersKeep DEF Holds, Inv, PinnedInv
  <2>2. \A d \in Affinity[u] : d \in CPUs /\ d # c
    BY <1>2, MachineAssumption DEF PinnedApart
  <2>3. \A j \in Classes, d \in Affinity[u] : Chain(j, d)' = Chain(j, d)
    BY <2>2
  <2>4. \A j \in Classes, d \in Affinity[u] : \A s \in Chain(j, d) : s \in Made /\ s \in Made'
    BY <2>2, ListOwner, ClassesKept DEF Inv
  <2>5. \A s : Holds(u, s) => s \in Made /\ s \in Made'
    BY OneHolder, ClassesKept DEF Inv
  <2>6. Owns'[u] = {s \in Made' : (\E j \in Classes, d \in Affinity[u] : s \in Chain(j, d)')
                                  \/ Holds(u, s)'}
    BY DEF Owns
  <2>7. Owns[u] = {s \in Made : (\E j \in Classes, d \in Affinity[u] : s \in Chain(j, d))
                                \/ Holds(u, s)}
    BY DEF Owns
  <2> QED
    BY <2>1, <2>3, <2>4, <2>5, <2>6, <2>7
<1>3. Owns = [u \in Threads |-> Owns[u]] /\ Owns' = [u \in Threads |-> Owns'[u]]
  BY DEF Owns
<1> QED
  BY <1>1, <1>2, <1>3

----------------------------------------------------------------------------
(***************************************************************************)
(* The lists, step by step.                                                *)
(***************************************************************************)

\* A list that a step does not change, and of which nobody takes or drops a slab,
\* stays sound.
LEMMA ListFrame ==
    ASSUME Inv, NEW t \in Threads, Step(t), NEW j \in Classes, NEW d \in CPUs,
           Walk(j, d)' = Walk(j, d), head'[j][d] = head[j][d], tail'[j][d] = tail[j][d],
           \A s \in Chain(j, d) : /\ Holds(t, s)' <=> Holds(t, s)
                                  /\ Linking(t, s)' <=> Linking(t, s)
    PROVE  ChainSound(j, d)' /\ TailSound(j, d)'
<1>1. ManagerTypeOK /\ ChainSound(j, d) /\ TailSound(j, d)
  BY DEF Inv, PinnedInv, TypeOK, ChainInv, TailInv
<1>2. \A s \in Chain(j, d) : cls'[s] = cls[s]
  BY ListOwner, ClassesKept DEF Inv
<1>3. \A i \in 0 .. NumSlabs : Walk(j, d)[i] # NULL => Walk(j, d)[i] \in Chain(j, d)
  BY <1>1, ChainOf
<1>4. ASSUME NEW u \in Threads, NEW s \in Chain(j, d)
      PROVE  (Holds(u, s)' <=> Holds(u, s)) /\ (Linking(u, s)' <=> Linking(u, s))
  BY OthersKeep DEF Holds, Linking, Inv, PinnedInv
<1>5. ChainSound(j, d)'
  BY <1>1, <1>2, <1>3 DEF ChainSound
<1>6. \A n \in 0 .. NumSlabs - 1 : n \in 0 .. NumSlabs
  BY AllocatorAssumption
<1>7. TailSound(j, d)'
  BY <1>1, <1>3, <1>4, <1>6 DEF TailSound
<1> QED
  BY <1>5, <1>7

\* Sending stays sound for the other threads, whose lists a step of t leaves alone.
LEMMA SendFrame ==
    ASSUME PinnedApart, Inv, NEW t \in Threads, Step(t), NEW c, Affinity[t] = {c},
           \A j \in Classes, d \in CPUs : d # c =>
               /\ Chain(j, d)' = Chain(j, d)
               /\ head'[j][d] = head[j][d] /\ tail'[j][d] = tail[j][d],
           \A u \in Threads \ {t} : pc[u] \in SendLabels => next'[this[u]] = next[this[u]],
           SendSound(t)'
    PROVE  SendInv'
<1> SUFFICES ASSUME NEW u \in Threads, u # t
             PROVE  SendSound(u)'
  BY DEF SendInv
<1>1. SendSound(u) /\ TypeOK /\ LocalsInv
  BY DEF Inv, PinnedInv, SendInv
<1>2. /\ pc'[u] = pc[u] /\ this'[u] = this[u] /\ size'[u] = size[u]
  BY <1>1, OthersKeep
<1>3. \A d \in Affinity[u] : d \in CPUs /\ d # c
  BY MachineAssumption DEF PinnedApart
<1>4. CASE pc[u] \in CommitLabels \union {"sent"}
  <2>1. size[u] \in Classes
    BY <1>1, <1>4 DEF LocalsInv, CommitLabels
  <2>2. \A d \in Affinity[u] :
           /\ head'[size[u]][d] = head[size[u]][d] /\ tail'[size[u]][d] = tail[size[u]][d]
    BY <1>3, <2>1
  <2>3. ASSUME NEW d \in Affinity[u]
        PROVE  Chain(size[u], d)' = Chain(size[u], d)
    <3>1. \A j \in Classes : Chain(j, d)' = Chain(j, d)
      BY <1>3
    <3>2. \A j : j = size[u] => Chain(size[u], d)' = Chain(j, d)'
      BY <1>2 DEF Chain, Walk
    <3> QED
      BY <2>1, <3>1, <3>2
  <2> QED
    BY <1>1, <1>2, <2>2, <2>3 DEF SendSound
<1>5. CASE pc[u] \notin CommitLabels \union {"sent"}
  BY <1>1, <1>2, <1>5 DEF SendSound
<1> QED
  BY <1>4, <1>5

\* Between two stores of _send_slab() a list is sound, and the slab still its
\* sender's; both stores of t's list leave the others' alone.
LEMMA SendFirstLists ==
    ASSUME PinnedApart, Inv, NEW t \in Threads, Running(t), Step(t), NEW l, NEW m,
           l \in SendLabels, m \in CommitLabels, SendFirst(t, l, m),
           NEW k, NEW c, k = size[t], c = CPUOf(t)
    PROVE  ChainInv' /\ TailInv' /\ SendInv' /\ Owns' = Owns
<1>1. ManagerTypeOK /\ ChainInv /\ TailInv /\ LocalsInv /\ SendInv /\ PinnedInv /\ TypeOK
  BY DEF Inv, PinnedInv, TypeOK
<1>2. /\ pc[t] = l /\ pc[t] \in SendLabels /\ pc[t] # "idle" /\ Holds(t, this[t])
      /\ this[t] \in Made /\ this[t] \in Slabs /\ cls[this[t]] = k /\ k \in Classes
      /\ next[this[t]] = NULL /\ this[t] # NULL
  BY <1>1, SlabAssumption
     DEF SendFirst, LocalsInv, SendInv, SendSound, SendLabels, Made, Holds, HoldLabels
<1>3. c \in CPUs /\ Affinity[t] = {c}
  BY OnHome DEF Inv, PinnedInv
<1>4. head' = head /\ cls' = cls /\ this' = this /\ size' = size /\ pc'[t] = m /\ Made' = Made
  BY <1>1 DEF SendFirst, slabVars, regVars, opVars, Goto, Made, TypeOK
<1>5. /\ pc'[t] \in SendLabels /\ pc'[t] \in HoldLabels
      /\ \A s : Holds(t, s)' <=> Holds(t, s)
      /\ \A s : Linking(t, s)' <=> Linking(t, s)
  BY <1>2, <1>4 DEF CommitLabels, SendLabels, HoldLabels, Holds, Linking
<1>6. /\ OtherWalks(k, c)
      /\ \/ SendsEmpty(t, k, c)
         \/ SendsLinked(t, k, c)
         \/ \E n \in 0 .. NumSlabs : SendsAppend(t, k, c, n)
  BY SendFirstWalks
<1>7. \A j \in Classes, d \in CPUs : j # k \/ d # c => tail'[j][d] = tail[j][d]
  BY <1>1, <1>2, <1>3, <1>6 DEF SendsEmpty, SendsLinked, SendsAppend, ManagerTypeOK
<1>8. \A j \in Classes, d \in CPUs : j # k \/ d # c => Chain(j, d)' = Chain(j, d)
  BY <1>6 DEF OtherWalks, Chain
<1>9. \A j \in Classes, d \in CPUs : j # k \/ d # c => ChainSound(j, d)' /\ TailSound(j, d)'
  BY <1>4, <1>5, <1>6, <1>7, ListFrame DEF OtherWalks
<1>a. /\ Walk(k, c) \in [0 .. NumSlabs -> Pointers]
      /\ \A i \in 0 .. NumSlabs :
            /\ Walk(k, c)[i] # NULL => \A j \in 0 .. i : Walk(k, c)[j] # NULL
            /\ Walk(k, c)[i] = NULL => \A j \in i .. NumSlabs : Walk(k, c)[j] = NULL
  BY <1>1, <1>2, <1>3, WalkOf, WalkShape DEF Walk
<1>b. ASSUME \A s : s \in Chain(k, c)' \/ s = this[t] <=> s \in Chain(k, c) \/ s = this[t]
      PROVE  Owns' = Owns
  <2>1. \A s : s \in Owns[t] <=> /\ s \in Made'
                                 /\ (\E j \in Classes : s \in Chain(j, c)') \/ Holds(t, s)'
    BY <1>2, <1>3, <1>4, <1>5, <1>8, <1>b, OwnsOf DEF Holds
  <2>2. Owns' = [Owns EXCEPT ![t] = Owns[t]]
    BY <1>3, <1>8, <2>1, OwnsStep
  <2> QED
    BY <2>2 DEF Owns
<1>c. ASSUME next' = next
      PROVE  SendSound(t)' => SendInv'
  BY <1>3, <1>4, <1>7, <1>8, <1>c, SendFrame
<1>d. CASE SendsEmpty(t, k, c)
  <2>1. Walk(k, c) = [i \in 0 .. NumSlabs |-> NULL]
    BY <1>1, <1>2, <1>3, <1>d, WalkOf, WalkEmpty DEF Walk, SendsEmpty
  <2>2. Walk(k, c)' = Walk(k, c) /\ Chain(k, c)' = Chain(k, c) /\ next' = next
    BY <1>d DEF SendsEmpty, Chain
  <2>3. ChainSound(k, c)'
    BY <1>1, <1>2, <1>3, <1>4, <2>2 DEF ChainInv, ChainSound
  <2>4. TailSound(k, c)'
    <3>1. \A n \in 0 .. NumSlabs - 1 : n \in 0 .. NumSlabs
      BY AllocatorAssumption
    <3> QED
      BY <2>1, <2>2, <3>1 DEF TailSound
  <2>5. tail'[k][c] = this[t] /\ head'[k][c] = NULL
    BY <1>1, <1>2, <1>3, <1>4, <1>d DEF SendsEmpty, ManagerTypeOK
  <2>6. SendSound(t)'
    BY <1>2, <1>3, <1>4, <1>5, <2>2, <2>5 DEF SendSound, CommitLabels
  <2> QED
    BY <1>9, <1>b, <1>c, <2>2, <2>3, <2>4, <2>6 DEF ChainInv, TailInv
<1>e. CASE SendsLinked(t, k, c)
  <2>1. /\ Walk(k, c)' = Walk(k, c) /\ Chain(k, c)' = Chain(k, c) /\ next' = next /\ tail' = tail
        /\ this[t] \in Chain(k, c)
    BY <1>e DEF SendsLinked, Chain
  <2>2. ChainSound(k, c)' /\ TailSound(k, c)'
    BY <1>2, <1>3, <1>4, <1>5, <2>1, ListFrame
  <2>3. SendSound(t)'
    <3>1. Chain(size[t], c)' = Chain(k, c)'
      BY <1>4 DEF Chain, Walk
    <3>2. head'[k][c] # NULL
      BY <1>e, <1>4 DEF SendsLinked
    <3> QED
      BY <1>2, <1>3, <1>4, <1>5, <2>1, <3>1, <3>2 DEF SendSound, CommitLabels
  <2> QED
    BY <1>9, <1>b, <1>c, <2>1, <2>2, <2>3 DEF ChainInv, TailInv
<1>f. ASSUME NEW n \in 0 .. NumSlabs, SendsAppend(t, k, c, n)
      PROVE  ChainInv' /\ TailInv' /\ SendInv' /\ Owns' = Owns
  <2> SUFFICES ASSUME NEW w, w = Walk(k, c), NEW v, v = Walk(k, c)'
               PROVE  ChainInv' /\ TailInv' /\ SendInv' /\ Owns' = Owns
    OBVIOUS
  <2>1. /\ w[n] = tail[k][c] /\ w[n] # NULL /\ w[n + 1] = NULL
        /\ v = [w EXCEPT ![n + 1] = this[t]] /\ tail' = tail
        /\ n + 1 < NumSlabs /\ n \in Nat /\ NumSlabs \in Nat
        /\ head[k][c] # NULL
    BY <1>f, AllocatorAssumption DEF SendsAppend
  <2>2. \A i \in 0 .. NumSlabs : w[i] # this[t]
    BY <1>1, <1>2, <1>3, <1>f, ChainOf DEF SendsAppend
  <2>3. /\ w[NumSlabs] = NULL
        /\ \A i, j \in 0 .. NumSlabs : w[i] = w[j] /\ w[i] # NULL => i = j
        /\ \A i \in 0 .. NumSlabs : w[i] # NULL => cls[w[i]] = k
        /\ head[k][c] # NULL => \E u \in Threads : c \in Affinity[u]
    BY <1>1, <1>2, <1>3 DEF ChainInv, ChainSound
  <2>4. \A i \in 0 .. NumSlabs, u \in Threads : w[i] # NULL /\ Holds(u, w[i]) =>
            Linking(u, w[i]) /\ c \in Affinity[u] /\ i > 0 /\ w[i - 1] = tail[k][c]
    BY <1>1, <1>2, <1>3 DEF TailInv, TailSound
  <2>5. w \in [0 .. NumSlabs -> Pointers]
        /\ (\A i \in 0 .. n : w[i] # NULL) /\ \A i \in n + 1 .. NumSlabs : w[i] = NULL
    BY <1>a, <2>1
  <2>6. /\ v[n + 1] = this[t]
        /\ \A i \in 0 .. NumSlabs : i # n + 1 => v[i] = w[i]
        /\ \A i \in 0 .. n + 1 : v[i] # NULL
        /\ \A i \in n + 2 .. NumSlabs : v[i] = NULL
    BY <1>2, <2>1, <2>5
  <2>7. \A s : s \in Chain(k, c)' <=> s \in Chain(k, c) \/ s = this[t]
    <3>1. \A s : s \in Chain(k, c) <=> s # NULL /\ \E i \in 0 .. NumSlabs : w[i] = s
      BY <1>1, <1>2, <1>3, ChainOf
    <3>2. Chain(k, c)' = {v[i] : i \in 0 .. NumSlabs} \ {NULL}
      BY <2>1, <2>5 DEF Chain, Range
    <3>3. n + 1 \in 0 .. NumSlabs
      BY <2>1
    <3>4. \A s : s \in Chain(k, c)' <=> s # NULL /\ \E i \in 0 .. NumSlabs : v[i] = s
      BY <3>2
    <3> QED
      BY <1>2, <2>1, <2>6, <3>1, <3>3, <3>4
  <2>8. /\ v[NumSlabs] = NULL
        /\ \A i, j \in 0 .. NumSlabs : v[i] = v[j] /\ v[i] # NULL => i = j
        /\ \A i \in 0 .. NumSlabs : v[i] # NULL => cls[v[i]] = k
    BY <1>2, <2>1, <2>2, <2>3, <2>6
  <2>9. ChainSound(k, c)'
    BY <1>4, <2>3, <2>8 DEF ChainSound
  <2>10. \A i \in 0 .. NumSlabs - 1 : v[i] # NULL /\ v[i + 1] = NULL =>
             \E u \in Threads : Holds(u, v[i])'
    <3> SUFFICES ASSUME NEW i \in 0 .. NumSlabs - 1, v[i] # NULL, v[i + 1] = NULL
                 PROVE  Holds(t, this[t])' /\ v[i] = this[t]
      BY <1>4 DEF Holds
    <3>1. i \in Nat /\ i \in 0 .. NumSlabs /\ i + 1 \in 0 .. NumSlabs
      BY <2>1
    <3>2. i = n + 1
      BY <2>1, <2>6, <3>1
    <3> QED
      BY <1>2, <1>4, <1>5, <2>6, <3>2 DEF Holds
  <2>11. ASSUME NEW i \in 0 .. NumSlabs, NEW u \in Threads, v[i] # NULL, NEW s, s = v[i],
                Holds(u, s)'
         PROVE  Linking(u, s)' /\ c \in Affinity[u] /\ i > 0 /\ v[i - 1] = tail'[k][c]
    <3>1. Holds(u, s) /\ this'[u] = this[u] /\ this[u] = s
      BY <1>1, <1>5, <2>11, OthersKeep DEF Holds
    <3>2. CASE i = n + 1
      <4>1. s = this[t]
        BY <2>6, <2>11, <3>2
      <4>2. u = t
        BY <1>2, <3>1, <4>1, OneHolder
      <4>3. i - 1 = n /\ n \in 0 .. NumSlabs /\ n # n + 1 /\ i > 0
        BY <2>1, <3>2
      <4>4. v[i - 1] = w[n]
        BY <2>6, <4>3
      <4> QED
        BY <1>3, <1>4, <1>5, <2>1, <4>1, <4>2, <4>3, <4>4 DEF Linking
    <3>3. CASE i # n + 1
      <4>1. w[i] = s /\ w[i] # NULL
        BY <2>6, <2>11, <3>3
      <4>2. i > 0 /\ w[i - 1] = w[n]
        BY <2>1, <2>4, <3>1, <4>1
      <4>3. i - 1 \in 0 .. NumSlabs /\ n \in 0 .. NumSlabs /\ i \in Nat
        BY <2>1, <4>2
      <4>4. i - 1 = n
        BY <2>1, <2>3, <4>2, <4>3
      <4> QED
        BY <2>1, <3>3, <4>3, <4>4
    <3> QED
      BY <3>2, <3>3
  <2>12. TailSound(k, c)'
    BY <2>10, <2>11 DEF TailSound
  <2>13. /\ tail[k][c] \in Chain(k, c) /\ tail[k][c] \in Slabs
         /\ \A j \in Classes, d \in CPUs : this[t] \notin Chain(j, d)
         /\ next' = [next EXCEPT ![tail[k][c]] = this[t]]
    BY <1>1, <1>2, <1>3, <1>f, ChainOf DEF SendsAppend
  <2>14. \A u \in Threads \ {t} : pc[u] \in SendLabels => next'[this[u]] = next[this[u]]
    <3> SUFFICES ASSUME NEW u \in Threads \ {t}, pc[u] \in SendLabels
                 PROVE  this[u] # tail[k][c] /\ this[u] \in Slabs
      BY <1>1, <2>13 DEF ManagerTypeOK
    <3>1. this[u] \in Made /\ this[u] \in Owns[u]
      BY HolderOwns DEF HoldLabels
    <3>2. this[u] # tail[k][c]
      <4>1. tail[k][c] \in Made /\ tail[k][c] \in Owns[t]
        BY <1>2, <1>3, <2>13, ListOwner, OwnsOf
      <4> QED
        BY <3>1, <4>1, Ownership DEF Inv
    <3> QED
      BY <3>1, <3>2 DEF Made
  <2>15. SendSound(t)'
    <3>1. next'[this[t]] = NULL
      BY <1>1, <1>2, <1>3, <2>13 DEF ManagerTypeOK
    <3>2. this[t] \in Chain(k, c)' /\ head'[k][c] # NULL
      BY <1>4, <2>1, <2>7
    <3>3. Chain(size[t], c)' = Chain(k, c)'
      BY <1>4 DEF Chain, Walk
    <3> QED
      BY <1>3, <1>4, <1>5, <3>1, <3>2, <3>3 DEF SendSound, CommitLabels
  <2>16. SendInv'
    BY <1>3, <1>4, <1>7, <1>8, <2>14, <2>15, SendFrame
  <2> QED
    BY <1>9, <1>b, <2>7, <2>9, <2>12, <2>16 DEF ChainInv, TailInv
<1> QED
  BY <1>6, <1>d, <1>e, <1>f

\* The same for the commit, after which the slab belongs to t through the list.
LEMMA SendCommitLists ==
    ASSUME PinnedApart, Inv, NEW t \in Threads, Running(t), Step(t), NEW l, NEW r, NEW x,
           l \in CommitLabels, SendCommit(t, l, r, x), r \in {"inner", "idle", "sent"},
           r = "sent" => x = this[t] /\ size'[t] = size[t],
           NEW k, NEW c, k = size[t], c = CPUOf(t)
    PROVE  ChainInv' /\ TailInv' /\ SendInv' /\ Owns' = Owns
<1>1. ManagerTypeOK /\ ChainInv /\ TailInv /\ LocalsInv /\ SendInv /\ PinnedInv /\ TypeOK
  BY DEF Inv, PinnedInv, TypeOK
<1>2. /\ pc[t] = l /\ pc[t] \in SendLabels /\ pc[t] # "idle" /\ Holds(t, this[t])
      /\ this[t] \in Made /\ this[t] \in Slabs /\ cls[this[t]] = k /\ k \in Classes
      /\ next[this[t]] = NULL /\ this[t] # NULL
  BY <1>1, SlabAssumption DEF SendCommit, LocalsInv, SendInv, SendSound, SendLabels,
     CommitLabels, Made, Holds, HoldLabels
<1>3. c \in CPUs /\ Affinity[t] = {c}
  BY OnHome DEF Inv, PinnedInv
<1>4. /\ next' = next /\ cls' = cls /\ Made' = Made /\ pc'[t] = r
      /\ pc'[t] \notin SendLabels /\ pc'[t] \notin HoldLabels /\ pc'[t] \notin CommitLabels
      /\ this'[t] = x
  BY <1>1 DEF SendCommit, slabVars, Return, Goto, Made, TypeOK, SlabTypeOK, SendLabels,
     HoldLabels, CommitLabels
<1>5. \A s : ~ Holds(t, s)' /\ ~ Linking(t, s)' /\ (Holds(t, s) => s = this[t])
             /\ (Linking(t, s) => s = this[t])
  BY <1>4 DEF Holds, Linking
<1>6. OtherWalks(k, c) /\ (CommitsEmpty(t, k, c) \/ CommitsLinked(t, k, c))
  BY SendCommitWalks
<1>7. \A j \in Classes, d \in CPUs : j # k \/ d # c =>
         tail'[j][d] = tail[j][d] /\ head'[j][d] = head[j][d]
  BY <1>1, <1>2, <1>3, <1>6 DEF CommitsEmpty, CommitsLinked, ManagerTypeOK
<1>8. \A j \in Classes, d \in CPUs : j # k \/ d # c => Chain(j, d)' = Chain(j, d)
  BY <1>6 DEF OtherWalks, Chain
<1>9. ASSUME NEW j \in Classes, NEW d \in CPUs, j # k \/ d # c
      PROVE  ChainSound(j, d)' /\ TailSound(j, d)'
  <2>1. this[t] \notin Chain(j, d)
    BY <1>1, <1>2, <1>3, <1>9, HeldWhere
  <2>2. \A s \in Chain(j, d) : (Holds(t, s)' <=> Holds(t, s)) /\ (Linking(t, s)' <=> Linking(t, s))
    BY <1>5, <2>1
  <2> QED
    BY <1>6, <1>7, <1>9, <2>2, ListFrame DEF OtherWalks
<1>a. ASSUME \A s : s \in Chain(k, c)' <=> s \in Chain(k, c) \/ s = this[t]
      PROVE  Owns' = Owns /\ SendInv'
  <2>1. \A s : s \in Owns[t] <=> /\ s \in Made'
                                 /\ (\E j \in Classes : s \in Chain(j, c)') \/ Holds(t, s)'
    BY <1>2, <1>3, <1>4, <1>5, <1>8, <1>a, OwnsOf DEF Holds
  <2>2. Owns' = [Owns EXCEPT ![t] = Owns[t]]
    BY ZenonT(60), <1>3, <1>8, <2>1, OwnsStep
  <2>3. SendSound(t)'
    <3>1. ASSUME r = "sent"
          PROVE  this'[t] \in Chain(size[t], c)'
      <4>1. Chain(size[t], c)' = Chain(k, c)'
        BY <3>1 DEF Chain, Walk
      <4> QED
        BY <1>4, <1>a, <3>1, <4>1
    <3> QED
      BY <1>3, <1>4, <3>1 DEF SendSound
  <2>4. SendInv'
    BY <1>3, <1>4, <1>7, <1>8, <2>3, SendFrame
  <2> QED
    BY <2>2, <2>4 DEF Owns
<1>b. CASE CommitsEmpty(t, k, c)
  <2> SUFFICES ASSUME NEW v, v = Walk(k, c)'
               PROVE  ChainInv' /\ TailInv' /\ SendInv' /\ Owns' = Owns
    OBVIOUS
  <2>1. /\ v = [i \in 0 .. NumSlabs |-> IF i = 0 THEN this[t] ELSE NULL]
        /\ Walk(k, c) = [i \in 0 .. NumSlabs |-> NULL]
        /\ tail'[k][c] = this[t]
    BY <1>b DEF CommitsEmpty
  <2>2. NumSlabs \in Nat /\ NumSlabs > 0
    BY <1>2, AllocatorAssumption
  <2>3. v[0] = this[t] /\ \A i \in 0 .. NumSlabs : i # 0 => v[i] = NULL
    BY <2>1, <2>2
  <2>4. \A s : s \in Chain(k, c)' <=> s \in Chain(k, c) \/ s = this[t]
    <3>1. Chain(k, c) = {}
      BY <2>1 DEF Chain, Range
    <3>2. Chain(k, c)' = {this[t]}
      BY <1>2, <2>1, <2>2 DEF Chain, Range
    <3> QED
      BY <3>1, <3>2
  <2>5. ChainSound(k, c)'
    BY <1>2, <1>3, <1>4, <2>2, <2>3 DEF ChainSound
  <2>6. ASSUME NEW u \in Threads, Holds(u, v[0])'
        PROVE  FALSE
    <3>1. u # t /\ Holds(u, this[t])
      BY <1>1, <1>5, <2>3, <2>6, OthersKeep DEF Holds
    <3> QED
      BY <1>2, <3>1, OneHolder
  <2>7. ~ \E u \in Threads : Holds(u, v[0])'
    BY <2>6
  <2>8. TailSound(k, c)'
    <3>1. \A n \in 0 .. NumSlabs - 1 : n \in 0 .. NumSlabs
      BY <2>2
    <3>2. \A n \in 0 .. NumSlabs : v[n] # NULL => n = 0
      BY <2>3
    <3> QED
      BY <2>1, <2>3, <2>7, <3>1, <3>2 DEF TailSound
  <2> QED
    BY <1>9, <1>a, <2>4, <2>5, <2>8 DEF ChainInv, TailInv
<1>c. CASE CommitsLinked(t, k, c)
  <2> SUFFICES ASSUME NEW w, w = Walk(k, c)
               PROVE  ChainInv' /\ TailInv' /\ SendInv' /\ Owns' = Owns
    OBVIOUS
  <2>1. /\ Walk(k, c)' = w /\ Chain(k, c)' = Chain(k, c) /\ head' = head
        /\ this[t] \in Chain(k, c) /\ tail'[k][c] = this[t]
    BY <1>1, <1>2, <1>3, <1>c DEF CommitsLinked, Chain, ManagerTypeOK
  <2>2. ChainSound(k, c)'
    BY <1>1, <1>2, <1>3, <1>4, <2>1 DEF ChainInv, ChainSound
  <2>3. PICK i \in 1 .. NumSlabs : w[i] = this[t] /\ w[i - 1] = tail[k][c]
    BY <1>1, <1>2, <1>3, <2>1, HeldWhere
  <2>4. /\ w[NumSlabs] = NULL
        /\ \A m, n \in 0 .. NumSlabs : w[m] = w[n] /\ w[m] # NULL => m = n
    BY <1>1, <1>2, <1>3 DEF ChainInv, ChainSound
  <2>5. /\ i \in 0 .. NumSlabs /\ i - 1 \in 0 .. NumSlabs /\ i \in Nat /\ NumSlabs \in Nat
        /\ i < NumSlabs /\ i + 1 \in 0 .. NumSlabs /\ i \in 0 .. NumSlabs - 1
    BY <1>2, <2>3, <2>4, AllocatorAssumption
  <2>6. w[i + 1] = NULL
    BY <1>1, <1>2, <1>3, <2>3, <2>5, WalkOf
  <2>7. (\A n \in 0 .. i : w[n] # NULL) /\ \A n \in i + 1 .. NumSlabs : w[n] = NULL
    BY <1>1, <1>2, <1>3, <2>3, <2>5, <2>6, WalkOf, WalkShape DEF Walk
  <2>8. ASSUME NEW n \in 0 .. NumSlabs - 1, w[n] # NULL, w[n + 1] = NULL
        PROVE  w[n] = tail'[k][c]
    <3>1. n = i
      BY <2>5, <2>7, <2>8
    <3> QED
      BY <2>1, <2>3, <3>1
  <2>9. ASSUME NEW n \in 0 .. NumSlabs, NEW u \in Threads, w[n] # NULL, Holds(u, w[n])'
        PROVE  FALSE
    <3>1. u # t /\ Holds(u, w[n])
      BY <1>1, <1>5, <2>9, OthersKeep DEF Holds
    <3>2. n > 0 /\ w[n - 1] = tail[k][c]
      BY <1>1, <1>2, <1>3, <2>9, <3>1 DEF TailInv, TailSound
    <3>3. n - 1 \in 0 .. NumSlabs /\ n \in Nat /\ i - 1 \in 0 .. i
      BY <2>5, <3>2
    <3>4. n = i
      BY <2>3, <2>4, <2>5, <2>7, <3>2, <3>3
    <3> QED
      BY <1>2, <2>3, <3>1, <3>4, OneHolder
  <2>10. TailSound(k, c)'
    BY <2>1, <2>8, <2>9 DEF TailSound
  <2> QED
    BY <1>9, <1>a, <2>1, <2>2, <2>10 DEF ChainInv, TailInv
<1> QED
  BY <1>6, <1>b, <1>c

\* The slab _cas_set_next_available_slab() unlinks stays t's, who now holds it.
LEMMA CasLists ==
    ASSUME PinnedApart, Inv, NEW t \in Threads, Running(t), Step(t), CasSetNext(t, "release"),
           NEW k, NEW c, k = size[t], c = CPUOf(t)
    PROVE  ChainInv' /\ TailInv' /\ SendInv' /\ Owns' = Owns
<1> SUFFICES ASSUME NEW w, w = Walk(k, c), NEW v, v = Walk(k, c)'
             PROVE  ChainInv' /\ TailInv' /\ SendInv' /\ Owns' = Owns
  OBVIOUS
<1>1. ManagerTypeOK /\ ChainInv /\ TailInv /\ LocalsInv /\ SendInv /\ PinnedInv /\ TypeOK
  BY DEF Inv, PinnedInv, TypeOK
<1>2. /\ pc[t] = "full" /\ pc[t] \notin HoldLabels /\ k \in Classes /\ this[t] \in Made
      /\ this[t] \in Slabs /\ this[t] # NULL
  BY <1>1, SlabAssumption DEF CasSetNext, LocalsInv, HoldLabels, SendLabels, SlabLabels, Made
<1>3. c \in CPUs /\ Affinity[t] = {c}
  BY OnHome DEF Inv, PinnedInv
<1>4. /\ next' = next /\ tail' = tail /\ cls' = cls /\ Made' = Made /\ pc'[t] = "release"
      /\ this'[t] = this[t] /\ pc'[t] \in HoldLabels
  BY <1>1 DEF CasSetNext, slabVars, regVars, Goto, Made, TypeOK, HoldLabels
<1>5. \A s : /\ ~ Holds(t, s) /\ ~ Linking(t, s) /\ ~ Linking(t, s)'
             /\ Holds(t, s)' <=> s = this[t]
  BY <1>2, <1>4 DEF Holds, Linking, HoldLabels, SendLabels
<1>6. /\ OtherWalks(k, c)
      /\ head[k][c] = this[t]
      /\ head' = [head EXCEPT ![k][c] = next[this[t]]]
      /\ v = [i \in 0 .. NumSlabs |-> IF i = NumSlabs THEN NULL ELSE w[i + 1]]
  <2>1. OtherWalks(k, c) /\ Takes(t, k, c)
    BY CasWalks
  <2> QED
    BY <2>1 DEF Takes
<1>7. /\ \A j \in Classes, d \in CPUs : j # k \/ d # c => head'[j][d] = head[j][d]
      /\ head'[k][c] = next[this[t]]
  BY <1>1, <1>2, <1>3, <1>6 DEF ManagerTypeOK
<1>8. \A j \in Classes, d \in CPUs : j # k \/ d # c => Chain(j, d)' = Chain(j, d)
  BY <1>6 DEF OtherWalks, Chain
<1>9. /\ w \in [0 .. NumSlabs -> Pointers] /\ w[0] = this[t] /\ NumSlabs \in Nat /\ NumSlabs > 0
      /\ w[NumSlabs] = NULL
      /\ \A i, j \in 0 .. NumSlabs : w[i] = w[j] /\ w[i] # NULL => i = j
      /\ \A i \in 0 .. NumSlabs : w[i] # NULL => cls[w[i]] = k
  BY <1>1, <1>2, <1>3, <1>6, WalkOf, AllocatorAssumption DEF ChainInv, ChainSound
<1>10. this[t] \in Chain(k, c)
  BY <1>1, <1>2, <1>3, <1>9, ChainOf
<1>11. ASSUME NEW j \in Classes, NEW d \in CPUs, j # k \/ d # c
       PROVE  ChainSound(j, d)' /\ TailSound(j, d)'
  <2>1. this[t] \notin Chain(j, d)
    BY <1>2, <1>3, <1>10, <1>11, ChainsApart
  <2>2. \A s \in Chain(j, d) : (Holds(t, s)' <=> Holds(t, s)) /\ (Linking(t, s)' <=> Linking(t, s))
    BY <1>5, <2>1
  <2> QED
    BY <1>4, <1>6, <1>7, <1>11, <2>2, ListFrame DEF OtherWalks
<1>12. /\ v[NumSlabs] = NULL /\ \A i \in 0 .. NumSlabs - 1 : v[i] = w[i + 1]
       /\ \A i \in 0 .. NumSlabs : v[i] # NULL => i + 1 \in 0 .. NumSlabs /\ v[i] = w[i + 1]
  BY <1>6, <1>9
<1>13. \A s : s \in Chain(k, c)' \/ s = this[t] <=> s \in Chain(k, c)
  <2>1. \A s : s \in Chain(k, c) <=> s # NULL /\ \E i \in 0 .. NumSlabs : w[i] = s
    BY <1>1, <1>2, <1>3, ChainOf
  <2>2. Chain(k, c)' = {v[i] : i \in 0 .. NumSlabs} \ {NULL}
    BY <1>6 DEF Chain, Range
  <2>3. ASSUME NEW s, s \in Chain(k, c), s # this[t]
        PROVE  s \in Chain(k, c)'
    <3>1. PICK i \in 0 .. NumSlabs : w[i] = s /\ s # NULL
      BY <2>1, <2>3
    <3>2. i > 0 /\ i - 1 \in 0 .. NumSlabs - 1 /\ i - 1 \in 0 .. NumSlabs /\ (i - 1) + 1 = i
      BY <1>9, <2>3, <3>1
    <3>3. v[i - 1] = s
      BY <1>12, <3>1, <3>2
    <3> QED
      BY <2>2, <3>1, <3>2, <3>3
  <2>4. ASSUME NEW s, s \in Chain(k, c)'
        PROVE  s \in Chain(k, c)
    <3>1. PICK i \in 0 .. NumSlabs : v[i] = s /\ s # NULL
      BY <2>2, <2>4
    <3> QED
      BY <1>12, <2>1, <3>1
  <2> QED
    BY <1>10, <2>3, <2>4
<1>14. ChainSound(k, c)'
  <2>1. \A i, j \in 0 .. NumSlabs : v[i] = v[j] /\ v[i] # NULL => i = j
    <3> SUFFICES ASSUME NEW i \in 0 .. NumSlabs, NEW j \in 0 .. NumSlabs, v[i] = v[j], v[i] # NULL
                 PROVE  i = j
      OBVIOUS
    <3>1. i + 1 = j + 1
      BY <1>9, <1>12
    <3> QED
      BY <1>9, <3>1
  <2>2. \A i \in 0 .. NumSlabs : v[i] # NULL => cls[v[i]] = k
    BY <1>9, <1>12
  <2> QED
    BY <1>3, <1>4, <1>12, <2>1, <2>2 DEF ChainSound
<1>15. TailSound(k, c)'
  <2>1. ASSUME NEW n \in 0 .. NumSlabs - 1, v[n] # NULL, v[n + 1] = NULL
        PROVE  v[n] = tail'[k][c] \/ \E u \in Threads : Holds(u, v[n])'
    <3>1. n + 1 \in 0 .. NumSlabs - 1 /\ n \in 0 .. NumSlabs
      <4>1. n # NumSlabs - 1
        <5> SUFFICES ASSUME n = NumSlabs - 1
                     PROVE  FALSE
          OBVIOUS
        <5>1. v[n] = w[NumSlabs]
          BY <1>9, <1>12
        <5> QED
          BY <1>9, <2>1, <5>1
      <4> QED
        BY <1>9, <4>1
    <3>2. v[n] = w[n + 1] /\ w[n + 1] # NULL /\ w[(n + 1) + 1] = NULL
      BY <1>12, <2>1, <3>1
    <3>3. w[n + 1] = tail[k][c] \/ \E u \in Threads : Holds(u, w[n + 1])
      BY <1>1, <1>2, <1>3, <3>1, <3>2 DEF TailInv, TailSound
    <3>4. ASSUME NEW u \in Threads, NEW s, Holds(u, s)
          PROVE  Holds(u, s)'
      BY <1>1, <1>5, <3>4, OthersKeep DEF Holds
    <3> QED
      BY <1>4, <3>2, <3>3, <3>4
  <2>2. ASSUME NEW n \in 0 .. NumSlabs, NEW u \in Threads, v[n] # NULL, Holds(u, v[n])'
        PROVE  FALSE
    <3>1. n + 1 \in 0 .. NumSlabs /\ v[n] = w[n + 1] /\ n + 1 # 0 /\ 0 \in 0 .. NumSlabs
      BY <1>9, <1>12, <2>2
    <3>2. v[n] # this[t]
      BY <1>2, <1>9, <2>2, <3>1
    <3>3. u # t /\ Holds(u, w[n + 1])
      BY <1>1, <1>5, <2>2, <3>1, <3>2, OthersKeep DEF Holds
    <3>4. c \in Affinity[u]
      BY <1>1, <1>2, <1>3, <2>2, <3>1, <3>3 DEF TailInv, TailSound
    <3> QED
      BY <1>3, <3>3, <3>4 DEF PinnedApart
  <2> QED
    BY <2>1, <2>2 DEF TailSound
<1>16. Owns' = Owns
  <2>1. \A s : s \in Owns[t] <=> /\ s \in Made'
                                 /\ (\E j \in Classes : s \in Chain(j, c)') \/ Holds(t, s)'
    BY <1>2, <1>3, <1>4, <1>5, <1>8, <1>13, OwnsOf
  <2>2. Owns' = [Owns EXCEPT ![t] = Owns[t]]
    BY <1>3, <1>8, <2>1, OwnsStep
  <2> QED
    BY <2>2 DEF Owns
<1>17. SendInv'
  <2>1. SendSound(t)'
    BY <1>4 DEF SendSound, SendLabels, CommitLabels
  <2> QED
    BY <1>3, <1>4, <1>7, <1>8, <2>1, SendFrame
<1> QED
  BY <1>11, <1>14, <1>15, <1>16, <1>17 DEF ChainInv, TailInv

\* A step that moves no slab into or out of a list keeps the lists sound.
LEMMA StillLists ==
    ASSUME PinnedApart, Inv, NEW t \in Threads, Running(t), Step(t), head' = head, tail' = tail,
           \A j \in Classes, d \in CPUs : Walk(j, d)' = Walk(j, d),
           \A j \in Classes, d \in CPUs : \A s \in Chain(j, d) :
               (Holds(t, s)' <=> Holds(t, s)) /\ (Linking(t, s)' <=> Linking(t, s)),
           \A u \in Threads \ {t} : pc[u] \in SendLabels => next'[this[u]] = next[this[u]],
           SendSound(t)'
    PROVE  /\ ChainInv' /\ TailInv' /\ SendInv'
           /\ \A S : (\A s : s \in S <=> /\ s \in Made'
                                         /\ \/ \E j \in Classes, d \in Affinity[t] : s \in Chain(j, d)
                                            \/ Holds(t, s)')
                     => Owns' = [Owns EXCEPT ![t] = S]
<1>1. \A j \in Classes, d \in CPUs : Chain(j, d)' = Chain(j, d)
  BY DEF Chain
<1>2. PICK c \in CPUs : Affinity[t] = {c}
  BY DEF PinnedApart
<1>3. \A j \in Classes, d \in CPUs : ChainSound(j, d)' /\ TailSound(j, d)'
  BY ListFrame
<1>4. SendInv'
  BY <1>1, <1>2, SendFrame
<1>5. ASSUME NEW S, \A s : s \in S <=> /\ s \in Made'
                                       /\ \/ \E j \in Classes, d \in Affinity[t] : s \in Chain(j, d)
                                          \/ Holds(t, s)'
      PROVE  Owns' = [Owns EXCEPT ![t] = S]
  <2>1. \A s : s \in S <=> /\ s \in Made'
                           /\ (\E j \in Classes : s \in Chain(j, c)') \/ Holds(t, s)'
    BY <1>1, <1>2, <1>5
  <2> QED
    BY <1>1, <1>2, <2>1, OwnsStep
<1> QED
  BY <1>3, <1>4, <1>5 DEF ChainInv, TailInv

\* What t owns after its next step: a slab it constructs or claims is added, a slab
\* it gives up is not its any more.
OwnsAfter(t) ==
    IF pc[t] = "construct" \/ (pc[t] = "set_owned" /\ pc'[t] = "free_send")
    THEN Owns[t] \union {this[t]}
    ELSE IF pc[t] = "release_unown" THEN Owns[t] \ {this[t]} ELSE Owns[t]

\* The step of t touches no list, and t holds what it held.
Quiet(t) ==
    /\ UNCHANGED listVars
    /\ cls' = cls
    /\ pc[t] \notin SendLabels \union {"construct", "release_unown"}
    /\ pc'[t] \notin SendLabels \union {"sent"}
    /\ pc[t] \in HoldLabels <=> pc'[t] \in HoldLabels
    /\ pc[t] \in HoldLabels => this'[t] = this[t]

\* Quiet steps keep the lists sound and the owners as they are.
LEMMA QuietLists ==
    ASSUME PinnedApart, Inv, NEW t \in Threads, Running(t), Step(t), Quiet(t)
    PROVE  ChainInv' /\ TailInv' /\ SendInv' /\ Owns' = [Owns EXCEPT ![t] = OwnsAfter(t)]
<1> USE DEF Quiet, listVars
<1>1. \A j \in Classes, d \in CPUs : Walk(j, d)' = Walk(j, d)
  BY DEF Walk
<1>2. \A s : (Holds(t, s)' <=> Holds(t, s)) /\ (Linking(t, s)' <=> Linking(t, s))
  BY DEF Holds, Linking
<1>3. SendSound(t)'
  BY DEF SendSound, CommitLabels, SendLabels
<1>4. OwnsAfter(t) = Owns[t] /\ Made' = Made
  BY DEF OwnsAfter, SendLabels, Made
<1>5. \A s : s \in Owns[t] <=> /\ s \in Made'
                               /\ \/ \E j \in Classes, d \in Affinity[t] : s \in Chain(j, d)
                                  \/ Holds(t, s)'
  BY <1>2, <1>4, OwnsOf
<1>6. \A S : (\A s : s \in S <=> /\ s \in Made'
                                 /\ \/ \E j \in Classes, d \in Affinity[t] : s \in Chain(j, d)
                                    \/ Holds(t, s)')
             => Owns' = [Owns EXCEPT ![t] = S]
  BY <1>1, <1>2, <1>3, StillLists
<1>7. ChainInv' /\ TailInv' /\ SendInv'
  BY <1>1, <1>2, <1>3, StillLists
<1> QED
  BY <1>4, <1>5, <1>6, <1>7

\* Which steps are quiet.
LEMMA QuietSteps ==
    ASSUME TypeOK, NEW t \in Threads,
           \/ \E k \in Classes : Malloc(t, k)
           \/ TryPop(t) \/ GetStartCpu(t) \/ ReadHead(t) \/ OutOfMemory(t) \/ NewSlab(t)
           \/ AllocMigrated(t) \/ AllocSection(t) \/ AllocReturn(t)
           \/ UnlinkFull(t) /\ CasFails(t)
           \/ ReleaseSlab(t) /\ (ReleaseRead(t) \/ ReleaseVecs(t) \/ ReleaseSlots(t) \/ ReleaseTake(t))
           \/ AfterSend(t) \/ (\E b \in Blocks : Free(t, b)) \/ TryPush(t) \/ FreeSlab(t)
    PROVE  Quiet(t)
<1> USE DEF TypeOK, SlabTypeOK, Goto, Return, Call, regVars, slabVars, listVars, Quiet,
            SendLabels, HoldLabels
<1>1. CASE (\E k \in Classes : Malloc(t, k)) \/ TryPop(t) \/ GetStartCpu(t) \/ ReadHead(t)
  BY <1>1 DEF Malloc, TryPop, GetStartCpu, ReadHead
<1>2. CASE OutOfMemory(t) \/ NewSlab(t) \/ AllocMigrated(t) \/ AfterSend(t)
  BY <1>2 DEF OutOfMemory, NewSlab, AllocMigrated, AfterSend
<1>3. CASE AllocSection(t) \/ AllocReturn(t)
  BY <1>3 DEF AllocSection, AllocReturn, AllocBegin, AllocFull, AllocClear, AllocLoad, AllocCommit
<1>4. CASE UnlinkFull(t) /\ CasFails(t)
  BY <1>4 DEF UnlinkFull, CasSetNext
<1>5. CASE ReleaseSlab(t) /\ (ReleaseRead(t) \/ ReleaseVecs(t) \/ ReleaseSlots(t) \/ ReleaseTake(t))
  <2>1. UNCHANGED listVars
    BY <1>5 DEF ReleaseSlab, ReleaseRead, ReleaseVecs, ReleaseSlots, ReleaseTake, ReleaseUnown,
       ReleaseDone
  <2> QED
    BY <1>5, <2>1 DEF ReleaseRead, ReleaseVecs, ReleaseSlots, ReleaseTake
<1>6. CASE (\E b \in Blocks : Free(t, b)) \/ TryPush(t)
  BY <1>6 DEF Free, TryPush
<1>7. CASE FreeSlab(t)
  BY <1>7 DEF FreeSlab, FreeCheck, FreeFirst, FreeVec, FreeLater, FreeState, SetOwnedLost
<1> QED
  BY <1>1, <1>2, <1>3, <1>4, <1>5, <1>6, <1>7

\* A slab that t takes up or lets go of without linking it, in no list.
LEMMA LooseLists ==
    ASSUME PinnedApart, Inv, NEW t \in Threads, Running(t), Step(t), head' = head, tail' = tail,
           this[t] \in Slabs,
           next' = next \/ next' = [next EXCEPT ![this[t]] = NULL],
           \A j \in Classes, d \in CPUs : this[t] \notin Chain(j, d),
           \A s : Holds(t, s) \/ Holds(t, s)' => s = this[t],
           \A u \in Threads \ {t} : pc[u] \in SendLabels => this[u] # this[t],
           SendSound(t)',
           NEW S, \A s : s \in S <=> /\ s \in Made'
                                     /\ \/ \E j \in Classes, d \in Affinity[t] : s \in Chain(j, d)
                                        \/ Holds(t, s)',
           S = OwnsAfter(t)
    PROVE  ChainInv' /\ TailInv' /\ SendInv' /\ Owns' = [Owns EXCEPT ![t] = OwnsAfter(t)]
<1>1. ManagerTypeOK
  BY DEF Inv, PinnedInv, TypeOK
<1>2. \A j \in Classes, d \in CPUs : Walk(j, d)' = Walk(j, d)
  <2>1. CASE next' = next
    BY <2>1 DEF Walk
  <2>2. CASE next' = [next EXCEPT ![this[t]] = NULL]
    BY <1>1, <2>2, CutWalks
  <2> QED
    BY <2>1, <2>2
<1>3. ASSUME NEW j \in Classes, NEW d \in CPUs, NEW s \in Chain(j, d)
      PROVE  (Holds(t, s)' <=> Holds(t, s)) /\ (Linking(t, s)' <=> Linking(t, s))
  <2>1. s # this[t]
    BY <1>3
  <2>2. ~ Holds(t, s)' /\ ~ Holds(t, s)
    BY <2>1
  <2> QED
    BY <2>2 DEF Holds, Linking, HoldLabels
<1>4. \A u \in Threads \ {t} : pc[u] \in SendLabels => next'[this[u]] = next[this[u]]
  <2>1. \A u \in Threads : pc[u] \in SendLabels => this[u] \in Slabs
    BY HolderOwns DEF HoldLabels, Made
  <2> QED
    BY <1>1, <2>1 DEF ManagerTypeOK
<1>5. ChainInv' /\ TailInv' /\ SendInv'
  BY <1>2, <1>3, <1>4, StillLists
<1>6. Owns' = [Owns EXCEPT ![t] = S]
  BY <1>2, <1>3, <1>4, StillLists
<1> QED
  BY <1>5, <1>6

\* Every step keeps the lists sound and moves a slab from one owner to the next
\* only by constructing it, by giving it up and by claiming it.
LEMMA StepLists ==
    ASSUME PinnedApart, Inv, NEW t \in Threads, Running(t), Step(t)
    PROVE  ChainInv' /\ TailInv' /\ SendInv' /\ Owns' = [Owns EXCEPT ![t] = OwnsAfter(t)]
<1>1. ManagerTypeOK /\ LocalsInv /\ SendInv /\ PinnedInv /\ TypeOK /\ DrawnInv
  BY DEF Inv, PinnedInv, TypeOK
<1>2. PICK k, c : k = size[t] /\ c = CPUOf(t)
  OBVIOUS
<1>3. Owns = [Owns EXCEPT ![t] = Owns[t]]
  BY DEF Owns
<1>4. ASSUME NEW l, NEW m, SendFirst(t, l, m), l \in SendLabels, m \in CommitLabels
      PROVE  ChainInv' /\ TailInv' /\ SendInv' /\ Owns' = [Owns EXCEPT ![t] = OwnsAfter(t)]
  <2>1. OwnsAfter(t) = Owns[t]
    BY <1>4 DEF OwnsAfter, SendFirst, SendLabels
  <2> QED
    BY <1>2, <1>3, <1>4, <2>1, SendFirstLists
<1>5. ASSUME NEW l, NEW r, NEW x, SendCommit(t, l, r, x), l \in CommitLabels,
             r \in {"inner", "idle", "sent"}, r = "sent" => x = this[t] /\ size'[t] = size[t]
      PROVE  ChainInv' /\ TailInv' /\ SendInv' /\ Owns' = [Owns EXCEPT ![t] = OwnsAfter(t)]
  <2>1. OwnsAfter(t) = Owns[t]
    BY <1>5 DEF OwnsAfter, SendCommit, CommitLabels
  <2> QED
    BY <1>2, <1>3, <1>5, <2>1, SendCommitLists
<1>6. CASE SendNew(t)
  BY <1>4, <1>5, <1>6 DEF SendNew, SendLabels, CommitLabels
<1>7. CASE SendReleased(t)
  BY <1>4, <1>5, <1>7 DEF SendReleased, SendLabels, CommitLabels, opVars
<1>8. CASE SendClaimed(t)
  BY <1>4, <1>5, <1>8 DEF SendClaimed, SendLabels, CommitLabels
<1>9. CASE UnlinkFull(t)
  <2>1. CASE CasFails(t)
    BY <1>1, <1>9, <2>1, QuietLists, QuietSteps
  <2>2. CASE CasSetNext(t, "release")
    <3>1. OwnsAfter(t) = Owns[t]
      BY <2>2 DEF OwnsAfter, CasSetNext
    <3> QED
      BY <1>2, <1>3, <2>2, <3>1, CasLists
  <2> QED
    BY <1>9, <2>1, <2>2 DEF UnlinkFull
<1>10. CASE ConstructSlab(t)
  <2>1. /\ pc[t] = "construct" /\ pc'[t] = "new_send" /\ this' = this /\ UNCHANGED listVars
        /\ cls' = [cls EXCEPT ![this[t]] = size[t]] /\ size[t] \in Classes
        /\ this[t] \in Slabs /\ cls[this[t]] = NoClass /\ next[this[t]] = NULL
    BY <1>1, <1>10 DEF ConstructSlab, Construct, Goto, regVars, TypeOK, LocalsInv, DrawnInv
  <2>2. \A s : ~ Holds(t, s) /\ (Holds(t, s)' <=> s = this[t])
    BY <2>1 DEF Holds, HoldLabels, SendLabels
  <2>3. \A j \in Classes, d \in CPUs : this[t] \notin Chain(j, d)
    BY <2>1, InNoList
  <2>4. \A u \in Threads \ {t} : pc[u] \in SendLabels => this[u] # this[t]
    BY <1>1, <2>1 DEF LocalsInv, Made
  <2>5. SendSound(t)'
    BY <2>1 DEF SendSound, listVars, CommitLabels
  <2>6. \A s : s \in Made' <=> s \in Made \/ s = this[t]
    BY <1>1, <2>1, SlabAssumption DEF Made, TypeOK, SlabTypeOK
  <2>7. OwnsAfter(t) = Owns[t] \union {this[t]} /\ this[t] \notin Owns[t]
    BY <2>1, OwnsOf DEF OwnsAfter, Made
  <2>8. \A s : s \in OwnsAfter(t) <=> /\ s \in Made'
                                      /\ \/ \E j \in Classes, d \in Affinity[t] : s \in Chain(j, d)
                                         \/ Holds(t, s)'
    <3>1. \A j \in Classes, d \in Affinity[t] : this[t] \notin Chain(j, d)
      BY <2>3, MachineAssumption
    <3> QED
      BY <2>2, <2>6, <2>7, <3>1, OwnsOf
  <2> QED
    BY <2>1, <2>2, <2>3, <2>4, <2>5, <2>8, LooseLists DEF listVars
<1>11. CASE ReleaseSlab(t)
  <2>1. CASE ReleaseRead(t) \/ ReleaseVecs(t) \/ ReleaseSlots(t) \/ ReleaseTake(t)
    BY <1>1, <1>11, <2>1, QuietLists, QuietSteps
  <2>2. CASE ReleaseUnown(t, "inner") /\ UNCHANGED listVars
    <3>1. /\ pc[t] = "release_unown" /\ pc'[t] = "inner" /\ cls' = cls /\ Made' = Made
          /\ this[t] \in Slabs
      BY <1>1, <2>2 DEF ReleaseUnown, Return, Goto, TypeOK, Made, LocalsInv, SlabLabels
    <3>2. \A s : (Holds(t, s) <=> s = this[t]) /\ ~ Holds(t, s)'
      BY <3>1 DEF Holds, HoldLabels, SendLabels
    <3>3. \A j \in Classes, d \in CPUs : this[t] \notin Chain(j, d)
      BY <3>1, InNoList DEF HoldLabels, SendLabels
    <3>4. \A u \in Threads \ {t} : pc[u] \in SendLabels => this[u] # this[t]
      BY <3>2, OneHolder DEF Holds, HoldLabels
    <3>5. SendSound(t)'
      BY <3>1 DEF SendSound, SendLabels, CommitLabels
    <3>6. OwnsAfter(t) = Owns[t] \ {this[t]}
      BY <3>1 DEF OwnsAfter
    <3>7. \A s : s \in OwnsAfter(t) <=> /\ s \in Made'
                                        /\ \/ \E j \in Classes, d \in Affinity[t] : s \in Chain(j, d)
                                           \/ Holds(t, s)'
      <4>1. \A j \in Classes, d \in Affinity[t] : this[t] \notin Chain(j, d)
        BY <3>3, MachineAssumption
      <4> QED
        BY <3>1, <3>2, <3>6, <4>1, OwnsOf
    <3> QED
      BY <2>2, <3>1, <3>2, <3>3, <3>4, <3>5, <3>7, LooseLists DEF listVars
  <2>3. CASE /\ ReleaseDone(t, "rel_send", this[t])
             /\ next' = [next EXCEPT ![this[t]] = NULL]
             /\ UNCHANGED <<head, tail, opVars>>
    <3>1. /\ pc[t] = "release_slots" /\ pc'[t] = "rel_send" /\ cls' = cls /\ Made' = Made
          /\ this[t] \in Slabs /\ this'[t] = this[t]
      BY <1>1, <2>3 DEF ReleaseDone, Return, Goto, TypeOK, SlabTypeOK, Made, LocalsInv, SlabLabels
    <3>2. \A s : (Holds(t, s) <=> s = this[t]) /\ (Holds(t, s)' <=> s = this[t])
      BY <3>1 DEF Holds, HoldLabels, SendLabels
    <3>3. \A j \in Classes, d \in CPUs : this[t] \notin Chain(j, d)
      BY <3>1, InNoList DEF HoldLabels, SendLabels
    <3>4. \A u \in Threads \ {t} : pc[u] \in SendLabels => this[u] # this[t]
      BY <3>2, OneHolder DEF Holds, HoldLabels
    <3>5. SendSound(t)'
      BY <1>1, <2>3, <3>1 DEF SendSound, CommitLabels, ManagerTypeOK
    <3>6. OwnsAfter(t) = Owns[t]
      BY <3>1 DEF OwnsAfter
    <3>7. \A s : s \in OwnsAfter(t) <=> /\ s \in Made'
                                        /\ \/ \E j \in Classes, d \in Affinity[t] : s \in Chain(j, d)
                                           \/ Holds(t, s)'
      BY <3>1, <3>2, <3>6, OwnsOf
    <3> QED
      BY <2>3, <3>1, <3>2, <3>3, <3>4, <3>5, <3>7, LooseLists
  <2> QED
    BY <1>11, <2>1, <2>2, <2>3 DEF ReleaseSlab
<1>12. CASE ClaimSlab(t)
  <2>1. /\ pc[t] = "set_owned" /\ pc'[t] = "free_send" /\ cls' = cls /\ Made' = Made
        /\ this[t] \in Slabs /\ this'[t] = this[t] /\ this[t] \in Made /\ state[this[t]] = UNOWNED
        /\ head' = head /\ tail' = tail /\ next' = [next EXCEPT ![this[t]] = NULL]
    BY <1>1, <1>12 DEF ClaimSlab, SetOwnedWon, Return, Goto, TypeOK, SlabTypeOK, Made, LocalsInv,
       SlabLabels
  <2>2. \A s : ~ Holds(t, s) /\ (Holds(t, s)' <=> s = this[t])
    BY <2>1 DEF Holds, HoldLabels, SendLabels
  <2>3. \A j \in Classes, d \in CPUs : this[t] \notin Chain(j, d)
    BY <2>1, InNoList
  <2>4. \A u \in Threads \ {t} : pc[u] \in SendLabels => this[u] # this[t]
    BY <2>1, HolderOwns DEF HoldLabels, OWNED, UNOWNED
  <2>5. SendSound(t)'
    BY <1>1, <2>1 DEF SendSound, CommitLabels, ManagerTypeOK
  <2>6. OwnsAfter(t) = Owns[t] \union {this[t]}
    BY <2>1 DEF OwnsAfter
  <2>7. \A s : s \in OwnsAfter(t) <=> /\ s \in Made'
                                      /\ \/ \E j \in Classes, d \in Affinity[t] : s \in Chain(j, d)
                                         \/ Holds(t, s)'
    BY <2>1, <2>2, <2>6, OwnsOf
  <2> QED
    BY <2>1, <2>2, <2>3, <2>4, <2>5, <2>7, LooseLists
<1>13. CASE \/ \E j \in Classes : Malloc(t, j)
            \/ TryPop(t) \/ GetStartCpu(t) \/ ReadHead(t) \/ OutOfMemory(t) \/ NewSlab(t)
            \/ AllocMigrated(t) \/ AllocSection(t) \/ AllocReturn(t)
            \/ AfterSend(t) \/ (\E b \in Blocks : Free(t, b)) \/ TryPush(t) \/ FreeSlab(t)
  <2>1. Quiet(t)
    BY <1>1, <1>13, QuietSteps
  <2> QED
    BY <2>1, QuietLists
<1> QED
  BY <1>6, <1>7, <1>8, <1>9, <1>10, <1>11, <1>12, <1>13 DEF Step, AllocateStep, FreeStep
=============================================================================
