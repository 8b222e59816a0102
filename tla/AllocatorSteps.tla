-------------------------- MODULE AllocatorSteps ---------------------------
(***************************************************************************)
(* The pinned allocator, for any number of threads with a CPU each, size   *)
(* classes, slabs, vectors and bits: the inductive invariant, what one of  *)
(* its steps leaves alone, and what the two stores of _send_slab() and the *)
(* store of _cas_set_next_available_slab() do to the lists.                *)
(***************************************************************************)
EXTENDS AllocatorLists

\* What is proved of the protocol, for the slabs of the allocator.
Proved == INSTANCE SlabProtocolProofs WITH
    owns <- Owns,
    live <- HandedOut,
    pc   <- SlabPc,
    this <- SlabThis,
    pos  <- SlabPos

\* The inductive invariant.
Inv == PinnedInv /\ Proved!IndInv

\* The assumption of ObjSlab, as the instance needs it.
LEMMA ProvedAssumption ==
    /\ NULL \notin Slabs
    /\ Proved!NoClass \notin Classes
    /\ NumVecs \in Nat \ {0}
    /\ VecSize \in Nat \ {0}
    /\ NBlocks \in [Classes -> 1 .. NumVecs * VecSize]
  BY SlabAssumption DEF Proved!NoClass, NoClass

----------------------------------------------------------------------------
(***************************************************************************)
(* Steps of a thread.                                                      *)
(***************************************************************************)

\* A running thread is on the CPU it is pinned to.
LEMMA OnHome ==
    ASSUME PinnedApart, ScheduleInv, NEW t \in Threads, Running(t)
    PROVE  CPUOf(t) \in CPUs /\ Affinity[t] = {CPUOf(t)}
<1>1. PICK d \in CPUs : on[d] = t
  BY DEF Running
<1>2. CPUOf(t) \in CPUs /\ on[CPUOf(t)] = t
  BY <1>1 DEF CPUOf
<1>3. CPUOf(t) \in Affinity[t]
  BY <1>2 DEF ScheduleInv
<1> QED
  BY <1>2, <1>3 DEF PinnedApart

\* A step of t leaves the registers and locals of the other threads alone.
LEMMA OthersKeep ==
    ASSUME TypeOK, NEW t \in Threads, Step(t), NEW u \in Threads, u # t
    PROVE  /\ pc'[u] = pc[u] /\ this'[u] = this[u] /\ pos'[u] = pos[u]
           /\ vecs'[u] = vecs[u] /\ iter'[u] = iter[u] /\ slots'[u] = slots[u]
           /\ size'[u] = size[u] /\ start'[u] = start[u]
<1> USE DEF TypeOK, SlabTypeOK, ManagerTypeOK, Goto, Return, Call, regVars, opVars,
            EndOp, Again
<1>1. CASE \E k \in Classes : Malloc(t, k)
  BY <1>1 DEF Malloc
<1>2. CASE TryPop(t)
  BY <1>2 DEF TryPop
<1>3. CASE GetStartCpu(t) \/ ReadHead(t) \/ OutOfMemory(t)
  BY <1>3 DEF GetStartCpu, ReadHead, OutOfMemory
<1>4. CASE NewSlab(t) \/ ConstructSlab(t)
  BY <1>4 DEF NewSlab, ConstructSlab
<1>5. CASE SendNew(t) \/ SendReleased(t) \/ SendClaimed(t)
  BY <1>5 DEF SendNew, SendReleased, SendClaimed, SendFirst, SendCommit
<1>6. CASE AllocMigrated(t) \/ AllocSection(t)
  BY <1>6 DEF AllocMigrated, AllocSection, AllocBegin, AllocFull, AllocClear, AllocLoad
<1>7. CASE AllocReturn(t) \/ UnlinkFull(t) \/ AfterSend(t)
  BY <1>7 DEF AllocReturn, AllocCommit, UnlinkFull, CasSetNext, AfterSend
<1>8. CASE ReleaseSlab(t)
  BY <1>8 DEF ReleaseSlab, ReleaseRead, ReleaseVecs, ReleaseSlots, ReleaseTake,
     ReleaseUnown, ReleaseDone
<1>9. CASE (\E b \in Blocks : Free(t, b)) \/ TryPush(t)
  BY <1>9 DEF Free, TryPush
<1>10. CASE FreeSlab(t)
  BY <1>10 DEF FreeSlab, FreeCheck, FreeFirst, FreeVec, FreeLater, FreeState, SetOwnedLost
<1>11. CASE ClaimSlab(t)
  BY <1>11 DEF ClaimSlab, SetOwnedWon
<1> QED
  BY <1>1, <1>2, <1>3, <1>4, <1>5, <1>6, <1>7, <1>8, <1>9, <1>10, <1>11
     DEF Step, AllocateStep, FreeStep

\* What the operands of a step of t are.
LEMMA Operands ==
    ASSUME PinnedInv, NEW t \in Threads
    PROVE  /\ pc[t] \in SlabLabels \union SendLabels \union {"push", "sent", "construct"} =>
                this[t] \in Slabs
           /\ vecs[t] # {} => LowestBit(vecs[t]) \in Vecs /\ LowestBit(vecs[t]) \in vecs[t]
           /\ iter[t] # {} => LowestBit(iter[t]) \in Vecs /\ LowestBit(iter[t]) \in iter[t]
           /\ slots[t] # {} => LowestBit(slots[t]) \in Bits /\ LowestBit(slots[t]) \in slots[t]
           /\ pos[t][1] \in Vecs /\ pos[t][2] \in Bits /\ pos[t] = <<pos[t][1], pos[t][2]>>
<1>1. vecs[t] \in SUBSET Vecs /\ iter[t] \in SUBSET Vecs /\ slots[t] \in SUBSET Bits
      /\ pos[t] \in Positions
  BY DEF PinnedInv, TypeOK, SlabTypeOK
<1>2. Vecs \in SUBSET Nat /\ Bits \in SUBSET Nat
  BY SlabAssumption DEF Vecs, Bits
<1>3. /\ vecs[t] # {} => LowestBit(vecs[t]) \in vecs[t]
      /\ iter[t] # {} => LowestBit(iter[t]) \in iter[t]
      /\ slots[t] # {} => LowestBit(slots[t]) \in slots[t]
  BY <1>1, <1>2, LowestBitIn
<1>4. pos[t][1] \in Vecs /\ pos[t][2] \in Bits /\ pos[t] = <<pos[t][1], pos[t][2]>>
  BY <1>1 DEF Positions
<1>5. pc[t] \in SlabLabels \union SendLabels \union {"push", "sent", "construct"} =>
         this[t] \in Slabs
  BY DEF PinnedInv, LocalsInv, DrawnInv, Made
<1> QED
  BY <1>1, <1>3, <1>4, <1>5

\* A constructed slab keeps its class.
LEMMA ClassesKept ==
    ASSUME PinnedInv, NEW t \in Threads, Step(t), NEW s \in Made
    PROVE  cls'[s] = cls[s] /\ s \in Made'
<1>1. \/ cls' = cls
      \/ pc[t] = "construct" /\ cls' = [cls EXCEPT ![this[t]] = size[t]]
  BY DEF Step, AllocateStep, FreeStep, slabVars, Malloc, TryPop, GetStartCpu, ReadHead,
     OutOfMemory, NewSlab, ConstructSlab, Construct, SendNew, SendReleased, SendClaimed,
     SendFirst, SendCommit, AllocMigrated, AllocSection, AllocBegin, AllocFull, AllocClear,
     AllocLoad, AllocReturn, AllocCommit, UnlinkFull, CasSetNext, AfterSend, ReleaseSlab,
     ReleaseRead, ReleaseVecs, ReleaseSlots, ReleaseTake, ReleaseUnown, ReleaseDone, Free,
     TryPush, FreeSlab, FreeCheck, FreeFirst, FreeVec, FreeLater, FreeState, SetOwnedLost,
     ClaimSlab, SetOwnedWon
<1>2. pc[t] = "construct" => this[t] # s
  BY DEF PinnedInv, DrawnInv, Made
<1>3. cls \in [Slabs -> Classes \union {NoClass}]
  BY DEF PinnedInv, TypeOK, SlabTypeOK
<1> QED
  BY <1>1, <1>2, <1>3 DEF Made

----------------------------------------------------------------------------
(***************************************************************************)
(* Steps of the allocator as steps of the protocol.                        *)
(***************************************************************************)

\* A step of t moves only t's part of what the protocol sees of the threads.
LEMMA SlabView ==
    ASSUME TypeOK, NEW t \in Threads,
           \A u \in Threads \ {t} : pc'[u] = pc[u] /\ this'[u] = this[u] /\ pos'[u] = pos[u]
    PROVE  /\ SlabPc' = [SlabPc EXCEPT ![t] = IF pc'[t] \in SlabLabels THEN pc'[t] ELSE "idle"]
           /\ SlabThis' = [SlabThis EXCEPT ![t] = IF pc'[t] \in SlabLabels THEN this'[t] ELSE NULL]
           /\ SlabPos' = [SlabPos EXCEPT ![t] = IF pc'[t] \in SlabLabels THEN pos'[t] ELSE NoPos]
  BY DEF SlabPc, SlabThis, SlabPos, InSlab

\* What the protocol sees of t.
LEMMA SlabViewOf ==
    ASSUME NEW t \in Threads
    PROVE  /\ SlabPc[t] = IF pc[t] \in SlabLabels THEN pc[t] ELSE "idle"
           /\ SlabThis[t] = IF pc[t] \in SlabLabels THEN this[t] ELSE NULL
           /\ SlabPos[t] = IF pc[t] \in SlabLabels THEN pos[t] ELSE NoPos
           /\ SlabPc = [SlabPc EXCEPT ![t] = SlabPc[t]]
           /\ SlabThis = [SlabThis EXCEPT ![t] = SlabThis[t]]
           /\ SlabPos = [SlabPos EXCEPT ![t] = SlabPos[t]]
  BY DEF SlabPc, SlabThis, SlabPos, InSlab

\* The owners do not change where no list, class or holder does.
LEMMA OwnsFrame ==
    ASSUME UNCHANGED <<next, head, cls>>,
           \A u \in Threads, s \in Slabs : Holds(u, s)' <=> Holds(u, s)
    PROVE  Owns' = Owns
<1>1. \A k \in Classes, c \in CPUs : Chain(k, c)' = Chain(k, c)
  BY DEF Chain, Walk
<1>2. Made' = Made /\ Made \subseteq Slabs
  BY DEF Made
<1>3. \A u \in Threads : Affinity[u] \subseteq CPUs
  BY MachineAssumption
<1> QED
  BY <1>1, <1>2, <1>3 DEF Owns

\* The blocks handed out do not change where neither the program, the caches nor
\* a block about to be cached do.
LEMMA HandedFrame ==
    ASSUME UNCHANGED <<live, cache>>,
           \A u \in Threads, b \in Blocks : Pushing(u, b)' <=> Pushing(u, b)
    PROVE  HandedOut' = HandedOut
  BY DEF HandedOut

\* OwnershipExact of the protocol, for the slabs of the allocator.
LEMMA Ownership ==
    ASSUME Proved!IndInv, NEW s \in Made
    PROVE  /\ state[s] = UNOWNED <=> \A t \in Threads : s \notin Owns[t]
           /\ \A t, u \in Threads : s \in Owns[t] /\ s \in Owns[u] => t = u
           /\ state[s] \in {OWNED, UNOWNED} /\ OWNED # UNOWNED
<1>1. s \in Proved!Made /\ s \in Slabs
  BY DEF Made, Proved!Made, NoClass, Proved!NoClass
<1>2. state \in [Slabs -> {OWNED, UNOWNED}]
  BY DEF Proved!IndInv, Proved!TypeOK, Proved!SlabTypeOK, Proved!OWNED, Proved!UNOWNED,
         OWNED, UNOWNED
<1> QED
  BY <1>1, <1>2 DEF Proved!IndInv, Proved!OwnershipExact, Proved!UNOWNED, UNOWNED, OWNED

----------------------------------------------------------------------------
(***************************************************************************)
(* The lists.                                                              *)
(***************************************************************************)

\* A list is a walk along next from its head.
LEMMA WalkOf ==
    ASSUME ManagerTypeOK, NEW k \in Classes, NEW c \in CPUs
    PROVE  /\ WalksTo(Walk(k, c), head[k][c], next, NumSlabs)
           /\ Walk(k, c) \in [0 .. NumSlabs -> Pointers]
           /\ Walk(k, c)[0] = head[k][c]
           /\ \A i \in 0 .. NumSlabs - 1 : Walk(k, c)[i] # NULL =>
                 Walk(k, c)[i + 1] = next[Walk(k, c)[i]]
           /\ head[k][c] \in Pointers /\ next \in [Slabs -> Pointers]
<1>1. head[k][c] \in Pointers /\ next \in [Slabs -> Pointers]
  BY DEF ManagerTypeOK, Pointers
<1>2. WalksTo(Walk(k, c), head[k][c], next, NumSlabs)
  BY <1>1, WalkFromFollows DEF Walk
<1>3. ASSUME NEW i \in 0 .. NumSlabs - 1, Walk(k, c)[i] # NULL
      PROVE  Walk(k, c)[i + 1] = next[Walk(k, c)[i]]
  <2>1. i + 1 \in 0 .. NumSlabs /\ i + 1 > 0 /\ (i + 1) - 1 = i
    BY AllocatorAssumption
  <2>2. Walk(k, c)[i + 1] = Follow(next, Walk(k, c)[(i + 1) - 1])
    BY <1>2, <2>1 DEF WalksTo
  <2> QED
    BY <1>3, <2>1, <2>2 DEF Follow
<1> QED
  BY <1>1, <1>2, <1>3 DEF WalksTo

\* The slabs of a list, and where they are met.
LEMMA ChainOf ==
    ASSUME ManagerTypeOK, NEW k \in Classes, NEW c \in CPUs
    PROVE  /\ Chain(k, c) \subseteq Slabs
           /\ \A s : s \in Chain(k, c) <=> s # NULL /\ \E i \in 0 .. NumSlabs : Walk(k, c)[i] = s
<1>1. Walk(k, c) \in [0 .. NumSlabs -> Pointers]
  BY WalkOf
<1> QED
  BY <1>1 DEF Chain, Range, Pointers

\* The slabs t owns.
LEMMA OwnsOf ==
    ASSUME NEW t \in Threads, NEW s
    PROVE  s \in Owns[t] <=> /\ s \in Made
                             /\ \/ \E k \in Classes, c \in Affinity[t] : s \in Chain(k, c)
                                \/ Holds(t, s)
  BY DEF Owns

\* No slab is in two lists.
LEMMA ChainsApart ==
    ASSUME PinnedApart, Inv, NEW k \in Classes, NEW c \in CPUs, NEW l \in Classes,
           NEW d \in CPUs, NEW s, s \in Chain(k, c), s \in Chain(l, d)
    PROVE  k = l /\ c = d
<1>1. ManagerTypeOK /\ ChainInv
  BY DEF Inv, PinnedInv, TypeOK
<1>2. s \in Slabs /\ cls[s] = k /\ cls[s] = l
  BY <1>1, ChainOf DEF ChainInv, ChainSound
<1>3. head[k][c] # NULL /\ head[l][d] # NULL
  <2>1. ASSUME NEW j \in Classes, NEW e \in CPUs, s \in Chain(j, e)
        PROVE  head[j][e] # NULL
    <3> SUFFICES ASSUME head[j][e] = NULL
                 PROVE  FALSE
      OBVIOUS
    <3>1. Walk(j, e) = [i \in 0 .. NumSlabs |-> NULL]
      BY <1>1, WalkOf, WalkEmpty DEF Walk
    <3>2. PICK i \in 0 .. NumSlabs : Walk(j, e)[i] = s /\ s # NULL
      BY <1>1, <2>1, ChainOf
    <3> QED
      BY <3>1, <3>2
  <2> QED
    BY <2>1
<1>4. PICK t \in Threads : c \in Affinity[t]
  BY <1>1, <1>3 DEF ChainInv, ChainSound
<1>5. PICK u \in Threads : d \in Affinity[u]
  BY <1>1, <1>3 DEF ChainInv, ChainSound
<1>6. s \in Made
  BY <1>2, SlabAssumption DEF Made
<1>7. s \in Owns[t] /\ s \in Owns[u]
  BY <1>4, <1>5, <1>6, OwnsOf
<1>8. t = u
  BY <1>6, <1>7, Ownership DEF Inv
<1> QED
  BY <1>2, <1>4, <1>5, <1>8 DEF PinnedApart

\* A list that is not empty has a last slab.
LEMMA LastOf ==
    ASSUME PinnedInv, NEW k \in Classes, NEW c \in CPUs, head[k][c] # NULL
    PROVE  \E n \in 0 .. NumSlabs - 1 : Walk(k, c)[n] # NULL /\ Walk(k, c)[n + 1] = NULL
<1>1. ManagerTypeOK /\ ChainInv
  BY DEF PinnedInv, TypeOK
<1> SUFFICES ASSUME \A n \in 0 .. NumSlabs - 1 :
                       Walk(k, c)[n] # NULL => Walk(k, c)[n + 1] # NULL
             PROVE  FALSE
  OBVIOUS
<1> DEFINE S == {n \in Nat : n <= NumSlabs => Walk(k, c)[n] # NULL}
<1>2. 0 \in S
  BY <1>1, WalkOf
<1>3. \A n \in S : n + 1 \in S
  BY AllocatorAssumption
<1>4. S = Nat
  BY <1>2, <1>3, NatSteps
<1> HIDE DEF S
<1>5. NumSlabs \in S
  BY <1>4, AllocatorAssumption
<1> QED
  BY <1>1, <1>5, AllocatorAssumption DEF S, ChainInv, ChainSound

\* A slab that is held and linked is in the list of its holder, right after tail.
LEMMA HeldWhere ==
    ASSUME PinnedInv, NEW t \in Threads, Holds(t, this[t]),
           NEW j \in Classes, NEW d \in CPUs, this[t] \in Chain(j, d)
    PROVE  /\ d \in Affinity[t] /\ j = size[t] /\ pc[t] \in SendLabels
           /\ \E i \in 1 .. NumSlabs : /\ Walk(j, d)[i] = this[t]
                                       /\ Walk(j, d)[i - 1] = tail[j][d]
<1>1. ManagerTypeOK /\ ChainInv /\ TailInv /\ LocalsInv
  BY DEF PinnedInv, TypeOK
<1>2. PICK i \in 0 .. NumSlabs : Walk(j, d)[i] = this[t] /\ this[t] # NULL
  BY <1>1, ChainOf
<1>3. /\ Linking(t, this[t]) /\ d \in Affinity[t]
      /\ i > 0 /\ Walk(j, d)[i - 1] = tail[j][d]
  BY <1>1, <1>2 DEF TailInv, TailSound
<1>4. cls[this[t]] = j
  BY <1>1, <1>2 DEF ChainInv, ChainSound
<1>5. cls[this[t]] = size[t]
  BY <1>1 DEF LocalsInv, Holds, HoldLabels, SlabLabels
<1> QED
  BY <1>2, <1>3, <1>4, <1>5 DEF Linking

\* A step leaves all lists but that of the class k and the CPU c alone.
OtherWalks(k, c) ==
    \A j \in Classes, d \in CPUs : j # k \/ d # c => Walk(j, d)' = Walk(j, d)

\* The first store of a _send_slab() of t to that list: the list is empty and tail
\* is set; or t repeats the store that linked its slab; or it links it, after the
\* n-th slab.
SendsEmpty(t, k, c) ==
    /\ head[k][c] = NULL
    /\ next' = next
    /\ Walk(k, c)' = Walk(k, c)
    /\ tail' = [tail EXCEPT ![k][c] = this[t]]

SendsLinked(t, k, c) ==
    /\ head[k][c] # NULL
    /\ this[t] \in Chain(k, c)
    /\ next' = next
    /\ Walk(k, c)' = Walk(k, c)
    /\ tail' = tail

SendsAppend(t, k, c, n) ==
    /\ head[k][c] # NULL
    /\ tail' = tail
    /\ \A j \in Classes, d \in CPUs : this[t] \notin Chain(j, d)
    /\ next' = [next EXCEPT ![tail[k][c]] = this[t]]
    /\ n + 1 < NumSlabs
    /\ Walk(k, c)[n] = tail[k][c] /\ tail[k][c] # NULL
    /\ Walk(k, c)[n + 1] = NULL
    /\ Walk(k, c)' = [Walk(k, c) EXCEPT ![n + 1] = this[t]]

\* The first store of _send_slab(): it starts or repeats the link, or appends the
\* slab to the walk of this CPU's list, and leaves every other list alone.
LEMMA SendFirstWalks ==
    ASSUME PinnedApart, Inv, NEW t \in Threads, Running(t), NEW l, NEW m,
           l \in SendLabels, SendFirst(t, l, m), NEW k, NEW c, k = size[t], c = CPUOf(t)
    PROVE  /\ OtherWalks(k, c)
           /\ \/ SendsEmpty(t, k, c)
              \/ SendsLinked(t, k, c)
              \/ \E n \in 0 .. NumSlabs : SendsAppend(t, k, c, n)
<1> USE DEF OtherWalks, SendsEmpty, SendsLinked
<1>1. ManagerTypeOK /\ ChainInv /\ TailInv /\ LocalsInv /\ SendInv /\ PinnedInv
  BY DEF Inv, PinnedInv, TypeOK
<1>2. /\ pc[t] = l /\ pc[t] \in SendLabels /\ pc[t] # "idle" /\ Holds(t, this[t])
      /\ this[t] \in Made /\ this[t] \in Slabs /\ cls[this[t]] = k /\ k \in Classes
      /\ next[this[t]] = NULL
  BY <1>1 DEF SendFirst, LocalsInv, SendInv, SendSound, SendLabels, Made, Holds, HoldLabels
<1>3. c \in CPUs /\ Affinity[t] = {c}
  BY OnHome DEF Inv, PinnedInv
<1>4. head' = head
  BY DEF SendFirst
<1>5. /\ next \in [Slabs -> Pointers] /\ head[k][c] \in Pointers
      /\ Walk(k, c) \in [0 .. NumSlabs -> Pointers] /\ Walk(k, c)[0] = head[k][c]
      /\ \A i \in 0 .. NumSlabs - 1 : Walk(k, c)[i] # NULL =>
            Walk(k, c)[i + 1] = next[Walk(k, c)[i]]
  BY <1>1, <1>2, <1>3, WalkOf
<1>6. next' = next => \A j \in Classes, d \in CPUs : Walk(j, d)' = Walk(j, d)
  BY <1>4 DEF Walk
<1>7. CASE head[k][c] = NULL
  <2>1. next' = next /\ tail' = [tail EXCEPT ![k][c] = this[t]]
    BY <1>7 DEF SendFirst
  <2> QED
    BY <1>2, <1>3, <1>6, <1>7, <2>1
<1>8. CASE head[k][c] # NULL /\ this[t] \in Chain(k, c)
  <2>1. tail' = tail /\ next' = [next EXCEPT ![tail[k][c]] = this[t]]
    BY <1>8 DEF SendFirst
  <2>2. PICK i \in 1 .. NumSlabs : Walk(k, c)[i] = this[t] /\ Walk(k, c)[i - 1] = tail[k][c]
    BY <1>1, <1>2, <1>3, <1>8, HeldWhere
  <2>3. i - 1 \in 0 .. NumSlabs - 1 /\ i - 1 \in 0 .. NumSlabs /\ (i - 1) + 1 = i /\ i \in 0 .. NumSlabs
    BY AllocatorAssumption
  <2>4. tail[k][c] # NULL
    <3>1. \A n \in 0 .. NumSlabs : Walk(k, c)[n] # NULL => \A e \in 0 .. n : Walk(k, c)[e] # NULL
      BY <1>5, WalkShape DEF Walk
    <3>2. this[t] # NULL
      BY <1>2, SlabAssumption
    <3>3. i - 1 \in 0 .. i
      BY AllocatorAssumption
    <3> QED
      BY <2>2, <2>3, <3>1, <3>2, <3>3
  <2>5. next[tail[k][c]] = this[t] /\ tail[k][c] \in Slabs
    BY <1>5, <2>2, <2>3, <2>4 DEF Pointers
  <2>6. next' = next
    BY <1>5, <2>1, <2>5
  <2> QED
    BY <1>2, <1>3, <1>6, <1>8, <2>1, <2>6
<1>9. CASE head[k][c] # NULL /\ this[t] \notin Chain(k, c)
  <2>1. tail' = tail /\ next' = [next EXCEPT ![tail[k][c]] = this[t]]
    BY <1>9 DEF SendFirst
  <2>2. \A j \in Classes, d \in CPUs : this[t] \notin Chain(j, d)
    BY <1>1, <1>2, <1>3, <1>9, HeldWhere
  <2>3. PICK n \in 0 .. NumSlabs - 1 : Walk(k, c)[n] # NULL /\ Walk(k, c)[n + 1] = NULL
    BY <1>1, <1>2, <1>3, <1>9, LastOf
  <2>4. Walk(k, c)[n] = tail[k][c]
    <3> SUFFICES ASSUME NEW u \in Threads, Holds(u, Walk(k, c)[n])
                 PROVE  FALSE
      BY <1>1, <1>2, <1>3, <2>3 DEF TailInv, TailSound
    <3>1. n \in 0 .. NumSlabs
      BY AllocatorAssumption
    <3>2. c \in Affinity[u]
      BY <1>1, <1>2, <1>3, <2>3, <3>1 DEF TailInv, TailSound
    <3>3. u = t
      BY <1>3, <3>2 DEF PinnedApart
    <3>4. Walk(k, c)[n] = this[t]
      BY <3>3 DEF Holds
    <3> QED
      BY <1>1, <1>2, <1>3, <1>9, <2>3, <3>1, <3>4, ChainOf
  <2>5. /\ n + 1 < NumSlabs
        /\ Walk(k, c)' = [Walk(k, c) EXCEPT ![n + 1] = this[t]]
    <3>1. \A i, j \in 0 .. NumSlabs :
             Walk(k, c)[i] = Walk(k, c)[j] /\ Walk(k, c)[i] # NULL => i = j
      BY <1>1, <1>2, <1>3 DEF ChainInv, ChainSound
    <3>2. \A i \in 0 .. NumSlabs : Walk(k, c)[i] # this[t]
      BY <1>1, <1>2, <1>3, <1>9, ChainOf, SlabAssumption
    <3> DEFINE h == head[k][c]
               w == Walk(k, c)
    <3>3. w = WalkFrom(h, next) /\ h \in Pointers
      BY <1>5 DEF Walk
    <3>4. /\ w[n] # NULL /\ w[n + 1] = NULL /\ \A i \in 0 .. NumSlabs : w[i] # this[t]
          /\ \A i, j \in 0 .. NumSlabs : w[i] = w[j] /\ w[i] # NULL => i = j
      BY <2>3, <3>1, <3>2
    <3> HIDE DEF h, w
    <3>5. next' = [next EXCEPT ![w[n]] = this[t]]
      BY <2>1, <2>4 DEF w
    <3>6. n + 1 < NumSlabs /\ WalkFrom(h, next') = [w EXCEPT ![n + 1] = this[t]]
      <4> DEFINE ny == next'
                 s == this[t]
      <4>1. s \in Slabs /\ next[s] = NULL /\ ny = [next EXCEPT ![w[n]] = s]
            /\ next \in [Slabs -> Pointers]
        BY <1>2, <1>5, <3>5
      <4>2. \A i \in 0 .. NumSlabs : w[i] # s
        BY <3>4
      <4> HIDE DEF ny, s
      <4>3. Appends(h, next, ny, w, n, s)
        BY <3>3, <3>4, <4>1, <4>2 DEF Appends
      <4>4. n + 1 < NumSlabs /\ WalkFrom(h, ny) = [w EXCEPT ![n + 1] = s]
        BY <4>3, WalkAppend
      <4> QED
        BY <4>4 DEF ny, s
    <3> QED
      BY <1>4, <3>6 DEF Walk, h, w
  <2>6. ASSUME NEW j \in Classes, NEW d \in CPUs, j # k \/ d # c
        PROVE  Walk(j, d)' = Walk(j, d)
    <3>1. tail[k][c] \in Chain(k, c) /\ tail[k][c] \in Slabs
      <4>1. n \in 0 .. NumSlabs
        BY AllocatorAssumption
      <4> QED
        BY <1>1, <1>2, <1>3, <2>3, <2>4, <4>1, ChainOf
    <3>2. tail[k][c] \notin Chain(j, d)
      BY <1>2, <1>3, <2>6, <3>1, ChainsApart
    <3>3. \A i \in 0 .. NumSlabs : Walk(j, d)[i] # NULL => Walk(j, d)[i] # tail[k][c]
      BY <1>1, <3>2, ChainOf
    <3>4. next' \in [Slabs -> Pointers] /\ \A p \in Slabs : p # tail[k][c] => next'[p] = next[p]
      BY <1>2, <1>5, <2>1, <3>1 DEF Pointers
    <3>5. \A i \in 0 .. NumSlabs : Walk(j, d)[i] # NULL => Walk(j, d)[i] \in Slabs
      <4>1. Walk(j, d) \in [0 .. NumSlabs -> Pointers]
        BY <1>1, WalkOf
      <4> QED
        BY <4>1 DEF Pointers
    <3>6. head[j][d] \in Pointers
      BY <1>1, WalkOf
    <3>7. WalkFrom(head[j][d], next') = WalkFrom(head[j][d], next)
      BY <1>5, <3>3, <3>4, <3>5, <3>6, WalkFrame DEF Walk
    <3> QED
      BY <1>4, <3>7 DEF Walk
  <2>7. n \in 0 .. NumSlabs
    BY AllocatorAssumption
  <2> QED
    <3>1. SendsAppend(t, k, c, n)
      BY <1>9, <2>1, <2>2, <2>3, <2>4, <2>5, <2>7 DEF SendsAppend
    <3> QED
      BY <2>6, <2>7, <3>1
<1> QED
  BY <1>7, <1>8, <1>9

\* The second store: head is set; or tail is.
CommitsEmpty(t, k, c) ==
    /\ head[k][c] = NULL
    /\ head' = [head EXCEPT ![k][c] = this[t]]
    /\ tail' = tail /\ tail[k][c] = this[t]
    /\ \A j \in Classes, d \in CPUs : this[t] \notin Chain(j, d)
    /\ Walk(k, c)' = [i \in 0 .. NumSlabs |-> IF i = 0 THEN this[t] ELSE NULL]
    /\ Walk(k, c) = [i \in 0 .. NumSlabs |-> NULL]

CommitsLinked(t, k, c) ==
    /\ head[k][c] # NULL
    /\ head' = head
    /\ this[t] \in Chain(k, c)
    /\ tail' = [tail EXCEPT ![k][c] = this[t]]
    /\ Walk(k, c)' = Walk(k, c)

\* The commit of _send_slab(): the slab becomes the one slab of an empty list, or
\* tail catches up with the slab that is linked already.
LEMMA SendCommitWalks ==
    ASSUME PinnedApart, Inv, NEW t \in Threads, Running(t), NEW l, NEW r, NEW s,
           l \in CommitLabels, SendCommit(t, l, r, s), NEW k, NEW c, k = size[t], c = CPUOf(t)
    PROVE  OtherWalks(k, c) /\ (CommitsEmpty(t, k, c) \/ CommitsLinked(t, k, c))
<1> USE DEF OtherWalks, CommitsEmpty, CommitsLinked
<1>1. ManagerTypeOK /\ ChainInv /\ TailInv /\ LocalsInv /\ SendInv /\ PinnedInv
  BY DEF Inv, PinnedInv, TypeOK
<1>2. /\ pc[t] = l /\ pc[t] \in CommitLabels /\ pc[t] \in SendLabels /\ pc[t] # "idle"
      /\ Holds(t, this[t])
      /\ this[t] \in Made /\ this[t] \in Slabs /\ cls[this[t]] = k /\ k \in Classes
      /\ next[this[t]] = NULL
  BY <1>1 DEF SendCommit, LocalsInv, SendInv, SendSound, SendLabels, CommitLabels, Made, Holds, HoldLabels
<1>3. c \in CPUs /\ Affinity[t] = {c}
  BY OnHome DEF Inv, PinnedInv
<1>4. next' = next
  BY DEF SendCommit
<1>5. next \in [Slabs -> Pointers] /\ head[k][c] \in Pointers
  BY <1>1, <1>2, <1>3, WalkOf
<1>6. IF head[k][c] = NULL THEN tail[k][c] = this[t] ELSE this[t] \in Chain(k, c)
  BY <1>1, <1>2, <1>3 DEF SendInv, SendSound
<1>7. CASE head[k][c] = NULL
  <2>1. tail' = tail /\ head' = [head EXCEPT ![k][c] = this[t]]
    BY <1>7 DEF SendCommit
  <2>2. Walk(k, c) = [i \in 0 .. NumSlabs |-> NULL]
    BY <1>5, <1>7, WalkEmpty DEF Walk
  <2>3. this[t] \notin Chain(k, c)
    BY ZenonT(60), <1>1, <1>2, <1>3, <2>2, ChainOf
  <2>4. \A j \in Classes, d \in CPUs : this[t] \notin Chain(j, d)
    BY <1>1, <1>2, <1>3, <2>3, HeldWhere
  <2>5. head'[k][c] = this[t]
    BY <1>1, <1>2, <1>3, <2>1 DEF ManagerTypeOK
  <2>6. Walk(k, c)' = [i \in 0 .. NumSlabs |-> IF i = 0 THEN this[t] ELSE NULL]
    BY <1>2, <1>4, <1>5, <2>5, WalkSingle DEF Walk
  <2>7. \A j \in Classes, d \in CPUs : j # k \/ d # c => head'[j][d] = head[j][d]
    BY <1>1, <1>2, <1>3, <2>1 DEF ManagerTypeOK
  <2>8. \A j \in Classes, d \in CPUs : j # k \/ d # c => Walk(j, d)' = Walk(j, d)
    BY <1>4, <2>7 DEF Walk
  <2> QED
    BY <1>6, <1>7, <2>1, <2>2, <2>4, <2>6, <2>8
<1>8. CASE head[k][c] # NULL
  <2>1. head' = head /\ tail' = [tail EXCEPT ![k][c] = this[t]]
    BY <1>8 DEF SendCommit
  <2>2. \A j \in Classes, d \in CPUs : Walk(j, d)' = Walk(j, d)
    BY <1>4, <2>1 DEF Walk
  <2> QED
    BY <1>2, <1>3, <1>6, <1>8, <2>1, <2>2
<1> QED
  BY <1>7, <1>8

\* The first slab of that list, t's, is taken off it.
Takes(t, k, c) ==
    /\ head[k][c] = this[t] /\ this[t] \in Slabs
    /\ head' = [head EXCEPT ![k][c] = next[this[t]]]
    /\ Walk(k, c)' = [i \in 0 .. NumSlabs |->
                         IF i = NumSlabs THEN NULL ELSE Walk(k, c)[i + 1]]

\* _cas_set_next_available_slab() takes the first slab off the walk.
LEMMA CasWalks ==
    ASSUME PinnedApart, Inv, NEW t \in Threads, Running(t), NEW l, CasSetNext(t, l),
           NEW k, NEW c, k = size[t], c = CPUOf(t)
    PROVE  OtherWalks(k, c) /\ Takes(t, k, c)
<1>1. ManagerTypeOK /\ ChainInv /\ LocalsInv
  BY DEF Inv, PinnedInv, TypeOK
<1>2. pc[t] = "full" /\ pc[t] # "idle" /\ pc[t] \in SlabLabels /\ pc[t] \in InnerLabels
  BY DEF CasSetNext, SlabLabels, InnerLabels
<1>3. this[t] \in Slabs /\ k \in Classes
  BY <1>1, <1>2 DEF LocalsInv, Made
<1>4. c \in CPUs
  BY OnHome DEF Inv, PinnedInv
<1>5. /\ start[t] = c /\ head[k][c] = this[t] /\ next' = next
      /\ head' = [head EXCEPT ![k][c] = next[this[t]]]
  BY DEF CasSetNext, CasFails
<1>6. next \in [Slabs -> Pointers]
  BY <1>1, <1>3, <1>4, WalkOf
<1>7. WalkFrom(this[t], next)[NumSlabs] = NULL
  BY <1>1, <1>3, <1>4, <1>5 DEF ChainInv, ChainSound, Walk
<1>8. head'[k][c] = next[this[t]]
      /\ \A j \in Classes, d \in CPUs : j # k \/ d # c => head'[j][d] = head[j][d]
  BY <1>1, <1>3, <1>4, <1>5 DEF ManagerTypeOK
<1>9. WalkFrom(next[this[t]], next) =
         [i \in 0 .. NumSlabs |->
             IF i = NumSlabs THEN NULL ELSE WalkFrom(this[t], next)[i + 1]]
  BY <1>3, <1>6, <1>7, WalkTail
<1>10. Walk(k, c)' = [i \in 0 .. NumSlabs |->
                         IF i = NumSlabs THEN NULL ELSE Walk(k, c)[i + 1]]
  BY <1>5, <1>8, <1>9 DEF Walk
<1>11. \A j \in Classes, d \in CPUs : j # k \/ d # c => Walk(j, d)' = Walk(j, d)
  BY <1>5, <1>8 DEF Walk
<1> QED
  BY <1>3, <1>5, <1>10, <1>11 DEF OtherWalks, Takes

\* next = NULL of a slab that is in no list leaves the lists alone.
LEMMA CutWalks ==
    ASSUME ManagerTypeOK, NEW s \in Slabs, head' = head, next' = [next EXCEPT ![s] = NULL],
           \A j \in Classes, d \in CPUs : s \notin Chain(j, d)
    PROVE  \A j \in Classes, d \in CPUs : Walk(j, d)' = Walk(j, d)
<1> SUFFICES ASSUME NEW j \in Classes, NEW d \in CPUs
             PROVE  Walk(j, d)' = Walk(j, d)
  OBVIOUS
<1>1. /\ next \in [Slabs -> Pointers] /\ head[j][d] \in Pointers
      /\ Walk(j, d) \in [0 .. NumSlabs -> Pointers]
  BY WalkOf
<1>2. next' \in [Slabs -> Pointers] /\ \A p \in Slabs : p # s => next'[p] = next[p]
  BY <1>1 DEF Pointers
<1>3. \A i \in 0 .. NumSlabs : Walk(j, d)[i] # NULL => Walk(j, d)[i] \in Slabs /\ Walk(j, d)[i] # s
  BY <1>1, ChainOf DEF Pointers
<1>4. \A i \in 0 .. NumSlabs : WalkFrom(head[j][d], next)[i] # NULL =>
         next'[WalkFrom(head[j][d], next)[i]] = next[WalkFrom(head[j][d], next)[i]]
  BY <1>2, <1>3 DEF Walk
<1>5. WalkFrom(head[j][d], next') = WalkFrom(head[j][d], next)
  BY <1>1, <1>2, <1>4, WalkFrame
<1> QED
  BY <1>5 DEF Walk
=============================================================================
