-------------------------- MODULE AllocatorProofs --------------------------
(***************************************************************************)
(* The theorems about the allocator of object_allocator.h with one pinned  *)
(* thread per CPU: a step refines a step of SlabProtocol or is invisible   *)
(* to it, so what SlabProtocolProofs proves of the protocol holds for the  *)
(* allocator's slabs, and with it the soundness of the lists and caches.   *)
(***************************************************************************)
EXTENDS AllocatorBlocks

----------------------------------------------------------------------------
(***************************************************************************)
(* Every step is a step of the protocol, or leaves what it sees alone.     *)
(***************************************************************************)

\* What the protocol sees of a step of t.
LEMMA View ==
    ASSUME PinnedApart, Inv, NEW t \in Threads, Running(t), Step(t)
    PROVE  /\ SlabPc' = [SlabPc EXCEPT ![t] = IF pc'[t] \in SlabLabels THEN pc'[t] ELSE "idle"]
           /\ SlabThis' = [SlabThis EXCEPT ![t] = IF pc'[t] \in SlabLabels THEN this'[t] ELSE NULL]
           /\ SlabPos' = [SlabPos EXCEPT ![t] = IF pc'[t] \in SlabLabels THEN pos'[t] ELSE NoPos]
           /\ Owns' = [Owns EXCEPT ![t] = OwnsAfter(t)]
           /\ HandedOut' = HandedAfter(t)
           /\ SlabPc[t] = IF pc[t] \in SlabLabels THEN pc[t] ELSE "idle"
           /\ SlabThis[t] = IF pc[t] \in SlabLabels THEN this[t] ELSE NULL
           /\ SlabPos[t] = IF pc[t] \in SlabLabels THEN pos[t] ELSE NoPos
<1>1. TypeOK
  BY DEF Inv, PinnedInv
<1>2. /\ SlabPc' = [SlabPc EXCEPT ![t] = IF pc'[t] \in SlabLabels THEN pc'[t] ELSE "idle"]
      /\ SlabThis' = [SlabThis EXCEPT ![t] = IF pc'[t] \in SlabLabels THEN this'[t] ELSE NULL]
      /\ SlabPos' = [SlabPos EXCEPT ![t] = IF pc'[t] \in SlabLabels THEN pos'[t] ELSE NoPos]
  BY <1>1, OthersKeep, SlabView
<1> QED
  BY <1>2, SlabViewOf, StepLists, StepBlocks DEF BlocksAfter

\* A step outside the slab's operations that leaves the slabs, the owners and
\* the blocks that are handed out alone.
LEMMA Stutters ==
    ASSUME PinnedApart, Inv, NEW t \in Threads, Running(t), Step(t), UNCHANGED slabVars,
           vecs' = vecs, iter' = iter, slots' = slots,
           pc[t] \notin SlabLabels \union {"construct"}, pc'[t] \notin SlabLabels
    PROVE  UNCHANGED Proved!vars
<1>1. OwnsAfter(t) = Owns[t] /\ HandedAfter(t) = HandedOut
  BY DEF OwnsAfter, HandedAfter, SlabLabels
<1>2. Owns' = Owns
  BY <1>1, View DEF Owns
<1>3. HandedOut' = HandedOut
  BY <1>1, View
<1>4. SlabPc' = SlabPc /\ SlabThis' = SlabThis /\ SlabPos' = SlabPos
  BY View, SlabViewOf
<1> QED
  BY <1>2, <1>3, <1>4 DEF Proved!vars, Proved!slabVars, Proved!regVars, slabVars

\* The registers of a thread outside of the operations that use them.
LEMMA DeadRegisters ==
    ASSUME PinnedInv, NEW t \in Threads, pc[t] \notin RegisterLabels
    PROVE  /\ vecs = [vecs EXCEPT ![t] = {}] /\ iter = [iter EXCEPT ![t] = {}]
           /\ slots = [slots EXCEPT ![t] = {}]
  BY DEF PinnedInv, LocalsInv, TypeOK, SlabTypeOK

\* _allocate() but for its work on a slab, and _send_slab(), are not steps of the
\* protocol.
LEMMA OuterSteps ==
    ASSUME PinnedApart, Inv, NEW t \in Threads, Running(t), Step(t),
           \/ \E k \in Classes : Malloc(t, k)
           \/ TryPop(t) \/ GetStartCpu(t) \/ OutOfMemory(t) \/ NewSlab(t)
           \/ SendNew(t) \/ SendReleased(t) \/ SendClaimed(t) \/ AfterSend(t)
           \/ \E b \in Blocks : Free(t, b)
           \/ ReadHead(t) /\ pc'[t] = "oom"
           \/ TryPush(t) /\ pc'[t] = "idle"
    PROVE  UNCHANGED Proved!vars
<1>1. TypeOK /\ PinnedInv
  BY DEF Inv, PinnedInv
<1> USE DEF Goto, Return, Call, regVars, SlabLabels, RegisterLabels
<1>2. CASE (\E k \in Classes : Malloc(t, k)) \/ TryPop(t) \/ GetStartCpu(t) \/ OutOfMemory(t)
           \/ \E b \in Blocks : Free(t, b)
  <2>1. /\ UNCHANGED slabVars /\ vecs' = vecs /\ iter' = iter /\ slots' = slots
        /\ pc[t] \notin SlabLabels \union {"construct"} /\ pc'[t] \notin SlabLabels
    BY <1>1, <1>2 DEF Malloc, TryPop, GetStartCpu, OutOfMemory, Free, TypeOK
  <2> QED
    BY <2>1, Stutters
<1>3. CASE NewSlab(t) \/ AfterSend(t)
  <2>1. /\ UNCHANGED slabVars /\ vecs' = vecs /\ iter' = iter /\ slots' = slots
        /\ pc[t] \notin SlabLabels \union {"construct"} /\ pc'[t] \notin SlabLabels
    BY <1>1, <1>3, DeadRegisters DEF NewSlab, AfterSend, TypeOK
  <2> QED
    BY <2>1, Stutters
<1>4. CASE SendNew(t) \/ SendReleased(t) \/ SendClaimed(t)
  <2>1. /\ UNCHANGED slabVars /\ vecs' = vecs /\ iter' = iter /\ slots' = slots
        /\ pc[t] \notin SlabLabels \union {"construct"} /\ pc'[t] \notin SlabLabels
    BY <1>1, <1>4, DeadRegisters DEF SendNew, SendReleased, SendClaimed, SendFirst, SendCommit,
       TypeOK
  <2> QED
    BY <2>1, Stutters
<1>5. CASE ReadHead(t) /\ pc'[t] = "oom"
  <2>1. /\ UNCHANGED slabVars /\ vecs' = vecs /\ iter' = iter /\ slots' = slots
        /\ pc[t] \notin SlabLabels \union {"construct"} /\ pc'[t] \notin SlabLabels
    BY <1>1, <1>5 DEF ReadHead, TypeOK
  <2> QED
    BY <2>1, Stutters
<1>6. CASE TryPush(t) /\ pc'[t] = "idle"
  <2>1. /\ UNCHANGED slabVars /\ vecs' = vecs /\ iter' = iter /\ slots' = slots
        /\ pc[t] \notin SlabLabels \union {"construct"} /\ pc'[t] \notin SlabLabels
    BY <1>1, <1>6, DeadRegisters DEF TryPush, TypeOK
  <2> QED
    BY <2>1, Stutters
<1> QED
  BY <1>2, <1>3, <1>4, <1>5, <1>6

\* The protocol's lowest bit and constructor are those of the slab.
LEMMA SameOperators ==
    /\ \A S : Proved!LowestBit(S) = LowestBit(S)
    /\ \A n : Proved!InitVecs(n) = InitVecs(n) /\ Proved!InitSlots(n) = InitSlots(n)
    /\ Proved!NoPos = NoPos /\ Proved!OWNED = OWNED /\ Proved!UNOWNED = UNOWNED
    /\ Proved!Made = Made /\ Proved!Vecs = Vecs /\ Proved!Bits = Bits
    /\ Proved!Positions = Positions /\ Proved!Blocks = Blocks /\ Proved!NoClass = NoClass
    /\ Proved!SlabLabels = SlabLabels
  BY DEF Proved!LowestBit, LowestBit, Proved!InitVecs, InitVecs, Proved!InitSlots, InitSlots,
     Proved!NSlots, NSlots, Proved!Vecs, Vecs, Proved!Bits, Bits, Proved!NoPos, NoPos,
     Proved!OWNED, OWNED, Proved!UNOWNED, UNOWNED, Proved!Made, Made, Proved!NoClass, NoClass,
     Proved!Positions, Positions, Proved!Blocks, Blocks, Proved!SlabLabels, SlabLabels

\* Reading a list's head and constructing a slab are the protocol's Allocate and
\* Create.
LEMMA EnterSteps ==
    ASSUME PinnedApart, Inv, NEW t \in Threads, Running(t), Step(t),
           ConstructSlab(t) \/ (ReadHead(t) /\ pc'[t] # "oom")
    PROVE  Proved!Step(t)
<1>1. TypeOK /\ PinnedInv /\ ManagerTypeOK /\ SlabTypeOK /\ DrawnInv /\ LocalsInv
  BY DEF Inv, PinnedInv, TypeOK
<1>2. CASE ConstructSlab(t)
  <2>1. /\ pc[t] = "construct" /\ pc'[t] = "new_send" /\ regVars' = regVars
        /\ Construct(this[t], size[t]) /\ this[t] \in Slabs /\ size[t] \in Classes
        /\ cls[this[t]] = NoClass
    BY <1>1, <1>2 DEF ConstructSlab, Goto, TypeOK, DrawnInv, LocalsInv
  <2>2. /\ SlabPc' = SlabPc /\ SlabThis' = SlabThis /\ SlabPos' = SlabPos /\ SlabPc[t] = "idle"
    BY <2>1, View, SlabViewOf DEF SlabLabels
  <2>3. HandedOut' = HandedOut /\ Owns' = [Owns EXCEPT ![t] = Owns[t] \union {this[t]}]
    BY <2>1, View DEF OwnsAfter, HandedAfter
  <2>4. Proved!Construct(this[t], size[t]) /\ this[t] \notin Proved!Made
    BY <2>1, SameOperators DEF Proved!Construct, Construct, Made
  <2>5. Proved!Create(t, this[t], size[t])
    BY <2>1, <2>2, <2>3, <2>4 DEF Proved!Create, Proved!regVars, regVars
  <2> QED
    BY <2>1, <2>5 DEF Proved!Step
<1>3. CASE ReadHead(t) /\ pc'[t] # "oom"
  <2> SUFFICES ASSUME NEW k, k = size[t], NEW c, c = start[t], NEW h, h = head[k][c]
               PROVE  Proved!Step(t)
    OBVIOUS
  <2>1. /\ pc[t] = "inner_head" /\ k \in Classes /\ c \in Affinity[t] /\ c \in CPUs
    BY <1>1, <1>3, MachineAssumption DEF ReadHead, LocalsInv, InnerLabels
  <2>2. /\ h # NULL /\ pc'[t] = "alloc" /\ this'[t] = h /\ pos'[t] = NoPos
        /\ vecs' = vecs /\ iter' = iter /\ slots' = slots /\ slabVars' = slabVars
    BY <1>1, <1>3 DEF ReadHead, Call, Goto, TypeOK, SlabTypeOK
  <2>3. h \in Chain(k, c)
    <3>1. Walk(k, c)[0] = h /\ 0 \in 0 .. NumSlabs
      BY <1>1, <2>1, WalkOf, AllocatorAssumption
    <3> QED
      BY <1>1, <2>1, <2>2, <3>1, ChainOf
  <2>4. h \in Owns[t] /\ h \in Slabs
    BY <2>1, <2>3, ListOwner, OwnsOf DEF Made
  <2>5. /\ SlabPc[t] = "idle" /\ SlabPc' = [SlabPc EXCEPT ![t] = "alloc"]
        /\ SlabThis' = [SlabThis EXCEPT ![t] = h] /\ SlabPos' = [SlabPos EXCEPT ![t] = NoPos]
    BY <2>1, <2>2, View DEF SlabLabels
  <2>6. HandedOut' = HandedOut /\ Owns' = Owns
    BY <2>1, <2>2, View DEF OwnsAfter, HandedAfter, Owns
  <2>7. Proved!Allocate(t, h)
    BY <2>2, <2>4, <2>5, <2>6, SameOperators
       DEF Proved!Allocate, Proved!Call, Proved!Goto, Proved!slabVars, slabVars
  <2> QED
    BY <2>4, <2>7 DEF Proved!Step
<1> QED
  BY <1>2, <1>3

\* The owner's critical section of _allocate().
LEMMA SectionSteps ==
    ASSUME PinnedApart, Inv, NEW t \in Threads, Running(t), Step(t),
           AllocSection(t) \/ AllocReturn(t)
    PROVE  Proved!Step(t)
<1>1. TypeOK /\ PinnedInv /\ SlabTypeOK
  BY DEF Inv, PinnedInv, TypeOK
<1>2. CASE AllocSection(t)
  <2>1. OwnsAfter(t) = Owns[t] /\ HandedAfter(t) = HandedOut
    BY <1>1, <1>2 DEF AllocSection, AllocBegin, AllocFull, AllocClear, AllocLoad, Goto, Return,
       OwnsAfter, HandedAfter, TypeOK
  <2>2. Owns' = Owns /\ HandedOut' = HandedOut
    BY <2>1, View DEF Owns
  <2>3. CASE AllocBegin(t)
    <3>1. /\ pc[t] = "alloc" /\ pc'[t] = "alloc_vec" /\ this' = this /\ pos' = pos
          /\ vecs' = [vecs EXCEPT ![t] = availVecs[this[t]]] /\ iter' = iter /\ slots' = slots
          /\ slabVars' = slabVars
      BY <1>1, <2>3 DEF AllocBegin, Goto, TypeOK
    <3>2. /\ SlabPc[t] = "alloc" /\ SlabPc' = [SlabPc EXCEPT ![t] = "alloc_vec"]
          /\ SlabThis' = SlabThis /\ SlabPos' = SlabPos /\ SlabThis[t] = this[t]
      BY <3>1, View, SlabViewOf DEF SlabLabels
    <3>3. Proved!AllocBegin(t)
      BY <3>1, <3>2 DEF Proved!AllocBegin, Proved!Goto, Proved!slabVars, slabVars
    <3> QED
      BY <2>2, <3>3 DEF Proved!Step, Proved!AllocateStep
  <2>4. CASE AllocFull(t)
    <3>1. /\ pc[t] = "alloc_vec" /\ pc'[t] = "full" /\ this'[t] = this[t] /\ pos'[t] = NoPos
          /\ vecs' = [vecs EXCEPT ![t] = {}] /\ iter' = [iter EXCEPT ![t] = {}]
          /\ slots' = [slots EXCEPT ![t] = {}] /\ slabVars' = slabVars /\ vecs[t] = {}
      BY <1>1, <2>4 DEF AllocFull, Return, Goto, TypeOK, SlabTypeOK
    <3>2. /\ SlabPc[t] = "alloc_vec" /\ SlabPc' = [SlabPc EXCEPT ![t] = "full"]
          /\ SlabThis' = [SlabThis EXCEPT ![t] = SlabThis[t]]
          /\ SlabPos' = [SlabPos EXCEPT ![t] = NoPos]
      BY <3>1, View, SlabViewOf DEF SlabLabels
    <3>3. Proved!AllocFull(t)
      BY <3>1, <3>2, SameOperators
         DEF Proved!AllocFull, Proved!Return, Proved!Goto, Proved!slabVars, slabVars
    <3> QED
      BY <2>2, <3>3 DEF Proved!Step, Proved!AllocateStep
  <2>5. CASE AllocClear(t)
    <3>1. /\ pc[t] = "alloc_vec" /\ pc' = pc /\ this' = this /\ pos' = pos
      BY <2>5 DEF AllocClear
    <3>2. /\ SlabPc[t] = "alloc_vec" /\ SlabPc' = SlabPc
          /\ SlabThis' = SlabThis /\ SlabPos' = SlabPos /\ SlabThis[t] = this[t]
      BY <3>1, View, SlabViewOf DEF SlabLabels
    <3>3. Proved!AllocClear(t)
      BY <2>5, <3>2, SameOperators DEF Proved!AllocClear, AllocClear
    <3> QED
      BY <2>2, <3>3 DEF Proved!Step, Proved!AllocateStep
  <2>6. CASE AllocLoad(t)
    <3>1. /\ pc[t] = "alloc_vec" /\ pc'[t] = "alloc_commit" /\ this' = this /\ pos' = pos
      BY <1>1, <2>6 DEF AllocLoad, Goto, TypeOK
    <3>2. /\ SlabPc[t] = "alloc_vec" /\ SlabPc' = [SlabPc EXCEPT ![t] = "alloc_commit"]
          /\ SlabThis' = SlabThis /\ SlabPos' = SlabPos /\ SlabThis[t] = this[t]
      BY <3>1, View, SlabViewOf DEF SlabLabels
    <3>3. Proved!AllocLoad(t)
      BY <2>6, <3>2, SameOperators DEF Proved!AllocLoad, AllocLoad, Proved!Goto,
         Proved!slabVars, slabVars
    <3> QED
      BY <2>2, <3>3 DEF Proved!Step, Proved!AllocateStep
  <2> QED
    BY <1>2, <2>3, <2>4, <2>5, <2>6 DEF AllocSection
<1>3. CASE AllocReturn(t)
  <2>1. /\ pc[t] = "alloc_commit" /\ pc'[t] = "idle"
    BY <1>1, <1>3 DEF AllocReturn, AllocCommit, Return, Goto, TypeOK
  <2>2. /\ SlabPc[t] = "alloc_commit" /\ SlabPc' = [SlabPc EXCEPT ![t] = "idle"]
        /\ SlabThis' = [SlabThis EXCEPT ![t] = NULL] /\ SlabThis[t] = this[t]
        /\ SlabPos' = [SlabPos EXCEPT ![t] = NoPos]
    BY <2>1, View DEF SlabLabels
  <2>3. HandedOut' = HandedOut \union {AllocResult(t)} /\ Owns' = Owns
    BY <2>1, View DEF OwnsAfter, HandedAfter, Owns
  <2>4. Proved!AllocCommit(t, "idle")
    BY <1>3, <2>2, SameOperators
       DEF AllocReturn, AllocCommit, Return, Proved!AllocCommit, Proved!Return, Proved!Goto
  <2>5. Proved!AllocResult(t) = AllocResult(t)
    BY <2>2, SameOperators DEF Proved!AllocResult, AllocResult
  <2> QED
    BY <2>3, <2>4, <2>5 DEF Proved!Step, Proved!AllocateReturn
<1> QED
  BY <1>2, <1>3

\* A slab that was found FULL is unlinked or left alone.  A pinned thread never
\* finds itself on another CPU than the one it started on.
LEMMA FullSteps ==
    ASSUME PinnedApart, Inv, NEW t \in Threads, Running(t), Step(t),
           AllocMigrated(t) \/ UnlinkFull(t)
    PROVE  Proved!Step(t)
<1>1. TypeOK /\ PinnedInv /\ SlabTypeOK /\ LocalsInv /\ ScheduleInv
  BY DEF Inv, PinnedInv, TypeOK
<1>2. CASE AllocMigrated(t)
  <2>1. pc[t] = "alloc" /\ CPUOf(t) # start[t]
    BY <1>2 DEF AllocMigrated
  <2>2. start[t] \in Affinity[t]
    BY <1>1, <2>1 DEF LocalsInv, InnerLabels
  <2> QED
    BY <1>1, <2>1, <2>2, OnHome
<1>3. CASE UnlinkFull(t)
  <2>1. pc[t] = "full" /\ pos[t] = NoPos /\ slabVars' = slabVars
    BY <1>1, <1>3 DEF UnlinkFull, CasSetNext, LocalsInv
  <2>2. \/ pc'[t] = "release" /\ this'[t] = this[t] /\ pos'[t] = NoPos
           /\ vecs' = vecs /\ iter' = iter /\ slots' = slots
        \/ pc'[t] = "inner" /\ this'[t] = NULL /\ pos'[t] = NoPos
           /\ vecs' = [vecs EXCEPT ![t] = {}] /\ iter' = [iter EXCEPT ![t] = {}]
           /\ slots' = [slots EXCEPT ![t] = {}]
    BY <1>1, <1>3, <2>1
       DEF UnlinkFull, CasSetNext, Goto, Return, regVars, TypeOK, SlabTypeOK
  <2>3. /\ vecs' = [vecs EXCEPT ![t] = {}] /\ iter' = [iter EXCEPT ![t] = {}]
        /\ slots' = [slots EXCEPT ![t] = {}]
    BY <1>1, <2>1, <2>2, DeadRegisters DEF RegisterLabels
  <2>4. HandedOut' = HandedOut /\ Owns' = Owns
    BY <2>1, View DEF OwnsAfter, HandedAfter, Owns
  <2>5. SlabPc[t] = "full" /\ SlabThis[t] = this[t] /\ SlabPos' = [SlabPos EXCEPT ![t] = NoPos]
    BY <2>1, <2>2, View DEF SlabLabels
  <2>6. \/ /\ SlabPc' = [SlabPc EXCEPT ![t] = "release"]
           /\ SlabThis' = [SlabThis EXCEPT ![t] = SlabThis[t]]
        \/ /\ SlabPc' = [SlabPc EXCEPT ![t] = "idle"]
           /\ SlabThis' = [SlabThis EXCEPT ![t] = NULL]
    BY <2>2, <2>5, View DEF SlabLabels
  <2>7. Proved!Full(t)
    BY <2>1, <2>3, <2>4, <2>5, <2>6, SameOperators
       DEF Proved!Full, Proved!Return, Proved!Goto, Proved!slabVars, slabVars
  <2> QED
    BY <2>7 DEF Proved!Step
<1> QED
  BY <1>2, <1>3

\* _try_release() of an unlinked slab.
LEMMA ReleaseSteps ==
    ASSUME PinnedApart, Inv, NEW t \in Threads, Running(t), Step(t), ReleaseSlab(t)
    PROVE  Proved!Step(t)
<1>1. TypeOK /\ PinnedInv /\ SlabTypeOK
  BY DEF Inv, PinnedInv, TypeOK
<1>2. CASE ReleaseUnown(t, "inner")
  <2>1. /\ pc[t] = "release_unown" /\ pc'[t] = "inner"
    BY <1>1, <1>2 DEF ReleaseUnown, Return, Goto, TypeOK
  <2>2. /\ SlabPc[t] = "release_unown" /\ SlabPc' = [SlabPc EXCEPT ![t] = "idle"]
        /\ SlabThis' = [SlabThis EXCEPT ![t] = NULL] /\ SlabThis[t] = this[t]
        /\ SlabPos' = [SlabPos EXCEPT ![t] = NoPos]
    BY <2>1, View DEF SlabLabels
  <2>3. HandedOut' = HandedOut /\ Owns' = [Owns EXCEPT ![t] = @ \ {SlabThis[t]}]
    BY <2>1, <2>2, View DEF OwnsAfter, HandedAfter
  <2>4. Proved!ReleaseUnown(t, "idle")
    BY <1>2, <2>2, SameOperators
       DEF ReleaseUnown, Return, Proved!ReleaseUnown, Proved!Return, Proved!Goto
  <2> QED
    BY <2>3, <2>4 DEF Proved!Step, Proved!GiveUp
<1>3. CASE ReleaseDone(t, "rel_send", this[t])
  <2>1. /\ pc[t] = "release_slots" /\ pc'[t] = "rel_send"
    BY <1>1, <1>3 DEF ReleaseDone, Return, Goto, TypeOK
  <2>2. /\ SlabPc[t] = "release_slots" /\ SlabPc' = [SlabPc EXCEPT ![t] = "idle"]
        /\ SlabThis' = [SlabThis EXCEPT ![t] = NULL] /\ SlabThis[t] = this[t]
        /\ SlabPos' = [SlabPos EXCEPT ![t] = NoPos]
    BY <2>1, View DEF SlabLabels
  <2>3. HandedOut' = HandedOut /\ Owns' = Owns
    BY <2>1, <2>2, View DEF OwnsAfter, HandedAfter, Owns
  <2>4. Proved!ReleaseDone(t, "idle", NULL)
    BY <1>3, <2>2, SameOperators
       DEF ReleaseDone, Return, Proved!ReleaseDone, Proved!Return, Proved!Goto
  <2> QED
    BY <2>3, <2>4 DEF Proved!Step, Proved!ReleaseStep
<1>4. CASE ReleaseRead(t) \/ ReleaseVecs(t) \/ ReleaseSlots(t) \/ ReleaseTake(t)
  <2> USE DEF ReleaseRead, ReleaseVecs, ReleaseSlots, ReleaseTake
  <2>1. /\ pc[t] \in SlabLabels /\ pc'[t] \in SlabLabels /\ this' = this /\ pos' = pos
        /\ pc' = [pc EXCEPT ![t] = pc'[t]]
        /\ pc[t] \in {"release", "release_vecs", "release_slots", "release_take"}
    BY <1>1, <1>4 DEF Goto, TypeOK, SlabLabels
  <2>2. /\ SlabPc[t] = pc[t] /\ SlabPc' = [SlabPc EXCEPT ![t] = pc'[t]]
        /\ SlabThis' = SlabThis /\ SlabPos' = SlabPos /\ SlabThis[t] = this[t]
    BY <2>1, View, SlabViewOf
  <2>3. HandedOut' = HandedOut /\ Owns' = Owns
    BY <2>1, View DEF OwnsAfter, HandedAfter, Owns
  <2>4. CASE ReleaseRead(t)
    <3>1. pc'[t] = IF freedVecs[this[t]] = {} THEN "release_unown" ELSE "release_vecs"
      BY <1>1, <2>4 DEF Goto, TypeOK
    <3>2. Proved!ReleaseRead(t)
      BY <2>2, <2>4, <3>1 DEF Proved!ReleaseRead, Proved!Goto, Proved!slabVars, slabVars
    <3> QED
      BY <2>3, <3>2 DEF Proved!Step, Proved!ReleaseStep
  <2>5. CASE ReleaseVecs(t)
    <3>1. pc'[t] = "release_slots"
      BY <1>1, <2>5 DEF Goto, TypeOK
    <3>2. Proved!ReleaseVecs(t)
      BY <2>2, <2>5, <3>1 DEF Proved!ReleaseVecs, Proved!Goto
    <3> QED
      BY <2>3, <3>2 DEF Proved!Step, Proved!ReleaseStep
  <2>6. CASE ReleaseSlots(t)
    <3>1. pc'[t] = "release_take"
      BY <1>1, <2>6 DEF Goto, TypeOK
    <3>2. Proved!ReleaseSlots(t)
      BY <2>2, <2>6, <3>1, SameOperators DEF Proved!ReleaseSlots, Proved!Goto, Proved!slabVars, slabVars
    <3> QED
      BY <2>3, <3>2 DEF Proved!Step, Proved!ReleaseStep
  <2>7. CASE ReleaseTake(t)
    <3>1. pc'[t] = "release_slots"
      BY <1>1, <2>7 DEF Goto, TypeOK
    <3>2. Proved!ReleaseTake(t)
      BY <2>2, <2>7, <3>1, SameOperators DEF Proved!ReleaseTake, Proved!Goto
    <3> QED
      BY <2>3, <3>2 DEF Proved!Step, Proved!ReleaseStep
  <2> QED
    BY <1>4, <2>4, <2>5, <2>6, <2>7
<1> QED
  BY <1>2, <1>3, <1>4 DEF ReleaseSlab

\* _free(): a full cache passes the block on to its slab, and the last free of a
\* slab nobody owns may claim it.
LEMMA FreeSteps ==
    ASSUME PinnedApart, Inv, NEW t \in Threads, Running(t), Step(t),
           (TryPush(t) /\ pc'[t] # "idle") \/ FreeSlab(t) \/ ClaimSlab(t)
    PROVE  Proved!Step(t)
<1>1. TypeOK /\ PinnedInv /\ SlabTypeOK
  BY DEF Inv, PinnedInv, TypeOK
<1>2. CASE TryPush(t) /\ pc'[t] # "idle"
  <2> SUFFICES ASSUME NEW b, b = <<this[t], pos[t][1], pos[t][2]>>
               PROVE  Proved!Step(t)
    OBVIOUS
  <2>1. /\ pc[t] = "push" /\ pc'[t] = "free" /\ regVars' = regVars /\ slabVars' = slabVars
    BY <1>1, <1>2 DEF TryPush, Return, Goto, TypeOK
  <2>2. this[t] \in Slabs /\ pos[t][1] \in Vecs /\ pos[t][2] \in Bits
        /\ pos[t] = <<pos[t][1], pos[t][2]>>
    BY <1>1, <2>1, Operands
  <2>3. b \in HandedOut
    BY <2>1, <2>2 DEF HandedOut, Pushing, Blocks
  <2>4. /\ SlabPc[t] = "idle" /\ SlabPc' = [SlabPc EXCEPT ![t] = "free"]
        /\ SlabThis' = [SlabThis EXCEPT ![t] = this[t]]
        /\ SlabPos' = [SlabPos EXCEPT ![t] = pos[t]]
    BY <2>1, View DEF SlabLabels, regVars
  <2>5. HandedOut' = HandedOut \ {b} /\ Owns' = Owns
    BY <2>1, View DEF OwnsAfter, HandedAfter, Owns
  <2>6. Proved!Free(t, b)
    BY <2>1, <2>2, <2>3, <2>4, <2>5
       DEF Proved!Free, Proved!Call, Proved!Goto, Proved!slabVars, slabVars, regVars
  <2> QED
    BY <2>3, <2>6 DEF Proved!Step
<1>3. CASE ClaimSlab(t)
  <2>1. /\ pc[t] = "set_owned" /\ pc'[t] = "free_send"
    BY <1>1, <1>3 DEF ClaimSlab, SetOwnedWon, Return, Goto, TypeOK
  <2>2. /\ SlabPc[t] = "set_owned" /\ SlabPc' = [SlabPc EXCEPT ![t] = "idle"]
        /\ SlabThis' = [SlabThis EXCEPT ![t] = NULL] /\ SlabThis[t] = this[t]
        /\ SlabPos' = [SlabPos EXCEPT ![t] = NoPos]
    BY <2>1, View DEF SlabLabels
  <2>3. HandedOut' = HandedOut /\ Owns' = [Owns EXCEPT ![t] = @ \union {SlabThis[t]}]
    BY <2>1, <2>2, View DEF OwnsAfter, HandedAfter
  <2>4. Proved!SetOwnedWon(t, "idle", NULL)
    BY <1>3, <2>2, SameOperators
       DEF ClaimSlab, SetOwnedWon, Return, Proved!SetOwnedWon, Proved!Return, Proved!Goto
  <2> QED
    BY <2>3, <2>4 DEF Proved!Step, Proved!Claim
<1>4. CASE FreeSlab(t)
  <2>1. /\ pc[t] \in {"free", "free_later", "free_first", "free_vec", "free_state", "set_owned"}
        /\ pc'[t] # "free_send"
    BY <1>1, <1>4 DEF FreeSlab, FreeCheck, FreeLater, FreeFirst, FreeVec, FreeState,
       SetOwnedLost, Return, Goto, TypeOK
  <2>2. HandedOut' = HandedOut /\ Owns' = Owns
    BY <2>1, View DEF OwnsAfter, HandedAfter, Owns
  <2>3. SlabPc[t] = pc[t] /\ SlabThis[t] = this[t] /\ SlabPos[t] = pos[t]
    BY <2>1, View DEF SlabLabels
  <2>4. SetFreedSlot(t) => Proved!SetFreedSlot(t)
    BY <2>3 DEF SetFreedSlot, Proved!SetFreedSlot
  <2>5. CASE FreeCheck(t) \/ FreeFirst(t) \/ FreeVec(t)
    <3>1. /\ pc' = [pc EXCEPT ![t] = pc'[t]] /\ pc'[t] \in SlabLabels
          /\ this' = this /\ pos' = pos
      BY <1>1, <2>5 DEF FreeCheck, FreeFirst, FreeVec, Goto, TypeOK, regVars, SlabLabels
    <3>2. /\ SlabPc' = [SlabPc EXCEPT ![t] = pc'[t]]
          /\ SlabThis' = SlabThis /\ SlabPos' = SlabPos
      BY <2>1, <3>1, View, SlabViewOf DEF SlabLabels
    <3>3. CASE FreeCheck(t)
      <4>1. pc'[t] = IF freedSlots[this[t]][pos[t][1]] # {} THEN "free_later" ELSE "free_first"
        BY <1>1, <3>3 DEF FreeCheck, Goto, TypeOK
      <4>2. Proved!FreeCheck(t)
        BY <2>3, <3>2, <3>3, <4>1 DEF Proved!FreeCheck, FreeCheck, Proved!Goto,
           Proved!slabVars, slabVars, Proved!regVars, regVars
      <4> QED
        BY <2>2, <4>2 DEF Proved!Step, Proved!FreeStep
    <3>4. CASE FreeFirst(t)
      <4>1. pc'[t] = "free_vec"
        BY <1>1, <3>4 DEF FreeFirst, Goto, TypeOK
      <4>2. Proved!FreeFirst(t)
        BY <2>3, <2>4, <3>2, <3>4, <4>1 DEF Proved!FreeFirst, FreeFirst, Proved!Goto,
           Proved!regVars, regVars
      <4> QED
        BY <2>2, <4>2 DEF Proved!Step, Proved!FreeStep
    <3>5. CASE FreeVec(t)
      <4>1. pc'[t] = "free_state"
        BY <1>1, <3>5 DEF FreeVec, Goto, TypeOK
      <4>2. Proved!FreeVec(t)
        BY <2>3, <3>2, <3>5, <4>1 DEF Proved!FreeVec, FreeVec, Proved!Goto,
           Proved!regVars, regVars
      <4> QED
        BY <2>2, <4>2 DEF Proved!Step, Proved!FreeStep
    <3> QED
      BY <2>5, <3>3, <3>4, <3>5
  <2>6. CASE FreeLater(t, "idle") \/ SetOwnedLost(t, "idle")
             \/ (FreeState(t, "idle") /\ state[this[t]] # UNOWNED)
    <3>1. pc'[t] = "idle"
      BY <1>1, <2>6 DEF FreeLater, SetOwnedLost, FreeState, Return, Goto, TypeOK
    <3>2. /\ SlabPc' = [SlabPc EXCEPT ![t] = "idle"] /\ SlabThis' = [SlabThis EXCEPT ![t] = NULL]
          /\ SlabPos' = [SlabPos EXCEPT ![t] = NoPos]
      BY <3>1, View DEF SlabLabels
    <3>3. \/ Proved!FreeLater(t, "idle") \/ Proved!SetOwnedLost(t, "idle")
          \/ Proved!FreeState(t, "idle")
      BY <2>3, <2>4, <2>6, <3>2, SameOperators
         DEF FreeLater, SetOwnedLost, FreeState, Return, Proved!FreeLater, Proved!SetOwnedLost,
             Proved!FreeState, Proved!Return, Proved!Goto, Proved!slabVars, slabVars
    <3> QED
      BY <2>2, <3>3 DEF Proved!Step, Proved!FreeStep
  <2>7. CASE FreeState(t, "idle") /\ state[this[t]] = UNOWNED
    <3>1. pc'[t] = "set_owned" /\ this'[t] = this[t] /\ pos'[t] = NoPos
      BY <1>1, <2>7 DEF FreeState, Return, Goto, TypeOK, SlabTypeOK
    <3>2. /\ SlabPc' = [SlabPc EXCEPT ![t] = "set_owned"]
          /\ SlabThis' = [SlabThis EXCEPT ![t] = SlabThis[t]]
          /\ SlabPos' = [SlabPos EXCEPT ![t] = NoPos]
      BY <2>3, <3>1, View DEF SlabLabels
    <3>3. Proved!FreeState(t, "idle")
      BY <2>3, <2>7, <3>2, SameOperators
         DEF FreeState, Return, Proved!FreeState, Proved!Return, Proved!Goto,
             Proved!slabVars, slabVars
    <3> QED
      BY <2>2, <3>3 DEF Proved!Step, Proved!FreeStep
  <2>8. \/ FreeCheck(t) \/ FreeFirst(t) \/ FreeVec(t)
        \/ FreeLater(t, "idle") \/ SetOwnedLost(t, "idle") \/ FreeState(t, "idle")
    BY <1>4 DEF FreeSlab
  <2> QED
    BY <2>5, <2>6, <2>7, <2>8
<1> QED
  BY <1>2, <1>3, <1>4

\* A step of a thread is a step of the protocol, or the protocol does not see it,
\* and so it keeps the protocol's invariant.
LEMMA StepRefines ==
    ASSUME PinnedApart, Inv, NEW t \in Threads, Running(t), Step(t)
    PROVE  Proved!Step(t) \/ UNCHANGED Proved!vars
<1>1. CASE AllocateStep(t)
  <2>1. CASE \/ \E k \in Classes : Malloc(t, k)
             \/ TryPop(t) \/ GetStartCpu(t) \/ OutOfMemory(t) \/ NewSlab(t)
             \/ SendNew(t) \/ SendReleased(t) \/ AfterSend(t)
    BY <2>1, OuterSteps
  <2>2. CASE ReadHead(t) \/ ConstructSlab(t)
    BY <2>2, OuterSteps, EnterSteps
  <2>3. CASE AllocSection(t) \/ AllocReturn(t) \/ AllocMigrated(t) \/ UnlinkFull(t)
    BY <2>3, SectionSteps, FullSteps
  <2>4. CASE ReleaseSlab(t)
    BY <2>4, ReleaseSteps
  <2> QED
    BY <1>1, <2>1, <2>2, <2>3, <2>4 DEF AllocateStep
<1>2. CASE FreeStep(t)
  BY <1>2, OuterSteps, FreeSteps DEF FreeStep
<1> QED
  BY <1>1, <1>2 DEF Step

\* The protocol's invariant survives a step of the protocol, and a step it does
\* not see.
LEMMA ProtocolStep ==
    ASSUME Proved!IndInv,
           (\E t \in Threads : Proved!Step(t)) \/ UNCHANGED Proved!vars
    PROVE  Proved!IndInv'
  BY ProvedAssumption, Proved!NextStep DEF Proved!Next

----------------------------------------------------------------------------
(***************************************************************************)
(* The shapes of the variables, the locals and the slabs that are drawn.   *)
(***************************************************************************)

\* A step of a thread moves its program counter to a label, and its slab and its
\* position to a slab and a position.
LEMMA RegisterTypes ==
    ASSUME PinnedInv, NEW t \in Threads, Step(t)
    PROVE  /\ pc' = [pc EXCEPT ![t] = pc'[t]] /\ pc'[t] \in Labels \ {"aborted"}
           /\ this' = [this EXCEPT ![t] = this'[t]] /\ this'[t] \in Slabs \union {NULL}
           /\ pos' = [pos EXCEPT ![t] = pos'[t]] /\ pos'[t] \in Positions
<1>1. /\ TypeOK /\ SlabTypeOK /\ ManagerTypeOK /\ LocalsInv
  BY DEF PinnedInv, TypeOK
<1>2. NoPos \in Positions /\ NULL = 0 /\ Slabs = 1 .. NumSlabs /\ NumSlabs \in Nat
  BY SlabAssumption, AllocatorAssumption DEF NoPos, Positions, Vecs, Bits
<1>3. /\ pc \in [Threads -> Labels] /\ this \in [Threads -> Slabs \union {NULL}]
      /\ pos \in [Threads -> Positions]
  BY <1>1 DEF TypeOK, SlabTypeOK
<1>4. \A l : (\/ l \in SlabLabels
              \/ l \in {"idle", "pop", "inner", "inner_head", "oom", "new", "construct",
                        "new_send", "new_send_commit", "rel_send", "rel_send_commit", "sent",
                        "push", "free_send", "free_send_commit"})
             => l \in Labels \ {"aborted"}
  BY DEF Labels, SlabLabels
<1> USE <1>3 DEF Goto, Return, Call, regVars
<1>6. CASE \/ \E k \in Classes : Malloc(t, k)
           \/ TryPop(t) \/ GetStartCpu(t) \/ OutOfMemory(t) \/ ConstructSlab(t)
  <2>1. /\ pc' = [pc EXCEPT ![t] = pc'[t]] /\ this' = this /\ pos' = pos
        /\ pc'[t] \in {"pop", "idle", "inner", "inner_head", "new", "new_send"}
    BY <1>6 DEF Malloc, TryPop, GetStartCpu, OutOfMemory, ConstructSlab
  <2> QED
    BY <1>4, <2>1
<1>7. CASE ReadHead(t)
  <2>1. start[t] \in CPUs /\ size[t] \in Classes
    BY <1>1, <1>7, MachineAssumption DEF ReadHead, LocalsInv, InnerLabels
  <2>2. head[size[t]][start[t]] \in Slabs \union {NULL}
    BY <1>1, <2>1 DEF ManagerTypeOK
  <2>3. "alloc" \in SlabLabels
    BY DEF SlabLabels
  <2> QED
    BY <1>2, <1>4, <1>7, <2>2, <2>3 DEF ReadHead
<1>8. CASE NewSlab(t)
  <2>1. current \in Nat \ {0}
    BY <1>1, AllocatorAssumption, FS_CardinalityType DEF TypeOK
  <2>2. current <= NumSlabs => current \in Slabs
    BY <1>2, <2>1
  <2> QED
    BY <1>2, <1>4, <1>8, <2>1, <2>2 DEF NewSlab
<1>9. CASE SendNew(t) \/ SendReleased(t) \/ SendClaimed(t)
  <2>1. /\ pc' = [pc EXCEPT ![t] = pc'[t]]
        /\ pc'[t] \in {"new_send_commit", "rel_send_commit", "free_send_commit", "inner",
                       "sent", "idle"}
    BY <1>9 DEF SendNew, SendReleased, SendClaimed, SendFirst, SendCommit
  <2>2. \/ this' = this /\ pos' = pos
        \/ this' = [this EXCEPT ![t] = NULL] /\ pos' = [pos EXCEPT ![t] = NoPos]
        \/ this' = [this EXCEPT ![t] = this[t]] /\ pos' = [pos EXCEPT ![t] = NoPos]
    BY <1>9 DEF SendNew, SendReleased, SendClaimed, SendFirst, SendCommit
  <2> QED
    BY <1>2, <1>4, <2>1, <2>2
<1>10. CASE AllocMigrated(t) \/ AllocSection(t) \/ AllocReturn(t) \/ AfterSend(t) \/ UnlinkFull(t)
  <2> USE DEF AllocMigrated, AllocSection, AllocBegin, AllocFull, AllocClear, AllocLoad,
              AllocReturn, AllocCommit, AfterSend, UnlinkFull, CasSetNext
  <2>1. /\ pc' = [pc EXCEPT ![t] = pc'[t]]
        /\ pc'[t] \in {"alloc_vec", "alloc_commit", "full", "release", "inner", "idle"}
    BY <1>10
  <2>2. pc'[t] \in SlabLabels \union {"inner", "idle"}
    BY <2>1 DEF SlabLabels
  <2>3. \/ this' = this /\ pos' = pos
        \/ this' = [this EXCEPT ![t] = NULL] /\ pos' = [pos EXCEPT ![t] = NoPos]
        \/ this' = [this EXCEPT ![t] = this[t]] /\ pos' = [pos EXCEPT ![t] = NoPos]
    BY <1>10
  <2> QED
    BY <1>2, <1>4, <2>1, <2>2, <2>3
<1>11. CASE ReleaseSlab(t)
  <2> USE DEF ReleaseSlab, ReleaseRead, ReleaseVecs, ReleaseSlots, ReleaseTake, ReleaseUnown,
              ReleaseDone
  <2>1. /\ pc' = [pc EXCEPT ![t] = pc'[t]]
        /\ pc'[t] \in {"release_unown", "release_vecs", "release_slots", "release_take",
                       "inner", "rel_send"}
    BY <1>11
  <2>2. pc'[t] \in SlabLabels \union {"inner", "rel_send"}
    BY <2>1 DEF SlabLabels
  <2>3. \/ this' = this /\ pos' = pos
        \/ this' = [this EXCEPT ![t] = NULL] /\ pos' = [pos EXCEPT ![t] = NoPos]
        \/ this' = [this EXCEPT ![t] = this[t]] /\ pos' = [pos EXCEPT ![t] = NoPos]
    BY <1>11
  <2> QED
    BY <1>2, <1>4, <2>1, <2>2, <2>3
<1>12. CASE \E b \in Blocks : Free(t, b)
  <2>1. PICK b \in Blocks : Free(t, b)
    BY <1>12
  <2>2. b[1] \in Slabs /\ <<b[2], b[3]>> \in Positions
    BY DEF Blocks, Positions
  <2> QED
    BY <1>4, <2>1, <2>2 DEF Free
<1>13. CASE TryPush(t) \/ FreeSlab(t) \/ ClaimSlab(t)
  <2> USE DEF TryPush, FreeSlab, FreeCheck, FreeFirst, FreeVec, FreeLater, FreeState,
              SetOwnedLost, ClaimSlab, SetOwnedWon
  <2>1. /\ pc' = [pc EXCEPT ![t] = pc'[t]]
        /\ pc'[t] \in {"free", "free_later", "free_first", "free_vec", "free_state",
                       "set_owned", "idle", "free_send"}
    BY <1>13
  <2>2. pc'[t] \in SlabLabels \union {"idle", "free_send"}
    BY <2>1 DEF SlabLabels
  <2>3. \/ this' = this /\ pos' = pos
        \/ this' = [this EXCEPT ![t] = NULL] /\ pos' = [pos EXCEPT ![t] = NoPos]
        \/ this' = [this EXCEPT ![t] = this[t]] /\ pos' = [pos EXCEPT ![t] = NoPos]
    BY <1>13
  <2> QED
    BY <1>2, <1>4, <2>1, <2>2, <2>3
<1> QED
  BY <1>6, <1>7, <1>8, <1>9, <1>10, <1>11, <1>12, <1>13 DEF Step, AllocateStep, FreeStep

\* A store to one entry of a table of slabs per class and CPU.
LEMMA PutInTable ==
    ASSUME NEW A, NEW B, NEW C, NEW f \in [A -> [B -> C]], NEW a \in A, NEW b \in B, NEW x \in C
    PROVE  [f EXCEPT ![a][b] = x] \in [A -> [B -> C]]
  OBVIOUS

\* The lists and the locals of _allocate_inner() and _free() keep their shapes.
LEMMA ManagerTypes ==
    ASSUME PinnedApart, PinnedInv, NEW t \in Threads, Running(t), Step(t)
    PROVE  ManagerTypeOK'
<1>1. /\ TypeOK /\ SlabTypeOK /\ ManagerTypeOK /\ LocalsInv /\ ScheduleInv /\ on' = on
  BY DEF PinnedInv, TypeOK, Step
<1>2. this[t] \in Slabs \union {NULL} /\ CPUOf(t) \in CPUs
  BY <1>1, OnHome DEF SlabTypeOK
<1> USE <1>1 DEF ManagerTypeOK
<1>3. CASE UNCHANGED listVars
  <2>1. \/ start' = start
        \/ \E x \in CPUs \union {NULL} : start' = [start EXCEPT ![t] = x]
    BY <1>2 DEF Step, AllocateStep, FreeStep, opVars, EndOp, Again, Malloc, TryPop,
       GetStartCpu, ReadHead, OutOfMemory, NewSlab, ConstructSlab, SendNew, SendReleased,
       SendClaimed, SendFirst, SendCommit, AllocMigrated, AllocSection, AllocReturn,
       UnlinkFull, CasSetNext, ReleaseSlab, AfterSend, Free, TryPush, FreeSlab, ClaimSlab
  <2>2. \/ size' = size
        \/ \E x \in Classes \union {NoClass} : size' = [size EXCEPT ![t] = x]
    <3>1. CASE \E b \in Blocks : Free(t, b)
      BY <3>1 DEF Free, Blocks, SlabTypeOK
    <3>2. CASE ~ \E b \in Blocks : Free(t, b)
      BY <3>2 DEF Step, AllocateStep, FreeStep, opVars, EndOp, Again, Malloc, TryPop,
         GetStartCpu, ReadHead, OutOfMemory, NewSlab, ConstructSlab, SendNew, SendReleased,
         SendClaimed, SendFirst, SendCommit, AllocMigrated, AllocSection, AllocReturn,
         UnlinkFull, CasSetNext, ReleaseSlab, AfterSend, TryPush, FreeSlab, ClaimSlab
    <3> QED
      BY <3>1, <3>2
  <2> QED
    BY <1>3, <2>1, <2>2 DEF listVars
<1>4. CASE SendNew(t) \/ SendReleased(t) \/ SendClaimed(t)
  <2>1. size[t] \in Classes
    BY <1>4 DEF SendNew, SendReleased, SendClaimed, SendFirst, SendCommit, LocalsInv
  <2>2. \/ start' = start /\ size' = size
        \/ start' = [start EXCEPT ![t] = NULL] /\ size' = size
        \/ start' = [start EXCEPT ![t] = NULL] /\ size' = [size EXCEPT ![t] = NoClass]
    BY <1>4 DEF SendNew, SendReleased, SendClaimed, SendFirst, SendCommit, Again, EndOp, opVars
  <2>3. \/ listVars' = listVars
        \/ next' = next /\ head' = head /\ tail' = [tail EXCEPT ![size[t]][CPUOf(t)] = this[t]]
        \/ next' = next /\ tail' = tail /\ head' = [head EXCEPT ![size[t]][CPUOf(t)] = this[t]]
        \/ /\ head' = head /\ tail' = tail
           /\ next' = [next EXCEPT ![tail[size[t]][CPUOf(t)]] = this[t]]
    BY <1>4 DEF SendNew, SendReleased, SendClaimed, SendFirst, SendCommit
  <2>4. /\ next' \in [Slabs -> Slabs \union {NULL}]
        /\ head' \in [Classes -> [CPUs -> Slabs \union {NULL}]]
        /\ tail' \in [Classes -> [CPUs -> Slabs \union {NULL}]]
    <3>1. /\ [tail EXCEPT ![size[t]][CPUOf(t)] = this[t]] \in [Classes -> [CPUs -> Slabs \union {NULL}]]
          /\ [head EXCEPT ![size[t]][CPUOf(t)] = this[t]] \in [Classes -> [CPUs -> Slabs \union {NULL}]]
      BY <1>2, <2>1, PutInTable
    <3>2. [next EXCEPT ![tail[size[t]][CPUOf(t)]] = this[t]] \in [Slabs -> Slabs \union {NULL}]
      BY <1>2
    <3> QED
      BY <2>3, <3>1, <3>2 DEF listVars
  <2>5. /\ start' \in [Threads -> CPUs \union {NULL}]
        /\ size' \in [Threads -> Classes \union {NoClass}]
    BY <2>2
  <2> QED
    BY <2>4, <2>5
<1>5. CASE CasSetNext(t, "release")
  <2>1. this[t] \in Slabs /\ size[t] \in Classes
    BY <1>5 DEF CasSetNext, LocalsInv, Made, SlabLabels
  <2> QED
    BY <1>5, <2>1 DEF CasSetNext, opVars
<1>6. CASE next' = [next EXCEPT ![this[t]] = NULL] /\ UNCHANGED <<head, tail, opVars>>
  BY <1>6 DEF opVars
<1>7. \/ UNCHANGED listVars
      \/ SendNew(t) \/ SendReleased(t) \/ SendClaimed(t) \/ CasSetNext(t, "release")
      \/ next' = [next EXCEPT ![this[t]] = NULL] /\ UNCHANGED <<head, tail, opVars>>
  BY DEF Step, AllocateStep, FreeStep, Malloc, TryPop,
     GetStartCpu, ReadHead, OutOfMemory, NewSlab, ConstructSlab, AllocMigrated, AllocSection,
     AllocReturn, UnlinkFull, ReleaseSlab, AfterSend, Free, TryPush, FreeSlab, ClaimSlab
<1> QED
  BY <1>3, <1>4, <1>5, <1>6, <1>7

\* What LocalsInv says of the thread t.
LocalsSound(t) ==
    /\ pc[t] # "aborted"
    /\ pc[t] # "idle" => size[t] \in Classes
    /\ pc[t] \in InnerLabels => start[t] \in Affinity[t]
    /\ pc[t] \in SlabLabels \union SendLabels \union {"push", "sent"} =>
          this[t] \in Made /\ cls[this[t]] = size[t]
    /\ pc[t] \notin RegisterLabels => vecs[t] = {} /\ iter[t] = {} /\ slots[t] = {}
    /\ pc[t] = "full" => pos[t] = NoPos

\* An operation that goes on with its slab, its class and its CPU keeps its locals.
LEMMA LocalsKept ==
    ASSUME Inv, NEW t \in Threads, Step(t),
           pc[t] \in SlabLabels \union SendLabels \union {"push", "sent"},
           pc'[t] \in SlabLabels \union SendLabels \union {"push", "sent"},
           this'[t] = this[t], size'[t] = size[t],
           pc'[t] \in InnerLabels => pc[t] \in InnerLabels /\ start'[t] = start[t],
           pc'[t] \notin RegisterLabels => vecs'[t] = {} /\ iter'[t] = {} /\ slots'[t] = {},
           pc'[t] = "full" => pos'[t] = NoPos
    PROVE  LocalsSound(t)'
<1>1. /\ pc[t] # "idle" /\ pc'[t] # "aborted"
  BY DEF SlabLabels, SendLabels
<1>2. this[t] \in Made /\ cls[this[t]] = size[t] /\ size[t] \in Classes
  BY <1>1 DEF Inv, PinnedInv, LocalsInv
<1>3. this[t] \in Made' /\ cls'[this[t]] = size[t]
  BY <1>2, ClassesKept DEF Inv
<1>4. pc'[t] \in InnerLabels => start'[t] \in Affinity[t]
  BY DEF Inv, PinnedInv, LocalsInv
<1> QED
  BY <1>1, <1>2, <1>3, <1>4 DEF LocalsSound

\* A step of a thread leaves its own locals in order.
LEMMA LocalsOf ==
    ASSUME PinnedApart, Inv, NEW t \in Threads, Running(t), Step(t)
    PROVE  LocalsSound(t)'
<1>1. /\ TypeOK /\ SlabTypeOK /\ ManagerTypeOK /\ LocalsInv /\ ScheduleInv /\ DrawnInv
      /\ PinnedInv
  BY DEF Inv, PinnedInv, TypeOK
<1>2. /\ pc \in [Threads -> Labels] /\ this \in [Threads -> Slabs \union {NULL}]
      /\ pos \in [Threads -> Positions] /\ vecs \in [Threads -> SUBSET Vecs]
      /\ iter \in [Threads -> SUBSET Vecs] /\ slots \in [Threads -> SUBSET Bits]
      /\ start \in [Threads -> CPUs \union {NULL}] /\ size \in [Threads -> Classes \union {NoClass}]
  BY <1>1 DEF TypeOK, SlabTypeOK, ManagerTypeOK
<1>3. LocalsSound(t)
  BY <1>1 DEF LocalsInv, LocalsSound
<1> USE <1>2 DEF Goto, Return, Call, regVars, opVars, EndOp, Again
<1>4. CASE \/ \E k \in Classes : Malloc(t, k)
           \/ TryPop(t) \/ OutOfMemory(t)
  <2>1. /\ pc'[t] \in {"pop", "inner", "idle", "new"} /\ pc[t] \in {"idle", "pop", "oom"}
        /\ pc'[t] # "idle" => size'[t] \in Classes
        /\ pc'[t] = "new" => pc[t] = "oom" /\ start'[t] = start[t]
        /\ vecs'[t] = vecs[t] /\ iter'[t] = iter[t] /\ slots'[t] = slots[t]
    BY <1>3, <1>4 DEF Malloc, TryPop, OutOfMemory, LocalsSound
  <2> QED
    BY <1>3, <2>1 DEF LocalsSound, InnerLabels, SlabLabels, SendLabels, RegisterLabels
<1>5. CASE GetStartCpu(t)
  <2>1. /\ pc[t] = "inner" /\ pc'[t] = "inner_head" /\ size'[t] = size[t]
        /\ start'[t] = CPUOf(t) /\ Affinity[t] = {CPUOf(t)}
        /\ vecs'[t] = vecs[t] /\ iter'[t] = iter[t] /\ slots'[t] = slots[t]
    BY <1>1, <1>5, OnHome DEF GetStartCpu
  <2> QED
    BY <1>3, <2>1 DEF LocalsSound, InnerLabels, SlabLabels, SendLabels, RegisterLabels
<1>6. CASE ReadHead(t)
  <2> SUFFICES ASSUME NEW k, k = size[t], NEW c, c = start[t], NEW h, h = head[k][c]
               PROVE  LocalsSound(t)'
    OBVIOUS
  <2>1. /\ pc[t] = "inner_head" /\ k \in Classes /\ c \in Affinity[t] /\ c \in CPUs
    BY <1>1, <1>6, MachineAssumption DEF ReadHead, LocalsInv, InnerLabels
  <2>2. /\ size'[t] = k /\ start'[t] = c
        /\ vecs'[t] = vecs[t] /\ iter'[t] = iter[t] /\ slots'[t] = slots[t]
        /\ cls' = cls
        /\ \/ pc'[t] = "oom"
           \/ pc'[t] = "alloc" /\ this'[t] = h /\ h # NULL
    BY <1>6 DEF ReadHead, slabVars
  <2>3. h # NULL => h \in Chain(k, c)
    <3>1. Walk(k, c)[0] = h /\ 0 \in 0 .. NumSlabs
      BY <1>1, <2>1, WalkOf, AllocatorAssumption
    <3> QED
      BY <1>1, <2>1, <3>1, ChainOf
  <2>4. h # NULL => h \in Made /\ cls[h] = k
    BY <2>1, <2>3, ListOwner
  <2>5. Made' = Made
    BY <2>2 DEF Made
  <2> QED
    BY <1>3, <2>1, <2>2, <2>4, <2>5
       DEF LocalsSound, InnerLabels, SlabLabels, SendLabels, RegisterLabels
<1>7. CASE NewSlab(t)
  <2>1. /\ pc[t] = "new" /\ pc'[t] \in {"idle", "construct"}
        /\ vecs'[t] = {} /\ iter'[t] = {} /\ slots'[t] = {}
        /\ pc'[t] = "construct" => size'[t] = size[t] /\ start'[t] = start[t]
    BY <1>7 DEF NewSlab
  <2> QED
    BY <1>3, <2>1 DEF LocalsSound, InnerLabels, SlabLabels, SendLabels, RegisterLabels
<1>8. CASE ConstructSlab(t)
  <2>1. /\ pc[t] = "construct" /\ pc'[t] = "new_send" /\ this'[t] = this[t] /\ size'[t] = size[t]
        /\ start'[t] = start[t]
        /\ vecs'[t] = vecs[t] /\ iter'[t] = iter[t] /\ slots'[t] = slots[t]
        /\ cls' = [cls EXCEPT ![this[t]] = size[t]]
    BY <1>8 DEF ConstructSlab, Construct
  <2>2. this[t] \in Slabs /\ size[t] \in Classes
    BY <1>1, <2>1 DEF DrawnInv, LocalsInv
  <2>3. this[t] \in Made' /\ cls'[this[t]] = size[t]
    BY <1>1, <2>1, <2>2, SlabAssumption DEF Made, SlabTypeOK
  <2> QED
    BY <1>3, <2>1, <2>2, <2>3
       DEF LocalsSound, InnerLabels, SlabLabels, SendLabels, RegisterLabels
<1>9. CASE SendNew(t) \/ SendReleased(t) \/ SendClaimed(t)
  <2> USE DEF SendNew, SendReleased, SendClaimed, SendFirst, SendCommit
  <2>1. pc[t] \in SendLabels /\ pc[t] \notin RegisterLabels
    BY <1>9 DEF SendLabels, RegisterLabels
  <2>2. /\ vecs'[t] = {} /\ iter'[t] = {} /\ slots'[t] = {}
    BY <1>3, <1>9, <2>1 DEF LocalsSound
  <2>3. CASE pc'[t] \in {"inner", "idle"}
    <3>1. pc'[t] = "inner" => size'[t] \in Classes
      BY <1>3, <1>9, <2>1 DEF LocalsSound, SendLabels
    <3> QED
      BY <2>2, <2>3, <3>1 DEF LocalsSound, InnerLabels, SlabLabels, SendLabels, RegisterLabels
  <2>4. CASE pc'[t] \notin {"inner", "idle"}
    <3>1. /\ pc'[t] \in {"new_send_commit", "rel_send_commit", "free_send_commit", "sent"}
          /\ this'[t] = this[t] /\ size'[t] = size[t] /\ start'[t] = start[t]
          /\ pc'[t] # "free_send_commit" => pc[t] \in {"new_send", "rel_send", "rel_send_commit"}
      BY <1>9, <2>4
    <3>2. /\ pc'[t] \in SendLabels \union {"sent"} /\ pc'[t] # "full"
          /\ pc'[t] \in InnerLabels => pc[t] \in InnerLabels
      BY <3>1 DEF SendLabels, InnerLabels
    <3> QED
      BY <2>1, <2>2, <3>1, <3>2, LocalsKept
  <2> QED
    BY <2>3, <2>4
<1>10. CASE AllocMigrated(t) \/ AllocReturn(t) \/ AfterSend(t) \/ (UnlinkFull(t) /\ CasFails(t))
  <2>1. /\ pc[t] \in {"alloc", "alloc_commit", "sent", "full"} /\ pc'[t] \in {"inner", "idle"}
        /\ vecs'[t] = {} /\ iter'[t] = {} /\ slots'[t] = {}
        /\ pc'[t] = "inner" => size'[t] = size[t]
    BY <1>10 DEF AllocMigrated, AllocReturn, AllocCommit, AfterSend, UnlinkFull, CasSetNext
  <2> QED
    BY <1>3, <2>1 DEF LocalsSound, InnerLabels, SlabLabels, SendLabels, RegisterLabels
<1>11. CASE AllocSection(t) \/ CasSetNext(t, "release")
  <2> USE DEF AllocSection, AllocBegin, AllocFull, AllocClear, AllocLoad, CasSetNext
  <2>1. /\ pc[t] \in {"alloc", "alloc_vec", "full"} /\ this'[t] = this[t]
        /\ pc'[t] \in {"alloc_vec", "alloc_commit", "full", "release"}
        /\ size'[t] = size[t] /\ start'[t] = start[t]
        /\ pc'[t] = "full" => vecs'[t] = {} /\ iter'[t] = {} /\ slots'[t] = {} /\ pos'[t] = NoPos
        /\ pc'[t] = "release" => /\ pc[t] = "full" /\ vecs'[t] = vecs[t] /\ iter'[t] = iter[t]
                                 /\ slots'[t] = slots[t]
    BY <1>11
  <2>2. pc'[t] \notin RegisterLabels => vecs'[t] = {} /\ iter'[t] = {} /\ slots'[t] = {}
    BY <1>3, <2>1 DEF LocalsSound, RegisterLabels
  <2>3. pc[t] \in SlabLabels \intersect InnerLabels /\ pc'[t] \in SlabLabels
    BY <2>1 DEF SlabLabels, InnerLabels
  <2> QED
    BY <2>1, <2>2, <2>3, LocalsKept
<1>12. CASE ReleaseSlab(t)
  <2> USE DEF ReleaseSlab, ReleaseRead, ReleaseVecs, ReleaseSlots, ReleaseTake, ReleaseUnown,
              ReleaseDone
  <2>1. /\ pc[t] \in {"release", "release_unown", "release_vecs", "release_slots", "release_take"}
        /\ size'[t] = size[t]
        /\ \/ pc'[t] \in {"release_unown", "release_vecs", "release_slots", "release_take"}
           \/ /\ pc'[t] \in {"inner", "rel_send"}
              /\ vecs'[t] = {} /\ iter'[t] = {} /\ slots'[t] = {}
        /\ pc'[t] # "inner" => this'[t] = this[t] /\ start'[t] = start[t]
    BY <1>12
  <2>2. CASE pc'[t] = "inner"
    BY <1>3, <2>1, <2>2 DEF LocalsSound, InnerLabels, SlabLabels, SendLabels, RegisterLabels
  <2>3. CASE pc'[t] # "inner"
    <3>1. /\ pc[t] \in SlabLabels \intersect InnerLabels /\ pc'[t] # "full"
          /\ pc'[t] \in SlabLabels \union SendLabels
      BY <2>1, <2>3 DEF SlabLabels, InnerLabels, SendLabels
    <3>2. pc'[t] \notin RegisterLabels => vecs'[t] = {} /\ iter'[t] = {} /\ slots'[t] = {}
      BY <2>1 DEF RegisterLabels
    <3> QED
      BY <2>1, <2>3, <3>1, <3>2, LocalsKept
  <2> QED
    BY <2>2, <2>3
<1>13. CASE \E b \in Blocks : Free(t, b)
  <2>1. PICK b \in Blocks : Free(t, b)
    BY <1>13
  <2>2. b \in HandedOut
    BY <2>1 DEF Free, HandedOut
  <2>3. b[1] \in Made
    BY <2>2, SameOperators DEF Inv, Proved!IndInv, Proved!FreshInv
  <2>4. cls[b[1]] \in Classes
    BY <1>1, <2>3 DEF Made, SlabTypeOK
  <2>5. /\ pc[t] = "idle" /\ pc'[t] = "push" /\ this'[t] = b[1] /\ size'[t] = cls[b[1]]
        /\ vecs'[t] = vecs[t] /\ iter'[t] = iter[t] /\ slots'[t] = slots[t]
        /\ cls' = cls
    BY <2>1 DEF Free, slabVars
  <2>6. Made' = Made
    BY <2>5 DEF Made
  <2> QED
    BY <1>3, <2>3, <2>4, <2>5, <2>6
       DEF LocalsSound, InnerLabels, SlabLabels, SendLabels, RegisterLabels
<1>14. CASE TryPush(t) \/ FreeSlab(t) \/ ClaimSlab(t)
  <2> USE DEF TryPush, FreeSlab, FreeCheck, FreeFirst, FreeVec, FreeLater, FreeState,
              SetOwnedLost, ClaimSlab, SetOwnedWon
  <2>1. /\ pc[t] \in {"push", "free", "free_later", "free_first", "free_vec", "free_state",
                      "set_owned"}
        /\ \/ /\ vecs'[t] = vecs[t] /\ iter'[t] = iter[t] /\ slots'[t] = slots[t]
           \/ /\ vecs'[t] = {} /\ iter'[t] = {} /\ slots'[t] = {}
        /\ pc'[t] \in {"free", "free_later", "free_first", "free_vec", "free_state",
                       "set_owned", "idle", "free_send"}
        /\ pc'[t] # "idle" => this'[t] = this[t] /\ size'[t] = size[t]
    BY <1>14
  <2>2. vecs'[t] = {} /\ iter'[t] = {} /\ slots'[t] = {}
    BY <1>3, <2>1 DEF LocalsSound, RegisterLabels
  <2>3. CASE pc'[t] = "idle"
    BY <2>2, <2>3 DEF LocalsSound, InnerLabels, SlabLabels, SendLabels, RegisterLabels
  <2>4. CASE pc'[t] # "idle"
    <3>1. /\ pc[t] \in SlabLabels \union {"push"} /\ pc'[t] \in SlabLabels \union SendLabels
          /\ pc'[t] \notin InnerLabels /\ pc'[t] # "full"
      BY <2>1, <2>4 DEF SlabLabels, InnerLabels, SendLabels
    <3> QED
      BY <2>1, <2>2, <2>4, <3>1, LocalsKept
  <2> QED
    BY <2>3, <2>4
<1>15. UnlinkFull(t) => CasSetNext(t, "release") \/ CasFails(t)
  BY DEF UnlinkFull
<1> QED
  BY <1>4, <1>5, <1>6, <1>7, <1>8, <1>9, <1>10, <1>11, <1>12, <1>13, <1>14, <1>15
     DEF Step, AllocateStep, FreeStep

\* The next field of a slab is written only once the slab is constructed.
LEMMA FreshNext ==
    ASSUME PinnedApart, Inv, NEW t \in Threads, Running(t), Step(t)
    PROVE  \A s \in Slabs : cls[s] = NoClass => next'[s] = next[s]
<1>1. /\ TypeOK /\ ManagerTypeOK /\ LocalsInv /\ ScheduleInv
  BY DEF Inv, PinnedInv, TypeOK
<1>2. ASSUME NEW x \in Made, next' = [next EXCEPT ![x] = next'[x]]
      PROVE  \A s \in Slabs : cls[s] = NoClass => next'[s] = next[s]
  BY <1>1, <1>2 DEF Made, ManagerTypeOK
<1>3. CASE SendNew(t) \/ SendReleased(t) \/ SendClaimed(t)
  <2>1. CASE next' = next
    BY <2>1
  <2>2. CASE next' # next
    <3> SUFFICES ASSUME NEW k, k = size[t], NEW c, c = CPUOf(t)
                 PROVE  \A s \in Slabs : cls[s] = NoClass => next'[s] = next[s]
      OBVIOUS
    <3>1. PICK l, m : SendFirst(t, l, m) /\ l \in SendLabels
      BY <1>3, <2>2 DEF SendNew, SendReleased, SendClaimed, SendCommit, SendLabels
    <3>2. k \in Classes /\ c \in CPUs
      BY <1>1, <3>1, OnHome DEF LocalsInv, SendFirst, SendLabels
    <3>3. PICK n \in 0 .. NumSlabs : SendsAppend(t, k, c, n)
      BY <2>2, <3>1, SendFirstWalks DEF SendsEmpty, SendsLinked
    <3>4. tail[k][c] \in Chain(k, c) /\ next' = [next EXCEPT ![tail[k][c]] = this[t]]
      BY <1>1, <3>2, <3>3, ChainOf DEF SendsAppend
    <3>5. tail[k][c] \in Made /\ tail[k][c] \in Slabs
      BY <3>2, <3>4, ListOwner DEF Made
    <3>6. next' = [next EXCEPT ![tail[k][c]] = next'[tail[k][c]]]
      BY <1>1, <3>4, <3>5 DEF ManagerTypeOK
    <3> QED
      BY <1>2, <3>5, <3>6
  <2> QED
    BY <2>1, <2>2
<1>4. CASE ReleaseSlab(t) \/ ClaimSlab(t)
  <2>1. this[t] \in Made
    BY <1>1, <1>4 DEF ReleaseSlab, ReleaseRead, ReleaseVecs, ReleaseSlots, ReleaseTake,
       ReleaseUnown, ReleaseDone, ClaimSlab, SetOwnedWon, LocalsInv, SlabLabels
  <2>2. next' = next \/ next' = [next EXCEPT ![this[t]] = NULL]
    BY <1>4 DEF ReleaseSlab, ClaimSlab, listVars
  <2> QED
    BY <1>1, <1>2, <2>1, <2>2 DEF Made, ManagerTypeOK
<1>5. CASE ~ (SendNew(t) \/ SendReleased(t) \/ SendClaimed(t) \/ ReleaseSlab(t) \/ ClaimSlab(t))
  <2>1. next' = next
    BY <1>5 DEF Step, AllocateStep, FreeStep, listVars, Malloc, TryPop, GetStartCpu, ReadHead,
       OutOfMemory, NewSlab, ConstructSlab, AllocMigrated, AllocSection, AllocReturn,
       UnlinkFull, CasSetNext, AfterSend, Free, TryPush, FreeSlab
  <2> QED
    BY <2>1
<1> QED
  BY <1>3, <1>4, <1>5

\* Only _new() moves the bump counter, only out_of_memory() leads to it, and only
\* the constructor gives a slab its class.
LEMMA Draws ==
    ASSUME TypeOK, NEW t \in Threads, Step(t)
    PROVE  /\ pc[t] = "new" => NewSlab(t)
           /\ pc[t] # "new" => current' = current /\ pc'[t] # "construct"
           /\ pc'[t] = "new" => pc[t] = "oom" /\ current <= NumSlabs
           /\ pc[t] = "construct" => cls' = [cls EXCEPT ![this[t]] = size[t]]
           /\ pc[t] # "construct" => cls' = cls
<1>1. pc \in [Threads -> Labels] /\ current \in Nat /\ NumSlabs \in Nat
  BY AllocatorAssumption, FS_CardinalityType DEF TypeOK
<1> USE <1>1 DEF Goto, Return, Call
<1>2. CASE \/ \E k \in Classes : Malloc(t, k)
           \/ TryPop(t) \/ GetStartCpu(t) \/ ReadHead(t) \/ OutOfMemory(t)
  BY <1>2 DEF Malloc, TryPop, GetStartCpu, ReadHead, OutOfMemory, slabVars
<1>3. CASE NewSlab(t) \/ ConstructSlab(t)
  BY <1>3 DEF NewSlab, ConstructSlab, Construct, slabVars
<1>4. CASE SendNew(t) \/ SendReleased(t) \/ SendClaimed(t)
  BY <1>4 DEF SendNew, SendReleased, SendClaimed, SendFirst, SendCommit, slabVars
<1>5. CASE AllocMigrated(t) \/ AllocSection(t) \/ AllocReturn(t) \/ UnlinkFull(t) \/ AfterSend(t)
  BY <1>5 DEF AllocMigrated, AllocSection, AllocBegin, AllocFull, AllocClear, AllocLoad,
     AllocReturn, AllocCommit, UnlinkFull, CasSetNext, AfterSend, slabVars
<1>6. CASE ReleaseSlab(t)
  BY <1>6 DEF ReleaseSlab, ReleaseRead, ReleaseVecs, ReleaseSlots, ReleaseTake, ReleaseUnown,
     ReleaseDone, slabVars
<1>7. CASE (\E b \in Blocks : Free(t, b)) \/ TryPush(t) \/ FreeSlab(t) \/ ClaimSlab(t)
  BY <1>7 DEF Free, TryPush, FreeSlab, FreeCheck, FreeFirst, FreeVec, FreeLater, FreeState,
     SetOwnedLost, ClaimSlab, SetOwnedWon, slabVars
<1> QED
  BY <1>2, <1>3, <1>4, <1>5, <1>6, <1>7 DEF Step, AllocateStep, FreeStep

\* The slabs that are drawn and not yet constructed stay apart, and at most one
\* thread more than there are draws past the end.
LEMMA DrawnStep ==
    ASSUME PinnedApart, Inv, NEW t \in Threads, Running(t), Step(t)
    PROVE  DrawnInv' /\ current' \in 1 .. NumSlabs + 1 + Cardinality(Threads)
<1>1. /\ PinnedInv /\ TypeOK /\ SlabTypeOK /\ DrawnInv
  BY DEF Inv, PinnedInv, TypeOK
<1>2. /\ current \in Nat \ {0} /\ NumSlabs \in Nat /\ NULL = 0 /\ Slabs = 1 .. NumSlabs
      /\ Cardinality(Threads) \in Nat /\ IsFiniteSet(Threads)
  BY <1>1, AllocatorAssumption, FS_CardinalityType DEF TypeOK
<1>3. pc \in [Threads -> Labels] /\ this \in [Threads -> Slabs \union {NULL}]
  BY <1>1 DEF TypeOK, SlabTypeOK
<1>4. pc[t] = "new" => /\ current' = current + 1
                       /\ pc'[t] = "construct" => current <= NumSlabs /\ this'[t] = current
                       /\ pc'[t] \in {"idle", "construct"}
  BY <1>1, <1>2, <1>3, Draws DEF NewSlab, Return, Goto
<1>5. current' = current \/ current' = current + 1
  BY <1>1, <1>4, Draws
<1>6. \A s \in Slabs : cls'[s] = cls[s] \/ (pc[t] = "construct" /\ s = this[t])
  BY <1>1, Draws DEF SlabTypeOK
<1>7. \A u \in Threads \ {t} : pc'[u] = pc[u] /\ this'[u] = this[u]
  BY <1>1, OthersKeep
<1>8. \A s \in Slabs : s >= current' => cls'[s] = NoClass
  <2> TAKE s \in Slabs
  <2> HAVE s >= current'
  <2>1. s >= current /\ cls[s] = NoClass
    BY <1>1, <1>2, <1>5 DEF DrawnInv
  <2>2. ~ (pc[t] = "construct" /\ s = this[t])
    BY <1>1, <1>2, <2>1 DEF DrawnInv
  <2> QED
    BY <1>6, <2>1, <2>2
<1>9. \A s \in Slabs : cls'[s] = NoClass => next'[s] = NULL
  <2> TAKE s \in Slabs
  <2> HAVE cls'[s] = NoClass
  <2>1. cls[s] = NoClass
    BY <1>1, ClassesKept DEF Made
  <2> QED
    BY <1>1, <2>1, FreshNext DEF DrawnInv
<1>10. ASSUME NEW u \in Threads, pc'[u] = "construct"
       PROVE  this'[u] \in Slabs /\ this'[u] < current' /\ cls'[this'[u]] = NoClass
  <2>1. CASE u = t
    <3>1. pc[t] = "new"
      BY <1>1, <1>10, <2>1, Draws
    <3>2. this'[t] = current /\ current' = current + 1 /\ current <= NumSlabs
      BY <1>4, <1>10, <2>1, <3>1
    <3>3. current \in Slabs /\ cls[current] = NoClass
      BY <1>1, <1>2, <3>2 DEF DrawnInv
    <3> QED
      BY <1>2, <1>6, <2>1, <3>1, <3>2, <3>3
  <2>2. CASE u # t
    <3>1. pc[u] = "construct" /\ this'[u] = this[u]
      BY <1>7, <1>10, <2>2
    <3>2. this[u] \in Slabs /\ this[u] < current /\ cls[this[u]] = NoClass
      BY <1>1, <3>1 DEF DrawnInv
    <3>3. ~ (pc[t] = "construct" /\ this[u] = this[t])
      BY <1>1, <2>2, <3>1 DEF DrawnInv
    <3> QED
      BY <1>2, <1>5, <1>6, <3>1, <3>2, <3>3
  <2> QED
    BY <2>1, <2>2
<1>11. ASSUME NEW u \in Threads, NEW v \in Threads, pc'[u] = "construct", pc'[v] = "construct",
              this'[u] = this'[v], u # v
       PROVE  FALSE
  <2>1. ASSUME NEW x \in Threads, x # t, pc'[x] = "construct"
        PROVE  pc[x] = "construct" /\ this'[x] = this[x] /\ this[x] < current /\ this[x] \in Slabs
    BY <1>1, <1>7, <2>1 DEF DrawnInv
  <2>2. pc'[t] = "construct" => this'[t] = current
    BY <1>1, <1>4, Draws
  <2>3. CASE u # t /\ v # t
    BY <1>1, <1>11, <2>1, <2>3 DEF DrawnInv
  <2>4. CASE u = t \/ v = t
    BY <1>2, <1>11, <2>1, <2>2, <2>4
  <2> QED
    BY <2>3, <2>4
<1>12. /\ current' + Cardinality({u \in Threads : pc'[u] = "new"})
             <= NumSlabs + 1 + Cardinality(Threads)
       /\ Cardinality({u \in Threads : pc'[u] = "new"}) \in Nat
  <2> SUFFICES ASSUME NEW N, N = {u \in Threads : pc[u] = "new"},
                      NEW M, M = {u \in Threads : pc'[u] = "new"}
               PROVE  /\ current' + Cardinality(M) <= NumSlabs + 1 + Cardinality(Threads)
                      /\ Cardinality(M) \in Nat
    OBVIOUS
  <2>1. /\ IsFiniteSet(N) /\ Cardinality(N) \in Nat
        /\ IsFiniteSet(M) /\ Cardinality(M) \in Nat
        /\ Cardinality(M) <= Cardinality(Threads)
    BY <1>2, FS_Subset, FS_CardinalityType
  <2>2. current + Cardinality(N) <= NumSlabs + 1 + Cardinality(Threads)
    BY <1>1 DEF DrawnInv
  <2>3. CASE pc[t] = "new"
    <3>1. M = N \ {t} /\ t \in N
      BY <1>4, <1>7, <2>3
    <3>2. Cardinality(M) = Cardinality(N) - 1
      BY <2>1, <3>1, FS_RemoveElement
    <3> QED
      BY <1>2, <1>4, <2>1, <2>2, <2>3, <3>2
  <2>4. CASE pc'[t] = "new"
    <3>1. current <= NumSlabs /\ current' = current
      BY <1>1, <2>4, Draws
    <3> QED
      BY <1>2, <2>1, <3>1
  <2>5. CASE pc[t] # "new" /\ pc'[t] # "new"
    <3>1. M = N /\ current' = current
      BY <1>1, <1>7, <2>5, Draws
    <3> QED
      BY <2>1, <2>2, <3>1
  <2> QED
    BY <2>3, <2>4, <2>5
<1>13. current' \in 1 .. NumSlabs + 1 + Cardinality(Threads)
  BY <1>2, <1>5, <1>12
<1> QED
  BY <1>8, <1>9, <1>10, <1>11, <1>12, <1>13 DEF DrawnInv

----------------------------------------------------------------------------
(***************************************************************************)
(* The invariant.                                                          *)
(***************************************************************************)

\* A step of a thread keeps the invariant.
LEMMA StepInv ==
    ASSUME PinnedApart, Inv, NEW t \in Threads, Step(t)
    PROVE  Inv'
<1>1. Running(t) /\ on' = on /\ PinnedInv /\ TypeOK /\ SlabTypeOK /\ LocalsInv
  BY DEF Step, Inv, PinnedInv, TypeOK
<1>2. Proved!IndInv'
  BY <1>1, StepRefines, ProtocolStep DEF Inv
<1>3. /\ SlabTypeOK' /\ pc' \in [Threads -> Labels]
  <2>1. /\ pc' \in [Threads -> Labels] /\ this' \in [Threads -> Slabs \union {NULL}]
        /\ pos' \in [Threads -> Positions]
    BY <1>1, RegisterTypes DEF TypeOK, SlabTypeOK
  <2>2. /\ availVecs' \in [Slabs -> SUBSET Vecs]
        /\ availSlots' \in [Slabs -> [Vecs -> SUBSET Bits]]
        /\ freedVecs' \in [Slabs -> SUBSET Vecs]
        /\ freedSlots' \in [Slabs -> [Vecs -> SUBSET Bits]]
        /\ state' \in [Slabs -> {OWNED, UNOWNED}]
        /\ cls' \in [Slabs -> Classes \union {NoClass}]
        /\ vecs' \in [Threads -> SUBSET Vecs]
        /\ iter' \in [Threads -> SUBSET Vecs]
        /\ slots' \in [Threads -> SUBSET Bits]
    BY <1>2, SameOperators DEF Proved!IndInv, Proved!TypeOK, Proved!SlabTypeOK
  <2> QED
    BY <2>1, <2>2 DEF SlabTypeOK
<1>4. TypeOK'
  BY <1>1, <1>3, ManagerTypes, StepBlocks, DrawnStep DEF TypeOK, BlocksAfter, CacheOK
<1>5. ScheduleInv'
  BY <1>1 DEF ScheduleInv, PinnedInv
<1>6. LocalsInv'
  <2> SUFFICES ASSUME NEW u \in Threads
               PROVE  LocalsSound(u)'
    BY DEF LocalsInv, LocalsSound
  <2>1. CASE u = t
    BY <1>1, <2>1, LocalsOf
  <2>2. CASE u # t
    <3>1. LocalsSound(u)
      BY <1>1 DEF LocalsInv, LocalsSound
    <3>2. this[u] \in Made => this[u] \in Made' /\ cls'[this[u]] = cls[this[u]]
      BY <1>1, ClassesKept
    <3>3. /\ pc'[u] = pc[u] /\ this'[u] = this[u] /\ pos'[u] = pos[u]
          /\ vecs'[u] = vecs[u] /\ iter'[u] = iter[u] /\ slots'[u] = slots[u]
          /\ size'[u] = size[u] /\ start'[u] = start[u]
      BY <1>1, <2>2, OthersKeep
    <3> QED
      BY <3>1, <3>2, <3>3 DEF LocalsSound
  <2> QED
    BY <2>1, <2>2
<1>7. ChainInv' /\ TailInv' /\ SendInv'
  BY <1>1, StepLists
<1>8. HandedInv' /\ CacheClass'
  BY <1>1, StepBlocks DEF BlocksAfter
<1>9. DrawnInv'
  BY <1>1, DrawnStep
<1> QED
  BY <1>2, <1>4, <1>5, <1>6, <1>7, <1>8, <1>9 DEF Inv, PinnedInv

\* The modelled assertions (lines 437, 439, 444, obj_slab.h:235) cannot fail: the slab
\* that was unlinked is in no list and is owned, and so is the slab that was sent.
LEMMA AssertionsSafe ==
    ASSUME PinnedApart, Inv, NEW t \in Threads
    PROVE  Assertions(t) /\ pc[t] # "aborted"
<1>1. LocalsInv /\ ManagerTypeOK
  BY DEF Inv, PinnedInv, TypeOK
<1>2. UnlinkedNotHead(t)
  <2> SUFFICES ASSUME pc[t] = "release", NEW k, k = size[t], NEW c, c = start[t],
                      head[k][c] = this[t]
               PROVE  FALSE
    BY DEF UnlinkedNotHead
  <2>1. k \in Classes /\ c \in CPUs /\ this[t] \in Made
    BY <1>1, MachineAssumption DEF LocalsInv, InnerLabels, SlabLabels
  <2>2. this[t] # NULL
    BY <2>1, SlabAssumption DEF Made
  <2>3. Walk(k, c)[0] = this[t] /\ 0 \in 0 .. NumSlabs
    BY <1>1, <2>1, WalkOf, AllocatorAssumption
  <2>4. this[t] \in Chain(k, c)
    BY <1>1, <2>1, <2>2, <2>3, ChainOf
  <2>5. pc[t] \in HoldLabels \ SendLabels
    BY DEF HoldLabels, SendLabels
  <2> QED
    BY <2>1, <2>4, <2>5, InNoList
<1>3. UnlinkedOwned(t) /\ SentOwned(t)
  BY HolderOwns DEF UnlinkedOwned, SentOwned, HoldLabels
<1> QED
  BY <1>1, <1>2, <1>3 DEF Assertions, LocalsInv

----------------------------------------------------------------------------
(***************************************************************************)
(* The scheduler.                                                          *)
(***************************************************************************)

\* Only the thread u may move, and only from its critical section to the label
\* where that section restarts.
Restarts(u) ==
    /\ UNCHANGED <<slabVars, listVars, opVars, cache, current, live>>
    /\ this' = this
    /\ \A x \in Threads \ {u} : pc'[x] = pc[x] /\ pos'[x] = pos[x]
    /\ \/ pc' = pc /\ regVars' = regVars
       \/ /\ u \in Threads
          /\ Return(u, pc'[u], this[u])
          /\ \/ pc[u] \in {"alloc_vec", "alloc_commit"} /\ pc'[u] = "alloc"
             \/ pc[u] = "new_send_commit" /\ pc'[u] = "new_send"
             \/ pc[u] = "rel_send_commit" /\ pc'[u] = "rel_send"
             \/ pc[u] = "free_send_commit" /\ pc'[u] = "free_send"

\* Preemption restarts at most one thread.
LEMMA SwitchRestarts ==
    ASSUME TypeOK, NEW c \in CPUs, NEW t \in Threads \union {NoThread}, Switch(c, t),
           UNCHANGED <<cache, current, live>>
    PROVE  \E u : Restarts(u)
<1>1. /\ pc \in [Threads -> Labels] /\ this \in [Threads -> Slabs \union {NULL}]
      /\ pos \in [Threads -> Positions]
  BY DEF TypeOK, SlabTypeOK
<1>2. UNCHANGED <<slabVars, listVars, opVars, cache, current, live>>
  BY DEF Switch
<1>3. CASE on[c] \in Threads /\ RestartAt(pc[on[c]]) # pc[on[c]]
  <2> SUFFICES ASSUME NEW u \in Threads, u = on[c], NEW l, l = RestartAt(pc[u])
               PROVE  Restarts(u)
    BY <1>3
  <2>1. Return(u, l, this[u]) /\ l # pc[u]
    BY <1>3 DEF Switch
  <2>2. /\ this' = this /\ pc'[u] = l
        /\ \A x \in Threads \ {u} : pc'[x] = pc[x] /\ pos'[x] = pos[x]
    BY <1>1, <2>1 DEF Return, Goto
  <2>3. \/ pc[u] \in {"alloc_vec", "alloc_commit"} /\ l = "alloc"
        \/ pc[u] = "new_send_commit" /\ l = "new_send"
        \/ pc[u] = "rel_send_commit" /\ l = "rel_send"
        \/ pc[u] = "free_send_commit" /\ l = "free_send"
    BY <2>1 DEF RestartAt
  <2> QED
    BY <1>2, <2>1, <2>2, <2>3 DEF Restarts
<1>4. CASE ~ (on[c] \in Threads /\ RestartAt(pc[on[c]]) # pc[on[c]])
  <2>1. pc' = pc /\ regVars' = regVars
    BY <1>4 DEF Switch
  <2> QED
    BY <1>2, <2>1 DEF Restarts, regVars
<1> QED
  BY <1>3, <1>4

\* A restarted thread holds, links and pushes what it did.
LEMMA RestartKeeps ==
    ASSUME TypeOK, NEW u, Restarts(u), NEW x \in Threads
    PROVE  /\ \A s : (Holds(x, s)' <=> Holds(x, s)) /\ (Linking(x, s)' <=> Linking(x, s))
           /\ \A b : Pushing(x, b)' <=> Pushing(x, b)
           /\ pc'[x] \in SendLabels <=> pc[x] \in SendLabels
           /\ pc'[x] \in CommitLabels => pc[x] \in CommitLabels
           /\ pc'[x] = "sent" <=> pc[x] = "sent"
           /\ pc'[x] = "new" <=> pc[x] = "new"
           /\ pc'[x] = "construct" <=> pc[x] = "construct"
<1>1. CASE pc'[x] = pc[x]
  <2>1. pc[x] = "push" => pos'[x] = pos[x]
    BY <1>1 DEF Restarts, regVars
  <2> QED
    BY <1>1, <2>1 DEF Restarts, Holds, Linking, Pushing
<1>2. CASE pc'[x] # pc[x]
  <2>1. \/ pc[x] \in {"alloc_vec", "alloc_commit"} /\ pc'[x] = "alloc"
        \/ pc[x] = "new_send_commit" /\ pc'[x] = "new_send"
        \/ pc[x] = "rel_send_commit" /\ pc'[x] = "rel_send"
        \/ pc[x] = "free_send_commit" /\ pc'[x] = "free_send"
    BY <1>2 DEF Restarts
  <2>2. /\ pc'[x] \in SendLabels <=> pc[x] \in SendLabels
        /\ pc'[x] \in HoldLabels <=> pc[x] \in HoldLabels
        /\ pc'[x] \notin CommitLabels /\ pc'[x] # "push" /\ pc[x] # "push"
        /\ pc'[x] # "sent" /\ pc[x] # "sent" /\ pc'[x] # "new" /\ pc[x] # "new"
        /\ pc'[x] # "construct" /\ pc[x] # "construct"
    BY <2>1 DEF HoldLabels, SendLabels, CommitLabels
  <2> QED
    BY <2>2 DEF Restarts, Holds, Linking, Pushing
<1> QED
  BY <1>1, <1>2

\* A restart leaves the lists, the owners and the handed out blocks alone.
LEMMA RestartFrame ==
    ASSUME TypeOK, NEW u, Restarts(u)
    PROVE  /\ Owns' = Owns /\ HandedOut' = HandedOut
           /\ ChainInv => ChainInv'
           /\ TailInv => TailInv'
           /\ SendInv => SendInv'
           /\ HandedInv => HandedInv'
           /\ CacheClass => CacheClass'
           /\ DrawnInv => DrawnInv'
<1>1. /\ next' = next /\ head' = head /\ tail' = tail /\ cls' = cls /\ this' = this
      /\ size' = size /\ cache' = cache /\ live' = live /\ current' = current /\ Made' = Made
  BY DEF Restarts, slabVars, listVars, opVars, Made
<1>2. \A k, c : Walk(k, c)' = Walk(k, c) /\ Chain(k, c)' = Chain(k, c)
  BY <1>1 DEF Walk, Chain
<1>3. \A x \in Threads : \A s : (Holds(x, s)' <=> Holds(x, s)) /\ (Linking(x, s)' <=> Linking(x, s))
  BY RestartKeeps
<1>4. \A x \in Threads : \A b : Pushing(x, b)' <=> Pushing(x, b)
  BY RestartKeeps
<1>5. Owns' = Owns
  BY <1>1, <1>2, <1>3 DEF Owns
<1>6. HandedOut' = HandedOut
  BY <1>1, <1>4 DEF HandedOut
<1>7. ChainInv => ChainInv'
  BY <1>1, <1>2 DEF ChainInv, ChainSound
<1>8. TailInv => TailInv'
  BY <1>1, <1>2, <1>3 DEF TailInv, TailSound
<1>9. SendInv => SendInv'
  BY <1>1, <1>2, RestartKeeps DEF SendInv, SendSound
<1>10. \A b, k, c, n : Cached(b, k, c, n)' <=> Cached(b, k, c, n)
  BY <1>1 DEF Cached
<1>11. HandedInv => HandedInv'
  BY <1>1, <1>4, <1>10 DEF HandedInv, HandedSound
<1>12. CacheClass => CacheClass'
  BY <1>1 DEF CacheClass
<1>13. {x \in Threads : pc'[x] = "new"} = {x \in Threads : pc[x] = "new"}
  BY RestartKeeps
<1>14. DrawnInv => DrawnInv'
  BY <1>1, <1>13, RestartKeeps DEF DrawnInv
<1> QED
  BY <1>5, <1>6, <1>7, <1>8, <1>9, <1>11, <1>12, <1>14

\* To the protocol a restart is the abort of an allocation, or nothing.
LEMMA RestartRefines ==
    ASSUME PinnedInv, NEW u, Restarts(u)
    PROVE  (u \in Threads /\ Proved!Step(u)) \/ UNCHANGED Proved!vars
<1>1. TypeOK /\ SlabTypeOK
  BY DEF PinnedInv, TypeOK
<1>2. Owns' = Owns /\ HandedOut' = HandedOut /\ slabVars' = slabVars
  BY <1>1, RestartFrame DEF Restarts
<1>3. CASE pc' = pc /\ regVars' = regVars
  <2>1. SlabPc' = SlabPc /\ SlabThis' = SlabThis /\ SlabPos' = SlabPos
    BY <1>3 DEF SlabPc, SlabThis, SlabPos, InSlab, regVars
  <2> QED
    BY <1>2, <1>3, <2>1 DEF Proved!vars, Proved!slabVars, Proved!regVars, slabVars, regVars
<1>4. CASE ~ (pc' = pc /\ regVars' = regVars)
  <2>1. /\ u \in Threads /\ Return(u, pc'[u], this[u]) /\ this'[u] = this[u] /\ pos'[u] = NoPos
        /\ \/ pc[u] \in {"alloc_vec", "alloc_commit"} /\ pc'[u] = "alloc"
           \/ pc[u] \in CommitLabels /\ pc'[u] \in SendLabels
    BY <1>1, <1>4 DEF Restarts, CommitLabels, SendLabels, Return, SlabTypeOK
  <2>2. /\ SlabPc' = [SlabPc EXCEPT ![u] = IF pc'[u] \in SlabLabels THEN pc'[u] ELSE "idle"]
        /\ SlabThis' = [SlabThis EXCEPT ![u] = IF pc'[u] \in SlabLabels THEN this'[u] ELSE NULL]
        /\ SlabPos' = [SlabPos EXCEPT ![u] = IF pc'[u] \in SlabLabels THEN pos'[u] ELSE NoPos]
    BY <1>1, <2>1, SlabView DEF Restarts
  <2>3. CASE pc'[u] = "alloc"
    <3>1. SlabPc[u] = pc[u] /\ SlabThis[u] = this[u] /\ pc[u] \in {"alloc_vec", "alloc_commit"}
      BY <2>1, <2>3 DEF SlabPc, SlabThis, InSlab, SlabLabels, SendLabels
    <3>2. /\ SlabPc' = [SlabPc EXCEPT ![u] = "alloc"] /\ SlabThis' = [SlabThis EXCEPT ![u] = SlabThis[u]]
          /\ SlabPos' = [SlabPos EXCEPT ![u] = NoPos]
      BY <2>1, <2>2, <2>3, <3>1 DEF SlabLabels
    <3>3. Proved!AllocAbort(u)
      BY <1>2, <2>1, <3>1, <3>2, SameOperators DEF Proved!AllocAbort, Proved!Return, Proved!Goto,
         Return, Proved!slabVars, slabVars
    <3> QED
      BY <1>2, <2>1, <3>3 DEF Proved!Step, Proved!AllocateStep
  <2>4. CASE pc[u] \in CommitLabels /\ pc'[u] \in SendLabels
    <3>1. /\ pc[u] \notin SlabLabels /\ pc'[u] \notin SlabLabels /\ pc[u] \notin RegisterLabels
      BY <2>4 DEF CommitLabels, SendLabels, SlabLabels, RegisterLabels
    <3>2. SlabPc' = SlabPc /\ SlabThis' = SlabThis /\ SlabPos' = SlabPos
      BY <2>1, <2>2, <3>1, SlabViewOf
    <3>3. vecs' = vecs /\ iter' = iter /\ slots' = slots
      BY <2>1, <3>1, DeadRegisters DEF Return
    <3> QED
      BY <1>2, <3>2, <3>3 DEF Proved!vars, Proved!slabVars, Proved!regVars, slabVars
  <2> QED
    BY <2>1, <2>3, <2>4
<1> QED
  BY <1>3, <1>4

\* A restart keeps the invariant, but for the CPU the thread is on.
LEMMA RestartInv ==
    ASSUME Inv, NEW u, Restarts(u), ScheduleInv', on' \in [CPUs -> Threads \union {NoThread}]
    PROVE  Inv'
<1>1. PinnedInv /\ TypeOK /\ SlabTypeOK /\ ManagerTypeOK /\ LocalsInv
  BY DEF Inv, PinnedInv, TypeOK
<1>2. Proved!IndInv'
  BY <1>1, RestartRefines, ProtocolStep DEF Inv
<1>3. ChainInv' /\ TailInv' /\ SendInv' /\ HandedInv' /\ CacheClass' /\ DrawnInv'
  BY <1>1, RestartFrame DEF PinnedInv
<1>4. NoPos \in Positions
  BY SlabAssumption DEF NoPos, Positions, Vecs, Bits
<1>5. pc' \in [Threads -> Labels]
  BY <1>1 DEF Restarts, Return, Goto, TypeOK, Labels, SlabLabels
<1>6. SlabTypeOK'
  <2>1. /\ vecs' \in [Threads -> SUBSET Vecs] /\ iter' \in [Threads -> SUBSET Vecs]
        /\ slots' \in [Threads -> SUBSET Bits] /\ pos' \in [Threads -> Positions]
    <3>1. CASE regVars' = regVars
      BY <1>1, <3>1 DEF SlabTypeOK, regVars
    <3>2. CASE u \in Threads /\ Return(u, pc'[u], this[u])
      BY <1>1, <1>4, <3>2 DEF SlabTypeOK, Return
    <3> QED
      BY <3>1, <3>2 DEF Restarts
  <2> QED
    BY <1>1, <2>1 DEF Restarts, SlabTypeOK, slabVars
<1>7. ManagerTypeOK'
  BY <1>1 DEF Restarts, ManagerTypeOK, listVars, opVars
<1>8. TypeOK'
  BY <1>1, <1>5, <1>6, <1>7 DEF TypeOK, Restarts
<1>9. LocalsInv'
  <2> SUFFICES ASSUME NEW x \in Threads
               PROVE  LocalsSound(x)'
    BY DEF LocalsInv, LocalsSound
  <2>1. /\ this'[x] = this[x] /\ size'[x] = size[x] /\ start'[x] = start[x] /\ cls' = cls
        /\ Made' = Made /\ LocalsSound(x)
    BY <1>1 DEF Restarts, slabVars, opVars, LocalsInv, LocalsSound, Made
  <2>2. \/ /\ pc'[x] = pc[x] /\ pos'[x] = pos[x]
           /\ vecs'[x] = vecs[x] /\ iter'[x] = iter[x] /\ slots'[x] = slots[x]
        \/ /\ vecs'[x] = {} /\ iter'[x] = {} /\ slots'[x] = {}
           /\ \/ pc[x] \in {"alloc_vec", "alloc_commit"} /\ pc'[x] = "alloc"
              \/ pc[x] = "new_send_commit" /\ pc'[x] = "new_send"
              \/ pc[x] = "rel_send_commit" /\ pc'[x] = "rel_send"
              \/ pc[x] = "free_send_commit" /\ pc'[x] = "free_send"
    BY <1>1 DEF Restarts, Return, Goto, regVars, SlabTypeOK, TypeOK
  <2> QED
    BY <2>1, <2>2 DEF LocalsSound, InnerLabels, SlabLabels, SendLabels, RegisterLabels
<1> QED
  BY <1>2, <1>3, <1>8, <1>9 DEF Inv, PinnedInv

\* A step of the allocator keeps the invariant, and is a step of the protocol or
\* one the protocol does not see.
LEMMA NextInv ==
    ASSUME PinnedApart, Inv, [Next]_vars
    PROVE  Inv' /\ [Proved!Next]_Proved!vars
<1>1. PinnedInv /\ TypeOK /\ ScheduleInv /\ ManagerTypeOK
  BY DEF Inv, PinnedInv, TypeOK
<1>2. CASE \E t \in Threads : Step(t)
  <2>1. PICK t \in Threads : Step(t)
    BY <1>2
  <2>2. Running(t)
    BY <2>1 DEF Step
  <2>3. Proved!Step(t) \/ UNCHANGED Proved!vars
    BY <2>1, <2>2, StepRefines
  <2>4. Inv'
    BY <2>1, StepInv
  <2> QED
    BY <2>3, <2>4 DEF Proved!Next
<1>3. CASE \E t \in Threads : Abort(t)
  BY <1>3, AssertionsSafe DEF Abort
<1>4. ASSUME NEW u, Restarts(u), ScheduleInv', on' \in [CPUs -> Threads \union {NoThread}]
      PROVE  Inv' /\ [Proved!Next]_Proved!vars
  <2>1. Inv'
    BY <1>4, RestartInv
  <2>2. (u \in Threads /\ Proved!Step(u)) \/ UNCHANGED Proved!vars
    BY <1>1, <1>4, RestartRefines
  <2> QED
    BY <2>1, <2>2 DEF Proved!Next
<1>5. CASE Schedule
  <2>1. PICK c \in CPUs, t \in Threads \union {NoThread} : Switch(c, t)
    BY <1>5 DEF Schedule
  <2>2. PICK u : Restarts(u)
    BY <1>1, <1>5, <2>1, SwitchRestarts DEF Schedule
  <2>3. /\ on' = [on EXCEPT ![c] = t]
        /\ t # NoThread => c \in Affinity[t]
    BY <2>1 DEF Switch
  <2>4. on' \in [CPUs -> Threads \union {NoThread}]
    BY <1>1, <2>3 DEF ManagerTypeOK
  <2>5. ScheduleInv'
    BY <1>1, <2>3, MachineAssumption DEF ScheduleInv, ManagerTypeOK
  <2> QED
    BY <1>4, <2>2, <2>4, <2>5
<1>6. CASE UNCHANGED vars
  <2>1. Restarts(NULL)
    BY <1>6 DEF vars, Restarts, regVars
  <2>2. ScheduleInv' /\ on' \in [CPUs -> Threads \union {NoThread}]
    BY <1>1, <1>6 DEF vars, ScheduleInv, ManagerTypeOK
  <2> QED
    BY <1>4, <2>1, <2>2
<1> QED
  BY <1>2, <1>3, <1>5, <1>6 DEF Next

\* At the start no slab is constructed and every list is empty.
LEMMA InitHolds ==
    ASSUME PinnedApart, Init
    PROVE  Inv /\ Proved!Init
<1>1. /\ SlabInit /\ ManagerInit /\ pc = [t \in Threads |-> "idle"]
      /\ cache = [k \in Classes |-> [c \in CPUs |-> <<>>]] /\ current = 1
      /\ live = [b \in Blocks |-> 0]
  BY DEF Init
<1>2. Made = {} /\ \A t \in Threads : pc[t] = "idle"
  BY <1>1 DEF SlabInit, Made
<1>3. NumSlabs \in Nat /\ CacheSize \in Nat /\ IsFiniteSet(Threads) /\ Cardinality(Threads) \in Nat
  BY AllocatorAssumption, FS_CardinalityType
<1>4. NoPos \in Positions
  BY SlabAssumption DEF NoPos, Positions, Vecs, Bits
<1>5. SlabTypeOK
  BY <1>1, <1>4 DEF SlabInit, SlabTypeOK
<1>6. ManagerTypeOK
  BY <1>1 DEF ManagerInit, ManagerTypeOK
<1>7. TypeOK
  <2>1. cache \in [Classes -> [CPUs -> Seq(Blocks)]]
    BY <1>1
  <2>2. \A k \in Classes, c \in CPUs : Len(cache[k][c]) <= CacheSize
    BY <1>1, <1>3
  <2>3. current \in 1 .. NumSlabs + 1 + Cardinality(Threads)
    BY <1>1, <1>3
  <2> QED
    BY <1>1, <1>5, <1>6, <2>1, <2>2, <2>3 DEF TypeOK, Labels
<1>8. ScheduleInv
  BY <1>1, MachineAssumption DEF ManagerInit, ScheduleInv
<1>9. LocalsInv
  BY <1>1, <1>2 DEF SlabInit, LocalsInv, InnerLabels, SlabLabels, SendLabels
<1>10. DrawnInv
  <2>1. {t \in Threads : pc[t] = "new"} = {}
    BY <1>2
  <2>2. current + Cardinality({}) <= NumSlabs + 1 + Cardinality(Threads)
    BY <1>1, <1>3, FS_EmptySet
  <2> QED
    BY <1>1, <1>2, <2>1, <2>2 DEF DrawnInv, SlabInit, ManagerInit
<1>11. ASSUME NEW k \in Classes, NEW c \in CPUs
       PROVE  head[k][c] = NULL /\ \A n \in 0 .. NumSlabs : Walk(k, c)[n] = NULL
  <2>1. head[k][c] = NULL /\ next \in [Slabs -> Pointers]
    BY <1>1, <1>6 DEF ManagerInit, ManagerTypeOK, Pointers
  <2>2. WalkFrom(NULL, next) = [i \in 0 .. NumSlabs |-> NULL]
    BY <2>1, WalkEmpty
  <2>3. Walk(k, c) = [i \in 0 .. NumSlabs |-> NULL]
    BY <2>1, <2>2 DEF Walk
  <2> QED
    BY <2>1, <2>3
<1>12. ChainInv
  BY <1>3, <1>11 DEF ChainInv, ChainSound
<1>13. TailInv
  <2>1. \A n \in 0 .. NumSlabs - 1 : n \in 0 .. NumSlabs
    BY <1>3
  <2> QED
    BY <1>11, <2>1 DEF TailInv, TailSound
<1>14. SendInv
  BY <1>2 DEF SendInv, SendSound, SendLabels, CommitLabels
<1>15. \A b, k, c, n : k \in Classes /\ c \in CPUs => ~ Cached(b, k, c, n)
  BY <1>1 DEF Cached
<1>16. \A t \in Threads : \A b : ~ Pushing(t, b)
  BY <1>2 DEF Pushing
<1>17. HandedInv
  BY <1>1, <1>15, <1>16 DEF HandedInv, HandedSound
<1>18. \A k \in Classes, c \in CPUs : Range(cache[k][c]) = {}
  BY <1>1 DEF Range
<1>19. CacheClass
  BY <1>18 DEF CacheClass
<1>20. Owns = [t \in Threads |-> {}]
  BY <1>2 DEF Owns
<1>21. HandedOut = {}
  BY <1>1, <1>16, <1>18 DEF HandedOut
<1>22. /\ SlabPc = [t \in Threads |-> "idle"] /\ SlabThis = [t \in Threads |-> NULL]
       /\ SlabPos = [t \in Threads |-> NoPos]
  BY <1>2 DEF SlabPc, SlabThis, SlabPos, InSlab, SlabLabels
<1>23. Proved!Init
  BY <1>1, <1>20, <1>21, <1>22, SameOperators DEF Proved!Init, Proved!SlabInit, SlabInit
<1>24. Proved!IndInv
  BY <1>23, ProvedAssumption, Proved!InitInv
<1> QED
  BY <1>7, <1>8, <1>9, <1>10, <1>12, <1>13, <1>14, <1>17, <1>19, <1>23, <1>24 DEF Inv, PinnedInv

\* The two instances of the protocol are one.
LEMMA SameProtocol ==
    /\ Protocol!Init <=> Proved!Init
    /\ Protocol!Next <=> Proved!Next
    /\ Protocol!vars = Proved!vars
    /\ Protocol!vars' = Proved!vars'
  BY DEF Protocol!vars, Proved!vars, Protocol!Made, Proved!Made, Protocol!Init, Proved!Init,
     Protocol!Create, Proved!Create, Protocol!Allocate, Proved!Allocate,
     Protocol!AllocateReturn, Proved!AllocateReturn, Protocol!AllocateStep,
     Proved!AllocateStep, Protocol!Full, Proved!Full, Protocol!ReleaseStep,
     Proved!ReleaseStep, Protocol!GiveUp, Proved!GiveUp, Protocol!Free, Proved!Free,
     Protocol!FreeStep, Proved!FreeStep, Protocol!Claim, Proved!Claim, Protocol!Step,
     Proved!Step, Protocol!Next, Proved!Next, Protocol!slabVars, Proved!slabVars,
     Protocol!regVars, Proved!regVars, Protocol!OWNED, Proved!OWNED, Protocol!UNOWNED,
     Proved!UNOWNED, Protocol!Vecs, Proved!Vecs, Protocol!Bits, Proved!Bits, Protocol!NoPos,
     Proved!NoPos, Protocol!LowestBit, Proved!LowestBit, Protocol!NSlots, Proved!NSlots,
     Protocol!InitVecs, Proved!InitVecs, Protocol!InitSlots, Proved!InitSlots,
     Protocol!Construct, Proved!Construct, Protocol!Goto, Proved!Goto, Protocol!Return,
     Proved!Return, Protocol!Call, Proved!Call, Protocol!AllocBegin, Proved!AllocBegin,
     Protocol!AllocFull, Proved!AllocFull, Protocol!AllocClear, Proved!AllocClear,
     Protocol!AllocLoad, Proved!AllocLoad, Protocol!AllocResult, Proved!AllocResult,
     Protocol!AllocCommit, Proved!AllocCommit, Protocol!AllocAbort, Proved!AllocAbort,
     Protocol!ReleaseRead, Proved!ReleaseRead, Protocol!ReleaseUnown, Proved!ReleaseUnown,
     Protocol!ReleaseVecs, Proved!ReleaseVecs, Protocol!ReleaseSlots, Proved!ReleaseSlots,
     Protocol!ReleaseTake, Proved!ReleaseTake, Protocol!ReleaseDone, Proved!ReleaseDone,
     Protocol!FreeCheck, Proved!FreeCheck, Protocol!SetFreedSlot, Proved!SetFreedSlot,
     Protocol!FreeLater, Proved!FreeLater, Protocol!FreeFirst, Proved!FreeFirst,
     Protocol!FreeVec, Proved!FreeVec, Protocol!FreeState, Proved!FreeState,
     Protocol!SetOwnedWon, Proved!SetOwnedWon, Protocol!SetOwnedLost, Proved!SetOwnedLost,
     Protocol!SlabInit, Proved!SlabInit, Protocol!NoClass, Proved!NoClass

----------------------------------------------------------------------------
(***************************************************************************)
(* What the invariant says.                                                *)
(***************************************************************************)

\* Every list is a chain of OWNED slabs of its class that ends at its tail, or at a
\* slab that is being linked.
LEMMA InvLists ==
    ASSUME Inv
    PROVE  ListsSound
<1> SUFFICES ASSUME NEW k \in Classes, NEW c \in CPUs, NEW w, w = Walk(k, c)
             PROVE  /\ w[NumSlabs] = NULL
                    /\ \A s \in Chain(k, c) : cls[s] = k /\ state[s] = OWNED
                    /\ \A n \in 0 .. NumSlabs - 1 : w[n] # NULL /\ w[n + 1] = NULL =>
                          w[n] = tail[k][c] \/ \E t \in Threads : Linking(t, w[n])
  BY DEF ListsSound
<1>1. ChainSound(k, c) /\ TailSound(k, c)
  BY DEF Inv, PinnedInv, ChainInv, TailInv
<1>2. w[NumSlabs] = NULL
  BY <1>1 DEF ChainSound
<1>3. \A s \in Chain(k, c) : cls[s] = k /\ state[s] = OWNED
  BY ListOwner
<1>4. ASSUME NEW n \in 0 .. NumSlabs - 1, w[n] # NULL, w[n + 1] = NULL
      PROVE  w[n] = tail[k][c] \/ \E t \in Threads : Linking(t, w[n])
  <2>1. n \in 0 .. NumSlabs
    BY AllocatorAssumption
  <2> QED
    BY <1>1, <1>4, <2>1 DEF TailSound
<1> QED
  BY <1>2, <1>3, <1>4

\* The size of a set whose elements are all equal.
LEMMA AtMostOne ==
    ASSUME NEW S, \A x, y \in S : x = y
    PROVE  Cardinality(S) = IF S = {} THEN 0 ELSE 1
<1>1. CASE S = {}
  BY <1>1, FS_EmptySet
<1>2. CASE S # {}
  <2>1. PICK x : x \in S
    BY <1>2
  <2>2. S = {x}
    BY <2>1
  <2>3. Cardinality({x}) = 1
    BY FS_Singleton
  <2> QED
    BY <1>2, <2>2, <2>3
<1> QED
  BY <1>1, <1>2

\* A constructed slab is linked in one list, or held by one thread, or UNOWNED.
LEMMA InvSlabs ==
    ASSUME PinnedApart, Inv
    PROVE  SlabConservation
<1> SUFFICES ASSUME NEW s \in Made,
                    NEW L, L = {l \in Classes \X CPUs : s \in Chain(l[1], l[2])},
                    NEW H, H = {t \in Threads : Holds(t, s)}
             PROVE  /\ Cardinality(L) <= 1
                    /\ Cardinality(H) <= 1
                    /\ L # {} => \A t \in H : Linking(t, s)
                    /\ state[s] = UNOWNED <=> L = {} /\ H = {}
  BY DEF SlabConservation
<1>1. TypeOK /\ ManagerTypeOK /\ TailInv
  BY DEF Inv, PinnedInv, TypeOK
<1>2. \A l, m \in L : l = m
  BY ChainsApart
<1>3. \A t, u \in H : t = u
  BY OneHolder
<1>4. Cardinality(L) <= 1 /\ Cardinality(H) <= 1
  BY <1>2, <1>3, AtMostOne
<1>5. ASSUME L # {}, NEW t \in H
      PROVE  Linking(t, s)
  <2>1. PICK k \in Classes, c \in CPUs : s \in Chain(k, c)
    BY <1>5
  <2>2. PICK n \in 0 .. NumSlabs : Walk(k, c)[n] = s /\ s # NULL
    BY <1>1, <2>1, ChainOf
  <2>3. TailSound(k, c)
    BY <1>1 DEF TailInv
  <2> QED
    BY <2>2, <2>3 DEF TailSound
<1>6. ASSUME NEW l \in L
      PROVE  state[s] # UNOWNED
  BY ListOwner DEF OWNED, UNOWNED
<1>7. ASSUME NEW t \in H
      PROVE  state[s] # UNOWNED
  BY HolderOwns DEF OWNED, UNOWNED, Holds
<1>8. ASSUME L = {}, H = {}
      PROVE  state[s] = UNOWNED
  <2>1. ASSUME NEW k \in Classes, NEW c \in CPUs
        PROVE  s \notin Chain(k, c)
    <3>1. <<k, c>> \in Classes \X CPUs /\ <<k, c>>[1] = k /\ <<k, c>>[2] = c
      OBVIOUS
    <3> QED
      BY <1>8, <3>1
  <2>2. \A t \in Threads : Affinity[t] \subseteq CPUs
    BY MachineAssumption
  <2>3. \A t \in Threads : s \notin Owns[t]
    BY <1>8, <2>1, <2>2, OwnsOf
  <2> QED
    BY <2>3, Ownership DEF Inv
<1> QED
  BY <1>4, <1>5, <1>6, <1>7, <1>8

\* The places of the caches that hold the block b: one, if b is cached.
LEMMA CachedPlaces ==
    ASSUME CacheOK, NEW b, HandedSound(b)
    PROVE  Cardinality({l \in Classes \X CPUs \X (1 .. CacheSize) :
                           /\ l[3] <= Len(cache[l[1]][l[2]])
                           /\ cache[l[1]][l[2]][l[3]] = b})
           = IF \E k \in Classes, c \in CPUs, n \in 1 .. CacheSize : Cached(b, k, c, n)
             THEN 1 ELSE 0
<1> DEFINE C == {l \in Classes \X CPUs \X (1 .. CacheSize) : Cached(b, l[1], l[2], l[3])}
<1>1. ASSUME NEW l \in Classes \X CPUs \X (1 .. CacheSize)
      PROVE  /\ l[3] <= Len(cache[l[1]][l[2]]) /\ cache[l[1]][l[2]][l[3]] = b
             <=> Cached(b, l[1], l[2], l[3])
  <2> SUFFICES ASSUME NEW k \in Classes, NEW c \in CPUs, NEW n \in 1 .. CacheSize
               PROVE  n <= Len(cache[k][c]) /\ cache[k][c][n] = b <=> Cached(b, k, c, n)
    OBVIOUS
  <2>1. Len(cache[k][c]) \in Nat
    BY DEF CacheOK
  <2> QED
    BY <2>1 DEF Cached
<1>2. C = {l \in Classes \X CPUs \X (1 .. CacheSize) :
             /\ l[3] <= Len(cache[l[1]][l[2]])
             /\ cache[l[1]][l[2]][l[3]] = b}
  BY <1>1
<1>3. ASSUME NEW l \in C, NEW m \in C
      PROVE  l = m
  <2>1. /\ l = <<l[1], l[2], l[3]>> /\ l[1] \in Classes /\ l[2] \in CPUs /\ l[3] \in 1 .. CacheSize
        /\ m = <<m[1], m[2], m[3]>> /\ m[1] \in Classes /\ m[2] \in CPUs /\ m[3] \in 1 .. CacheSize
        /\ Cached(b, l[1], l[2], l[3]) /\ Cached(b, m[1], m[2], m[3])
    OBVIOUS
  <2>2. ASSUME NEW k \in Classes, NEW c \in CPUs, NEW n \in 1 .. CacheSize, Cached(b, k, c, n),
               NEW j \in Classes, NEW d \in CPUs, NEW i \in 1 .. CacheSize, Cached(b, j, d, i)
        PROVE  k = j /\ c = d /\ n = i
    BY <2>2 DEF HandedSound
  <2>3. l[1] = m[1] /\ l[2] = m[2] /\ l[3] = m[3]
    BY <2>1, <2>2
  <2> QED
    BY <2>1, <2>3
<1>4. C # {} <=> \E k \in Classes, c \in CPUs, n \in 1 .. CacheSize : Cached(b, k, c, n)
  <2>1. ASSUME NEW k \in Classes, NEW c \in CPUs, NEW n \in 1 .. CacheSize, Cached(b, k, c, n)
        PROVE  C # {}
    <3>1. /\ <<k, c, n>> \in Classes \X CPUs \X (1 .. CacheSize)
          /\ <<k, c, n>>[1] = k /\ <<k, c, n>>[2] = c /\ <<k, c, n>>[3] = n
      OBVIOUS
    <3>2. <<k, c, n>> \in C
      BY <2>1, <3>1
    <3> QED
      BY <3>2
  <2>2. ASSUME NEW l \in C
        PROVE  \E k \in Classes, c \in CPUs, n \in 1 .. CacheSize : Cached(b, k, c, n)
    <3>1. l[1] \in Classes /\ l[2] \in CPUs /\ l[3] \in 1 .. CacheSize /\ Cached(b, l[1], l[2], l[3])
      OBVIOUS
    <3> QED
      BY <3>1
  <2> QED
    BY <2>1, <2>2
<1> HIDE DEF C
<1>5. Cardinality(C) = IF C = {} THEN 0 ELSE 1
  BY <1>3, AtMostOne
<1>6. Cardinality(C) = IF \E k \in Classes, c \in CPUs, n \in 1 .. CacheSize : Cached(b, k, c, n)
                       THEN 1 ELSE 0
  BY <1>4, <1>5
<1> QED
  BY <1>2, <1>6

\* Every block of a constructed slab is in one place, counted over the program,
\* the frees, the caches and the slab's words.
LEMMA InvBlocks ==
    ASSUME Inv
    PROVE  BlockConservation
<1> SUFFICES ASSUME NEW s \in Made, NEW p \in Positions
             PROVE  Places(s, p) = IF p \in BlocksOf(cls[s]) THEN 1 ELSE 0
  BY DEF BlockConservation
<1> DEFINE b == <<s, p[1], p[2]>>
           F == {t \in Threads : /\ pc[t] \in {"push", "free", "free_later", "free_first"}
                                 /\ this[t] = s
                                 /\ pos[t] = p}
           C == {l \in Classes \X CPUs \X (1 .. CacheSize) :
                    /\ l[3] <= Len(cache[l[1]][l[2]])
                    /\ cache[l[1]][l[2]][l[3]] = b}
           IsPushed == \E t \in Threads : Pushing(t, b)
           IsFreeing == \E t \in Threads : Proved!Holds(t, s, p)
           IsCached == \E k \in Classes, c \in CPUs, n \in 1 .. CacheSize : Cached(b, k, c, n)
           IsAvailable == p[2] \in availSlots[s][p[1]]
           IsFreed == p[2] \in freedSlots[s][p[1]]
<1>1. TypeOK /\ CacheOK /\ LocalsInv /\ SlabTypeOK
  BY DEF Inv, PinnedInv, TypeOK, CacheOK
<1>2. s \in Slabs /\ b \in Blocks /\ p = <<p[1], p[2]>>
  BY DEF Made, Positions, Blocks
<1>3. HandedSound(b) /\ live[b] \in Nat /\ live[b] <= 1
  BY <1>1, <1>2 DEF Inv, PinnedInv, HandedInv, HandedSound, TypeOK
<1>4. Proved!InOnePlace(s, p)
  <2>1. s \in Proved!Made /\ p \in Proved!Positions
    BY SameOperators
  <2> QED
    BY <2>1 DEF Inv, Proved!IndInv, Proved!BlockConservation
<1>5. Places(s, p) = live[b] + Cardinality(F) + Cardinality(C)
                     + (IF IsAvailable THEN 1 ELSE 0) + (IF IsFreed THEN 1 ELSE 0)
  BY DEF Places
<1>6. Cardinality(C) = IF IsCached THEN 1 ELSE 0
  BY <1>1, <1>3, CachedPlaces
<1>7. \A t \in Threads : t \in F <=> Pushing(t, b) \/ Proved!Holds(t, s, p)
  <2>1. \A t \in Threads : Proved!Holds(t, s, p) <=>
           pc[t] \in {"free", "free_later", "free_first"} /\ this[t] = s /\ pos[t] = p
    BY DEF Proved!Holds, Proved!Freeing, SlabPc, SlabThis, SlabPos, InSlab, SlabLabels
  <2>2. \A t \in Threads : pos[t] = <<pos[t][1], pos[t][2]>>
    BY <1>1 DEF SlabTypeOK, Positions
  <2>3. \A t \in Threads : pc[t] = "push" /\ this[t] = s /\ pos[t] = p <=> Pushing(t, b)
    BY <1>2, <2>2 DEF Pushing
  <2> QED
    BY <2>1, <2>3
<1>8. F \subseteq Threads
  OBVIOUS
<1>9. b \in HandedOut <=> live[b] > 0 \/ IsCached \/ IsPushed
  BY <1>1, <1>2, HandedOf DEF Somewhere
<1>10. /\ IsCached => live[b] = 0 /\ ~ IsPushed
       /\ IsPushed => live[b] = 0
       /\ \A t, u \in Threads : Pushing(t, b) /\ Pushing(u, b) => t = u
  BY <1>3 DEF HandedSound
<1>11. /\ p \in BlocksOf(cls[s]) <=> IsAvailable \/ b \in HandedOut \/ IsFreeing \/ IsFreed
       /\ IsAvailable => b \notin HandedOut /\ ~ IsFreeing /\ ~ IsFreed
       /\ b \in HandedOut => ~ IsFreeing /\ ~ IsFreed
       /\ IsFreeing => ~ IsFreed
       /\ \A t, u \in Threads : Proved!Holds(t, s, p) /\ Proved!Holds(u, s, p) => t = u
  <2>1. Proved!BlocksOf(cls[s]) = BlocksOf(cls[s])
    BY SameOperators DEF Proved!BlocksOf, BlocksOf
  <2> QED
    BY <1>4, <2>1 DEF Proved!InOnePlace, Proved!Available, Proved!Live, Proved!InFree, Proved!Freed
<1> HIDE DEF F, C, b
<1>12. \A t, u \in F : t = u
  BY <1>7, <1>8, <1>9, <1>10, <1>11
<1>13. Cardinality(F) = IF F = {} THEN 0 ELSE 1
  BY <1>12, AtMostOne
<1>14. F # {} <=> IsPushed \/ IsFreeing
  BY <1>7, <1>8
<1>15. Cardinality(F) = IF IsPushed \/ IsFreeing THEN 1 ELSE 0
  BY <1>13, <1>14
<1>16. /\ b \in HandedOut <=> live[b] > 0 \/ IsCached \/ IsPushed
       /\ IsCached => live[b] = 0 /\ ~ IsPushed
       /\ IsPushed => live[b] = 0
       /\ p \in BlocksOf(cls[s]) <=> IsAvailable \/ b \in HandedOut \/ IsFreeing \/ IsFreed
       /\ IsAvailable => b \notin HandedOut /\ ~ IsFreeing /\ ~ IsFreed
       /\ b \in HandedOut => ~ IsFreeing /\ ~ IsFreed
       /\ IsFreeing => ~ IsFreed
       /\ live[b] = 0 \/ live[b] = 1
  BY <1>3, <1>9, <1>10, <1>11
<1> HIDE DEF IsPushed, IsFreeing, IsCached, IsAvailable, IsFreed
<1> QED
  BY <1>5, <1>6, <1>15, <1>16

----------------------------------------------------------------------------
(***************************************************************************)
(* The theorems.                                                           *)
(***************************************************************************)

\* The inductive invariant: the locals, lists and caches of the allocator are in
\* order, and its slabs, seen through the owners, satisfy the invariant of the
\* protocol of obj_slab.h.
THEOREM PinnedInductive ==
    ASSUME PinnedApart
    PROVE  Spec => []Inv
<1>1. Init => Inv
  BY InitHolds
<1>2. Inv /\ [Next]_vars => Inv'
  BY NextInv
<1> QED
  BY <1>1, <1>2, PTL DEF Spec

\* Every variable of the allocator keeps its shape: the bump counter overshoots the
\* region by at most one slab per thread, and a free cache never outgrows its array.
THEOREM PinnedTypeCorrect ==
    ASSUME PinnedApart
    PROVE  Spec => []TypeOK
<1>1. Inv => TypeOK
  BY DEF Inv, PinnedInv
<1> QED
  BY <1>1, PinnedInductive, PTL

\* Every list of available slabs is a chain of OWNED slabs of its class that ends at
\* its tail: no _send_slab() or _cas_set_next_available_slab(), aborted at any store,
\* makes a cycle, loses the end or links a slab nobody owns.
THEOREM PinnedLists ==
    ASSUME PinnedApart
    PROVE  Spec => []ListsSound
<1>1. Inv => ListsSound
  BY InvLists
<1> QED
  BY <1>1, PinnedInductive, PTL

\* No slab is lost and none has two users, through any sequence of unlinking,
\* releasing, claiming and sending.
THEOREM PinnedSlabs ==
    ASSUME PinnedApart
    PROVE  Spec => []SlabConservation
<1>1. Inv => SlabConservation
  BY InvSlabs
<1> QED
  BY <1>1, PinnedInductive, PTL

\* Every block of a constructed slab is in exactly one place: with the program, in one
\* _free(), in one place of one free cache, or in the bits of its slab.
THEOREM PinnedBlocks ==
    ASSUME PinnedApart
    PROVE  Spec => []BlockConservation
<1>1. Inv => BlockConservation
  BY InvBlocks
<1> QED
  BY <1>1, PinnedInductive, PTL

\* Every block stays in one place, and in a cache only under the class of its slab, so
\* that try_pop() never returns a block of another size.
THEOREM PinnedBlocksAtHome ==
    ASSUME PinnedApart
    PROVE  Spec => []BlocksAtHome
<1>1. Inv => BlocksAtHome
  BY InvBlocks DEF BlocksAtHome, Inv, PinnedInv
<1> QED
  BY <1>1, PinnedInductive, PTL

\* The assertions of _allocate_inner() on the slab it unlinked and on the one it sent
\* back (lines 437, 439 and 444, and obj_slab.h:235) cannot fail: the unlinked slab is
\* not the head and is OWNED, and so is the slab that was sent back.
THEOREM PinnedAssertions ==
    ASSUME PinnedApart
    PROVE  Spec => []AssertionsHold
<1>1. Inv => AssertionsHold
  BY AssertionsSafe DEF AssertionsHold
<1> QED
  BY <1>1, PinnedInductive, PTL

\* _allocate() never returns a block the program holds (what the regions of
\* slab_test.cc verify), as long as no two threads share a CPU.
THEOREM PinnedNoDoubles ==
    ASSUME PinnedApart
    PROVE  Spec => []NoDoubleAllocation
<1>1. Inv => NoDoubleAllocation
  BY DEF Inv, PinnedInv, HandedInv, HandedSound, NoDoubleAllocation
<1> QED
  BY <1>1, PinnedInductive, PTL

\* The allocator implements the slab protocol: the thread of a CPU is the only owner of
\* the slabs in its lists, so every step of _allocate() and _free() is a step the
\* protocol allows, or one that it does not see.
THEOREM PinnedRefines ==
    ASSUME PinnedApart
    PROVE  Spec => RefinesProtocol
<1>1. Init => Protocol!Init
  BY InitHolds, SameProtocol
<1>2. Inv /\ [Next]_vars => [Protocol!Next]_Protocol!vars
  BY NextInv, SameProtocol
<1> QED
  BY <1>1, <1>2, PinnedInductive, PTL DEF Spec, RefinesProtocol, Protocol!Spec
=============================================================================
