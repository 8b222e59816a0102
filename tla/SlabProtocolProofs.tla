------------------------- MODULE SlabProtocolProofs -------------------------
(***************************************************************************)
(* For any number of threads, slabs, size classes, vectors and bits: the   *)
(* slab protocol keeps its types, hands every slab to at most one owner,   *)
(* and neither loses nor doubles a block.                                  *)
(*                                                                         *)
(* The argument is the inductive invariant IndInv of SlabProtocol.  There  *)
(* is one lemma per conjunct; each goes through the actions.  Conjuncts    *)
(* most actions cannot disturb have a frame lemma that says why.           *)
(***************************************************************************)
EXTENDS SlabProtocol, WellFoundedInduction, TLAPS

----------------------------------------------------------------------------
(***************************************************************************)
(* The lowest bit of a word and the shape of a constructed slab.           *)
(***************************************************************************)

\* tzcnt of a non-zero word is a one of the word.
LEMMA LowestBitIn ==
    ASSUME NEW S \in SUBSET Nat, S # {}
    PROVE  LowestBit(S) \in S
<1>1. PICK x \in S : \A y \in S : ~ (<<y, x>> \in OpToRel(<, Nat))
  BY NatLessThanWellFounded, WFMin, Zenon
<1>2. \A y \in S : ~ (y < x)
  BY <1>1 DEF OpToRel
<1>3. \A y \in S : x <= y
  BY <1>2
<1> QED
  BY <1>3 DEF LowestBit

\* The same for the registers of a thread.
LEMMA RegisterBits ==
    ASSUME TypeOK, NEW t \in Threads
    PROVE  /\ vecs[t] # {} => LowestBit(vecs[t]) \in vecs[t]
           /\ iter[t] # {} => LowestBit(iter[t]) \in iter[t]
           /\ slots[t] # {} => LowestBit(slots[t]) \in slots[t]
<1>1. vecs[t] \in SUBSET Nat /\ iter[t] \in SUBSET Nat /\ slots[t] \in SUBSET Nat
  BY SlabAssumption DEF TypeOK, SlabTypeOK, Vecs, Bits
<1> QED
  BY <1>1, LowestBitIn

\* The constructor uses between one and NumVecs vectors.
LEMMA NSlotsRange ==
    ASSUME NEW n \in 1 .. NumVecs * VecSize
    PROVE  NSlots(n) \in 1 .. NumVecs
<1> DEFINE m == n + VecSize - 1
<1>1. n \in Nat /\ NumVecs * VecSize \in Nat
  BY SlabAssumption
<1>2. m \in Nat /\ m >= VecSize /\ m < NumVecs * VecSize + VecSize
  BY SlabAssumption, <1>1
<1> HIDE DEF m
<1>3. PICK q \in Int, r \in 0 .. VecSize - 1 : m = VecSize * q + r /\ q = m \div VecSize
  <2>1. /\ m = VecSize * (m \div VecSize) + (m % VecSize)
        /\ m % VecSize \in 0 .. VecSize - 1
        /\ m \div VecSize \in Int
    BY SlabAssumption, <1>2, Z3T(20)
  <2> QED
    BY <2>1
<1>4. VecSize * q \in Int
  BY SlabAssumption
<1>5. q <= NumVecs
  <2>1. SUFFICES ASSUME q >= NumVecs + 1 PROVE FALSE
    BY SlabAssumption
  <2>2. VecSize * q >= VecSize * (NumVecs + 1)
    BY <2>1, SlabAssumption
  <2>3. VecSize * (NumVecs + 1) = NumVecs * VecSize + VecSize
    BY SlabAssumption
  <2> QED
    BY <2>2, <2>3, <1>1, <1>2, <1>3, <1>4, SlabAssumption
<1>6. q >= 1
  <2>1. SUFFICES ASSUME q <= 0 PROVE FALSE
    BY SlabAssumption
  <2>2. VecSize * q <= 0
    BY <2>1, SlabAssumption
  <2> QED
    BY <2>2, <1>2, <1>3, <1>4, SlabAssumption
<1> QED
  BY <1>3, <1>5, <1>6, SlabAssumption DEF m, NSlots

\* A constructed slab has well-formed words, and set bits only under set
\* summary bits.
LEMMA ConstructorShape ==
    ASSUME NEW k \in Classes
    PROVE  /\ InitVecs(NBlocks[k]) \in SUBSET Vecs
           /\ InitSlots(NBlocks[k]) \in [Vecs -> SUBSET Bits]
           /\ \A v \in Vecs : InitSlots(NBlocks[k])[v] # {} => v \in InitVecs(NBlocks[k])
<1> DEFINE n == NBlocks[k]
<1>1. n \in 1 .. NumVecs * VecSize
  BY SlabAssumption
<1>2. NSlots(n) \in 1 .. NumVecs
  BY <1>1, NSlotsRange
<1>3. n % VecSize \in 0 .. VecSize - 1
  <2>1. n \in Nat
    BY <1>1, SlabAssumption
  <2> HIDE DEF n
  <2> QED
    BY <2>1, SlabAssumption, Z3T(20)
<1> HIDE DEF n
<1>4. (0 .. (n % VecSize) - 1) \subseteq Bits
  BY <1>3, SlabAssumption DEF Bits
<1>5. InitVecs(n) \in SUBSET Vecs
  BY <1>2, SlabAssumption DEF InitVecs, Vecs
<1>6. InitSlots(n) \in [Vecs -> SUBSET Bits]
  BY <1>4 DEF InitSlots
<1>7. \A v \in Vecs : InitSlots(n)[v] # {} => v \in InitVecs(n)
  BY <1>2, SlabAssumption DEF InitSlots, InitVecs, Vecs
<1> QED
  BY <1>5, <1>6, <1>7 DEF n

----------------------------------------------------------------------------
(***************************************************************************)
(* Facts about one state in which IndInv holds.                            *)
(***************************************************************************)

\* The slab and the bits a busy thread works with.
LEMMA Operands ==
    ASSUME IndInv, NEW t \in Threads
    PROVE  /\ pc[t] # "idle" => this[t] \in Made /\ this[t] \in Slabs
           /\ vecs[t] # {} => LowestBit(vecs[t]) \in vecs[t] /\ LowestBit(vecs[t]) \in Vecs
           /\ iter[t] # {} => LowestBit(iter[t]) \in iter[t] /\ LowestBit(iter[t]) \in Vecs
           /\ slots[t] # {} => LowestBit(slots[t]) \in slots[t] /\ LowestBit(slots[t]) \in Bits
           /\ pos[t][1] \in Vecs /\ pos[t][2] \in Bits /\ pos[t] = <<pos[t][1], pos[t][2]>>
<1>1. /\ vecs[t] # {} => LowestBit(vecs[t]) \in vecs[t]
      /\ iter[t] # {} => LowestBit(iter[t]) \in iter[t]
      /\ slots[t] # {} => LowestBit(slots[t]) \in slots[t]
  BY RegisterBits DEF IndInv
<1>2. vecs[t] \subseteq Vecs /\ iter[t] \subseteq Vecs /\ slots[t] \subseteq Bits
      /\ pos[t] \in Vecs \X Bits
  BY DEF IndInv, TypeOK, SlabTypeOK, Positions
<1>3. pc[t] # "idle" => this[t] \in Made /\ this[t] \in Slabs
  BY DEF IndInv, BusyInv, Made
<1> QED
  BY <1>1, <1>2, <1>3

\* Two threads in owner operations on one slab are one thread.
LEMMA OwnerAlone ==
    ASSUME IndInv, NEW t \in Threads, NEW u \in Threads,
           pc[t] \in OwnerLabels, pc[u] \in OwnerLabels, this[t] = this[u]
    PROVE  t = u
<1>1. this[t] \in owns[t] /\ this[t] \in owns[u] /\ this[t] \in Made
  BY DEF IndInv, BusyInv
<1> QED
  BY <1>1 DEF IndInv, OwnershipExact

----------------------------------------------------------------------------
(***************************************************************************)
(* Every action preserves every conjunct of IndInv.                        *)
(***************************************************************************)

\* A step that leaves the available words alone, and the registers of every
\* thread in the middle of taking freed bits, hides no block.
LEMMA VisibleFrame ==
    ASSUME IndInv, UNCHANGED <<cls, availVecs, availSlots>>,
           \A u \in Threads : pc[u] \in {"release_slots", "release_take"} =>
               /\ pc'[u] \in {"release_slots", "release_take"}
               /\ this'[u] = this[u] /\ vecs'[u] = vecs[u] /\ iter'[u] = iter[u]
    PROVE  VisibleInv'
<1> SUFFICES ASSUME NEW s \in Made', NEW v \in Vecs, availSlots'[s][v] # {}
             PROVE  Shown(s, v)'
  BY DEF VisibleInv
<1>1. s \in Made /\ Shown(s, v)
  BY DEF IndInv, VisibleInv, Made
<1>2. \A u \in Threads : Filling(u, s, v) => Filling(u, s, v)'
  BY DEF Filling
<1> QED
  BY <1>1, <1>2 DEF Shown

\* A slab that keeps its class keeps its blocks.
LEMMA SameBlocks ==
    ASSUME NEW s, NEW p, cls'[s] = cls[s]
    PROVE  (p \in BlocksOf(cls[s]))' <=> p \in BlocksOf(cls[s])
  BY DEF BlocksOf

\* A block that no step moves is still in one place.
LEMMA BlockFrame ==
    ASSUME NEW s, NEW p, InOnePlace(s, p), cls'[s] = cls[s],
           Available(s, p)' <=> Available(s, p),
           Live(s, p)' <=> Live(s, p),
           Freed(s, p)' <=> Freed(s, p),
           \A u \in Threads : Holds(u, s, p)' <=> Holds(u, s, p)
    PROVE  InOnePlace(s, p)'
  BY SameBlocks DEF InOnePlace, InFree

\* A step that moves no block at all.
LEMMA BlocksFrame ==
    ASSUME IndInv, UNCHANGED <<cls, availSlots, freedSlots, live>>,
           \A u \in Threads :
               /\ Freeing(u)' <=> Freeing(u)
               /\ Freeing(u) => this'[u] = this[u] /\ pos'[u] = pos[u]
    PROVE  BlockConservation'
<1> SUFFICES ASSUME NEW s \in Made', NEW p \in Positions
             PROVE  InOnePlace(s, p)'
  BY DEF BlockConservation
<1>1. InOnePlace(s, p)
  BY DEF IndInv, BlockConservation, Made
<1>2. /\ Available(s, p)' <=> Available(s, p)
      /\ Live(s, p)' <=> Live(s, p)
      /\ Freed(s, p)' <=> Freed(s, p)
  BY DEF Available, Live, Freed
<1>3. \A u \in Threads : Holds(u, s, p)' <=> Holds(u, s, p)
  BY DEF Holds
<1> QED
  BY <1>1, <1>2, <1>3, BlockFrame

\* The variables keep their shapes.
LEMMA TypeStep ==
    ASSUME IndInv, NEW t \in Threads, Step(t)
    PROVE  TypeOK'
<1> USE DEF TypeOK, SlabTypeOK, Labels, SlabLabels
<1>a. TypeOK /\ NoPos \in Positions /\ OWNED # UNOWNED
  BY SlabAssumption DEF IndInv, NoPos, Positions, Vecs, Bits, OWNED, UNOWNED
<1>b. /\ pc[t] # "idle" => this[t] \in Slabs
      /\ vecs[t] # {} => LowestBit(vecs[t]) \in Vecs
      /\ iter[t] # {} => LowestBit(iter[t]) \in Vecs
      /\ slots[t] # {} => LowestBit(slots[t]) \in Bits
      /\ pos[t][1] \in Vecs /\ pos[t][2] \in Bits
  BY Operands
<1>1. CASE \E s \in Slabs, k \in Classes : Create(t, s, k)
  <2>1. PICK s \in Slabs, k \in Classes : Create(t, s, k)
    BY <1>1
  <2> QED
    BY <1>a, <2>1, ConstructorShape DEF Create, Construct, regVars
<1>2. CASE \E s \in Slabs : Allocate(t, s)
  BY <1>2, <1>a, <1>b DEF Allocate, Call, Goto, slabVars
<1>3. CASE AllocBegin(t) /\ UNCHANGED <<owns, live>>
  BY <1>3, <1>a, <1>b DEF AllocBegin, Goto, slabVars
<1>4. CASE AllocFull(t) /\ UNCHANGED <<owns, live>>
  BY <1>4, <1>a, <1>b DEF AllocFull, Return, Goto, slabVars
<1>5. CASE AllocClear(t) /\ UNCHANGED <<owns, live>>
  BY <1>5, <1>a, <1>b DEF AllocClear
<1>6. CASE AllocLoad(t) /\ UNCHANGED <<owns, live>>
  BY <1>6, <1>a, <1>b DEF AllocLoad, Goto, slabVars
<1>7. CASE AllocAbort(t) /\ UNCHANGED <<owns, live>>
  BY <1>7, <1>a, <1>b DEF AllocAbort, Return, Goto, slabVars
<1>8. CASE AllocateReturn(t)
  <2>1. vecs[t] # {} /\ slots[t] # {}
    BY <1>8 DEF AllocateReturn, AllocCommit, IndInv, RegisterInv
  <2>2. AllocResult(t) \in Blocks
    BY <1>8, <1>b, <2>1 DEF AllocateReturn, AllocCommit, AllocResult, Blocks
  <2> QED
    BY <1>8, <1>a, <1>b, <2>1, <2>2 DEF AllocateReturn, AllocCommit, Return,
       Goto
<1>9. CASE Full(t)
  <2>1. CASE Return(t, "release", this[t])
    BY <1>9, <2>1, <1>a, <1>b DEF Full, Return, Goto, slabVars
  <2>2. CASE Return(t, "idle", NULL)
    BY <1>9, <2>2, <1>a, <1>b DEF Full, Return, Goto, slabVars
  <2> QED
    BY <1>9, <2>1, <2>2 DEF Full
<1>10. CASE ReleaseRead(t) /\ UNCHANGED <<owns, live>>
  BY <1>10, <1>a, <1>b DEF ReleaseRead, Goto, slabVars
<1>11. CASE ReleaseVecs(t) /\ UNCHANGED <<owns, live>>
  BY <1>11, <1>a, <1>b DEF ReleaseVecs, Goto
<1>12. CASE ReleaseSlots(t) /\ UNCHANGED <<owns, live>>
  BY <1>12, <1>a, <1>b DEF ReleaseSlots, Goto, slabVars
<1>13. CASE ReleaseTake(t) /\ UNCHANGED <<owns, live>>
  <2>1. iter[t] # {}
    BY <1>13 DEF ReleaseTake, IndInv, RegisterInv
  <2> QED
    BY <1>13, <1>a, <1>b, <2>1 DEF ReleaseTake, Goto
<1>14. CASE ReleaseDone(t, "idle", NULL) /\ UNCHANGED <<owns, live>>
  BY <1>14, <1>a, <1>b DEF ReleaseDone, Return, Goto
<1>15. CASE GiveUp(t)
  BY <1>15, <1>a, <1>b DEF GiveUp, ReleaseUnown, Return, Goto
<1>16. CASE \E b \in live : Free(t, b)
  <2>1. PICK b \in live : Free(t, b)
    BY <1>16
  <2>2. b[1] \in Slabs /\ <<b[2], b[3]>> \in Positions
    BY <1>a DEF Blocks, Positions
  <2> QED
    BY <1>a, <2>1, <2>2 DEF Free, Call, Goto, slabVars
<1>17. CASE FreeCheck(t) /\ UNCHANGED <<owns, live>>
  BY <1>17, <1>a, <1>b DEF FreeCheck, Goto, slabVars, regVars
<1>18. CASE FreeLater(t, "idle") /\ UNCHANGED <<owns, live>>
  BY <1>18, <1>a, <1>b DEF FreeLater, SetFreedSlot, Return, Goto
<1>19. CASE FreeFirst(t) /\ UNCHANGED <<owns, live>>
  BY <1>19, <1>a, <1>b DEF FreeFirst, SetFreedSlot, Goto, regVars
<1>20. CASE FreeVec(t) /\ UNCHANGED <<owns, live>>
  BY <1>20, <1>a, <1>b DEF FreeVec, Goto, regVars
<1>21. CASE FreeState(t, "idle") /\ UNCHANGED <<owns, live>>
  <2>1. CASE Return(t, "set_owned", this[t])
    BY <1>21, <2>1, <1>a, <1>b DEF FreeState, Return, Goto, slabVars
  <2>2. CASE Return(t, "idle", NULL)
    BY <1>21, <2>2, <1>a, <1>b DEF FreeState, Return, Goto, slabVars
  <2> QED
    BY <1>21, <2>1, <2>2 DEF FreeState
<1>22. CASE SetOwnedLost(t, "idle") /\ UNCHANGED <<owns, live>>
  BY <1>22, <1>a, <1>b DEF SetOwnedLost, Return, Goto, slabVars
<1>23. CASE Claim(t)
  BY <1>23, <1>a, <1>b DEF Claim, SetOwnedWon, Return, Goto
<1> QED
  BY <1>1, <1>2, <1>3, <1>4, <1>5, <1>6, <1>7, <1>8, <1>9, <1>10, <1>11,
     <1>12, <1>13, <1>14, <1>15, <1>16, <1>17, <1>18, <1>19, <1>20, <1>21,
     <1>22, <1>23
     DEF Step, AllocateStep, ReleaseStep, FreeStep

\* Operations stay on constructed slabs, the owner's on slabs it owns.
LEMMA BusyStep ==
    ASSUME IndInv, NEW t \in Threads, Step(t)
    PROVE  BusyInv'
<1> USE DEF BusyInv, Made, OwnerLabels
<1>a. TypeOK /\ BusyInv
  BY DEF IndInv
<1>b. NoClass \notin Classes
  BY SlabAssumption
<1> USE DEF TypeOK, SlabTypeOK
<1>1. CASE \E s \in Slabs, k \in Classes : Create(t, s, k)
  BY <1>1, <1>a, <1>b DEF Create, Construct, regVars
<1>2. CASE \E s \in Slabs : Allocate(t, s)
  BY <1>2, <1>a DEF Allocate, Call, Goto, slabVars
<1>3. CASE AllocBegin(t) /\ UNCHANGED <<owns, live>>
  BY <1>3, <1>a DEF AllocBegin, Goto, slabVars
<1>4. CASE AllocFull(t) /\ UNCHANGED <<owns, live>>
  BY <1>4, <1>a DEF AllocFull, Return, Goto, slabVars
<1>5. CASE AllocClear(t) /\ UNCHANGED <<owns, live>>
  BY <1>5, <1>a DEF AllocClear
<1>6. CASE AllocLoad(t) /\ UNCHANGED <<owns, live>>
  BY <1>6, <1>a DEF AllocLoad, Goto, slabVars
<1>7. CASE AllocAbort(t) /\ UNCHANGED <<owns, live>>
  BY <1>7, <1>a DEF AllocAbort, Return, Goto, slabVars
<1>8. CASE AllocateReturn(t)
  BY <1>8, <1>a DEF AllocateReturn, AllocCommit, AllocResult, Return, Goto
<1>9. CASE Full(t)
  <2>1. CASE Return(t, "release", this[t])
    BY <1>9, <2>1, <1>a DEF Full, Return, Goto, slabVars
  <2>2. CASE Return(t, "idle", NULL)
    BY <1>9, <2>2, <1>a DEF Full, Return, Goto, slabVars
  <2> QED
    BY <1>9, <2>1, <2>2 DEF Full
<1>10. CASE ReleaseRead(t) /\ UNCHANGED <<owns, live>>
  BY <1>10, <1>a DEF ReleaseRead, Goto, slabVars
<1>11. CASE ReleaseVecs(t) /\ UNCHANGED <<owns, live>>
  BY <1>11, <1>a DEF ReleaseVecs, Goto
<1>12. CASE ReleaseSlots(t) /\ UNCHANGED <<owns, live>>
  BY <1>12, <1>a DEF ReleaseSlots, Goto, slabVars
<1>13. CASE ReleaseTake(t) /\ UNCHANGED <<owns, live>>
  BY <1>13, <1>a DEF ReleaseTake, Goto
<1>14. CASE ReleaseDone(t, "idle", NULL) /\ UNCHANGED <<owns, live>>
  BY <1>14, <1>a DEF ReleaseDone, Return, Goto
<1>15. CASE GiveUp(t)
  BY <1>15, <1>a DEF GiveUp, ReleaseUnown, Return, Goto
<1>16. CASE \E b \in live : Free(t, b)
  BY <1>16, <1>a DEF Free, Call, Goto, slabVars, IndInv, FreshInv
<1>17. CASE FreeCheck(t) /\ UNCHANGED <<owns, live>>
  BY <1>17, <1>a DEF FreeCheck, Goto, slabVars, regVars
<1>18. CASE FreeLater(t, "idle") /\ UNCHANGED <<owns, live>>
  BY <1>18, <1>a DEF FreeLater, SetFreedSlot, Return, Goto
<1>19. CASE FreeFirst(t) /\ UNCHANGED <<owns, live>>
  BY <1>19, <1>a DEF FreeFirst, SetFreedSlot, Goto, regVars
<1>20. CASE FreeVec(t) /\ UNCHANGED <<owns, live>>
  BY <1>20, <1>a DEF FreeVec, Goto, regVars
<1>21. CASE FreeState(t, "idle") /\ UNCHANGED <<owns, live>>
  <2>1. CASE Return(t, "set_owned", this[t])
    BY <1>21, <2>1, <1>a DEF FreeState, Return, Goto, slabVars
  <2>2. CASE Return(t, "idle", NULL)
    BY <1>21, <2>2, <1>a DEF FreeState, Return, Goto, slabVars
  <2> QED
    BY <1>21, <2>1, <2>2 DEF FreeState
<1>22. CASE SetOwnedLost(t, "idle") /\ UNCHANGED <<owns, live>>
  BY <1>22, <1>a DEF SetOwnedLost, Return, Goto, slabVars
<1>23. CASE Claim(t)
  BY <1>23, <1>a DEF Claim, SetOwnedWon, Return, Goto
<1> QED
  BY <1>1, <1>2, <1>3, <1>4, <1>5, <1>6, <1>7, <1>8, <1>9, <1>10, <1>11,
     <1>12, <1>13, <1>14, <1>15, <1>16, <1>17, <1>18, <1>19, <1>20, <1>21,
     <1>22, <1>23
     DEF Step, AllocateStep, ReleaseStep, FreeStep

\* Only constructed slabs have blocks anywhere.
LEMMA FreshStep ==
    ASSUME IndInv, NEW t \in Threads, Step(t)
    PROVE  FreshInv'
<1> USE DEF FreshInv, Made, TypeOK, SlabTypeOK
<1>a. TypeOK /\ FreshInv
  BY DEF IndInv
<1>b. /\ NoClass \notin Classes
      /\ pc[t] # "idle" => this[t] \in Made
      /\ iter[t] # {} => LowestBit(iter[t]) \in Vecs
      /\ vecs[t] # {} => LowestBit(vecs[t]) \in Vecs
  BY SlabAssumption, Operands
<1>1. CASE \E s \in Slabs, k \in Classes : Create(t, s, k)
  BY <1>1, <1>a, <1>b DEF Create, Construct, regVars
<1>2. CASE \E s \in Slabs : Allocate(t, s)
  BY <1>2, <1>a, <1>b DEF Allocate, Call, Goto, slabVars
<1>3. CASE AllocBegin(t) /\ UNCHANGED <<owns, live>>
  BY <1>3, <1>a, <1>b DEF AllocBegin, Goto, slabVars
<1>4. CASE AllocFull(t) /\ UNCHANGED <<owns, live>>
  BY <1>4, <1>a, <1>b DEF AllocFull, Return, Goto, slabVars
<1>5. CASE AllocClear(t) /\ UNCHANGED <<owns, live>>
  BY <1>5, <1>a, <1>b DEF AllocClear
<1>6. CASE AllocLoad(t) /\ UNCHANGED <<owns, live>>
  BY <1>6, <1>a, <1>b DEF AllocLoad, Goto, slabVars
<1>7. CASE AllocAbort(t) /\ UNCHANGED <<owns, live>>
  BY <1>7, <1>a, <1>b DEF AllocAbort, Return, Goto, slabVars
<1>8. CASE AllocateReturn(t)
  BY <1>8, <1>a, <1>b
     DEF AllocateReturn, AllocCommit, AllocResult, Return, Goto
<1>9. CASE Full(t)
  <2>1. CASE Return(t, "release", this[t])
    BY <1>9, <2>1, <1>a, <1>b DEF Full, Return, Goto, slabVars
  <2>2. CASE Return(t, "idle", NULL)
    BY <1>9, <2>2, <1>a, <1>b DEF Full, Return, Goto, slabVars
  <2> QED
    BY <1>9, <2>1, <2>2 DEF Full
<1>10. CASE ReleaseRead(t) /\ UNCHANGED <<owns, live>>
  BY <1>10, <1>a, <1>b DEF ReleaseRead, Goto, slabVars
<1>11. CASE ReleaseVecs(t) /\ UNCHANGED <<owns, live>>
  BY <1>11, <1>a, <1>b DEF ReleaseVecs, Goto
<1>12. CASE ReleaseSlots(t) /\ UNCHANGED <<owns, live>>
  BY <1>12, <1>a, <1>b DEF ReleaseSlots, Goto, slabVars
<1>13. CASE ReleaseTake(t) /\ UNCHANGED <<owns, live>>
  BY <1>13, <1>a, <1>b DEF ReleaseTake, Goto
<1>14. CASE ReleaseDone(t, "idle", NULL) /\ UNCHANGED <<owns, live>>
  BY <1>14, <1>a, <1>b DEF ReleaseDone, Return, Goto
<1>15. CASE GiveUp(t)
  BY <1>15, <1>a, <1>b DEF GiveUp, ReleaseUnown, Return, Goto
<1>16. CASE \E b \in live : Free(t, b)
  BY <1>16, <1>a, <1>b DEF Free, Call, Goto, slabVars
<1>17. CASE FreeCheck(t) /\ UNCHANGED <<owns, live>>
  BY <1>17, <1>a, <1>b DEF FreeCheck, Goto, slabVars, regVars
<1>18. CASE FreeLater(t, "idle") /\ UNCHANGED <<owns, live>>
  BY <1>18, <1>a, <1>b DEF FreeLater, SetFreedSlot, Return, Goto
<1>19. CASE FreeFirst(t) /\ UNCHANGED <<owns, live>>
  BY <1>19, <1>a, <1>b DEF FreeFirst, SetFreedSlot, Goto, regVars
<1>20. CASE FreeVec(t) /\ UNCHANGED <<owns, live>>
  BY <1>20, <1>a, <1>b DEF FreeVec, Goto, regVars
<1>21. CASE FreeState(t, "idle") /\ UNCHANGED <<owns, live>>
  <2>1. CASE Return(t, "set_owned", this[t])
    BY <1>21, <2>1, <1>a, <1>b DEF FreeState, Return, Goto, slabVars
  <2>2. CASE Return(t, "idle", NULL)
    BY <1>21, <2>2, <1>a, <1>b DEF FreeState, Return, Goto, slabVars
  <2> QED
    BY <1>21, <2>1, <2>2 DEF FreeState
<1>22. CASE SetOwnedLost(t, "idle") /\ UNCHANGED <<owns, live>>
  BY <1>22, <1>a, <1>b DEF SetOwnedLost, Return, Goto, slabVars
<1>23. CASE Claim(t)
  BY <1>23, <1>a, <1>b DEF Claim, SetOwnedWon, Return, Goto
<1> QED
  BY <1>1, <1>2, <1>3, <1>4, <1>5, <1>6, <1>7, <1>8, <1>9, <1>10, <1>11,
     <1>12, <1>13, <1>14, <1>15, <1>16, <1>17, <1>18, <1>19, <1>20, <1>21,
     <1>22, <1>23
     DEF Step, AllocateStep, ReleaseStep, FreeStep

\* The state word tracks the one owner.
LEMMA OwnershipStep ==
    ASSUME IndInv, NEW t \in Threads, Step(t)
    PROVE  OwnershipExact'
<1> USE DEF OwnershipExact, Made, TypeOK, SlabTypeOK
<1>a. TypeOK /\ OwnershipExact
  BY DEF IndInv
<1>b. /\ NoClass \notin Classes /\ OWNED # UNOWNED
      /\ pc[t] # "idle" => this[t] \in Made
      /\ pc[t] \in OwnerLabels => this[t] \in owns[t]
      /\ \A u \in Threads : owns[u] \subseteq Made
  BY SlabAssumption DEF IndInv, BusyInv, OWNED, UNOWNED
<1>c. \A s \in Slabs : s \notin Made => state[s] = OWNED
  BY DEF IndInv, FreshInv
<1>1. CASE \E s \in Slabs, k \in Classes : Create(t, s, k)
  BY <1>1, <1>a, <1>b, <1>c DEF Create, Construct, regVars
<1>2. CASE \E s \in Slabs : Allocate(t, s)
  BY <1>2, <1>a, <1>b DEF Allocate, Call, Goto, slabVars
<1>3. CASE AllocBegin(t) /\ UNCHANGED <<owns, live>>
  BY <1>3, <1>a, <1>b DEF AllocBegin, Goto, slabVars
<1>4. CASE AllocFull(t) /\ UNCHANGED <<owns, live>>
  BY <1>4, <1>a, <1>b DEF AllocFull, Return, Goto, slabVars
<1>5. CASE AllocClear(t) /\ UNCHANGED <<owns, live>>
  BY <1>5, <1>a, <1>b DEF AllocClear
<1>6. CASE AllocLoad(t) /\ UNCHANGED <<owns, live>>
  BY <1>6, <1>a, <1>b DEF AllocLoad, Goto, slabVars
<1>7. CASE AllocAbort(t) /\ UNCHANGED <<owns, live>>
  BY <1>7, <1>a, <1>b DEF AllocAbort, Return, Goto, slabVars
<1>8. CASE AllocateReturn(t)
  BY <1>8, <1>a, <1>b DEF AllocateReturn, AllocCommit, AllocResult, Return,
     Goto
<1>9. CASE Full(t)
  <2>1. CASE Return(t, "release", this[t])
    BY <1>9, <2>1, <1>a, <1>b DEF Full, Return, Goto, slabVars
  <2>2. CASE Return(t, "idle", NULL)
    BY <1>9, <2>2, <1>a, <1>b DEF Full, Return, Goto, slabVars
  <2> QED
    BY <1>9, <2>1, <2>2 DEF Full
<1>10. CASE ReleaseRead(t) /\ UNCHANGED <<owns, live>>
  BY <1>10, <1>a, <1>b DEF ReleaseRead, Goto, slabVars
<1>11. CASE ReleaseVecs(t) /\ UNCHANGED <<owns, live>>
  BY <1>11, <1>a, <1>b DEF ReleaseVecs, Goto
<1>12. CASE ReleaseSlots(t) /\ UNCHANGED <<owns, live>>
  BY <1>12, <1>a, <1>b DEF ReleaseSlots, Goto, slabVars
<1>13. CASE ReleaseTake(t) /\ UNCHANGED <<owns, live>>
  BY <1>13, <1>a, <1>b DEF ReleaseTake, Goto
<1>14. CASE ReleaseDone(t, "idle", NULL) /\ UNCHANGED <<owns, live>>
  BY <1>14, <1>a, <1>b DEF ReleaseDone, Return, Goto
<1>15. CASE GiveUp(t)
  BY <1>15, <1>a, <1>b DEF GiveUp, ReleaseUnown, Return, Goto, OwnerLabels
<1>16. CASE \E b \in live : Free(t, b)
  BY <1>16, <1>a, <1>b DEF Free, Call, Goto, slabVars
<1>17. CASE FreeCheck(t) /\ UNCHANGED <<owns, live>>
  BY <1>17, <1>a, <1>b DEF FreeCheck, Goto, slabVars, regVars
<1>18. CASE FreeLater(t, "idle") /\ UNCHANGED <<owns, live>>
  BY <1>18, <1>a, <1>b DEF FreeLater, SetFreedSlot, Return, Goto
<1>19. CASE FreeFirst(t) /\ UNCHANGED <<owns, live>>
  BY <1>19, <1>a, <1>b DEF FreeFirst, SetFreedSlot, Goto, regVars
<1>20. CASE FreeVec(t) /\ UNCHANGED <<owns, live>>
  BY <1>20, <1>a, <1>b DEF FreeVec, Goto, regVars
<1>21. CASE FreeState(t, "idle") /\ UNCHANGED <<owns, live>>
  <2>1. CASE Return(t, "set_owned", this[t])
    BY <1>21, <2>1, <1>a, <1>b DEF FreeState, Return, Goto, slabVars
  <2>2. CASE Return(t, "idle", NULL)
    BY <1>21, <2>2, <1>a, <1>b DEF FreeState, Return, Goto, slabVars
  <2> QED
    BY <1>21, <2>1, <2>2 DEF FreeState
<1>22. CASE SetOwnedLost(t, "idle") /\ UNCHANGED <<owns, live>>
  BY <1>22, <1>a, <1>b DEF SetOwnedLost, Return, Goto, slabVars
<1>23. CASE Claim(t)
  BY <1>23, <1>a, <1>b DEF Claim, SetOwnedWon, Return, Goto
<1> QED
  BY <1>1, <1>2, <1>3, <1>4, <1>5, <1>6, <1>7, <1>8, <1>9, <1>10, <1>11,
     <1>12, <1>13, <1>14, <1>15, <1>16, <1>17, <1>18, <1>19, <1>20, <1>21,
     <1>22, <1>23
     DEF Step, AllocateStep, ReleaseStep, FreeStep

\* No other thread changes what an owner has in its registers.
LEMMA RegisterStep ==
    ASSUME IndInv, NEW t \in Threads, Step(t)
    PROVE  RegisterInv'
<1> USE DEF RegisterInv, TypeOK, SlabTypeOK
<1>a. TypeOK /\ RegisterInv
  BY DEF IndInv
<1>b. /\ pc[t] # "idle" => this[t] \in Slabs
      /\ vecs[t] # {} => LowestBit(vecs[t]) \in vecs[t] /\ LowestBit(vecs[t]) \in Vecs
      /\ iter[t] # {} => LowestBit(iter[t]) \in iter[t] /\ LowestBit(iter[t]) \in Vecs
      /\ pos[t][1] \in Vecs
  BY Operands
<1>c. \A u \in Threads :
         pc[t] \in OwnerLabels /\ pc[u] \in OwnerLabels /\ this[t] = this[u] => t = u
  BY OwnerAlone
<1>d. \A u \in Threads : /\ pc[u] \in OwnerLabels => this[u] \in Made /\ this[u] \in Slabs
                         /\ iter[u] # {} => LowestBit(iter[u]) \in Vecs
                         /\ vecs[u] # {} => LowestBit(vecs[u]) \in Vecs
  BY Operands DEF OwnerLabels
<1> USE DEF OwnerLabels
<1>1. CASE \E s \in Slabs, k \in Classes : Create(t, s, k)
  BY <1>1, <1>a, <1>d DEF Create, Construct, regVars, Made
<1>2. CASE \E s \in Slabs : Allocate(t, s)
  BY <1>2, <1>a, <1>b, <1>c, <1>d DEF Allocate, Call, Goto, slabVars
<1>3. CASE AllocBegin(t) /\ UNCHANGED <<owns, live>>
  BY <1>3, <1>a, <1>b, <1>c, <1>d DEF AllocBegin, Goto, slabVars
<1>4. CASE AllocFull(t) /\ UNCHANGED <<owns, live>>
  BY <1>4, <1>a, <1>b, <1>c, <1>d DEF AllocFull, Return, Goto, slabVars
<1>5. CASE AllocClear(t) /\ UNCHANGED <<owns, live>>
  BY <1>5, <1>a, <1>b, <1>c, <1>d DEF AllocClear
<1>6. CASE AllocLoad(t) /\ UNCHANGED <<owns, live>>
  BY <1>6, <1>a, <1>b, <1>c, <1>d DEF AllocLoad, Goto, slabVars
<1>7. CASE AllocAbort(t) /\ UNCHANGED <<owns, live>>
  BY <1>7, <1>a, <1>b, <1>c, <1>d DEF AllocAbort, Return, Goto, slabVars
<1>8. CASE AllocateReturn(t)
  BY <1>8, <1>a, <1>b, <1>c, <1>d DEF AllocateReturn, AllocCommit,
     AllocResult, Return, Goto
<1>9. CASE Full(t)
  <2>1. CASE Return(t, "release", this[t])
    BY <1>9, <2>1, <1>a, <1>b, <1>c, <1>d DEF Full, Return, Goto, slabVars
  <2>2. CASE Return(t, "idle", NULL)
    BY <1>9, <2>2, <1>a, <1>b, <1>c, <1>d DEF Full, Return, Goto, slabVars
  <2> QED
    BY <1>9, <2>1, <2>2 DEF Full
<1>10. CASE ReleaseRead(t) /\ UNCHANGED <<owns, live>>
  BY <1>10, <1>a, <1>b, <1>c, <1>d DEF ReleaseRead, Goto, slabVars
<1>11. CASE ReleaseVecs(t) /\ UNCHANGED <<owns, live>>
  BY <1>11, <1>a, <1>b, <1>c, <1>d DEF ReleaseVecs, Goto
<1>12. CASE ReleaseSlots(t) /\ UNCHANGED <<owns, live>>
  BY <1>12, <1>a, <1>b, <1>c, <1>d DEF ReleaseSlots, Goto, slabVars
<1>13. CASE ReleaseTake(t) /\ UNCHANGED <<owns, live>>
  BY <1>13, <1>a, <1>b, <1>c, <1>d DEF ReleaseTake, Goto
<1>14. CASE ReleaseDone(t, "idle", NULL) /\ UNCHANGED <<owns, live>>
  BY <1>14, <1>a, <1>b, <1>c, <1>d DEF ReleaseDone, Return, Goto
<1>15. CASE GiveUp(t)
  BY <1>15, <1>a, <1>b, <1>c, <1>d DEF GiveUp, ReleaseUnown, Return, Goto
<1>16. CASE \E b \in live : Free(t, b)
  BY <1>16, <1>a, <1>b, <1>c, <1>d DEF Free, Call, Goto, slabVars
<1>17. CASE FreeCheck(t) /\ UNCHANGED <<owns, live>>
  BY <1>17, <1>a, <1>b, <1>c, <1>d DEF FreeCheck, Goto, slabVars, regVars
<1>18. CASE FreeLater(t, "idle") /\ UNCHANGED <<owns, live>>
  BY <1>18, <1>a, <1>b, <1>c, <1>d DEF FreeLater, SetFreedSlot, Return, Goto
<1>19. CASE FreeFirst(t) /\ UNCHANGED <<owns, live>>
  BY <1>19, <1>a, <1>b, <1>c, <1>d DEF FreeFirst, SetFreedSlot, Goto, regVars
<1>20. CASE FreeVec(t) /\ UNCHANGED <<owns, live>>
  BY <1>20, <1>a, <1>b, <1>c, <1>d DEF FreeVec, Goto, regVars
<1>21. CASE FreeState(t, "idle") /\ UNCHANGED <<owns, live>>
  <2>1. CASE Return(t, "set_owned", this[t])
    BY <1>21, <2>1, <1>a, <1>b, <1>c, <1>d DEF FreeState, Return, Goto,
       slabVars
  <2>2. CASE Return(t, "idle", NULL)
    BY <1>21, <2>2, <1>a, <1>b, <1>c, <1>d DEF FreeState, Return, Goto,
       slabVars
  <2> QED
    BY <1>21, <2>1, <2>2 DEF FreeState
<1>22. CASE SetOwnedLost(t, "idle") /\ UNCHANGED <<owns, live>>
  BY <1>22, <1>a, <1>b, <1>c, <1>d DEF SetOwnedLost, Return, Goto, slabVars
<1>23. CASE Claim(t)
  BY <1>23, <1>a, <1>b, <1>c, <1>d DEF Claim, SetOwnedWon, Return, Goto
<1> QED
  BY <1>1, <1>2, <1>3, <1>4, <1>5, <1>6, <1>7, <1>8, <1>9, <1>10, <1>11,
     <1>12, <1>13, <1>14, <1>15, <1>16, <1>17, <1>18, <1>19, <1>20, <1>21,
     <1>22, <1>23
     DEF Step, AllocateStep, ReleaseStep, FreeStep

\* No step hides an available block from the owner.
LEMMA VisibleStep ==
    ASSUME IndInv, NEW t \in Threads, Step(t)
    PROVE  VisibleInv'
<1> USE DEF TypeOK, SlabTypeOK
<1>a. TypeOK
  BY DEF IndInv
<1>b. /\ pc[t] # "idle" => this[t] \in Made /\ this[t] \in Slabs
      /\ vecs[t] # {} => LowestBit(vecs[t]) \in vecs[t] /\ LowestBit(vecs[t]) \in Vecs
      /\ iter[t] # {} => LowestBit(iter[t]) \in iter[t] /\ LowestBit(iter[t]) \in Vecs
  BY Operands
<1>1. CASE \E s \in Slabs, k \in Classes : Create(t, s, k)
  <2>1. PICK s0 \in Slabs, k \in Classes : Create(t, s0, k)
    BY <1>1
  <2>2. /\ UNCHANGED <<pc, this, vecs, iter>>
        /\ availSlots'[s0] = InitSlots(NBlocks[k]) /\ availVecs'[s0] = InitVecs(NBlocks[k])
        /\ \A s \in Slabs \ {s0} : /\ cls'[s] = cls[s]
                                    /\ availSlots'[s] = availSlots[s]
                                    /\ availVecs'[s] = availVecs[s]
    BY <2>1, <1>a DEF Create, Construct, regVars
  <2> SUFFICES ASSUME NEW s \in Made', NEW v \in Vecs, availSlots'[s][v] # {}
               PROVE  Shown(s, v)'
    BY DEF VisibleInv
  <2>3. CASE s = s0
    BY <2>2, <2>3, ConstructorShape DEF Shown
  <2>4. CASE s # s0
    <3>1. s \in Made /\ availSlots[s][v] # {} /\ availVecs'[s] = availVecs[s]
      BY <2>2, <2>4 DEF Made
    <3>2. \A u \in Threads : Filling(u, s, v)' <=> Filling(u, s, v)
      BY <2>2 DEF Filling
    <3> QED
      BY <3>1, <3>2 DEF IndInv, VisibleInv, Shown
  <2> QED
    BY <2>3, <2>4
<1>2. CASE \E s \in Slabs : Allocate(t, s)
  BY <1>2, <1>a, VisibleFrame DEF Allocate, Call, Goto, slabVars
<1>3. CASE AllocBegin(t) /\ UNCHANGED <<owns, live>>
  BY <1>3, <1>a, VisibleFrame DEF AllocBegin, Goto, slabVars
<1>4. CASE AllocFull(t) /\ UNCHANGED <<owns, live>>
  BY <1>4, <1>a, VisibleFrame DEF AllocFull, Return, Goto, slabVars
<1>5. CASE AllocClear(t) /\ UNCHANGED <<owns, live>>
  <2>1. /\ UNCHANGED <<cls, availSlots, pc, this, iter>>
        /\ \A u \in Threads \ {t} : vecs'[u] = vecs[u]
        /\ \A s \in Slabs \ {this[t]} : availVecs'[s] = availVecs[s]
        /\ availVecs'[this[t]] = availVecs[this[t]] \ {LowestBit(vecs[t])}
        /\ availSlots[this[t]][LowestBit(vecs[t])] = {}
        /\ pc[t] = "alloc_vec"
    BY <1>5, <1>a, <1>b DEF AllocClear, IndInv, RegisterInv
  <2> SUFFICES ASSUME NEW s \in Made', NEW v \in Vecs, availSlots'[s][v] # {}
               PROVE  Shown(s, v)'
    BY DEF VisibleInv
  <2>2. s \in Made /\ s \in Slabs /\ availSlots[s][v] # {}
    BY <2>1 DEF Made
  <2>3. \A u \in Threads : Filling(u, s, v) => Filling(u, s, v)'
    BY <2>1 DEF Filling
  <2>4. v \in availVecs[s] => v \in availVecs'[s]
    BY <2>1, <2>2
  <2> QED
    BY <2>2, <2>3, <2>4 DEF IndInv, VisibleInv, Shown
<1>6. CASE AllocLoad(t) /\ UNCHANGED <<owns, live>>
  BY <1>6, <1>a, VisibleFrame DEF AllocLoad, Goto, slabVars
<1>7. CASE AllocAbort(t) /\ UNCHANGED <<owns, live>>
  BY <1>7, <1>a, VisibleFrame DEF AllocAbort, Return, Goto, slabVars
<1>8. CASE AllocateReturn(t)
  <2>1. /\ UNCHANGED <<cls, availVecs>>
        /\ \A s \in Slabs, v \in Vecs : availSlots'[s][v] \subseteq availSlots[s][v]
    <3>1. vecs[t] # {} /\ slots[t] = availSlots[this[t]][LowestBit(vecs[t])]
      BY <1>8 DEF AllocateReturn, AllocCommit, IndInv, RegisterInv
    <3> QED
      BY <1>8, <1>a, <1>b, <3>1 DEF AllocateReturn, AllocCommit
  <2> SUFFICES ASSUME NEW s \in Made', NEW v \in Vecs, availSlots'[s][v] # {}
               PROVE  Shown(s, v)'
    BY DEF VisibleInv
  <2>2. s \in Made /\ availSlots[s][v] # {}
    BY <2>1 DEF Made
  <2>3. \A u \in Threads : Filling(u, s, v) => Filling(u, s, v)'
    BY <1>8, <1>a DEF AllocateReturn, AllocCommit, Return, Goto, Filling
  <2> QED
    BY <2>1, <2>2, <2>3 DEF IndInv, VisibleInv, Shown
<1>9. CASE Full(t)
  <2>1. CASE Return(t, "release", this[t])
    BY <1>9, <2>1, <1>a, VisibleFrame DEF Full, Return, Goto, slabVars
  <2>2. CASE Return(t, "idle", NULL)
    BY <1>9, <2>2, <1>a, VisibleFrame DEF Full, Return, Goto, slabVars
  <2> QED
    BY <1>9, <2>1, <2>2 DEF Full
<1>10. CASE ReleaseRead(t) /\ UNCHANGED <<owns, live>>
  BY <1>10, <1>a, VisibleFrame DEF ReleaseRead, Goto, slabVars
<1>11. CASE ReleaseVecs(t) /\ UNCHANGED <<owns, live>>
  BY <1>11, <1>a, VisibleFrame DEF ReleaseVecs, Goto
<1>12. CASE ReleaseSlots(t) /\ UNCHANGED <<owns, live>>
  BY <1>12, <1>a, VisibleFrame DEF ReleaseSlots, Goto, slabVars
<1>13. CASE ReleaseTake(t) /\ UNCHANGED <<owns, live>>
  <2> DEFINE w == LowestBit(iter[t])
  <2>1. iter[t] # {} /\ iter[t] \subseteq vecs[t]
    BY <1>13 DEF ReleaseTake, IndInv, RegisterInv
  <2>2. w \in iter[t] /\ w \in Vecs /\ w \in vecs[t]
    BY <1>b, <2>1
  <2> HIDE DEF w
  <2>3. /\ UNCHANGED <<cls, availVecs, this, vecs>>
        /\ pc[t] = "release_take" /\ pc'[t] = "release_slots" /\ iter'[t] = iter[t] \ {w}
        /\ \A u \in Threads \ {t} : pc'[u] = pc[u] /\ iter'[u] = iter[u]
        /\ \A s \in Slabs, v \in Vecs :
              s # this[t] \/ v # w => availSlots'[s][v] = availSlots[s][v]
    BY <1>13, <1>a, <1>b, <2>2 DEF ReleaseTake, Goto, w
  <2> SUFFICES ASSUME NEW s \in Made', NEW v \in Vecs, availSlots'[s][v] # {}
               PROVE  Shown(s, v)'
    BY DEF VisibleInv
  <2>4. CASE s = this[t] /\ v = w
    <3>1. Filling(t, s, v)'
      BY <2>2, <2>3, <2>4 DEF Filling
    <3> QED
      BY <3>1 DEF Shown
  <2>5. CASE s # this[t] \/ v # w
    <3>1. s \in Made /\ availSlots[s][v] # {}
      BY <2>3, <2>5 DEF Made
    <3>2. \A u \in Threads : Filling(u, s, v) => Filling(u, s, v)'
      BY <2>3 DEF Filling
    <3> QED
      BY <2>3, <3>1, <3>2 DEF IndInv, VisibleInv, Shown
  <2> QED
    BY <2>4, <2>5
<1>14. CASE ReleaseDone(t, "idle", NULL) /\ UNCHANGED <<owns, live>>
  <2>1. /\ UNCHANGED <<cls, availSlots>>
        /\ pc[t] = "release_slots" /\ iter[t] = {}
        /\ availVecs[this[t]] = {} /\ availVecs'[this[t]] = vecs[t]
        /\ \A s \in Slabs \ {this[t]} : availVecs'[s] = availVecs[s]
        /\ \A u \in Threads \ {t} : /\ pc'[u] = pc[u] /\ this'[u] = this[u]
                                    /\ vecs'[u] = vecs[u] /\ iter'[u] = iter[u]
    BY <1>14, <1>a, <1>b DEF ReleaseDone, Return, Goto, IndInv, RegisterInv
  <2> SUFFICES ASSUME NEW s \in Made', NEW v \in Vecs, availSlots'[s][v] # {}
               PROVE  Shown(s, v)'
    BY DEF VisibleInv
  <2>2. s \in Made /\ s \in Slabs /\ availSlots[s][v] # {}
    BY <2>1 DEF Made
  <2>3. CASE s = this[t]
    <3>1. PICK u \in Threads : Filling(u, s, v)
      BY <2>1, <2>2, <2>3 DEF IndInv, VisibleInv, Shown
    <3>2. u = t
      BY <2>1, <2>3, <3>1, OwnerAlone DEF OwnerLabels, Filling
    <3> QED
      BY <2>1, <2>3, <3>1, <3>2 DEF Filling, Shown
  <2>4. CASE s # this[t]
    <3>1. \A u \in Threads : Filling(u, s, v) => Filling(u, s, v)'
      BY <2>1, <2>4 DEF Filling
    <3> QED
      BY <2>1, <2>2, <2>4, <3>1 DEF IndInv, VisibleInv, Shown
  <2> QED
    BY <2>3, <2>4
<1>15. CASE GiveUp(t)
  BY <1>15, <1>a, VisibleFrame DEF GiveUp, ReleaseUnown, Return, Goto
<1>16. CASE \E b \in live : Free(t, b)
  BY <1>16, <1>a, VisibleFrame DEF Free, Call, Goto, slabVars
<1>17. CASE FreeCheck(t) /\ UNCHANGED <<owns, live>>
  BY <1>17, <1>a, VisibleFrame DEF FreeCheck, Goto, slabVars, regVars
<1>18. CASE FreeLater(t, "idle") /\ UNCHANGED <<owns, live>>
  BY <1>18, <1>a, VisibleFrame DEF FreeLater, SetFreedSlot, Return, Goto
<1>19. CASE FreeFirst(t) /\ UNCHANGED <<owns, live>>
  BY <1>19, <1>a, VisibleFrame DEF FreeFirst, SetFreedSlot, Goto, regVars
<1>20. CASE FreeVec(t) /\ UNCHANGED <<owns, live>>
  BY <1>20, <1>a, VisibleFrame DEF FreeVec, Goto, regVars
<1>21. CASE FreeState(t, "idle") /\ UNCHANGED <<owns, live>>
  <2>1. CASE Return(t, "set_owned", this[t])
    BY <1>21, <2>1, <1>a, VisibleFrame DEF FreeState, Return, Goto, slabVars
  <2>2. CASE Return(t, "idle", NULL)
    BY <1>21, <2>2, <1>a, VisibleFrame DEF FreeState, Return, Goto, slabVars
  <2> QED
    BY <1>21, <2>1, <2>2 DEF FreeState
<1>22. CASE SetOwnedLost(t, "idle") /\ UNCHANGED <<owns, live>>
  BY <1>22, <1>a, VisibleFrame DEF SetOwnedLost, Return, Goto, slabVars
<1>23. CASE Claim(t)
  BY <1>23, <1>a, VisibleFrame DEF Claim, SetOwnedWon, Return, Goto
<1> QED
  BY <1>1, <1>2, <1>3, <1>4, <1>5, <1>6, <1>7, <1>8, <1>9, <1>10, <1>11,
     <1>12, <1>13, <1>14, <1>15, <1>16, <1>17, <1>18, <1>19, <1>20, <1>21,
     <1>22, <1>23
     DEF Step, AllocateStep, ReleaseStep, FreeStep

\* Setting the bit of the block that t is freeing moves this block from t's
\* hands to the freed bits.
LEMMA BitSet ==
    ASSUME IndInv, NEW t \in Threads, Freeing(t), SetFreedSlot(t),
           UNCHANGED <<cls, availSlots, live>>,
           pc'[t] \in {"idle", "free_vec"},
           \A u \in Threads \ {t} : pc'[u] = pc[u] /\ this'[u] = this[u] /\ pos'[u] = pos[u]
    PROVE  BlockConservation'
<1>a. TypeOK
  BY DEF IndInv
<1>b. /\ this[t] \in Slabs
      /\ pos[t][1] \in Vecs /\ pos[t][2] \in Bits /\ pos[t] = <<pos[t][1], pos[t][2]>>
  BY Operands DEF Freeing
<1> SUFFICES ASSUME NEW s \in Made', NEW p \in Positions
             PROVE  InOnePlace(s, p)'
  BY DEF BlockConservation
<1>1. s \in Slabs /\ InOnePlace(s, p)
  BY DEF IndInv, BlockConservation, Made
<1>2. /\ Available(s, p)' <=> Available(s, p)
      /\ Live(s, p)' <=> Live(s, p)
  BY DEF Available, Live
<1>3. ~ Holds(t, s, p)' /\ \A u \in Threads \ {t} : Holds(u, s, p)' <=> Holds(u, s, p)
  BY DEF Holds, Freeing
<1>4. CASE Holds(t, s, p)
  <2>1. Freed(s, p)'
    BY <1>4, <1>a, <1>b DEF Holds, Freed, SetFreedSlot, TypeOK, SlabTypeOK
  <2> QED
    BY <1>1, <1>2, <1>3, <1>4, <2>1, SameBlocks DEF InOnePlace, InFree
<1>5. CASE ~ Holds(t, s, p)
  <2>1. s # this[t] \/ p[1] # pos[t][1] \/ p[2] # pos[t][2]
    BY <1>1, <1>5, <1>b DEF Holds, Positions
  <2>2. Freed(s, p)' <=> Freed(s, p)
    BY <1>1, <2>1, <1>a, <1>b DEF Freed, SetFreedSlot, TypeOK, SlabTypeOK, Positions
  <2> QED
    BY <1>1, <1>2, <1>3, <1>5, <2>2, BlockFrame
<1> QED
  BY <1>4, <1>5

\* No step loses or doubles a block.
LEMMA BlockStep ==
    ASSUME IndInv, NEW t \in Threads, Step(t)
    PROVE  BlockConservation'
<1> USE DEF TypeOK, SlabTypeOK
<1>a. TypeOK
  BY DEF IndInv
<1>b. \A s \in Made, p \in Positions : InOnePlace(s, p)
  BY DEF IndInv, BlockConservation
<1>c. /\ pc[t] # "idle" => this[t] \in Made /\ this[t] \in Slabs
      /\ vecs[t] # {} => LowestBit(vecs[t]) \in vecs[t] /\ LowestBit(vecs[t]) \in Vecs
      /\ iter[t] # {} => LowestBit(iter[t]) \in iter[t] /\ LowestBit(iter[t]) \in Vecs
      /\ slots[t] # {} => LowestBit(slots[t]) \in slots[t] /\ LowestBit(slots[t]) \in Bits
      /\ pos[t][1] \in Vecs /\ pos[t][2] \in Bits /\ pos[t] = <<pos[t][1], pos[t][2]>>
  BY Operands
<1>1. CASE \E s \in Slabs, k \in Classes : Create(t, s, k)
  <2>1. PICK s0 \in Slabs, k \in Classes : Create(t, s0, k)
    BY <1>1
  <2>2. /\ UNCHANGED <<freedSlots, live, pc, this, pos>>
        /\ s0 \notin Made /\ cls'[s0] = k /\ availSlots'[s0] = InitSlots(NBlocks[k])
        /\ \A s \in Slabs \ {s0} : cls'[s] = cls[s] /\ availSlots'[s] = availSlots[s]
    BY <2>1, <1>a DEF Create, Construct, regVars
  <2> SUFFICES ASSUME NEW s \in Made', NEW p \in Positions
               PROVE  InOnePlace(s, p)'
    BY DEF BlockConservation
  <2>3. s \in Slabs
    BY DEF Made
  <2>4. \A u \in Threads : Holds(u, s, p)' <=> Holds(u, s, p)
    BY <2>2 DEF Holds, Freeing
  <2>5. CASE s = s0
    <3>1. Available(s, p)' <=> p \in BlocksOf(cls'[s])
      BY <2>2, <2>5 DEF Available, BlocksOf
    <3>2. ~ Live(s, p)' /\ ~ Freed(s, p)'
      <4>1. p[1] \in Vecs
        BY DEF Positions
      <4>2. /\ \A v \in Vecs : freedSlots[s0][v] = {}
            /\ \A b \in live : b[1] # s0
        BY <2>2 DEF IndInv, FreshInv
      <4> QED
        BY <2>2, <2>5, <4>1, <4>2 DEF Live, Freed
    <3>3. \A u \in Threads : ~ Holds(u, s, p)'
      BY <2>2, <2>4, <2>5, Operands DEF Holds, Freeing
    <3>4. (p \in BlocksOf(cls[s]))' <=> p \in BlocksOf(cls'[s])
      BY DEF BlocksOf
    <3> QED
      BY <3>1, <3>2, <3>3, <3>4 DEF InOnePlace, InFree
  <2>6. CASE s # s0
    <3>1. s \in Made /\ cls'[s] = cls[s]
      BY <2>2, <2>3, <2>6 DEF Made
    <3>2. /\ Available(s, p)' <=> Available(s, p)
          /\ Live(s, p)' <=> Live(s, p)
          /\ Freed(s, p)' <=> Freed(s, p)
      BY <2>2, <2>3, <2>6 DEF Available, Live, Freed
    <3> QED
      BY <1>b, <2>4, <3>1, <3>2, BlockFrame
  <2> QED
    BY <2>5, <2>6
<1>2. CASE \E s \in Slabs : Allocate(t, s)
  BY <1>2, <1>a, BlocksFrame DEF Allocate, Call, Goto, slabVars, Freeing
<1>3. CASE AllocBegin(t) /\ UNCHANGED <<owns, live>>
  BY <1>3, <1>a, BlocksFrame DEF AllocBegin, Goto, slabVars, Freeing
<1>4. CASE AllocFull(t) /\ UNCHANGED <<owns, live>>
  BY <1>4, <1>a, BlocksFrame DEF AllocFull, Return, Goto, slabVars, Freeing
<1>5. CASE AllocClear(t) /\ UNCHANGED <<owns, live>>
  BY <1>5, <1>a, BlocksFrame DEF AllocClear, Freeing
<1>6. CASE AllocLoad(t) /\ UNCHANGED <<owns, live>>
  BY <1>6, <1>a, BlocksFrame DEF AllocLoad, Goto, slabVars, Freeing
<1>7. CASE AllocAbort(t) /\ UNCHANGED <<owns, live>>
  BY <1>7, <1>a, BlocksFrame DEF AllocAbort, Return, Goto, slabVars, Freeing
<1>8. CASE AllocateReturn(t)
  <2> DEFINE v0 == LowestBit(vecs[t])
             i0 == LowestBit(slots[t])
  <2>1. /\ pc[t] = "alloc_commit"
        /\ v0 \in Vecs /\ i0 \in slots[t] /\ slots[t] = availSlots[this[t]][v0]
    BY <1>8, <1>c DEF AllocateReturn, AllocCommit, IndInv, RegisterInv
  <2> HIDE DEF v0, i0
  <2>2. /\ cls' = cls /\ freedSlots' = freedSlots
        /\ live' = live \union {<<this[t], v0, i0>>}
        /\ availSlots' = [availSlots EXCEPT ![this[t]][v0] = @ \ {i0}]
    BY <1>8, <2>1 DEF AllocateReturn, AllocCommit, AllocResult, v0, i0
  <2> SUFFICES ASSUME NEW s \in Made', NEW p \in Positions
               PROVE  InOnePlace(s, p)'
    BY DEF BlockConservation
  <2>3. s \in Made /\ s \in Slabs
    BY <2>2 DEF Made
  <2>4. \A u \in Threads : Holds(u, s, p)' <=> Holds(u, s, p)
    BY <1>8, <1>a, <2>1 DEF AllocateReturn, AllocCommit, Return, Goto, Holds,
       Freeing
  <2>5. Freed(s, p)' <=> Freed(s, p)
    BY <2>2 DEF Freed
  <2>6. CASE s = this[t] /\ p[1] = v0 /\ p[2] = i0
    <3>1. Available(s, p)
      BY <2>1, <2>6 DEF Available
    <3>2. ~ Available(s, p)' /\ Live(s, p)'
      BY <1>a, <2>1, <2>2, <2>3, <2>6 DEF Available, Live
    <3> QED
      BY <1>b, <2>2, <2>3, <2>4, <2>5, <3>1, <3>2, SameBlocks DEF InOnePlace,
         InFree
  <2>7. CASE ~ (s = this[t] /\ p[1] = v0 /\ p[2] = i0)
    <3>1. Available(s, p)' <=> Available(s, p)
      BY <1>a, <1>c, <2>1, <2>2, <2>3, <2>7 DEF Available, Positions
    <3>2. Live(s, p)' <=> Live(s, p)
      BY <2>2, <2>7 DEF Live
    <3> QED
      BY <1>b, <2>2, <2>3, <2>4, <2>5, <3>1, <3>2, BlockFrame
  <2> QED
    BY <2>6, <2>7
<1>9. CASE Full(t)
  <2>1. CASE Return(t, "release", this[t])
    BY <1>9, <2>1, <1>a, BlocksFrame DEF Full, Return, Goto, slabVars, Freeing
  <2>2. CASE Return(t, "idle", NULL)
    BY <1>9, <2>2, <1>a, BlocksFrame DEF Full, Return, Goto, slabVars, Freeing
  <2> QED
    BY <1>9, <2>1, <2>2 DEF Full
<1>10. CASE ReleaseRead(t) /\ UNCHANGED <<owns, live>>
  BY <1>10, <1>a, BlocksFrame DEF ReleaseRead, Goto, slabVars, Freeing
<1>11. CASE ReleaseVecs(t) /\ UNCHANGED <<owns, live>>
  BY <1>11, <1>a, BlocksFrame DEF ReleaseVecs, Goto, Freeing
<1>12. CASE ReleaseSlots(t) /\ UNCHANGED <<owns, live>>
  BY <1>12, <1>a, BlocksFrame DEF ReleaseSlots, Goto, slabVars, Freeing
<1>13. CASE ReleaseTake(t) /\ UNCHANGED <<owns, live>>
  <2> DEFINE w == LowestBit(iter[t])
  <2>1. /\ pc[t] = "release_take" /\ w \in iter[t] /\ w \in Vecs
        /\ slots[t] \subseteq freedSlots[this[t]][w]
        /\ availVecs[this[t]] = {}
    BY <1>13, <1>c DEF ReleaseTake, IndInv, RegisterInv
  <2> HIDE DEF w
  <2>2. /\ cls' = cls /\ live' = live
        /\ availSlots' = [availSlots EXCEPT ![this[t]][w] = slots[t]]
        /\ freedSlots' = [freedSlots EXCEPT ![this[t]][w] = @ \ slots[t]]
    BY <1>13 DEF ReleaseTake, w
  <2>3. availSlots[this[t]][w] = {}
    <3>1. \A u \in Threads :
             pc[u] \in {"release_slots", "release_take"} /\ this[u] = this[t] => u = t
      BY <2>1, OwnerAlone DEF OwnerLabels
    <3>2. \A u \in Threads : ~ Filling(u, this[t], w)
      BY <2>1, <3>1 DEF Filling
    <3> QED
      BY <1>c, <2>1, <3>2 DEF IndInv, VisibleInv, Shown
  <2> SUFFICES ASSUME NEW s \in Made', NEW p \in Positions
               PROVE  InOnePlace(s, p)'
    BY DEF BlockConservation
  <2>4. s \in Made /\ s \in Slabs
    BY <2>2 DEF Made
  <2>5. \A u \in Threads : Holds(u, s, p)' <=> Holds(u, s, p)
    BY <1>13, <1>a, <2>1 DEF ReleaseTake, Goto, Holds, Freeing
  <2>6. Live(s, p)' <=> Live(s, p)
    BY <2>2 DEF Live
  <2>7. CASE s = this[t] /\ p[1] = w /\ p[2] \in slots[t]
    <3>1. Freed(s, p) /\ ~ Freed(s, p)' /\ Available(s, p)'
      BY <1>a, <2>1, <2>2, <2>4, <2>7 DEF Freed, Available
    <3> QED
      BY <1>b, <2>2, <2>4, <2>5, <2>6, <3>1, SameBlocks DEF InOnePlace, InFree
  <2>8. CASE ~ (s = this[t] /\ p[1] = w /\ p[2] \in slots[t])
    <3>1. p[1] \in Vecs
      BY <2>4 DEF Positions
    <3>2. /\ Available(s, p)' <=> Available(s, p)
          /\ Freed(s, p)' <=> Freed(s, p)
      BY <1>a, <1>c, <2>1, <2>2, <2>3, <2>4, <2>8, <3>1 DEF Freed, Available
    <3> QED
      BY <1>b, <2>2, <2>4, <2>5, <2>6, <3>2, BlockFrame
  <2> QED
    BY <2>7, <2>8
<1>14. CASE ReleaseDone(t, "idle", NULL) /\ UNCHANGED <<owns, live>>
  BY <1>14, <1>a, BlocksFrame DEF ReleaseDone, Return, Goto, Freeing
<1>15. CASE GiveUp(t)
  BY <1>15, <1>a, BlocksFrame DEF GiveUp, ReleaseUnown, Return, Goto, Freeing
<1>16. CASE \E b \in live : Free(t, b)
  <2>1. PICK b \in live : Free(t, b)
    BY <1>16
  <2>2. /\ UNCHANGED <<cls, availSlots, freedSlots>>
        /\ pc[t] = "idle" /\ pc'[t] = "free" /\ this'[t] = b[1] /\ pos'[t] = <<b[2], b[3]>>
        /\ \A u \in Threads \ {t} : pc'[u] = pc[u] /\ this'[u] = this[u] /\ pos'[u] = pos[u]
        /\ live' = live \ {b}
        /\ b = <<b[1], b[2], b[3]>>
    BY <2>1, <1>a DEF Free, Call, Goto, slabVars, Blocks
  <2> SUFFICES ASSUME NEW s \in Made', NEW p \in Positions
               PROVE  InOnePlace(s, p)'
    BY DEF BlockConservation
  <2>3. s \in Made /\ p = <<p[1], p[2]>>
    BY <2>2 DEF Made, Positions
  <2>4. /\ Available(s, p)' <=> Available(s, p)
        /\ Freed(s, p)' <=> Freed(s, p)
    BY <2>2 DEF Available, Freed
  <2>5. ~ Holds(t, s, p) /\ \A u \in Threads \ {t} : Holds(u, s, p)' <=> Holds(u, s, p)
    BY <2>2 DEF Holds, Freeing
  <2>6. CASE b = <<s, p[1], p[2]>>
    <3>1. Live(s, p) /\ ~ Live(s, p)'
      BY <2>2, <2>6 DEF Live
    <3>2. Holds(t, s, p)'
      BY <2>2, <2>3, <2>6 DEF Holds, Freeing
    <3> QED
      BY <1>b, <2>2, <2>3, <2>4, <2>5, <3>1, <3>2, SameBlocks DEF InOnePlace,
         InFree
  <2>7. CASE b # <<s, p[1], p[2]>>
    <3>1. Live(s, p)' <=> Live(s, p)
      BY <2>2, <2>7 DEF Live
    <3>2. ~ Holds(t, s, p)'
      BY <2>2, <2>3, <2>7 DEF Holds, Freeing
    <3> QED
      BY <1>b, <2>2, <2>3, <2>4, <2>5, <3>1, <3>2, BlockFrame
  <2> QED
    BY <2>6, <2>7
<1>17. CASE FreeCheck(t) /\ UNCHANGED <<owns, live>>
  BY <1>17, <1>a, BlocksFrame DEF FreeCheck, Goto, slabVars, regVars, Freeing
<1>18. CASE FreeLater(t, "idle") /\ UNCHANGED <<owns, live>>
  <2>1. /\ SetFreedSlot(t) /\ UNCHANGED <<cls, availSlots, live>>
        /\ Freeing(t) /\ pc'[t] \in {"idle", "free_vec"}
        /\ \A u \in Threads \ {t} : pc'[u] = pc[u] /\ this'[u] = this[u] /\ pos'[u] = pos[u]
    BY <1>18, <1>a DEF FreeLater, Return, Goto, Freeing
  <2> QED
    BY <2>1, BitSet
<1>19. CASE FreeFirst(t) /\ UNCHANGED <<owns, live>>
  <2>1. /\ SetFreedSlot(t) /\ UNCHANGED <<cls, availSlots, live>>
        /\ Freeing(t) /\ pc'[t] \in {"idle", "free_vec"}
        /\ \A u \in Threads \ {t} : pc'[u] = pc[u] /\ this'[u] = this[u] /\ pos'[u] = pos[u]
    BY <1>19, <1>a DEF FreeFirst, regVars, Goto, Freeing
  <2> QED
    BY <2>1, BitSet
<1>20. CASE FreeVec(t) /\ UNCHANGED <<owns, live>>
  BY <1>20, <1>a, BlocksFrame DEF FreeVec, Goto, regVars, Freeing
<1>21. CASE FreeState(t, "idle") /\ UNCHANGED <<owns, live>>
  <2>1. CASE Return(t, "set_owned", this[t])
    BY <1>21, <2>1, <1>a, BlocksFrame DEF FreeState, Return, Goto, slabVars,
       Freeing
  <2>2. CASE Return(t, "idle", NULL)
    BY <1>21, <2>2, <1>a, BlocksFrame DEF FreeState, Return, Goto, slabVars,
       Freeing
  <2> QED
    BY <1>21, <2>1, <2>2 DEF FreeState
<1>22. CASE SetOwnedLost(t, "idle") /\ UNCHANGED <<owns, live>>
  BY <1>22, <1>a, BlocksFrame DEF SetOwnedLost, Return, Goto, slabVars,
     Freeing
<1>23. CASE Claim(t)
  BY <1>23, <1>a, BlocksFrame DEF Claim, SetOwnedWon, Return, Goto, Freeing
<1> QED
  BY <1>1, <1>2, <1>3, <1>4, <1>5, <1>6, <1>7, <1>8, <1>9, <1>10, <1>11,
     <1>12, <1>13, <1>14, <1>15, <1>16, <1>17, <1>18, <1>19, <1>20, <1>21,
     <1>22, <1>23
     DEF Step, AllocateStep, ReleaseStep, FreeStep

----------------------------------------------------------------------------
(***************************************************************************)
(* The theorems.                                                           *)
(***************************************************************************)

\* Stuttering changes nothing IndInv speaks of.
LEMMA StutterStep ==
    ASSUME IndInv, UNCHANGED vars
    PROVE  IndInv'
<1> USE DEF vars, slabVars, regVars
<1>1. TypeOK' /\ BusyInv' /\ FreshInv' /\ OwnershipExact' /\ RegisterInv'
  BY DEF IndInv, TypeOK, SlabTypeOK, BusyInv, FreshInv, OwnershipExact, RegisterInv, Made
<1>2. VisibleInv'
  BY VisibleFrame
<1>3. BlockConservation'
  BY BlocksFrame DEF Freeing
<1> QED
  BY <1>1, <1>2, <1>3 DEF IndInv

\* The memory is fresh from mmap: no slab is constructed.
LEMMA InitInv ==
    Init => IndInv
<1> SUFFICES ASSUME Init
             PROVE  IndInv
  OBVIOUS
<1> USE DEF Init, SlabInit
<1>1. Made = {}
  BY DEF Made
<1>2. TypeOK
  BY SlabAssumption DEF TypeOK, SlabTypeOK, Labels, SlabLabels, NoPos, Positions,
     Vecs, Bits, OWNED, UNOWNED
<1>3. BusyInv /\ FreshInv /\ RegisterInv
  BY <1>1 DEF BusyInv, FreshInv, RegisterInv, OwnerLabels
<1>4. OwnershipExact /\ VisibleInv /\ BlockConservation
  BY <1>1 DEF OwnershipExact, VisibleInv, BlockConservation
<1> QED
  BY <1>2, <1>3, <1>4 DEF IndInv

\* Every step of the protocol preserves IndInv.
LEMMA NextStep ==
    ASSUME IndInv, [Next]_vars
    PROVE  IndInv'
<1>1. ASSUME NEW t \in Threads, Step(t)
      PROVE  IndInv'
  BY <1>1, TypeStep, BusyStep, FreshStep, OwnershipStep, RegisterStep, VisibleStep,
     BlockStep DEF IndInv
<1> QED
  BY <1>1, StutterStep DEF Next

\* IndInv is an inductive invariant of the slab protocol of obj_slab.h, for any
\* number of threads, slabs, classes, vectors and bits.
THEOREM Inductive ==
    Spec => []IndInv
<1>1. Init => IndInv
  BY InitInv
<1>2. IndInv /\ [Next]_vars => IndInv'
  BY NextStep
<1> QED
  BY <1>1, <1>2, PTL DEF Spec

\* Every word of a slab stays a word, and every register one of its positions:
\* no _allocate() works on a bit outside of the slab.
THEOREM TypeCorrect ==
    Spec => []TypeOK
<1>1. IndInv => TypeOK
  BY DEF IndInv
<1> QED
  BY <1>1, Inductive, PTL

\* _try_release() and _set_owned() hand a slab from one owner to the next, with
\* the state word exact: racing claims have one winner.
THEOREM ExactOwnership ==
    Spec => []OwnershipExact
<1>1. IndInv => OwnershipExact
  BY DEF IndInv
<1> QED
  BY <1>1, Inductive, PTL

\* _allocate(), _try_release() and _free() never lose or double a block: it is
\* available, handed out, in one _free(), or freed.
THEOREM BlocksConserved ==
    Spec => []BlockConservation
<1>1. IndInv => BlockConservation
  BY DEF IndInv
<1> QED
  BY <1>1, Inductive, PTL

\* Outside _try_release() every available block is under a set summary bit, so
\* _allocate() says FULL only of a slab with no available block.
THEOREM NothingHidden ==
    Spec => []AvailableVisible
<1>1. IndInv => AvailableVisible
  <2> SUFFICES ASSUME IndInv, NEW s \in Made,
                      \A t \in Threads : ~ (Releasing(t) /\ this[t] = s),
                      NEW v \in Vecs, availSlots[s][v] # {}
               PROVE  v \in availVecs[s]
    BY DEF AvailableVisible
  <2>1. \A t \in Threads : ~ Filling(t, s, v)
    BY DEF Releasing, Filling
  <2> QED
    BY <2>1 DEF IndInv, VisibleInv, Shown
<1> QED
  BY <1>1, Inductive, PTL

\* The assertion of _try_release() before state = UNOWNED (obj_slab.h:235) never
\* fails when slabs have exclusive owners.
THEOREM ReleaseAssertion ==
    Spec => []ReleaseOwned
<1>1. IndInv => ReleaseOwned
  <2> SUFFICES ASSUME IndInv, NEW t \in Threads, pc[t] = "release_unown"
               PROVE  state[this[t]] = OWNED
    BY DEF ReleaseOwned
  <2>1. this[t] \in owns[t] /\ this[t] \in Made /\ this[t] \in Slabs
    BY DEF IndInv, BusyInv, OwnerLabels, Made
  <2>2. state[this[t]] # UNOWNED
    BY <2>1 DEF IndInv, OwnershipExact
  <2> QED
    BY <2>1, <2>2 DEF IndInv, TypeOK, SlabTypeOK
<1> QED
  BY <1>1, Inductive, PTL

\* The block _allocate() commits to is neither handed out nor still in a _free().
LEMMA FreshResult ==
    ASSUME IndInv, NEW t \in Threads, AllocateReturn(t)
    PROVE  /\ AllocResult(t) \notin live
           /\ ~ InFree(this[t], <<AllocResult(t)[2], AllocResult(t)[3]>>)
<1> DEFINE v == LowestBit(vecs[t])
           i == LowestBit(slots[t])
           p == <<v, i>>
<1>1. /\ pc[t] = "alloc_commit" /\ vecs[t] # {} /\ slots[t] # {}
      /\ slots[t] = availSlots[this[t]][v]
  BY DEF AllocateReturn, AllocCommit, IndInv, RegisterInv
<1>2. v \in Vecs /\ i \in slots[t] /\ i \in Bits /\ this[t] \in Made
  BY <1>1, Operands
<1>3. AllocResult(t) = <<this[t], v, i>>
  BY DEF AllocResult
<1> HIDE DEF v, i
<1>4. p \in Positions
  BY <1>2 DEF Positions
<1>5. Available(this[t], p)
  BY <1>1, <1>2 DEF Available
<1>6. InOnePlace(this[t], p)
  BY <1>2, <1>4 DEF IndInv, BlockConservation
<1>7. ~ Live(this[t], p) /\ ~ InFree(this[t], p)
  BY <1>5, <1>6 DEF InOnePlace
<1> QED
  BY <1>3, <1>7 DEF Live

\* _allocate() never hands out a block twice.
THEOREM NoDoubles ==
    Spec => NoDoubleAllocation
<1>1. IndInv /\ [Next]_vars =>
        [\A t \in Threads : AllocateReturn(t) =>
            /\ AllocResult(t) \notin live
            /\ ~ InFree(this[t], <<AllocResult(t)[2], AllocResult(t)[3]>>)]_vars
  BY FreshResult
<1> QED
  BY <1>1, Inductive, PTL DEF Spec, NoDoubleAllocation

\* Only the owner, in _try_release(), takes freed bits out of the shared words.
THEOREM OwnerReclaims ==
    Spec => OnlyOwnerReclaims
<1>1. ASSUME IndInv, Next
      PROVE  \A s \in Slabs, v \in Vecs :
                ~ (freedSlots[s][v] \subseteq freedSlots'[s][v]) =>
                   \E t \in Threads : s \in owns[t] /\ pc[t] = "release_take"
  <2> SUFFICES ASSUME NEW s \in Slabs, NEW v \in Vecs,
                      ~ (freedSlots[s][v] \subseteq freedSlots'[s][v])
               PROVE  \E t \in Threads : s \in owns[t] /\ pc[t] = "release_take"
    OBVIOUS
  <2>1. PICK t \in Threads : Step(t)
    BY <1>1 DEF Next
  <2>2. pc[t] = "release_take" /\ this[t] = s
    <3>1. \/ freedSlots' = freedSlots
          \/ SetFreedSlot(t)
          \/ ReleaseTake(t)
      BY <2>1 DEF Step, AllocateStep, ReleaseStep, FreeStep, slabVars, Create, Construct,
         Allocate, AllocBegin, AllocFull, AllocClear, AllocLoad, AllocAbort,
         AllocateReturn, AllocCommit, Full, ReleaseRead, ReleaseVecs, ReleaseSlots,
         ReleaseDone, GiveUp, ReleaseUnown, Free, FreeCheck, FreeLater, FreeFirst,
         FreeVec, FreeState, SetOwnedLost, Claim, SetOwnedWon
    <3>2. freedSlots \in [Slabs -> [Vecs -> SUBSET Bits]]
      BY <1>1 DEF IndInv, TypeOK, SlabTypeOK
    <3>3. ~ SetFreedSlot(t)
      BY <3>2 DEF SetFreedSlot
    <3>4. ReleaseTake(t)
      BY <3>1, <3>3
    <3> QED
      BY <3>2, <3>4 DEF ReleaseTake
  <2>3. this[t] \in owns[t]
    BY <1>1, <2>2 DEF IndInv, BusyInv, OwnerLabels
  <2> QED
    BY <2>2, <2>3
<1> QED
  BY <1>1, Inductive, PTL DEF Spec, OnlyOwnerReclaims
=============================================================================
