-------------------------- MODULE ObjectAllocator --------------------------
(***************************************************************************)
(* allocator/object_allocator.h: _allocate() and _free() of the whole      *)
(* allocator, composed of the per-CPU free cache (free_cache.h), the       *)
(* per-CPU slab lists (SlabManager), the slabs (ObjSlab) and the bump      *)
(* allocator that hands out the slabs of the region (slab_allocation.h).   *)
(*                                                                         *)
(* Slab pointers are the numbers 1 .. NumSlabs in address order, so that   *)
(* end is NumSlabs + 1 and NULL is 0.  A block is <<slab, vector, bit>>.   *)
(* live[b] counts how often the program holds the block b: how many times  *)
(* _allocate() returned it, minus how often it was passed to _free().  Any *)
(* thread may free any block the program holds.                            *)
(***************************************************************************)
EXTENDS SlabManager, Sequences, SequencesExt

CONSTANTS
    NumSlabs,   \* slabs that fit between calculate_start and calculate_end
    CacheSize   \* object_allocator::cache_size

ASSUME AllocatorAssumption ==
    /\ NumSlabs \in Nat
    /\ Slabs = 1 .. NumSlabs
    /\ NULL = 0
    /\ CacheSize \in Nat \ {0}
    /\ IsFiniteSet(Threads)

VARIABLES
    cache,      \* free_cache: ptrs[0 .. current_idx), per class and CPU
    current,    \* shared_memory_slab_allocator::current_slab
    live

vars == <<slabVars, regVars, pc, listVars, opVars, on, cache, current, live>>

Blocks == Slabs \X Vecs \X Bits

Init ==
    /\ SlabInit
    /\ ManagerInit
    /\ pc = [t \in Threads |-> "idle"]
    /\ cache = [k \in Classes |-> [c \in CPUs |-> <<>>]]
    /\ current = 1
    /\ live = [b \in Blocks |-> 0]

\* The operation is over, its locals are dead.
EndOp(t) ==
    /\ start' = [start EXCEPT ![t] = NULL]
    /\ size' = [size EXCEPT ![t] = NoClass]

\* Back to the top of the loop of _allocate_inner().
Again(t) ==
    /\ start' = [start EXCEPT ![t] = NULL]
    /\ UNCHANGED size

(***************************************************************************)
(* _allocate() and the free cache.                                         *)
(***************************************************************************)
Malloc(t, k) ==
    /\ pc[t] = "idle"
    /\ size' = [size EXCEPT ![t] = k]
    /\ Goto(t, "pop")
    /\ UNCHANGED <<slabVars, regVars, listVars, start, cache, current, live>>

\* Mutant: try_pop() forgets to decrement current_idx.
TryPopKeep(t) ==
    /\ pc[t] = "pop"
    /\ LET k == size[t]
           c == CPUOf(t)
       IN  IF cache[k][c] = <<>>
           THEN Goto(t, "inner") /\ UNCHANGED <<opVars, live>>
           ELSE /\ Goto(t, "idle")
                /\ live' = [live EXCEPT ![Last(cache[k][c])] = @ + 1]
                /\ EndOp(t)
    /\ UNCHANGED <<slabVars, regVars, listVars, cache, current>>

\* try_pop(): the pointer under current_idx, which is then decremented.
TryPop(t) ==
    /\ pc[t] = "pop"
    /\ LET k == size[t]
           c == CPUOf(t)
       IN  IF cache[k][c] = <<>>
           THEN /\ Goto(t, "inner")
                /\ UNCHANGED <<opVars, cache, live>>
           ELSE /\ Goto(t, "idle")
                /\ live' = [live EXCEPT ![Last(cache[k][c])] = @ + 1]
                /\ cache' = [cache EXCEPT ![k][c] = Front(@)]
                /\ EndOp(t)
    /\ UNCHANGED <<slabVars, regVars, listVars, current>>

(***************************************************************************)
(* _allocate_inner().                                                      *)
(***************************************************************************)

\* start_cpu = get_start_cpu().
GetStartCpu(t) ==
    /\ pc[t] = "inner"
    /\ start' = [start EXCEPT ![t] = CPUOf(t)]
    /\ Goto(t, "inner_head")
    /\ UNCHANGED <<slabVars, regVars, listVars, size, cache, current, live>>

\* Mutant: the slab manager of some other CPU is read.
ReadHeadAnyCpu(t) ==
    /\ pc[t] = "inner_head"
    /\ \E c \in CPUs :
          LET h == head[size[t]][c]
          IN  IF h = NULL
              THEN Goto(t, "oom") /\ UNCHANGED regVars
              ELSE Call(t, "alloc", h, NoPos)
    /\ UNCHANGED <<slabVars, listVars, opVars, cache, current, live>>

\* Read available_slabs_head of that CPU, outside any critical section.
ReadHead(t) ==
    /\ pc[t] = "inner_head"
    /\ LET h == head[size[t]][start[t]]
       IN  IF h = NULL
           THEN Goto(t, "oom") /\ UNCHANGED regVars
           ELSE Call(t, "alloc", h, NoPos)
    /\ UNCHANGED <<slabVars, listVars, opVars, cache, current, live>>

\* Mutant: the loop goes on when the region is used up.
OutOfMemoryRetry(t) ==
    /\ pc[t] = "oom"
    /\ IF current > NumSlabs
       THEN Goto(t, "inner") /\ Again(t)
       ELSE Goto(t, "new") /\ UNCHANGED opVars
    /\ UNCHANGED <<slabVars, regVars, listVars, cache, current, live>>

\* out_of_memory(end): return NULL.
OutOfMemory(t) ==
    /\ pc[t] = "oom"
    /\ IF current > NumSlabs
       THEN Goto(t, "idle") /\ EndOp(t)
       ELSE Goto(t, "new") /\ UNCHANGED opVars
    /\ UNCHANGED <<slabVars, regVars, listVars, cache, current, live>>

\* _new(): fetch_add, and the second test against end.
NewSlab(t) ==
    /\ pc[t] = "new"
    /\ current' = current + 1
    /\ IF current > NumSlabs
       THEN Return(t, "idle", NULL) /\ EndOp(t)
       ELSE Return(t, "construct", current) /\ UNCHANGED opVars
    /\ UNCHANGED <<slabVars, listVars, cache, live>>

\* Placement new of the slab.
ConstructSlab(t) ==
    /\ pc[t] = "construct"
    /\ Construct(this[t], size[t])
    /\ Goto(t, "new_send")
    /\ UNCHANGED <<regVars, listVars, opVars, cache, current, live>>

SendNew(t) ==
    /\ \/ SendFirst(t, "new_send", "new_send_commit")
       \/ SendCommit(t, "new_send_commit", "inner", NULL) /\ Again(t)
    /\ UNCHANGED <<cache, current, live>>

\* _allocate() of the slab: the check that the thread is still on start_cpu.
AllocMigrated(t) ==
    /\ pc[t] = "alloc"
    /\ CPUOf(t) # start[t]
    /\ Return(t, "inner", NULL)
    /\ Again(t)
    /\ UNCHANGED <<slabVars, listVars, cache, current, live>>

AllocSection(t) ==
    /\ \/ CPUOf(t) = start[t] /\ AllocBegin(t)
       \/ AllocFull(t) \/ AllocClear(t) \/ AllocLoad(t)
    /\ UNCHANGED <<listVars, opVars, cache, current, live>>

AllocReturn(t) ==
    /\ AllocCommit(t, "idle")
    /\ live' = [live EXCEPT ![AllocResult(t)] = @ + 1]
    /\ EndOp(t)
    /\ UNCHANGED <<listVars, cache, current>>

\* FULL: unlink the slab, or start over.
UnlinkFull(t) ==
    /\ \/ CasSetNext(t, "release")
       \/ /\ pc[t] = "full"
          /\ CasFails(t)
          /\ Return(t, "inner", NULL)
          /\ Again(t)
          /\ UNCHANGED <<slabVars, listVars>>
    /\ UNCHANGED <<cache, current, live>>

\* _try_release() of the unlinked slab; if it took blocks back, next = NULL and
\* the slab is sent to the list of the CPU the thread is on now.
ReleaseSlab(t) ==
    /\ \/ /\ ReleaseRead(t) \/ ReleaseVecs(t) \/ ReleaseSlots(t) \/ ReleaseTake(t)
          /\ UNCHANGED <<listVars, opVars>>
       \/ ReleaseUnown(t, "inner") /\ Again(t) /\ UNCHANGED listVars
       \/ /\ ReleaseDone(t, "rel_send", this[t])
          /\ next' = [next EXCEPT ![this[t]] = NULL]
          /\ UNCHANGED <<head, tail, opVars>>
    /\ UNCHANGED <<cache, current, live>>

SendReleased(t) ==
    /\ \/ SendFirst(t, "rel_send", "rel_send_commit")
       \/ SendCommit(t, "rel_send_commit", "sent", this[t]) /\ UNCHANGED opVars
    /\ UNCHANGED <<cache, current, live>>

\* The assertion after _send_slab() (see SentOwned), then start over.
AfterSend(t) ==
    /\ pc[t] = "sent"
    /\ Return(t, "inner", NULL)
    /\ Again(t)
    /\ UNCHANGED <<slabVars, listVars, cache, current, live>>

(***************************************************************************)
(* _free().                                                                *)
(***************************************************************************)

\* addr_to_slab() and block_size give the slab and the class.
Free(t, b) ==
    /\ pc[t] = "idle"
    /\ live[b] > 0
    /\ live' = [live EXCEPT ![b] = @ - 1]
    /\ size' = [size EXCEPT ![t] = cls[b[1]]]
    /\ Call(t, "push", b[1], <<b[2], b[3]>>)
    /\ UNCHANGED <<slabVars, listVars, start, cache, current>>

\* Mutants: the limit is off by one; the size class is ignored.
PushTo(t, k, limit) ==
    /\ pc[t] = "push"
    /\ LET c == CPUOf(t)
       IN  IF Len(cache[k][c]) = limit
           THEN Goto(t, "free") /\ UNCHANGED <<regVars, opVars, cache>>
           ELSE /\ cache' = [cache EXCEPT ![k][c] =
                                Append(@, <<this[t], pos[t][1], pos[t][2]>>)]
                /\ Return(t, "idle", NULL)
                /\ EndOp(t)
    /\ UNCHANGED <<slabVars, listVars, current, live>>
TryPushOverrun(t) == PushTo(t, size[t], CacheSize + 1)
TryPushOneClass(t) == PushTo(t, CHOOSE k \in Classes : TRUE, CacheSize)

\* try_push(): store the pointer above current_idx and increment it, unless
\* the cache is full.
TryPush(t) ==
    /\ pc[t] = "push"
    /\ LET k == size[t]
           c == CPUOf(t)
       IN  IF Len(cache[k][c]) = CacheSize
           THEN /\ Goto(t, "free")
                /\ UNCHANGED <<regVars, opVars, cache>>
           ELSE /\ cache' = [cache EXCEPT ![k][c] =
                                Append(@, <<this[t], pos[t][1], pos[t][2]>>)]
                /\ Return(t, "idle", NULL)
                /\ EndOp(t)
    /\ UNCHANGED <<slabVars, listVars, current, live>>

FreeSlab(t) ==
    /\ \/ (FreeCheck(t) \/ FreeFirst(t) \/ FreeVec(t)) /\ UNCHANGED opVars
       \/ FreeLater(t, "idle") /\ EndOp(t)
       \/ /\ FreeState(t, "idle")
          /\ IF state[this[t]] = UNOWNED THEN UNCHANGED opVars ELSE EndOp(t)
       \/ SetOwnedLost(t, "idle") /\ EndOp(t)
    /\ UNCHANGED <<listVars, cache, current, live>>

\* _set_owned() won: next = NULL, and send the slab to this CPU's list.
ClaimSlab(t) ==
    /\ SetOwnedWon(t, "free_send", this[t])
    /\ next' = [next EXCEPT ![this[t]] = NULL]
    /\ UNCHANGED <<head, tail, opVars, cache, current, live>>

SendClaimed(t) ==
    /\ \/ SendFirst(t, "free_send", "free_send_commit")
       \/ SendCommit(t, "free_send_commit", "idle", NULL) /\ EndOp(t)
    /\ UNCHANGED <<cache, current, live>>

----------------------------------------------------------------------------
(***************************************************************************)
(* Four of the assertions (the build does not define NDEBUG): those on the *)
(* slab that was found FULL and unlinked, lines 437 and 439 and            *)
(* obj_slab.h:235, and on the slab that was sent back, line 444.  Not      *)
(* modelled are lines 155, 422 and 483, on a slab that is in no list, of   *)
(* what the thread itself has just stored there (next = NULL, the state    *)
(* after _set_owned()), and the ones on alignment and ranges of addresses. *)
(***************************************************************************)
UnlinkedNotHead(t) == pc[t] = "release" => head[size[t]][start[t]] # this[t]
UnlinkedOwned(t)   == pc[t] \in {"release", "release_unown"} => state[this[t]] = OWNED
SentOwned(t)       == pc[t] = "sent" => state[this[t]] = OWNED

Assertions(t) == UnlinkedNotHead(t) /\ UnlinkedOwned(t) /\ SentOwned(t)

\* A failed assertion ends the process, with all its threads.
Abort(t) ==
    /\ ~ Assertions(t)
    /\ pc' = [u \in Threads |-> "aborted"]
    /\ UNCHANGED <<slabVars, regVars, listVars, opVars, on, cache, current, live>>

\* One step of a thread that has a CPU.
AllocateStep(t) ==
    \/ \E k \in Classes : Malloc(t, k)
    \/ TryPop(t) \/ GetStartCpu(t) \/ ReadHead(t)
    \/ OutOfMemory(t) \/ NewSlab(t) \/ ConstructSlab(t) \/ SendNew(t)
    \/ AllocMigrated(t) \/ AllocSection(t) \/ AllocReturn(t)
    \/ UnlinkFull(t) \/ ReleaseSlab(t) \/ SendReleased(t) \/ AfterSend(t)

FreeStep(t) ==
    \/ \E b \in Blocks : Free(t, b)
    \/ TryPush(t) \/ FreeSlab(t) \/ ClaimSlab(t) \/ SendClaimed(t)

Step(t) ==
    /\ Running(t)
    /\ Assertions(t)
    /\ AllocateStep(t) \/ FreeStep(t)
    /\ UNCHANGED on

Schedule ==
    /\ \A t \in Threads : pc[t] # "aborted"
    /\ \E c \in CPUs, t \in Threads \union {NoThread} : Switch(c, t)
    /\ UNCHANGED <<cache, current, live>>

Next ==
    \/ \E t \in Threads : Running(t) /\ (Step(t) \/ Abort(t))
    \/ Schedule

Spec == Init /\ [][Next]_vars

(***************************************************************************)
(* Threads that keep their CPU: rseq promises no progress to a thread that *)
(* is preempted in every critical section, so progress is claimed where    *)
(* preemption does not happen.  A running thread executes its next         *)
(* instruction; it is free not to start another operation.                 *)
(***************************************************************************)
Work(t) == pc[t] # "idle" /\ Step(t)

AllRunning == Init /\ \A t \in Threads : Running(t)

Run == \E t \in Threads : Step(t)

Undisturbed ==
    /\ AllRunning
    /\ [][Run]_vars
    /\ \A t \in Threads : WF_vars(Work(t))

----------------------------------------------------------------------------
Labels == SlabLabels \union
    {"idle", "pop", "inner", "inner_head", "oom", "new", "construct",
     "new_send", "new_send_commit", "rel_send", "rel_send_commit", "sent",
     "push", "free_send", "free_send_commit", "aborted"}

\* The shapes of the variables; the bump counter overshoots end by at most one
\* slab per thread, and the free cache never exceeds its array.
TypeOK ==
    /\ SlabTypeOK
    /\ ManagerTypeOK
    /\ pc \in [Threads -> Labels]
    /\ cache \in [Classes -> [CPUs -> Seq(Blocks)]]
    /\ \A k \in Classes, c \in CPUs : Len(cache[k][c]) <= CacheSize
    /\ current \in 1 .. NumSlabs + 1 + Cardinality(Threads)
    /\ live \in [Blocks -> Nat]

Made == {s \in Slabs : cls[s] # NoClass}

\* The n-th slab of the list that begins with h, NULL past its end.
WalkFrom(h, nx) ==
    LET w[n \in Nat] == IF n = 0 THEN h
                        ELSE IF w[n - 1] = NULL THEN NULL ELSE nx[w[n - 1]]
    IN  [n \in 0 .. NumSlabs |-> w[n]]

Walk(k, c) == WalkFrom(head[k][c], next)

Chain(k, c) == Range(Walk(k, c)) \ {NULL}

\* t is in a _send_slab() of s: before, between or after an abort of its stores.
SendLabels == {"new_send", "new_send_commit", "rel_send", "rel_send_commit",
               "free_send", "free_send_commit"}
Linking(t, s) == pc[t] \in SendLabels /\ this[t] = s

\* Threads that hold a slab outside the lists, or are linking it.
HoldLabels == SendLabels \union
    {"release", "release_unown", "release_vecs", "release_slots", "release_take"}
Holds(t, s) == pc[t] \in HoldLabels /\ this[t] = s

\* Every list is a chain that ends, at tail, in NULL, of slabs of its class that
\* are OWNED; tail lags behind only while a _send_slab() to this list is between
\* its two stores.
ListsSound ==
    \A k \in Classes, c \in CPUs :
        LET w == Walk(k, c)
        IN  /\ w[NumSlabs] = NULL
            /\ \A s \in Chain(k, c) : cls[s] = k /\ state[s] = OWNED
            /\ \A n \in 0 .. NumSlabs - 1 : w[n] # NULL /\ w[n + 1] = NULL =>
                  \/ w[n] = tail[k][c]
                  \/ \E t \in Threads : Linking(t, w[n])

\* No slab is lost and none has two users: a constructed slab is UNOWNED and in
\* nobody's hands, or it is OWNED and either linked in exactly one list or held
\* by exactly one thread (both only while that thread links it).
SlabConservation ==
    \A s \in Made :
        LET lists   == {l \in Classes \X CPUs : s \in Chain(l[1], l[2])}
            holders == {t \in Threads : Holds(t, s)}
        IN  /\ Cardinality(lists) <= 1
            /\ Cardinality(holders) <= 1
            /\ lists # {} => \A t \in holders : Linking(t, s)
            /\ state[s] = UNOWNED <=> lists = {} /\ holders = {}

\* How many places hold the block p of the slab s.
Places(s, p) ==
    LET b == <<s, p[1], p[2]>>
        One(P) == IF P THEN 1 ELSE 0
        freeing == {t \in Threads : /\ pc[t] \in {"push", "free", "free_later", "free_first"}
                                    /\ this[t] = s
                                    /\ pos[t] = p}
        cached == {l \in Classes \X CPUs \X (1 .. CacheSize) :
                      /\ l[3] <= Len(cache[l[1]][l[2]])
                      /\ cache[l[1]][l[2]][l[3]] = b}
    IN  live[b] + Cardinality(freeing) + Cardinality(cached)
        + One(p[2] \in availSlots[s][p[1]]) + One(p[2] \in freedSlots[s][p[1]])

\* Every block of a constructed slab is in exactly one place: with the program
\* (once), with one _free(), in one free cache, available, or freed; a position
\* past the last block is in none.
BlockConservation ==
    \A s \in Made, p \in Positions :
        Places(s, p) = IF p \in BlocksOf(cls[s]) THEN 1 ELSE 0

\* A block in a free cache belongs to the class of the cache: a block is never
\* handed out for a larger size than its own.
CacheClass ==
    \A k \in Classes, c \in CPUs : \A b \in Range(cache[k][c]) : cls[b[1]] = k

\* Through caches, slabs and migrations every block stays in one place, and in a cache
\* only under the class of its slab (try_push(), try_pop()).
BlocksAtHome == BlockConservation /\ CacheClass

\* The program never holds a block twice: what the regions of slab_test.cc
\* verify (slab_test.cc:45).
NoDoubleAllocation == \A b \in Blocks : live[b] <= 1

\* The assertions at object_allocator.h:437, 439 and 444 and obj_slab.h:235 hold when a
\* thread comes to them: a slab found FULL and unlinked is no longer the head and still
\* OWNED, although frees and lists have changed since it was read, and a slab that was
\* sent back is OWNED.
AssertionsHold == \A t \in Threads : Assertions(t) /\ pc[t] # "aborted"


\* Every _allocate() and every _free() returns: the loop of _allocate_inner()
\* ends, although other CPUs keep freeing into the slab it is releasing.
OperationsReturn == \A t \in Threads : pc[t] # "idle" ~> pc[t] = "idle"
=============================================================================
