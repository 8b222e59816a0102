------------------------------ MODULE CpuCache ------------------------------
(***************************************************************************)
(* CPUCache (cpu_cache.cc): threads allocate from and free to the lists of *)
(* the CPU they run on, refill and spill them, move capacity between size  *)
(* classes within the bytes a CPU may cache, and any thread may drain the  *)
(* lists of any CPU.                                                       *)
(*                                                                         *)
(* A thread may be migrated, or preempted by another thread of its CPU, at *)
(* any time.  Which class is worth growing or shrinking, and by how much,  *)
(* is a heuristic (PerClassResizeInfo): the model allows every answer.     *)
(* The transfer caches are sets of objects (TransferCache models them).    *)
(***************************************************************************)
EXTENDS TcmallocSlab, FiniteSets, FiniteSetsExt, SequencesExt

CONSTANTS
    CPUs,
    Threads,
    Affinities,     \* the sets of CPUs the threads may run on; none: the thread never runs
    ObjectsOf,      \* the objects of each size class 1 .. Len(ObjectsOf)
    SizeOf,         \* class_to_size() in units of cache space
    NoObject,
    MaxCapacity,    \* MaxCapacity(cl), the same for all classes here
    Batch,          \* num_objects_to_move(cl), the same for all classes here
    MaxBytes,       \* max_per_cpu_cache_size()
    lazy_slabs,     \* lazy_slabs_
    Drained         \* bound: the CPUs that are drained

\* The lists are too short for target to be more than one batch.
ASSUME OneBatch == MaxCapacity < 3 * Batch

Classes == DOMAIN ObjectsOf
ClassOf(obj) == CHOOSE cl \in Classes : obj \in ObjectsOf[cl]

VARIABLES
    hdr,            \* the header of each CPU and class
    mem,            \* the arrays
    available,      \* resize_[cpu].available
    populated,      \* resize_[cpu].populated, set once
    drain,          \* the Drain() or InitCPU() under way on a CPU, under its lock
    central,        \* the transfer cache of each class
    hands,          \* the objects the program has
    affinity,       \* of each thread
    th

vars == <<affinity, hdr, mem, available, populated, drain, central, hands, th>>

\* A thread.  cpu is where it runs, at the CPU it works for; seq is its restartable
\* sequence and then what follows it.  batch, ret and result are the
\* objects it holds; inc, acq, src and left belong to Grow() and Steal().
Idle(cpu) ==
    [pc |-> "idle", cpu |-> cpu, at |-> cpu, cl |-> 0, over |-> FALSE,
     seq |-> Sequence("none", 0, <<>>, 0), then |-> "none",
     batch |-> <<>>, ret |-> {}, result |-> NoObject,
     inc |-> 0, acq |-> 0, src |-> 0, left |-> {}]

NoObjects == [cl \in Classes |-> [i \in Base .. Base + MaxCapacity - 1 |-> NoObject]]
NoDrain == [ph |-> "none", todo |-> {}, init |-> FALSE]

Init ==
    /\ hdr = [c \in CPUs |-> [cl \in Classes |-> IF lazy_slabs THEN ZeroHeader ELSE EmptyHeader]]
    /\ mem = [c \in CPUs |-> NoObjects]
    /\ available = [c \in CPUs |-> MaxBytes]
    /\ populated = [c \in CPUs |-> FALSE]
    /\ drain = [c \in CPUs |-> NoDrain]
    /\ central = ObjectsOf
    /\ hands = {}
    /\ affinity \in Affinities
    /\ th = [t \in Threads |-> Idle(IF affinity[t] = {} THEN 0 ELSE Min(affinity[t]))]

----------------------------------------------------------------------------
(* Restartable sequences.                                                  *)

\* Mutant: the threads on cpu are not interrupted.
FenceNothing(T, c) == T

\* FenceCpu(cpu): every sequence under way on it starts again.
FenceCpu(T, c) ==
    [t \in DOMAIN T |-> IF T[t].cpu = c THEN [T[t] EXCEPT !.seq = Restart(@)] ELSE T[t]]

\* The thread t runs and becomes x: the others on its CPU were preempted.
Run(t, x) == [FenceCpu(th, th[t].cpu) EXCEPT ![t] = x]
Go(t, x) == th' = Run(t, x)

\* A sequence and its first load: current changes afterwards only in steps that
\* restart the sequence.
Begin(x, seq, then) ==
    [x EXCEPT !.pc = "seq", !.then = then,
              !.seq = IF seq.kind = "cas" THEN seq ELSE LoadCurrent(seq, hdr[x.cpu][seq.cl])]
\* What follows Shrink(): Steal() stops when it has enough or was migrated.
Shrunk(x, acq) ==
    LET y == [x EXCEPT !.acq = acq, !.src = 0]
    IN  IF x.cpu # x.at \/ acq >= x.inc * SizeOf[x.cl]
        THEN [y EXCEPT !.pc = "grow", !.left = {}] ELSE [y EXCEPT !.pc = "steal"]

\* What follows a sequence.  res says whether it is done, failed (none), was on
\* another CPU (moved) or found a changed header (retry).  The handlers that Push()
\* and Pop() call when they fail get the CPU the sequence ran on.
End(x, res) ==
    LET y == [x EXCEPT !.pc = x.then, !.then = "none",
                       !.seq = Sequence("none", 0, <<>>, 0)]
    IN  CASE x.then \in {"malloc", "free"} ->
               IF res = "done" THEN Idle(x.cpu)
               ELSE [y EXCEPT !.pc = "update", !.at = x.cpu]
          [] x.then = "evicted" ->
               [y EXCEPT !.pc = "shrink", !.ret = @ \union ToSet(x.batch), !.batch = <<>>]
          [] x.then = "shrunk" ->
               IF res = "retry" THEN [y EXCEPT !.pc = "shrink"]
               ELSE Shrunk(y, x.acq + (IF res = "done" THEN SizeOf[x.src] ELSE 0))
          [] x.then = "grown" ->
               IF res = "retry" THEN [y EXCEPT !.pc = "grow"]
               ELSE [y EXCEPT !.inc = IF res = "done" THEN x.seq.new.end - x.seq.old.end ELSE 0]
          [] OTHER -> y

Migrate(t, c) ==
    /\ c \in affinity[t] \ {th[t].cpu}
    /\ th[t].pc # "idle"
    /\ th' = [th EXCEPT ![t].cpu = c, ![t].seq = Restart(@)]
    /\ UNCHANGED <<affinity, hdr, mem, available, populated, drain, central, hands>>

\* Push(), Pop(), PushBatch() and PopBatch(): load, compare, commit.
MoveStep(t) ==
    LET x == th[t]
        s == x.seq
        c == x.cpu
        h == hdr[c][s.cl]
        m == mem[c][s.cl]
        push == s.kind = "push"
    IN  /\ x.pc = "seq" /\ s.kind \in {"push", "pop"}
        /\ CASE s.stage = 0 ->
                  Go(t, [x EXCEPT !.seq = LoadCurrent(s, h)]) /\ UNCHANGED <<hdr, mem>>
             [] s.stage = 1 /\ (IF push THEN Overflows(s, h) ELSE Underflows(s, h)) ->
                  Go(t, End(x, "none")) /\ UNCHANGED <<hdr, mem>>
             [] s.stage = 1 /\ push /\ ~ Overflows(s, h) ->
                  /\ Go(t, [x EXCEPT !.seq.stage = 2, !.seq.done = PushCount(s, h)])
                  /\ UNCHANGED <<hdr, mem>>
             [] s.stage = 1 /\ ~ push /\ ~ Underflows(s, h) ->
                  /\ Go(t, [x EXCEPT !.seq.stage = 2, !.seq.done = PopCount(s, h),
                                     !.seq.items = LoadItems(s, h, m)])
                  /\ UNCHANGED <<hdr, mem>>
             [] s.stage = 2 ->
                  /\ hdr' = [hdr EXCEPT ![c][s.cl] = Commit(s, h)]
                  /\ Go(t, End([x EXCEPT !.batch = IF push THEN SubSeq(@, 1, Len(@) - s.done)
                                                   ELSE @ \o s.items], "done"))
                  /\ mem' = [mem EXCEPT ![c][s.cl] = StoreItems(s, m, NoObject)]
        /\ hands' = IF s.stage = 2 /\ x.then = "malloc" THEN hands \union ToSet(s.items) ELSE hands
        /\ UNCHANGED <<affinity, available, populated, drain, central>>

\* CompareAndSwapHeader(), which stores only on the CPU the caller works for.
CasStep(t) ==
    LET x == th[t]
        s == x.seq
        h == hdr[x.at][s.cl]
    IN  /\ x.pc = "seq" /\ s.kind = "cas"
        /\ IF s.stage = 1
           THEN /\ hdr' = [hdr EXCEPT ![x.at][s.cl] = Commit(s, h)]
                /\ Go(t, End(x, "done"))
           ELSE /\ Go(t, IF x.cpu # x.at THEN End(x, "moved")
                         ELSE IF h # s.old THEN End(x, "retry")
                         ELSE [x EXCEPT !.seq.stage = 1])
                /\ UNCHANGED hdr
        /\ UNCHANGED <<affinity, mem, available, populated, drain, central, hands>>

----------------------------------------------------------------------------
(* Allocation and deallocation.                                            *)

Allocate(t, cl) ==
    /\ th[t].pc = "idle" /\ affinity[t] # {}
    /\ Go(t, Begin([th[t] EXCEPT !.cl = cl], Sequence("pop", cl, <<>>, 1), "malloc"))
    /\ UNCHANGED <<affinity, hdr, mem, available, populated, drain, central, hands>>

Deallocate(t, obj) ==
    LET cl == ClassOf(obj)
    IN  /\ th[t].pc = "idle" /\ affinity[t] # {}
        /\ hands' = hands \ {obj}
        /\ Go(t, Begin([th[t] EXCEPT !.cl = cl, !.over = TRUE, !.batch = <<obj>>],
                       Sequence("push", cl, <<obj>>, 1), "free"))
        /\ UNCHANGED <<affinity, hdr, mem, available, populated, drain, central>>

\* UpdateCapacity(): LowLevelCallOnce() initializes the CPU or waits for that.
Populate(t) ==
    LET x == th[t]
        c == x.at
    IN  /\ x.pc = "update"
        /\ ~ populated[c]
        /\ IF lazy_slabs
           THEN /\ drain[c].ph = "none"
                /\ drain' = [drain EXCEPT ![c] = [ph |-> "lock", todo |-> Classes, init |-> TRUE]]
                /\ UNCHANGED <<populated, th>>
           ELSE populated' = [populated EXCEPT ![c] = TRUE] /\ UNCHANGED <<drain, th>>
        /\ UNCHANGED <<affinity, hdr, mem, available, central, hands>>

\* By how much: up to a batch if this is an underflow and an overflow was last
\* (grow_by_batch, which PerClassResizeInfo::Update() says, may be or not).
Increases(over, capacity) ==
    IF capacity = MaxCapacity THEN {0}
    ELSE (IF capacity >= 2 * Batch THEN {0}
          ELSE IF ~ over /\ capacity < Batch THEN {Batch - capacity} ELSE {1})
         \union (IF over THEN {} ELSE {AtMost(Batch, MaxCapacity - capacity)})

\* ... whether and by how much to grow, and the first part of CPUCache::Grow():
\* unreserved space.
UpdateCapacity(t) ==
    LET x == th[t]
        c == x.at
    IN  /\ x.pc = "update"
        /\ populated[c]
        /\ \E inc \in Increases(x.over, Capacity(hdr[c][x.cl])) :
             LET acq == AtMost(available[c], inc * SizeOf[x.cl])
             IN  /\ available' = [available EXCEPT ![c] = @ - acq]
                 /\ Go(t, LET y == [x EXCEPT !.inc = inc, !.acq = acq]
                          IN  IF inc = 0 THEN [y EXCEPT !.pc = "move"]
                              ELSE IF acq < inc * SizeOf[x.cl]
                              THEN [y EXCEPT !.pc = "steal", !.left = Classes \ {x.cl}]
                              ELSE [y EXCEPT !.pc = "grow"])
        /\ UNCHANGED <<affinity, hdr, mem, populated, drain, central, hands>>

\* Steal(): another class of the CPU, or none.  A full list gives up an object
\* first, from wherever the thread is by then.
Steal(t) ==
    LET x == th[t]
        c == x.at
    IN  /\ x.pc = "steal"
        /\ \/ Go(t, [x EXCEPT !.pc = "grow", !.left = {}])
           \/ \E src \in x.left :
                LET h    == hdr[c][src]
                    full == Length(h) >= Capacity(h)
                    y    == [x EXCEPT !.src = src, !.left = @ \ {src}]
                IN  /\ Capacity(h) > 0
                    /\ full => ~ x.over
                    /\ Go(t, IF full THEN Begin(y, Sequence("pop", src, <<>>, 1), "evicted")
                             ELSE [y EXCEPT !.pc = "shrink"])
        /\ UNCHANGED <<affinity, hdr, mem, available, populated, drain, central, hands>>

\* TcmallocSlab::Shrink(cpu, source_cl, 1), ...
Shrink(t) ==
    LET x == th[t]
        h == hdr[x.at][x.src]
        n == ShrinkBy(h, 1)
    IN  /\ x.pc = "shrink"
        /\ Go(t, IF n = 0 THEN Shrunk(x, x.acq)
                 ELSE Begin(x, CompareAndSwapHeader(x.src, h, Resized(h, - n)), "shrunk"))
        /\ UNCHANGED <<affinity, hdr, mem, available, populated, drain, central, hands>>

\* TcmallocSlab::Grow(), ...
Wanted(x) == AtMost(x.acq \div SizeOf[x.cl], x.inc)
Grow(t) ==
    LET x == th[t]
        h == hdr[x.at][x.cl]
    IN  /\ x.pc = "grow"
        /\ Go(t, IF IsLocked(h) \/ Capacity(h) = MaxCapacity
                 THEN [x EXCEPT !.pc = "grown", !.inc = 0]
                 ELSE Begin(x, CompareAndSwapHeader(x.cl, h,
                                 Resized(h, GrowBy(h, Wanted(x), MaxCapacity))), "grown"))
        /\ UNCHANGED <<affinity, hdr, mem, available, populated, drain, central, hands>>

\* ... and what was not used returned.
Grown(t) ==
    LET x == th[t]
    IN  /\ x.pc = "grown"
        /\ available' = [available EXCEPT ![x.at] = @ + x.acq - x.inc * SizeOf[x.cl]]
        /\ Go(t, [x EXCEPT !.pc = "move", !.acq = 0, !.inc = 0])
        /\ UNCHANGED <<affinity, hdr, mem, populated, drain, central, hands>>

\* The number of objects to move, a batch or half of what a shorter list holds.
Target(c, cl) ==
    LET capacity == Capacity(hdr[c][cl])
    IN  IF capacity + 1 < Batch THEN Max({1, (capacity + 1) \div 2}) ELSE Batch

InsertRange(cen, objs) == [cl \in Classes |-> cen[cl] \union (objs \intersect ObjectsOf[cl])]

\* Refill(): RemoveRange(), one object for the caller and PushBatch() of the rest.
Refill(t) ==
    LET x == th[t]
        n == AtMost(Target(x.at, x.cl), Cardinality(central[x.cl]))
    IN  /\ x.pc = "move" /\ ~ x.over
        /\ \E objs \in kSubset(n, central[x.cl]) : \E got \in SetToSeqs(objs) :
             LET y == IF n = 0 THEN x ELSE [x EXCEPT !.result = Last(got), !.batch = Front(got)]
             IN  /\ central' = [central EXCEPT ![x.cl] = @ \ objs]
                 /\ Go(t, IF y.batch = <<>> THEN [y EXCEPT !.pc = "filled"]
                          ELSE Begin(y, Sequence("push", x.cl, y.batch, n - 1), "filled"))
        /\ UNCHANGED <<affinity, hdr, mem, available, populated, drain, hands>>

\* What did not fit, wherever the thread is by then, and what Steal() evicted go
\* to the transfer caches.
Refilled(t) ==
    LET x == th[t]
    IN  /\ x.pc = "filled"
        /\ central' = InsertRange(central, ToSet(x.batch) \union x.ret)
        /\ hands' = hands \union ({x.result} \ {NoObject})
        /\ Go(t, Idle(x.cpu))
        /\ UNCHANGED <<affinity, hdr, mem, available, populated, drain>>

\* Overflow(): the object and PopBatch() for the rest of a batch.
Overflow(t) ==
    LET x    == th[t]
        want == Target(x.at, x.cl)
    IN  /\ x.pc = "move" /\ x.over
        /\ Go(t, IF want = 1 THEN [x EXCEPT !.pc = "spilled"]
                 ELSE Begin(x, Sequence("pop", x.cl, <<>>, want - 1), "spilled"))
        /\ UNCHANGED <<affinity, hdr, mem, available, populated, drain, central, hands>>

Spilled(t) ==
    /\ th[t].pc = "spilled"
    /\ central' = InsertRange(central, ToSet(th[t].batch))
    /\ Go(t, Idle(th[t].cpu))
    /\ UNCHANGED <<affinity, hdr, mem, available, populated, drain, hands>>

----------------------------------------------------------------------------
(* Drain() and InitCPU().                                                  *)

Step(c, ph, todo) == drain' = [drain EXCEPT ![c].ph = ph, ![c].todo = todo]

\* Reclaim(): the begins, which nobody else changes, are all Base.
Reclaim(c) ==
    /\ drain[c].ph = "none"
    /\ populated[c]
    /\ drain' = [drain EXCEPT ![c] = [ph |-> "lock", todo |-> Classes, init |-> FALSE]]
    /\ UNCHANGED <<affinity, hdr, mem, available, populated, central, hands, th>>

\* Phase 2: lock the headers one by one, ...
DrainLock(c) ==
    /\ drain[c].ph = "lock"
    /\ \E cl \in drain[c].todo :
        /\ \A o \in drain[c].todo : cl <= o
        /\ hdr' = [hdr EXCEPT ![c][cl] = Lock(@)]
        /\ Step(c, IF drain[c].todo = {cl} THEN "fence" ELSE "lock", drain[c].todo \ {cl})
    /\ UNCHANGED <<affinity, mem, available, populated, central, hands, th>>

\* ... interrupt the threads there, and again if one was overwritten.  After the
\* interrupt nobody else unlocks a header, so the check is part of this step.
DrainFence(c) ==
    /\ drain[c].ph = "fence"
    /\ th' = FenceCpu(th, c)
    /\ Step(c, IF \A cl \in Classes : IsLocked(hdr[c][cl])
               THEN IF drain[c].init THEN "store" ELSE "empty"
               ELSE "lock", Classes)
    /\ UNCHANGED <<affinity, hdr, mem, available, populated, central, hands>>

\* Phase 3: DrainHandler() for each class.
DrainEmpty(c) ==
    /\ drain[c].ph = "empty"
    /\ \E cl \in drain[c].todo :
        LET h == hdr[c][cl]
        IN  /\ \A o \in drain[c].todo : cl <= o
            /\ available' = [available EXCEPT ![c] = @ + (h.end_copy - Base) * SizeOf[cl]]
            /\ central' = InsertRange(central, {mem[c][cl][i] : i \in Base .. h.current - 1})
            /\ Step(c, IF drain[c].todo = {cl} THEN "store" ELSE "empty", drain[c].todo \ {cl})
    /\ UNCHANGED <<affinity, hdr, mem, populated, hands, th>>

\* Phase 4: reset current, while begin and end still lock the lists, and interrupt
\* the threads that have loaded the old one.
DrainStore(c) ==
    /\ drain[c].ph = "store"
    /\ hdr' = [hdr EXCEPT ![c] = [cl \in Classes |-> [@[cl] EXCEPT !.current = Base]]]
    /\ mem' = [mem EXCEPT ![c] = NoObjects]
    /\ th' = FenceCpu(th, c)
    /\ Step(c, "open", Classes)
    /\ UNCHANGED <<affinity, available, populated, central, hands>>

\* Phase 5: the lists, empty, are open again.
DrainOpen(c) ==
    /\ drain[c].ph = "open"
    /\ \E cl \in drain[c].todo :
        /\ \A o \in drain[c].todo : cl <= o
        /\ hdr' = [hdr EXCEPT ![c][cl] = EmptyHeader]
        /\ IF drain[c].todo = {cl}
           THEN /\ drain' = [drain EXCEPT ![c] = NoDrain]
                /\ populated' = [populated EXCEPT ![c] = TRUE]
           ELSE Step(c, "open", drain[c].todo \ {cl}) /\ UNCHANGED populated
    /\ UNCHANGED <<affinity, mem, available, central, hands, th>>

Next ==
    \/ \E t \in Threads :
        \/ \E cl \in Classes : Allocate(t, cl)
        \/ \E obj \in hands : Deallocate(t, obj)
        \/ \E c \in CPUs : Migrate(t, c)
        \/ MoveStep(t) \/ CasStep(t)
        \/ Populate(t) \/ UpdateCapacity(t)
        \/ Steal(t) \/ Shrink(t) \/ Grow(t) \/ Grown(t)
        \/ Refill(t) \/ Refilled(t) \/ Overflow(t) \/ Spilled(t)
    \/ \E c \in Drained : Reclaim(c)
    \/ \E c \in CPUs :
        \/ DrainLock(c) \/ DrainFence(c)
        \/ DrainEmpty(c) \/ DrainStore(c) \/ DrainOpen(c)

Spec == Init /\ [][Next]_vars

----------------------------------------------------------------------------
\* The lists a Drain() has handed to the transfer caches and not yet emptied, or
\* that an InitCPU() has not yet given a beginning.
Gone(c, cl) ==
    \/ drain[c].ph = "empty" /\ cl \notin drain[c].todo
    \/ drain[c].ph = "store"
    \/ hdr[c][cl].current = 0
Listed(c, cl) ==
    IF Gone(c, cl) THEN <<>> ELSE SubSeq(mem[c][cl], Base, hdr[c][cl].current - 1)

\* Every object is in one place: with the program, in a transfer cache, on one
\* list or with one thread.  Drain() races with pushes and pops that were under
\* way, and a thread that is migrated pushes what it fetched for one CPU to
\* another: no object is lost or listed twice.
ObjectsOnce ==
    \A cl \in Classes : \A obj \in ObjectsOf[cl] :
        LET lists == {<<c, i>> \in CPUs \X (1 .. MaxCapacity) :
                        i \in DOMAIN Listed(c, cl) /\ Listed(c, cl)[i] = obj}
            with  == {t \in Threads : obj \in ToSet(th[t].batch) \union th[t].ret
                                              \union {th[t].result}}
        IN  Cardinality(lists) + Cardinality(with)
              + (IF obj \in hands THEN 1 ELSE 0)
              + (IF obj \in central[cl] THEN 1 ELSE 0) = 1

\* The bytes a CPU may cache are split between its classes, the unreserved rest
\* and the threads that are moving some: no race of Grow(), Steal() and Drain(),
\* with a migration at any point, loses or creates cache space.
InFlight(x) == IF x.pc = "grown" THEN x.acq - x.inc * SizeOf[x.cl] ELSE x.acq
Reserved(c, cl) ==
    IF \/ Gone(c, cl)
       \/ drain[c].init
       \/ drain[c].ph = "open" /\ IsLocked(hdr[c][cl])
    THEN 0 ELSE (hdr[c][cl].end_copy - Base) * SizeOf[cl]
CapacityConserved ==
    \A c \in CPUs :
        available[c] + MapThenSumSet(LAMBDA cl : Reserved(c, cl), Classes)
            + MapThenSumSet(LAMBDA t : InFlight(th[t]), {u \in Threads : th[u].at = c})
          = MaxBytes

\* A list is locked only while it is drained; otherwise current stays between
\* begin and end, and end, of which a copy is kept, within the array.
HeadersSound ==
    \A c \in CPUs, cl \in Classes :
        LET h == hdr[c][cl]
        IN  /\ IsLocked(h) => drain[c].ph # "none"
            /\ ~ IsLocked(h) /\ h # ZeroHeader =>
                 /\ h.begin = Base /\ h.end_copy = h.end
                 /\ h.begin <= h.current /\ h.current <= h.end
                 /\ h.end <= Base + MaxCapacity

\* Growing, shrinking, stealing and draining keep the headers in bounds and the bytes
\* of a CPU together.
CapacitySound == CapacityConserved /\ HeadersSound
=============================================================================
