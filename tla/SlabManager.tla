---------------------------- MODULE SlabManager ----------------------------
(***************************************************************************)
(* allocator/slab_manager.h and _send_slab() of object_allocator.h: the    *)
(* list of available slabs each CPU keeps for each size class, and the     *)
(* restartable sequences (rseq) the two list operations are written as.    *)
(*                                                                         *)
(* on[c] is the thread that runs on the CPU c.  A thread that loses its    *)
(* CPU inside a critical section is resumed, there or on another CPU its   *)
(* affinity allows, at the section's abort handler, and every handler      *)
(* jumps back to label 1 of its section (RSEQ_START_ABORT_DEF, "jmp 1b").  *)
(* Stores already made are not undone.  Code outside a critical section    *)
(* continues where it was.                                                 *)
(*                                                                         *)
(* Loads and stores of a critical section that only threads of the same    *)
(* CPU can see are joined: no other thread of that CPU runs between them   *)
(* without aborting the section.                                           *)
(***************************************************************************)
EXTENDS ObjSlab

CONSTANTS
    CPUs,
    NoThread,   \* the CPU runs nothing of this program
    Affinity    \* Affinity[t]: the CPUs the thread t is pinned to (spawn_n)

ASSUME MachineAssumption ==
    /\ NoThread \notin Threads
    /\ Affinity \in [Threads -> (SUBSET CPUs) \ {{}}]
    /\ NULL \notin CPUs

VARIABLES
    next,       \* obj_slab::next, per slab
    head,       \* available_slabs_head, per class and CPU
    tail,       \* available_slabs_tail, per class and CPU
    on,         \* the thread each CPU runs
    start,      \* start_cpu of each thread
    size        \* size_idx of each thread's operation

listVars == <<next, head, tail>>
opVars   == <<start, size>>

Running(t) == \E c \in CPUs : on[c] = t
CPUOf(t)   == CHOOSE c \in CPUs : on[c] = t

(***************************************************************************)
(* _send_slab(): append this[t] to the list of the CPU the thread is on.   *)
(* Two stores: through the tail's next field and to tail, or, if the list  *)
(* is empty, to tail and to head.  The second one commits.                 *)
(***************************************************************************)
\* Mutant: the tail of a list that was empty is not set.
SendFirstNoTail(t, l, l2) ==
    /\ pc[t] = l
    /\ next' = IF head[size[t]][CPUOf(t)] = NULL THEN next
               ELSE [next EXCEPT ![tail[size[t]][CPUOf(t)]] = this[t]]
    /\ Goto(t, l2)
    /\ UNCHANGED <<slabVars, regVars, head, tail, opVars>>

SendFirst(t, l, l2) ==
    /\ pc[t] = l
    /\ LET k == size[t]
           c == CPUOf(t)
       IN  IF head[k][c] = NULL
           THEN /\ tail' = [tail EXCEPT ![k][c] = this[t]]
                /\ UNCHANGED next
           ELSE /\ next' = [next EXCEPT ![tail[k][c]] = this[t]]
                /\ UNCHANGED tail
    /\ Goto(t, l2)
    /\ UNCHANGED <<slabVars, regVars, head, opVars>>

SendCommit(t, l2, ret, s) ==
    /\ pc[t] = l2
    /\ LET k == size[t]
           c == CPUOf(t)
       IN  IF head[k][c] = NULL
           THEN /\ head' = [head EXCEPT ![k][c] = this[t]]
                /\ UNCHANGED tail
           ELSE /\ tail' = [tail EXCEPT ![k][c] = this[t]]
                /\ UNCHANGED head
    /\ Return(t, ret, s)
    /\ UNCHANGED <<slabVars, next>>

(***************************************************************************)
(* _cas_set_next_available_slab(): unlink the slab that was found FULL if  *)
(* the thread is on the CPU it started on and the slab is still the head.  *)
(***************************************************************************)
CasFails(t) ==
    \/ CPUOf(t) # start[t]
    \/ head[size[t]][start[t]] # this[t]

\* Mutant: the head is compared but not replaced.
CasSetNextKeep(t, ok) ==
    /\ pc[t] = "full"
    /\ ~ CasFails(t)
    /\ Goto(t, ok)
    /\ UNCHANGED <<slabVars, regVars, listVars, opVars>>

CasSetNext(t, ok) ==
    /\ pc[t] = "full"
    /\ ~ CasFails(t)
    /\ head' = [head EXCEPT ![size[t]][start[t]] = next[this[t]]]
    /\ Goto(t, ok)
    /\ UNCHANGED <<slabVars, regVars, next, tail, opVars>>

----------------------------------------------------------------------------
\* Where a preempted thread resumes: label 1 of the section it is in.
RestartAt(l) ==
    CASE l \in {"alloc_vec", "alloc_commit"} -> "alloc"
      [] l = "new_send_commit"  -> "new_send"
      [] l = "rel_send_commit"  -> "rel_send"
      [] l = "free_send_commit" -> "free_send"
      [] OTHER -> l

\* The scheduler gives the CPU c to t (or to another program) and preempts
\* the thread that had it.
Switch(c, t) ==
    /\ t # on[c]
    /\ t # NoThread => c \in Affinity[t] /\ ~ Running(t)
    /\ on' = [on EXCEPT ![c] = t]
    /\ IF on[c] \in Threads /\ RestartAt(pc[on[c]]) # pc[on[c]]
       THEN Return(on[c], RestartAt(pc[on[c]]), this[on[c]])
       ELSE UNCHANGED <<pc, regVars>>
    /\ UNCHANGED <<slabVars, listVars, opVars>>

ManagerTypeOK ==
    /\ next \in [Slabs -> Slabs \union {NULL}]
    /\ head \in [Classes -> [CPUs -> Slabs \union {NULL}]]
    /\ tail \in [Classes -> [CPUs -> Slabs \union {NULL}]]
    /\ on \in [CPUs -> Threads \union {NoThread}]
    /\ start \in [Threads -> CPUs \union {NULL}]
    /\ size \in [Threads -> Classes \union {NoClass}]

ManagerInit ==
    /\ next = [s \in Slabs |-> NULL]
    /\ head = [k \in Classes |-> [c \in CPUs |-> NULL]]
    /\ tail = [k \in Classes |-> [c \in CPUs |-> NULL]]
    /\ on \in [CPUs -> Threads \union {NoThread}]
    /\ \A c, d \in CPUs : on[c] = on[d] => c = d \/ on[c] = NoThread
    /\ \A c \in CPUs : on[c] # NoThread => c \in Affinity[on[c]]
    /\ start = [t \in Threads |-> NULL]
    /\ size = [t \in Threads |-> NoClass]
=============================================================================
