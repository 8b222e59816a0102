------------------------------ MODULE SizeMap ------------------------------
(***************************************************************************)
(* TCMalloc's SizeMap (common.h, common.cc): the table of size classes in  *)
(* use, the array that maps a size to its class in constant time, and the  *)
(* lookups malloc makes.                                                   *)
(*                                                                         *)
(* A build has a page size and a default alignment; at start-up Init()     *)
(* takes the table of the build or of an active experiment and then, if it *)
(* is valid, the table of the environment variable TCMALLOC_SIZE_CLASSES.  *)
(***************************************************************************)
EXTENDS SizeClassTables, FiniteSetsExt

CONSTANTS
    Builds,         \* pairs <<kPageShift, default alignment (8 or 16)>>
    Experiments,    \* subset of {"none", "sans_56", "large_4k"}
    EnvRows(_, _),  \* rows an environment variable may have for class c of table t
    EnvClasses,     \* the classes it may change
    Aligns          \* alignments asked for, powers of two

VARIABLES
    build,          \* the build
    table,          \* class_to_size_, class_to_pages_, num_objects_to_move_
    fromEnv,        \* the table is the one of the environment variable
    query           \* the last lookup and its answer

vars == <<build, table, fromEnv, query>>

kPageSize(b) == 2 ^ b[1]
kMaxSize(b)  == IF b[1] = 12 THEN 8192 ELSE 262144
kNumClasses(b) ==
    CASE b[1] = 12 -> 46 [] b[1] = 15 -> 78 [] b[1] = 18 -> 89 [] b[1] = 13 -> 86
kAlignment == 8
kMaxObjectsToMove == 128
kMultiPageSize == 512
kMultiPageAlignment == 64
kMaxSmallSize == 1024

\* The table the preprocessor and Init() choose, by page size: two of each kind.
Built8 ==
    [none |-> (13 :> kSizeClasses13 @@ 15 :> kSizeClasses15
               @@ 18 :> kSizeClasses18 @@ 12 :> kSizeClasses12),
     sans_56 |-> (13 :> kExperimentalSizeClasses13 @@ 15 :> kExperimentalSizeClasses15
               @@ 18 :> kExperimentalSizeClasses18 @@ 12 :> kExperimentalSizeClasses12),
     large_4k |-> (13 :> kExperimental4kSizeClasses13 @@ 15 :> kExperimental4kSizeClasses15
               @@ 18 :> kExperimental4kSizeClasses18 @@ 12 :> kExperimental4kSizeClasses12)]
Built16 ==
    [none |-> (13 :> kSizeClasses13a16 @@ 15 :> kSizeClasses15a16
               @@ 18 :> kSizeClasses18a16 @@ 12 :> kSizeClasses12a16),
     sans_56 |-> (13 :> kExperimentalSizeClasses13a16 @@ 15 :> kExperimentalSizeClasses15a16
               @@ 18 :> kExperimentalSizeClasses18a16 @@ 12 :> kExperimentalSizeClasses12a16),
     large_4k |-> (13 :> kExperimental4kSizeClasses13a16 @@ 15 :> kExperimental4kSizeClasses15a16
               @@ 18 :> kExperimental4kSizeClasses18a16 @@ 12 :> kExperimental4kSizeClasses12a16)]

BuildTable(b, e) == IF b[2] = 8 THEN Built8[e][b[1]] ELSE Built16[e][b[1]]

----------------------------------------------------------------------------
SizeIn(t, c) == IF c = 0 THEN 0 ELSE t[c][1]

RequiredAlignment(size) ==
    IF size <= kMultiPageSize THEN kAlignment
    ELSE IF size <= kMaxSmallSize THEN kMultiPageAlignment ELSE 128

ValidSizeClasses(b, t) ==
    /\ t # <<>>
    /\ \A c \in DOMAIN t :
          /\ SizeIn(t, c) > SizeIn(t, c - 1)
          /\ SizeIn(t, c) <= kMaxSize(b)
          /\ SizeIn(t, c) % RequiredAlignment(SizeIn(t, c)) = 0
          /\ SizeIn(t, c) <= kMultiPageSize => t[c][2] = 1
          /\ t[c][2] < 256
          /\ t[c][3] <= kMaxObjectsToMove
    /\ SizeIn(t, Len(t)) >= kMaxSize(b)

\* What MaybeSizeClassesFromEnv() may have parsed: nothing, or a table like t
\* that differs in one class or stops early.
EnvTables(t) ==
    {<<>>} \union {SubSeq(t, 1, Len(t) - 1)}
           \union {[t EXCEPT ![c] = r] : <<c, r>> \in
                     UNION {{c} \X EnvRows(t, c) : c \in EnvClasses \intersect DOMAIN t}}

MaybeRunTimeSizeClasses(b, t, env) ==
    ValidSizeClasses(b, env) /\ Len(env) + 1 = kNumClasses(b)

----------------------------------------------------------------------------
Init ==
    /\ build \in Builds
    /\ table = <<>>
    /\ fromEnv = FALSE
    /\ query = <<>>

\* SizeMap::Init(), the tables.
InitTables(e, env) ==
    LET t == BuildTable(build, e)
    IN  /\ table = <<>>
        /\ e \in Experiments
        /\ fromEnv' = MaybeRunTimeSizeClasses(build, t, env)
        /\ table' = IF fromEnv' THEN env ELSE t
        /\ UNCHANGED <<build, query>>

\* ClassIndexMaybe(), for a size of at most kMaxSize.
ClassIndex(s) ==
    IF s <= kMaxSmallSize THEN (s + 7) \div 8 ELSE (s + 127 + 120 * 128) \div 128

\* The multiples of kAlignment whose index is i.
SizesAt(i) ==
    {s \in {8 * i} \union {128 * (i - 120) - 8 * k : k \in 0 .. 15} :
        s >= 0 /\ ClassIndex(s) = i}

\* Mutant: the first size of a class is taken for the last one of the class before.
ClassArrayEarly(i) ==
    Max({0} \union {c \in DOMAIN table :
        \E s \in SizesAt(i) :
            SizeIn(table, c - 1) <= s /\ s < SizeIn(table, c)})

\* class_array_[i] after SizeMap::Init(): the last class the loop wrote there.
\* Class c is written for the sizes after class c - 1 up to its own, and the
\* loop ends when the next size would be larger than kMaxSize.
ClassArray(i) ==
    Max({0} \union {c \in DOMAIN table :
        LET next_size == IF c = 1 THEN 0 ELSE SizeIn(table, c - 1) + kAlignment
        IN  /\ next_size <= kMaxSize(build)
            /\ \E s \in SizesAt(i) : next_size <= s /\ s <= SizeIn(table, c)})

\* GetSizeClass(size, &cl): the class, or -1 for false.
GetSizeClass(size) ==
    IF size <= kMaxSize(build) THEN ClassArray(ClassIndex(size)) ELSE -1

\* GetSizeClass(size, align, &cl).
GetSizeClassAligned(size, align) ==
    LET cl == GetSizeClass(size)
        aligned == {c \in cl .. Len(table) : SizeIn(table, c) % align = 0}
    IN  IF align >= kPageSize(build) \/ cl = -1 \/ aligned = {} THEN -1
        ELSE Min(aligned)

\* The sizes worth asking for: both sides of every class boundary.
Probes == {0, 1, kMaxSize(build) + 1} \union UNION {{r[1], r[1] + 1} : r \in ToSet(table)}

Lookup(size, align) ==
    /\ table # <<>>
    /\ query = <<>>
    /\ query' = <<size, align, GetSizeClassAligned(size, align)>>
    /\ UNCHANGED <<build, table, fromEnv>>

Return == query # <<>> /\ query' = <<>> /\ UNCHANGED <<build, table, fromEnv>>

Next ==
    \/ table = <<>> /\ \E e \in Experiments : \E env \in EnvTables(BuildTable(build, e)) : InitTables(e, env)
    \/ \E size \in Probes, align \in Aligns : Lookup(size, align)
    \/ Return

Spec == Init /\ [][Next]_vars

----------------------------------------------------------------------------
\* A lookup finds the smallest class that holds the size and whose objects are
\* aligned as asked, and fails only if there is none (or the alignment is a
\* page or more): for every table of the source, and for every table of the
\* environment ValidSizeClasses() lets through.
SmallestFit ==
    query # <<>> =>
        LET size == query[1]
            align == query[2]
            fit == {c \in DOMAIN table : SizeIn(table, c) >= size /\ SizeIn(table, c) % align = 0}
        IN  query[3] = IF align >= kPageSize(build) \/ size > kMaxSize(build) \/ fit = {}
                       THEN -1 ELSE Min(fit)

\* Every span of every built-in table holds an object, wastes (with its 48 bytes
\* of metadata) at most an eighth of what it holds (common.h:163), and a batch
\* of a class moves at most 64 KiB, or two objects.
SpansHold ==
    ~ fromEnv =>
        \A c \in DOMAIN table :
            LET span == table[c][2] * kPageSize(build)
                objects == span \div SizeIn(table, c)
                used == objects * SizeIn(table, c)
            IN  /\ objects >= 1
                /\ 8 * (span - used + 48) <= used
                /\ table[c][3] >= 2
                /\ table[c][3] = 2 \/ table[c][3] * SizeIn(table, c) <= 65536
=============================================================================
