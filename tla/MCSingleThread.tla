--------------------------- MODULE MCSingleThread ---------------------------
(***************************************************************************)
(* Small instances of the code of NCMalloc and of tcmalloc that is checked *)
(* with a single thread.  They share no state: a behaviour is a behaviour  *)
(* of one part, part says of which; x1, x2, ... are the variables of the   *)
(* parts other than the block list, in the order their modules declare     *)
(* them.                                                                   *)
(***************************************************************************)
EXTENDS BlockList, Integers, Sequences, TLC

CONSTANTS b1, b2, b3, c1, c2, t1, NoThread, None,
          Die, NoNumber, NoName, NoVariable, Untouched

VARIABLES part, x1, x2, x3, x4, x5, x6,
          x7, x8, x9, x10, x11, x12, x13, x14, x15, x16, x17, x18, x19, x20, x21

\* All parts but the allocator leave the rest of the variables unused.
rest == <<x7, x8, x9, x10, x11, x12, x13, x14, x15, x16, x17, x18, x19, x20, x21>>
xs == <<x1, x2, x3, x4, x5, x6, rest>>

RestUnused ==
    /\ x7 = 0 /\ x8 = 0 /\ x9 = 0 /\ x10 = 0 /\ x11 = 0 /\ x12 = 0 /\ x13 = 0 /\ x14 = 0
    /\ x15 = 0 /\ x16 = 0 /\ x17 = 0 /\ x18 = 0 /\ x19 = 0 /\ x20 = 0 /\ x21 = 0

\* A part with fewer than n variables.
Unused(n) ==
    /\ n <= 1 => x1 = 0
    /\ n <= 2 => x2 = 0
    /\ n <= 3 => x3 = 0
    /\ n <= 4 => x4 = 0
    /\ n <= 5 => x5 = 0
    /\ n <= 6 => x6 = 0
Constant(n) ==
    /\ UNCHANGED <<part, vars, rest>>
    /\ n <= 3 => UNCHANGED x3
    /\ n <= 4 => UNCHANGED x4
    /\ n <= 5 => UNCHANGED x5
    /\ n <= 6 => UNCHANGED x6

ThreeBlocks == {b1, b2, b3}
Symmetry == Permutations(BlockPtrs) \union Permutations({c1, c2})

----------------------------------------------------------------------------
\* A thread that is moved between two CPUs, two size classes and two slabs of a block.
Allocator == INSTANCE ObjectAllocator WITH
    availVecs <- x1, availSlots <- x2, freedVecs <- x3, freedSlots <- x4, state <- x5,
    cls <- x6, pc <- x7, this <- x8, vecs <- x9, iter <- x10, slots <- x11, pos <- x12,
    next <- x13, head <- x14, tail <- x15, on <- x16, start <- x17, size <- x18,
    cache <- x19, current <- x20, live <- x21,
    Threads <- {t1}, CPUs <- {c1, c2}, Affinity <- [t \in {t1} |-> {c1, c2}], NULL <- 0,
    Classes <- {"k1", "k2"}, NBlocks <- [k \in {"k1", "k2"} |-> 1], NumVecs <- 1, VecSize <- 1,
    NumSlabs <- 2, Slabs <- 1 .. 2, CacheSize <- 1

\* Regions of two slabs and a bit, of none behind the layout, and one so small that
\* its size wraps.
Layout == INSTANCE SlabLayout WITH
    region <- x1, current <- x2, slab <- x3, block <- x4, found <- x5,
    Regions <- {<<4096, 120000>>, <<34048, 110000>>, <<4096, 34048>>, <<36864, 20000>>},
    LayoutSize <- 12000, WordSize <- 2 ^ 30, Sizes <- 1 .. 144, SlotsProbed <- {0, 63}

----------------------------------------------------------------------------
\* The arguments programs add: good ones and one of each kind add_argument() refuses.
A(short, long, required, type, var, size) ==
    [short |-> short, long |-> long, required |-> required, type |-> type, var |-> var,
     size |-> size, found |-> FALSE]
W(name, number) == [name |-> name, number |-> number]

Args == INSTANCE ArgParser WITH
    arguments <- x1, nreq <- x2, line <- x3, cur <- x4, value <- x5, exit <- x6,
    Declarations <- {
        A(<<1, "n">>, <<2, "num">>, TRUE, "Int", "a", 1),
        A(<<1, "x">>, <<1, "n">>, FALSE, "Float", "b", 4),
        A(<<1, "f">>, NoName, FALSE, "Float", "c", 2),
        A(<<1, "s">>, NoName, FALSE, "Set", "b", 4),
        A(<<1, "t">>, <<2, "str">>, TRUE, "String", "c", 8),
        A(<<0, "n">>, NoName, FALSE, "Int", "c", 8),
        A(<<1, "y">>, <<2, "two--dashes">>, FALSE, "Int", "c", 8),
        A(<<1, "y">>, NoName, FALSE, "Other", "c", 8),
        A(<<1, "y">>, NoName, FALSE, "Int", "c", 3)},
    Words <- {W(w, NoNumber) : w \in {<<1, "n">>, <<2, "num">>, <<1, "s">>, <<2, "str">>,
                                      <<1, "f">>, <<1, "x">>, <<1, "h">>, <<1, "v">>}}
             \union {W(<<0, "300">>, 300), W(<<1, "7">>, -7)},
    Variables <- {"a", "b", "c"}, MaxAdded <- 3, MaxWords <- 5

----------------------------------------------------------------------------
\* A machine, and others that differ from it in one file: lines missing, unreadable,
\* in another order or repeated, a cache level that is not there, a word in brackets
\* at either end or nowhere, other kernels.
Line(kind, ok, n) == [kind |-> kind, ok |-> ok, phys |-> n, vm |-> n + 9, cores |-> n]
Dir(type, level, n) ==
    [ok |-> TRUE, type |-> type, level |-> level, sets |-> n, size |-> n, assos |-> n]
Def(name, value) == [def |-> name, prefix |-> TRUE, comma |-> TRUE, hex |-> value]

Usual ==
    [core_id |-> <<0, 1>>,
     cpuinfo |-> <<Line("cores", TRUE, 2), Line("sizes", TRUE, 39),
                   Line("cores", TRUE, 2), Line("sizes", TRUE, 39)>>,
     line_size |-> 64, page_size |-> 4096,
     thp |-> [words |-> <<"always", "madvise", "never">>, open |-> 2, close |-> 2],
     caches |-> <<Dir("Data", 1, 64), Dir("Instruction", 1, 32), Dir("Unified", 2, 512),
                  Dir("Unified", 3, 1024)>>,
     config |-> <<"DYNAMIC=y", "other", "5LEVEL">>,
     page_types |-> <<"other", "__PAGE_OFFSET">>,
     page_64_types |-> <<Def("L5", 5), Def("L4", 4), Def("OFFSET base", 0), Def("START", 7)>>]

Machines ==
    {Usual, [Usual EXCEPT !.core_id = <<0, Die>>], [Usual EXCEPT !.line_size = Die],
     [Usual EXCEPT !.page_types = <<"PAGE_OFFSET">>],
     [Usual EXCEPT !.config = <<"DYNAMIC=n", "# 5LEVEL">>,
                   !.page_64_types = <<Def("L4", 4), Def("OFFSET L4", 0), Def("START", 7)>>]}
    \union {[Usual EXCEPT !.cpuinfo = lines] : lines \in {
        <<Line("cores", FALSE, 1), Line("sizes", FALSE, 1), Line("sizes", TRUE, 46),
          Line("cores", TRUE, 4)>>,
        <<Line("cores", TRUE, 1)>>, <<>>}}
    \union {[Usual EXCEPT !.caches = dirs] : dirs \in {
        <<Dir("Data", 1, 64), Dir("Instruction", 1, 32), Dir("Unified", 2, 512)>>,
        <<Dir("Unified", 1, 64)>>, <<Dir("Data", 2, 64)>>, <<>>, <<Dir("Other", 1, 64)>>,
        <<Dir("Unified", 2, 64), Dir("Unified", 2, 512)>>}}
    \union {[Usual EXCEPT !.thp.open = t[1], !.thp.close = t[2]] :
               t \in {<<0, 0>>, <<3, 3>>, <<1, 0>>, <<2, 1>>}}
    \union {[Usual EXCEPT !.config = lines] :
               lines \in {<<"5LEVEL">>, <<"DYNAMIC=y">>, <<"DYNAMIC=n", "# 5LEVEL">>}}
    \union {[Usual EXCEPT !.page_64_types = <<line>>] :
               line \in {Def("L5", Die), [Def("L5", 5) EXCEPT !.comma = FALSE]}}

Info == INSTANCE SysInfo WITH
    machine <- x1, header <- x2, writer <- x3, built <- x4, KernelInfo <- TRUE

----------------------------------------------------------------------------
\* Every build, and environment variables that change one class: sizes off by an
\* alignment either way, too many pages, too large a batch.
Builds == {13, 15, 18, 12} \X {8, 16}
EnvRows(t, c) ==
    {<<t[c][1] + d, t[c][2], t[c][3]>> : d \in {-64, -8, 8, 64}} \union
    {<<t[c][1], 256, t[c][3]>>, <<t[c][1], t[c][2], 129>>}

Map == INSTANCE SizeMap WITH
    build <- x1, table <- x2, fromEnv <- x3, query <- x4,
    Experiments <- {"none", "sans_56", "large_4k"},
    EnvClasses <- {1, 9, 40, 45}, Aligns <- {1, 32, 256, 4096}

\* Sixteen pages of address space, eight for each tag,, regions of four pages.
System == INSTANCE SystemRegions WITH
    system <- x1, given <- x2, release <- x3,
    AddressPages <- 16, TagMask <- 8, kMinSystemAlloc <- 2, kMinMmapAlloc <- 4,
    SystemRequests <- {<<1, 1>>, <<3, 1>>, <<2, 4>>, <<5, 1>>, <<1, 8>>}, MaxGiven <- 3

\* Six hugepages: up to three nodes in the treap, of equal and of different priority.
Tree == INSTANCE HugeAddressMap WITH
    tree <- x1, inUse <- x2, fromSystem <- x3,
    HugePageSet <- 1 .. 6, Prios <- {0, 1}, Lengths <- {1, 2}

\* Seven objects, of which a host lists two: hosts behind the first one.
Span == INSTANCE SpanObjects WITH
    span <- x1, used <- x2,
    kCacheSize <- 1, MaxEmbed <- 2, Garbage <- None, SpanSize <- 7, BatchSizes <- {1, 3}

\* Points nearer and farther than the far point, sizes of zero and of one point.
Sampling == INSTANCE Sampler WITH
    sampler <- x1, onFast <- x2, rate <- x3, since <- x4, sample <- x5,
    Rates <- {0, 1, 3}, Points <- {0, 5, 13}, FarPoint <- 9, Sizes <- {0, 5}

----------------------------------------------------------------------------
PartsInit ==
    /\ Init
    /\ \/ part = "allocator" /\ Allocator!Init
       \/ RestUnused /\ \/ part = "blocks" /\ Unused(1)
                        \/ part = "layout" /\ Layout!LayoutInit /\ Unused(6)
                        \/ part = "arguments" /\ Args!ArgInit
                        \/ part = "machine" /\ Info!SysInit /\ Unused(5)
                        \/ part = "size map" /\ Map!Init /\ Unused(5)
                        \/ part = "system" /\ System!RegionsInit /\ Unused(4)
                        \/ part = "tree" /\ Tree!TreeInit /\ Unused(4)
                        \/ part = "span" /\ Span!SpanInit /\ Unused(3)
                        \/ part = "sampler" /\ Sampling!SamplerInit /\ Unused(6)

PartsNext ==
    \/ part = "blocks" /\ Next /\ UNCHANGED <<part, xs>>
    \/ part = "allocator" /\ Allocator!Next /\ UNCHANGED <<part, vars>>
    \/ part = "layout" /\ Layout!LayoutNext /\ Constant(6)
    \/ part = "arguments" /\ Args!ArgNext /\ Constant(7)
    \/ part = "machine" /\ Info!SysNext /\ Constant(5)
    \/ part = "size map" /\ Map!Next /\ Constant(5)
    \/ part = "system" /\ System!RegionsNext /\ Constant(4)
    \/ part = "tree" /\ Tree!TreeNext /\ Constant(4)
    \/ part = "span" /\ Span!SpanNext /\ Constant(3)
    \/ part = "sampler" /\ Sampling!SamplerNext /\ Constant(6)

PartsSpec == PartsInit /\ [][PartsNext]_<<part, xs, vars>>

\* The block list alone, with the operations slab_test.cc uses.
TestedSpec ==
    /\ Init /\ part = "blocks" /\ RestUnused /\ Unused(1)
    /\ [][fault = "none" /\ (Insert \/ Pop) /\ UNCHANGED <<part, xs>>]_<<part, xs, vars>>

----------------------------------------------------------------------------
\* However often a thread is moved to another CPU, up to a failed assertion every block
\* of the object allocator is in one place, and a CPU's free cache has only blocks of its
\* size class.
BlocksAtHome == part = "allocator" => Allocator!BlocksAtHome

\* The object allocator's blocks are of the smallest class that holds the size and lie
\* inside the region, behind the layout (size_to_idx(), calculate_start() and _end()),
\* and addr_to_slab() and _free() find the bit of a block from its address.
BlocksFound == part = "layout" => Layout!BlocksFound

\* The argument parser lets no word mean two arguments, and a parse that returns has
\* found the required arguments and written what the command line says to the
\* variables it names, and to no others.
ParsedWhole == part = "arguments" => Args!Unambiguous /\ Args!ParsedWhole

\* A build that takes its values from PRECOMPUTED_SYS_INFO.h has them all, as the
\* machine's files say, however often create_defs() died or was killed before.
HeaderTrusted == part = "machine" => Info!HeaderTrusted

\* SizeMap::GetSizeClass() finds the smallest class that holds the size and whose
\* objects are aligned as asked, with every table of the source and every table of the
\* environment that ValidSizeClasses() lets through; the spans of the built-in tables
\* hold their objects and waste at most an eighth.
SizesServed == part = "size map" => Map!SmallestFit /\ Map!SpansHold

\* SystemAlloc() hands out no page twice, and what it hands out is as long, aligned,
\* tagged and mapped as asked, whatever regions were given up before; a
\* SystemRelease() that returns has dropped the memory or counted an error.
SystemMemorySound == part = "system" => System!RangesApart /\ System!ReleaseAccounted

\* After every insertion, removal and rotation HugeAddressMap::Check() passes, the nodes
\* are the longest runs of free hugepages, and HugeAllocator's Find(), which follows one
\* path, finds a long enough range if there is one.
TreapExact == part = "tree" => Tree!RunsExact /\ Tree!TreapSound /\ Tree!FindsFit

\* However a span's free objects are chained inside one another, each is free exactly
\* once or popped, and no pop follows what the program wrote.
FreelistExact == part = "span" => Span!FreelistExact

\* From the second sampling point on, an allocation is sampled exactly when the bytes
\* since the point was picked reach it, and has the weight of those bytes.
SamplesExact == part = "sampler" => Sampling!SamplesExact
=============================================================================
