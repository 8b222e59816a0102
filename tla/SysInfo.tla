------------------------------ MODULE SysInfo -------------------------------
(***************************************************************************)
(* System information (lib/system/sys_info.h): what the kernel's files say *)
(* of the machine, and create_defs(), which writes it to a header that     *)
(* later builds include instead of asking again.  The build decides by     *)
(* whether that header exists, so what a run of create_defs() leaves when  *)
(* it dies on the way matters.                                             *)
(*                                                                         *)
(* A file is a sequence of its lines, a line what the code recognises in   *)
(* it.  A value that cannot be read is Die: the process exits.             *)
(***************************************************************************)
EXTENDS Integers, Sequences, FiniteSets, SequencesExt

CONSTANTS Machines,       \* the machines: their files, see the readers
          KernelInfo,     \* _WITH_KERNEL_INFO_ is defined
          Die

VARIABLES machine,  \* the machine
          header,   \* the header on disk, <<item, value>>s; none is an empty one
          writer,   \* create_defs(): index of the next item, 0 when not running
          built     \* what the last build took its values from

sysVars == <<machine, header, writer, built>>

EndIf == "#endif"

----------------------------------------------------------------------------
\* read_proc_cpu(): lines [kind, ok, phys, vm, cores] of /proc/cpuinfo until as many
\* values are read as there are wanted; a line sscanf() does not match does not count.
ReadLine(want, r, line) ==
    IF r.left = 0 \/ ~line.ok THEN r
    ELSE IF line.kind = "sizes" /\ want \cap {"vm", "phys"} # {}
    THEN [left |-> r.left - Cardinality(want \cap {"vm", "phys"}),
          out |-> [r.out EXCEPT !.phys = line.phys, !.vm = line.vm]]
    ELSE IF line.kind = "cores" /\ "cores" \in want
    THEN [left |-> r.left - 1, out |-> [r.out EXCEPT !.cores = line.cores]]
    ELSE r
read_proc_cpu(item) ==
    LET r == FoldLeft(LAMBDA a, l : ReadLine({item}, a, l),
                      [left |-> 1, out |-> [phys |-> Die, vm |-> Die, cores |-> Die]],
                      machine.cpuinfo)
    IN r.out[item]

\* compute_phys_core() and compute_cache_line_size(): one number in a file each.
compute_phys_core(i) == machine.core_id[i]
compute_cache_line_size == machine.line_size

\* compute_transparent_huge_page_config(): [words, open, close], the positions of the
\* words with a bracket before and behind them, 0 for none.
compute_transparent_huge_page_config ==
    LET f == machine.thp
        braces == {f.open, f.close} \ {0}
        word == IF f.open = 0 THEN f.words[1] ELSE f.words[f.open]
    IN IF \/ (f.open = 0) # (f.close = 0)
          \/ braces # {} /\ f.close < f.open
          \/ word \notin {"always", "madvise", "never"}
       THEN Die ELSE word

\* read_cache_dir() of each cache directory, [ok, level, type, sets, size, assos], and
\* read_cache_info(): a directory of a kind it does not know ends the process, whatever
\* was asked for; of several of the same kind the last one stays.
KnownCache(d) ==
    \/ d.type = "Unified" /\ d.level \in {2, 3}
    \/ d.type \in {"Data", "Instruction"} /\ d.level = 1
Kind(d) ==
    CASE d.type = "Data" -> "L1_DCACHE"
      [] d.type = "Instruction" -> "L1_ICACHE"
      [] d.type = "Unified" -> IF d.level = 2 THEN "L2_UCACHE" ELSE "L3_UCACHE"
      [] OTHER -> "unknown"
NoCacheInfo == [sets |-> 0, size |-> 0, assos |-> 0]
read_cache_dir(d) ==
    IF ~d.ok \/ d.type \notin {"Unified", "Data", "Instruction"} THEN Die
    ELSE [sets |-> d.sets, size |-> d.size * 1024, assos |-> d.assos]
read_cache_info(kind) ==
    LET step(a, d) ==
            IF a = Die \/ read_cache_dir(d) = Die \/ ~KnownCache(d) THEN Die
            ELSE IF Kind(d) = kind THEN read_cache_dir(d)
            ELSE a
    IN FoldLeft(step, NoCacheInfo, machine.caches)

\* read_kernel_header(): the kernel's configuration, the last line of a kind counting, ...
KernelConfig ==
    FoldLeft(LAMBDA c, l : CASE l = "DYNAMIC=y" -> [c EXCEPT !.dynamic = 1]
                             [] l = "DYNAMIC=n" -> [c EXCEPT !.dynamic = 0]
                             [] l = "5LEVEL" -> [c EXCEPT !.level5 = 1]
                             [] l = "# 5LEVEL" -> [c EXCEPT !.level5 = 0]
                             [] OTHER -> c,
             [dynamic |-> -1, level5 |-> -1], machine.config)
\* ... page_types.h, whose first PAGE_OFFSET must be __PAGE_OFFSET, ...
VerifiedPageTypes ==
    LET defs == SelectSeq(machine.page_types, LAMBDA l : l \in {"__PAGE_OFFSET", "PAGE_OFFSET"})
    IN defs # <<>> /\ Head(defs) = "__PAGE_OFFSET"
\* ... and page_64_types.h: lines [def, prefix, comma, hex].  get_ac_value() wants the
\* number between "_AC(0x" and a comma.
get_ac_value(l) == IF l.prefix /\ l.comma THEN l.hex ELSE Die
Page64Line(c, a, l) ==
    LET takes == \/ l.def = "L5" /\ c.level5 = 1
                 \/ l.def = "L4" /\ c.level5 = 0
        value == get_ac_value(l)
    IN CASE a = Die \/ ((takes \/ l.def = "START") /\ value = Die) -> Die
         [] a # Die /\ takes /\ value # Die -> [a EXCEPT !.offset = value]
         [] a # Die /\ l.def = "START" /\ value # Die -> [a EXCEPT !.start = value]
         [] a # Die /\ l.def \in {"OFFSET base", "OFFSET L4"} ->
              IF l.def = (IF c.dynamic = 1 THEN "OFFSET base" ELSE "OFFSET L4")
              THEN [a EXCEPT !.verified = TRUE] ELSE a
         [] OTHER -> a
read_kernel_header ==
    LET c == KernelConfig
        r == FoldLeft(LAMBDA a, l : Page64Line(c, a, l),
                      [offset |-> 0, start |-> 0, verified |-> FALSE], machine.page_64_types)
    IN IF \/ c.dynamic = -1 \/ c.level5 = -1 \/ ~VerifiedPageTypes
          \/ r = Die
       THEN Die
       ELSE IF ~r.verified \/ r.start = 0 \/ r.offset = 0 THEN Die ELSE r

----------------------------------------------------------------------------
\* The macros, in the order create_defs() writes them.
Caches == <<"L1_DCACHE", "L1_ICACHE", "L2_UCACHE", "L3_UCACHE">>
Items ==
    <<"NPROCS", "NCORES", "PHYS_CORE", "TRANSPARENT_HUGE_PAGE_CFG", "PAGE_SIZE",
      "VM_NBITS", "PHYS_M_NBITS">>
    \o (IF KernelInfo THEN <<"PAGE_OFFSET", "KERNEL_MEM_START">> ELSE <<>>)
    \o <<"CACHE_LINE_SIZE", "L2_CACHE_LOAD_SIZE">> \o Caches \o <<EndIf>>

\* What a macro expands to without a header.
Compute(item) ==
    CASE item = "NPROCS" -> Len(machine.core_id)
      [] item = "NCORES" -> read_proc_cpu("cores")
      [] item = "PHYS_CORE" ->
           IF \E i \in DOMAIN machine.core_id : compute_phys_core(i) = Die THEN Die
           ELSE [i \in DOMAIN machine.core_id |-> compute_phys_core(i)]
      [] item = "TRANSPARENT_HUGE_PAGE_CFG" -> compute_transparent_huge_page_config
      [] item = "PAGE_SIZE" -> machine.page_size
      [] item = "VM_NBITS" -> read_proc_cpu("vm")
      [] item = "PHYS_M_NBITS" -> read_proc_cpu("phys")
      [] item = "PAGE_OFFSET" -> IF read_kernel_header = Die THEN Die ELSE read_kernel_header.offset
      [] item = "KERNEL_MEM_START" ->
           IF read_kernel_header = Die THEN Die ELSE read_kernel_header.start
      [] item = "CACHE_LINE_SIZE" -> compute_cache_line_size
      [] item = "L2_CACHE_LOAD_SIZE" ->
           IF compute_cache_line_size = Die THEN Die ELSE 2 * compute_cache_line_size
      [] item \in ToSet(Caches) -> read_cache_info(item)
      [] item = EndIf -> 0

\* create_defs(): find_precomputed_header_file() and fopen() find the place or the
\* process exits; the file is truncated, ...
OpenDefs ==
    /\ writer = 0
    /\ \/ header' = <<>> /\ writer' = 1
       \/ UNCHANGED <<header, writer>>
    /\ built' = "nothing"
    /\ UNCHANGED machine
\* ... and each macro is computed and written.  exit() flushes what was written so far.
\* Mutant: the value that could not be read is left out.
WriteDefSkip(v) == writer' = IF writer = Len(Items) THEN 0 ELSE writer + 1
WriteDef(v) == writer' = IF v = Die \/ writer = Len(Items) THEN 0 ELSE writer + 1
WriteNext ==
    /\ writer # 0
    /\ LET v == Compute(Items[writer])
       IN /\ WriteDef(v)
          /\ header' = IF v = Die THEN header ELSE Append(header, <<Items[writer], v>>)
    /\ UNCHANGED <<machine, built>>
\* The process is killed: what stdio had not written to the file yet is lost.
Killed ==
    /\ writer # 0
    /\ writer' = 0
    /\ \E n \in 0 .. Len(header) : header' = SubSeq(header, 1, n)
    /\ UNCHANGED <<machine, built>>

\* A build that includes sys_info.h: a header that exists is included; an empty one
\* does not define _SYS_INFO_H_ and is as good as none, one that is cut short does
\* not compile.
Build ==
    /\ writer = 0
    /\ built' = IF header = <<>> THEN "computed"
                ELSE IF Last(header)[1] = EndIf THEN "header" ELSE "does not compile"
    /\ UNCHANGED <<machine, header, writer>>

SysInit ==
    /\ machine \in Machines
    /\ header = <<>>
    /\ writer = 0
    /\ built = "nothing"

SysNext == OpenDefs \/ WriteNext \/ Killed \/ Build

----------------------------------------------------------------------------
\* A build that takes its values from the header has every macro, and those picked from
\* several lines, words or directories are what the files say: the first readable line
\* of its kind, the word in brackets, the whole record of the cache directory of its
\* kind, the last of several (all zero if there is none).  However often a run of
\* create_defs() died or was killed before, no build silently uses half a header.
HeaderTrusted ==
    LET has(item, v) == \E i \in DOMAIN header : header[i] = <<item, v>>
        first(kind) == SelectSeq(machine.cpuinfo, LAMBDA l : l.kind = kind /\ l.ok)[1]
        cache(kind) == SelectSeq(machine.caches, LAMBDA d : Kind(d) = kind)
    IN built = "header" =>
        /\ Len(header) = Len(Items) /\ \A i \in DOMAIN Items : header[i][1] = Items[i]
        /\ has("NCORES", first("cores").cores)
        /\ has("VM_NBITS", first("sizes").vm) /\ has("PHYS_M_NBITS", first("sizes").phys)
        /\ has("TRANSPARENT_HUGE_PAGE_CFG",
               machine.thp.words[IF machine.thp.open = 0 THEN 1 ELSE machine.thp.open])
        /\ \A kind \in ToSet(Caches) :
              has(kind, IF cache(kind) = <<>> THEN NoCacheInfo
                        ELSE LET d == Last(cache(kind))
                             IN [sets |-> d.sets, size |-> 1024 * d.size, assos |-> d.assos])
=============================================================================
